----------------------------- MODULE PlatDriver -----------------------------
(***************************************************************************)
(* The platform driver of driver/plat_driver.c with the platform device of *)
(* device/plat_device.c: loading and unloading the two modules, the steps  *)
(* of plat_probe and plat_remove with their failures and error labels, and *)
(* the users of the device file meanwhile.                                 *)
(*                                                                         *)
(* The bus calls probe and remove for one device one after the other, in   *)
(* the thread that loads or unloads a module (core).  Users run between    *)
(* its steps: from cdev_add on they can open the device, and only the      *)
(* driver's module is pinned by an open file, not the device's.            *)
(*                                                                         *)
(* An address in Priv stands for one pdev_priv; it is used again only when *)
(* no pointer to it is left, so that a stale pointer is seen to be one.  A *)
(* task admin is named after the pdev_priv of the probe that created it.   *)
(* `class', `cdevs' and what an open file pins are the kernel's; kobj_map, *)
(* behind cdev_add and cdev_del, finds the youngest entry of a number.     *)
(***************************************************************************)
EXTENDS Integers, Sequences, FiniteSets, SequencesExt

CONSTANTS User,       \* processes that use the device file
          Priv,       \* addresses for pdev_priv
          NULL,
          UninitRet   \* what plat_probe's ret may hold when nothing set it

ASSUME NullAssumption == NULL \notin Priv
ASSUME RetAssumption == UninitRet \subseteq {"zero", "error"} /\ UninitRet # {}

Slot == {1, 2}

VARIABLES driver,    \* is the driver's module loaded?
          device,    \* is the platform device registered?
          core,      \* the thread in probe or remove: [at, priv, op]
          bound,     \* the driver data of the bound device, or NULL
          heap,      \* the pdev_privs that are not freed
          cdevs,     \* the registered character devices, youngest first
          class,     \* does the class "hpi" exist?
          waitq,     \* the pdev_privs with initialised wait queues
          allocator, \* the global allocator: is there one?
          pfs_p,     \* the global format set: "null", "empty" or "ready"
          admin,     \* admin[s]: the global task_admin_slot<s>_gp
          admins,    \* the task admins <<p, s>> that are not freed
          file,      \* file[u]: [at, priv, slot, admin]
          kept       \* history: pdev_privs left behind when class_create failed

globals == <<allocator, pfs_p, admin, admins>>
kernel == <<driver, device, bound, cdevs, class>>
vars == <<kernel, core, heap, waitq, globals, file, kept>>

ProbeSteps == {"cdev_add", "class_create", "class_device", "drvdata",
               "allocator", "pfs", "formats", "admin1", "admin2"}
ErrorSteps == {"err_cdev_del", "err_kfree"}
RemoveSteps == {"destroy1", "destroy2", "class_destroy", "cdev_del", "kfree"}

NoCore == [at |-> "idle", priv |-> NULL, op |-> "none"]
Closed == [at |-> "closed", priv |-> NULL, slot |-> 1, admin |-> NULL]

\* How a user may end: by what is not there yet or no longer there, ...
Stale == {"module", "freed", "waitqueue", "allocator", "pfs", "format", "freedadmin"}
\* ... or by an admin that could not be created, memory that was refused, a
\* field lost from a format, or slot_num read as an address.
Faults == Stale \cup {"nulladmin", "nomem", "nofield", "badslot"}

\* The steps of a write; the last two are in add_task.
Writing == {"alloc", "parse", "task", "list", "map"}
Using == {"open", "asleep"} \cup Writing

TypeOK ==
    /\ driver \in BOOLEAN /\ device \in BOOLEAN
    /\ core \in [at : {"idle", "dead"} \cup ProbeSteps \cup ErrorSteps \cup RemoveSteps,
                 priv : Priv \cup {NULL},
                 op : {"none", "load", "unload", "register", "unregister"}]
    /\ bound \in Priv \cup {NULL}
    /\ heap \subseteq Priv /\ waitq \subseteq heap
    /\ cdevs \in Seq(Priv)
    /\ class \in BOOLEAN
    /\ allocator \in BOOLEAN
    /\ pfs_p \in {"null", "empty", "ready"}
    /\ admin \in [Slot -> Priv \cup {NULL}]
    /\ admins \subseteq Priv \X Slot
    /\ file \in [User -> [at : {"closed"} \cup Using \cup Faults,
                          priv : Priv \cup {NULL}, slot : Slot,
                          admin : Priv \cup {NULL}]]
    /\ kept \subseteq Priv

Init == /\ driver = FALSE /\ device = FALSE
        /\ core = NoCore
        /\ bound = NULL
        /\ heap = {} /\ waitq = {}
        /\ cdevs = <<>>
        /\ class = FALSE
        /\ allocator = FALSE /\ pfs_p = "null"
        /\ admin = [s \in Slot |-> NULL]
        /\ admins = {}
        /\ file = [u \in User |-> Closed]
        /\ kept = {}

At(step) == core.at = step
Goto(step) == core' = [core EXCEPT !.at = step]

(***************************************************************************)
(* Loading the modules; the second one to come starts the probe            *)
(***************************************************************************)

\* An address that no pointer holds any more.
Fresh == Priv \ (heap \cup kept \cup {bound} \cup {admin[s] : s \in Slot}
                 \cup UNION {{file[u].priv, file[u].admin} : u \in User}
                 \cup {a[1] : a \in admins})

\* plat_probe begins: kzalloc finds memory, or plat_probe returns -ENOMEM.
StartProbe(op) ==
    \/ \E p \in Fresh : /\ core' = [at |-> "cdev_add", priv |-> p, op |-> op]
                        /\ heap' = heap \cup {p}
    \/ UNCHANGED <<core, heap>>

driver_module_init ==
    /\ At("idle") /\ ~driver
    /\ driver' = TRUE
    /\ IF device THEN StartProbe("load") ELSE UNCHANGED <<core, heap>>
    /\ UNCHANGED <<device, bound, cdevs, class, waitq, globals, file, kept>>

device_module_init ==
    /\ At("idle") /\ ~device
    /\ device' = TRUE
    /\ IF driver THEN StartProbe("register") ELSE UNCHANGED <<core, heap>>
    /\ UNCHANGED <<driver, bound, cdevs, class, waitq, globals, file, kept>>

(***************************************************************************)
(* plat_probe                                                              *)
(***************************************************************************)

\* What cdev_add returns is not looked at.
cdev_add ==
    /\ At("cdev_add")
    /\ cdevs' \in {<<core.priv>> \o cdevs, cdevs}
    /\ Goto("class_create")
    /\ UNCHANGED <<driver, device, bound, class, heap, waitq, globals, file, kept>>

\* class_create fails for lack of memory, and when "hpi" is there from an
\* earlier probe that failed; plat_probe returns at once then.
class_create ==
    /\ At("class_create")
    /\ \/ /\ ~class
          /\ class' = TRUE
          /\ Goto("class_device")
          /\ UNCHANGED kept
       \/ /\ core' = NoCore
          /\ kept' = kept \cup {core.priv}
          /\ UNCHANGED class
    /\ UNCHANGED <<driver, device, bound, cdevs, heap, waitq, globals, file>>

\* Mutant of class_device_create: the error path forgets the character device.
SkipCdevDel ==
    /\ At("class_device")
    /\ \E step \in {"drvdata", "err_kfree"} : Goto(step)
    /\ UNCHANGED <<kernel, heap, waitq, globals, file, kept>>

\* A failure goes to err2, which leaves the class.
class_device_create ==
    /\ At("class_device")
    /\ \E step \in {"drvdata", "err_cdev_del"} : Goto(step)
    /\ UNCHANGED <<kernel, heap, waitq, globals, file, kept>>

\* Mutant of InitWaitqueues: left out.
NoWaitqueues ==
    /\ At("drvdata")
    /\ Goto("allocator")
    /\ UNCHANGED <<kernel, heap, waitq, globals, file, kept>>

\* platform_set_drvdata, init_waitqueue_head, liballoc_register_modules
InitWaitqueues ==
    /\ At("drvdata")
    /\ waitq' = waitq \cup {core.priv}
    /\ Goto("allocator")
    /\ UNCHANGED <<kernel, heap, globals, file, kept>>

\* No allocator: err3, where device_destroy finds no device of the class and
\* does nothing.
allocator_creator ==
    /\ At("allocator")
    /\ \/ allocator' = TRUE /\ Goto("pfs")
       \/ allocator' = FALSE /\ Goto("err_cdev_del")
    /\ UNCHANGED <<kernel, heap, waitq, pfs_p, admin, admins, file, kept>>

Die == /\ Goto("dead")
       /\ UNCHANGED <<kernel, heap, waitq, globals, file, kept>>

\* pfs_create_proto_format_set clears the memory before it looks at the
\* pointer: err4 is never reached.
pfs_create ==
    /\ At("pfs")
    /\ \/ /\ pfs_p' = "empty"
          /\ Goto("formats")
          /\ UNCHANGED <<kernel, heap, waitq, allocator, admin, admins, file, kept>>
       \/ Die

\* init_proto_format_set and pfs_set_pdt_drv_proto_format
RegisterFormats ==
    /\ At("formats")
    /\ \/ /\ pfs_p' = "ready"
          /\ Goto("admin1")
          /\ UNCHANGED <<kernel, heap, waitq, allocator, admin, admins, file, kept>>
       \/ Die

\* Mutant of CreateAdmin: when nothing was created the pointer stays.
KeepOldAdmin(s) ==
    \/ /\ admin' = [admin EXCEPT ![s] = core.priv]
       /\ admins' = admins \cup {<<core.priv, s>>}
    \/ UNCHANGED <<admin, admins>>

\* A task admin, or NULL, or an oops (TaskAdmin).
CreateAdmin(s) ==
    \/ /\ admin' = [admin EXCEPT ![s] = core.priv]
       /\ admins' = admins \cup {<<core.priv, s>>}
    \/ /\ admin' = [admin EXCEPT ![s] = NULL]
       /\ UNCHANGED admins

CreateAdmin1 ==
    /\ At("admin1")
    /\ \/ /\ CreateAdmin(1)
          /\ Goto("admin2")
          /\ UNCHANGED <<kernel, heap, waitq, allocator, pfs_p, file, kept>>
       \/ Die

\* The probe returns 0, and the device is bound.
CreateAdmin2 ==
    /\ At("admin2")
    /\ \/ /\ CreateAdmin(2)
          /\ bound' = core.priv
          /\ core' = NoCore
          /\ UNCHANGED <<driver, device, cdevs, class, heap, waitq, allocator, pfs_p,
                         file, kept>>
       \/ Die

\* cdev_del takes the youngest entry of the device number away.
cdev_del == cdevs' = IF cdevs = <<>> THEN cdevs ELSE Tail(cdevs)

ErrorCdevDel ==
    /\ At("err_cdev_del")
    /\ cdev_del
    /\ Goto("err_kfree")
    /\ UNCHANGED <<driver, device, bound, class, heap, waitq, globals, file, kept>>

\* ret is -ENOMEM or the like at err2.  At err3 nobody has set it: with 0 the
\* bus binds the device to what has been freed.
ErrorKfree ==
    /\ At("err_kfree")
    /\ heap' = heap \ {core.priv}
    /\ waitq' = waitq \ {core.priv}
    /\ bound' \in (IF core.priv \in waitq
                   THEN {IF r = "zero" THEN core.priv ELSE NULL : r \in UninitRet}
                   ELSE {NULL})
    /\ core' = NoCore
    /\ UNCHANGED <<driver, device, cdevs, class, globals, file, kept>>

(***************************************************************************)
(* Unloading a module, and plat_remove                                     *)
(***************************************************************************)

StartRemove(op) == /\ core' = [at |-> "destroy1", priv |-> bound, op |-> op]
                   /\ UNCHANGED <<kernel, heap, waitq, globals, file, kept>>

\* An open file holds the driver's module.
driver_module_exit ==
    /\ At("idle") /\ driver
    /\ \A u \in User : file[u].at \notin Using
    /\ IF bound # NULL THEN StartRemove("unload")
       ELSE /\ driver' = FALSE
            /\ UNCHANGED <<device, bound, cdevs, class, core, heap, waitq, globals,
                           file, kept>>

\* Nothing holds the device's module.
device_module_exit ==
    /\ At("idle") /\ device
    /\ IF bound # NULL THEN StartRemove("unregister")
       ELSE /\ device' = FALSE
            /\ UNCHANGED <<driver, bound, cdevs, class, core, heap, waitq, globals,
                           file, kept>>

\* Mutant of DestroyAdmin: remove waits until the files are closed.
DestroyWhenClosed(s, step) ==
    /\ \A u \in User : file[u].at \notin Using
    /\ admins' = admins \ {<<admin[s], s>>}
    /\ Goto(step)
    /\ UNCHANGED <<kernel, heap, waitq, allocator, pfs_p, admin, file, kept>>

\* destroy_task_admin follows the global pointer, which stays what it is.
DestroyAdmin(s, step) ==
    IF <<admin[s], s>> \in admins
    THEN /\ admins' = admins \ {<<admin[s], s>>}
         /\ Goto(step)
         /\ UNCHANGED <<kernel, heap, waitq, allocator, pfs_p, admin, file, kept>>
    ELSE Die

DestroyAdmin1 == At("destroy1") /\ DestroyAdmin(1, "destroy2")
DestroyAdmin2 == At("destroy2") /\ DestroyAdmin(2, "class_destroy")

\* pdev_priv is read from here on; device_destroy does nothing.
ClassDestroy ==
    /\ At("class_destroy")
    /\ IF core.priv \notin heap THEN Die
       ELSE /\ class' = FALSE
            /\ Goto("cdev_del")
            /\ UNCHANGED <<driver, device, bound, cdevs, heap, waitq, globals, file, kept>>

RemoveCdevDel ==
    /\ At("cdev_del")
    /\ cdev_del
    /\ Goto("kfree")
    /\ UNCHANGED <<driver, device, bound, class, heap, waitq, globals, file, kept>>

RemoveKfree ==
    /\ At("kfree")
    /\ heap' = heap \ {core.priv}
    /\ waitq' = waitq \ {core.priv}
    /\ bound' = NULL
    /\ core' = NoCore
    /\ driver' = (core.op # "unload")
    /\ device' = (core.op # "unregister")
    /\ UNCHANGED <<cdevs, class, globals, file, kept>>

(***************************************************************************)
(* The file operations                                                     *)
(***************************************************************************)

Step(u, f) == /\ file' = [file EXCEPT ![u] = f]
              /\ UNCHANGED <<kernel, core, heap, waitq, globals, kept>>

\* A fault ends the process; the kernel closes its file.
Fault(u, how) == Step(u, [Closed EXCEPT !.at = how])

\* The kernel finds the cdev and takes the module, unless that is on its way
\* out; then device_open.  A cdev that outlived the module is no cdev.
device_open(u) ==
    /\ file[u].at = "closed"
    /\ cdevs # <<>>
    /\ core.op # "unload"
    /\ IF driver THEN Step(u, [Closed EXCEPT !.at = "open", !.priv = Head(cdevs)])
       ELSE Fault(u, "module")

\* device_release does nothing; the kernel puts the cdev inside pdev_priv.
device_release(u) ==
    /\ file[u].at = "open"
    /\ IF file[u].priv \in heap THEN Step(u, Closed) ELSE Fault(u, "freed")

\* wait_event(pdev_priv->readq, 0): whoever reads stays.
device_read(u) ==
    /\ file[u].at = "open"
    /\ IF file[u].priv \notin heap THEN Fault(u, "freed")
       ELSE IF file[u].priv \notin waitq THEN Fault(u, "waitqueue")
       ELSE Step(u, [file[u] EXCEPT !.at = "asleep"])

\* device_write does not touch pdev_priv.  A command that process_protocol
\* does not know is the end of it.
device_write(u) ==
    /\ file[u].at = "open"
    /\ \E step \in {"open", "alloc"} : Step(u, [file[u] EXCEPT !.at = step])

\* pa_create_protocol_analyzer(allocator) clears the analyzer through NULL
\* when there is no memory for it.
CreateAnalyzer(u) ==
    /\ file[u].at = "alloc"
    /\ IF ~allocator THEN Fault(u, "allocator")
       ELSE Fault(u, "nomem") \/ Step(u, [file[u] EXCEPT !.at = "parse"])

\* Mutant of InitAnalyzer: a writer that comes early waits for the formats.
WaitForFormats(u) ==
    /\ file[u].at = "parse"
    /\ pfs_p = "ready"
    /\ \E s \in Slot : Step(u, [file[u] EXCEPT !.at = "task", !.slot = s])

\* pa_init_protocol_analyzer(.., pfs_p, pa), the parsing, and the fields that
\* the task is made of: the copies are written through NULL without memory, and
\* a field that is not found is logged and then read.  Only do_command_0x3008
\* goes on to a task admin.
InitAnalyzer(u) ==
    /\ file[u].at = "parse"
    /\ IF pfs_p = "null" THEN Fault(u, "pfs")
       ELSE IF pfs_p = "empty" THEN Fault(u, "format")
       ELSE \/ \E how \in {"nomem", "nofield"} : Fault(u, how)
            \/ Step(u, [file[u] EXCEPT !.at = "open"])
            \/ \E s \in Slot : Step(u, [file[u] EXCEPT !.at = "task", !.slot = s])

\* add_task reads its container from the admin and asks for memory.  For a map
\* make_pair comes first, which reads from the address slot_num.
AddTask(u) ==
    LET p == admin[file[u].slot] IN
    /\ file[u].at = "task"
    /\ IF p = NULL THEN Fault(u, "nulladmin")
       ELSE IF <<p, file[u].slot>> \notin admins THEN Fault(u, "freedadmin")
       ELSE \/ \E container \in {"list", "map"} :
                 Step(u, [file[u] EXCEPT !.at = container, !.admin = p])
            \/ Fault(u, "badslot")

Added(u) == Step(u, [file[u] EXCEPT !.at = "open", !.slot = 1, !.admin = NULL])

\* With memory it goes on with the container that it had read.
FinishAdd(u) ==
    /\ file[u].at \in {"list", "map"}
    /\ IF <<file[u].admin, file[u].slot>> \in admins THEN Added(u)
       ELSE Fault(u, "freedadmin")

\* Without, llist_insert copies to NULL; hash_map_insert returns -1, which
\* nobody looks at.
AddWithoutMemory(u) == \/ file[u].at = "list" /\ Fault(u, "nomem")
                       \/ file[u].at = "map" /\ Added(u)

(***************************************************************************)
(* The system                                                              *)
(***************************************************************************)

plat_probe == \/ cdev_add \/ class_create \/ class_device_create \/ InitWaitqueues
              \/ allocator_creator \/ pfs_create \/ RegisterFormats
              \/ CreateAdmin1 \/ CreateAdmin2 \/ ErrorCdevDel \/ ErrorKfree

plat_remove == \/ DestroyAdmin1 \/ DestroyAdmin2 \/ ClassDestroy
               \/ RemoveCdevDel \/ RemoveKfree

Write(u) == \/ CreateAnalyzer(u) \/ InitAnalyzer(u) \/ AddTask(u)
            \/ FinishAdd(u) \/ AddWithoutMemory(u)

Modules == \/ driver_module_init \/ device_module_init
           \/ driver_module_exit \/ device_module_exit

Next == \/ Modules
        \/ plat_probe \/ plat_remove
        \/ \E u \in User : \/ device_open(u) \/ device_release(u)
                           \/ device_read(u) \/ device_write(u) \/ Write(u)

\* Neither a write nor the thread that loads or unloads a module waits for
\* anything but memory.
Spec == /\ Init /\ [][Next]_vars
        /\ WF_vars(plat_probe \/ plat_remove)
        /\ \A u \in User : WF_vars(Write(u))

(***************************************************************************)
(* Properties                                                              *)
(***************************************************************************)

\* Along all error labels and over several probes, the kernel never keeps a
\* character device inside a pdev_priv that was freed, nor one that nobody
\* will take away: it belongs to the bound device, to the probe or remove that
\* is running, or to a probe that class_create made give up, which leaves it.
CdevBacked ==
    \A p \in ToSet(cdevs) : p \in heap /\ (p \in {bound, core.priv} \/ p \in kept)

\* When probe has returned 0 after its last step and remove has not begun, the
\* device is complete: pdev_priv, class and wait queues, allocator and formats,
\* and admins of its own, unless create_task_admin had returned NULL.
BoundIsComplete ==
    bound \in heap /\ core.at \in {"idle"} =>
      /\ class /\ bound \in waitq
      /\ allocator /\ pfs_p = "ready"
      /\ \A s \in Slot : admin[s] \in {NULL, bound}
                         /\ (admin[s] # NULL => <<admin[s], s>> \in admins)

\* Is a device bound whose probe went through, with no remove begun?
Usable == At("idle") /\ bound \in heap

\* While it is, a process that opens it, or has a file on it, opened before the
\* probe had come to its end or after, is not killed by what is not there yet or
\* no longer there: a step of a write that has slept finds what it had read
\* still in place, and nothing is left over from an earlier probe.  What may
\* kill it is memory, an admin or a field that was refused, and slot_num.
BoundIsUsable ==
    [][\A u \in User :
         Usable /\ (file[u].priv = bound \/ file[u].at = "closed")
                /\ file[u].at \notin Faults
           => file[u].at' \notin Stale]_vars

\* A write comes back, or its process is killed, even when the thread in probe
\* or remove was killed between two of its steps.
WritesEnd ==
    \A u \in User : file[u].at \in Writing ~> file[u].at \notin Writing

\* Loading or unloading a module comes to its end, or kills its thread, though
\* readers sleep for ever in the files that are open.
ModuleCallsEnd == core.at \notin {"idle", "dead"} ~> core.at \in {"idle", "dead"}
=============================================================================
