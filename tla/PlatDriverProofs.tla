-------------------------- MODULE PlatDriverProofs --------------------------
(***************************************************************************)
(* Proofs about PlatDriver, for every set of users and of addresses and    *)
(* whatever plat_probe's ret may hold.                                     *)
(***************************************************************************)
EXTENDS PlatDriver, SequenceTheorems, TLAPS

(***************************************************************************)
(* The inductive invariant: what each step of probe and remove leaves      *)
(***************************************************************************)

\* The steps that come after a step of the probe has succeeded.
HasClass == {"class_device", "drvdata", "allocator", "pfs", "formats",
             "admin1", "admin2"}
HasWaitqueues == {"allocator", "pfs", "formats", "admin1", "admin2"}
HasAllocator == {"pfs", "formats", "admin1", "admin2"}
HasFormats == {"admin1", "admin2"}

\* Whose thread it is: a probe works on memory of its own while no device is
\* bound, a remove on the bound device, and each needs both modules.
Phases ==
    /\ At("idle") => core = NoCore
    /\ bound # NULL \/ core.at \notin {"idle", "dead"} => driver /\ device
    /\ core.at \in ProbeSteps \cup ErrorSteps => bound = NULL /\ core.priv \in heap
    /\ core.at \in RemoveSteps => core.priv = bound

\* What class_create made a probe leave is never freed, and no pointer of
\* the driver leads to it.
KeptIsLeft == kept \subseteq heap /\ core.priv \notin kept /\ bound \notin kept

\* Only the youngest registration can be the one that cdev_del is to take
\* away; before cdev_add and after cdev_del there are only those left behind.
CdevsInPlace ==
    /\ \A i \in 1 .. Len(cdevs) :
         /\ cdevs[i] \in heap
         /\ cdevs[i] \in kept \/ (i = 1 /\ cdevs[i] \in {bound, core.priv})
    /\ core.at \in {"cdev_add", "err_kfree", "kfree"} =>
         \A i \in 1 .. Len(cdevs) : cdevs[i] \in kept

\* The admin of slot s is the one that the probe of p created, or none.
AdminOf(p, s) == admin[s] \in {NULL, p} /\ (admin[s] # NULL => <<admin[s], s>> \in admins)

\* What a probe has completed so far.
Progress ==
    /\ core.at \in HasClass => class
    /\ core.at \in HasWaitqueues => core.priv \in waitq
    /\ core.at \in HasAllocator => allocator
    /\ core.at \in HasFormats => pfs_p = "ready"
    /\ At("admin2") => AdminOf(core.priv, 1)

\* Is p what the probe that runs works on, or what a complete one left bound?
Current(p) == \/ core.at \in ProbeSteps /\ p = core.priv
              \/ Usable /\ p = bound

\* A writer in add_task whose file is on that device has a container that is
\* still there: it was there when its admin was read, and none goes before
\* plat_remove.
FilesInUse ==
    \A u \in User : file[u].at \in {"list", "map"} /\ Current(file[u].priv)
                     => <<file[u].admin, file[u].slot>> \in admins

IInv == /\ TypeOK /\ Phases /\ KeptIsLeft /\ CdevsInPlace /\ Progress
        /\ BoundIsComplete /\ FilesInUse

USE DEF At, globals, kernel, NoCore, ProbeSteps, ErrorSteps, RemoveSteps,
        Slot, Stale, Faults, Writing, Using, Usable, HasClass, HasWaitqueues, HasAllocator, HasFormats

LEMMA InitInv == Init => IInv
<1> SUFFICES ASSUME Init PROVE IInv
  OBVIOUS
<1> USE NullAssumption
<1>1. TypeOK
  <2>1. Closed \in [at : {"closed"} \cup Using \cup Faults, priv : Priv \cup {NULL},
                    slot : Slot, admin : Priv \cup {NULL}]
    BY DEF Closed
  <2>2. file \in [User -> [at : {"closed"} \cup Using \cup Faults, priv : Priv \cup {NULL},
                           slot : Slot, admin : Priv \cup {NULL}]]
    BY <2>1 DEF Init
  <2>3. core \in [at : {"idle", "dead"} \cup ProbeSteps \cup ErrorSteps \cup RemoveSteps,
                  priv : Priv \cup {NULL},
                  op : {"none", "load", "unload", "register", "unregister"}]
    BY DEF Init
  <2>4. admin \in [Slot -> Priv \cup {NULL}] /\ cdevs \in Seq(Priv)
    BY DEF Init
  <2> QED
    BY <2>2, <2>3, <2>4 DEF Init, TypeOK
<1>2. Phases /\ KeptIsLeft /\ CdevsInPlace /\ Progress
  BY DEF Init, Phases, KeptIsLeft, CdevsInPlace, Progress
<1>3. BoundIsComplete /\ FilesInUse
  BY DEF Init, BoundIsComplete, FilesInUse, Current
<1> QED
  BY <1>1, <1>2, <1>3 DEF IInv

(***************************************************************************)
(* Lemmas about the steps of probe and remove                              *)
(***************************************************************************)

\* Going on to the next step changes nothing else of the thread.
LEMMA GotoEffect ==
    ASSUME TypeOK, NEW step, Goto(step)
    PROVE  core'.at = step /\ core'.priv = core.priv /\ core'.op = core.op
BY DEF TypeOK, Goto

\* After a step that leaves no device to use and no probe there is nothing to show.
LEMMA NoFilesInUse ==
    ASSUME core'.at \notin ProbeSteps, core'.at = "idle" => bound' \notin heap'
    PROVE  FilesInUse'
BY DEF FilesInUse, Current

\* A step of the probe takes no container away, and an error label has no
\* device to use.
LEMMA ProbeFiles ==
    ASSUME IInv, core.at \in ProbeSteps, NEW step \in ProbeSteps \cup ErrorSteps, Goto(step),
           admins \subseteq admins', UNCHANGED file
    PROVE  FilesInUse'
<1>1. core'.at = step /\ core'.priv = core.priv
  BY GotoEffect DEF IInv
<1>2. CASE step \in ErrorSteps
  BY <1>1, <1>2, NoFilesInUse
<1>3. CASE step \in ProbeSteps
  <2> SUFFICES ASSUME NEW u \in User, file'[u].at \in {"list", "map"}, Current(file[u].priv)'
               PROVE  <<file'[u].admin, file'[u].slot>> \in admins'
    BY DEF FilesInUse
  <2>1. file[u].at \in {"list", "map"} /\ Current(file[u].priv)
    BY <1>1, <1>3 DEF Current
  <2> QED
    BY <2>1 DEF IInv, FilesInUse
<1> QED
  BY <1>2, <1>3

\* A thread that is killed leaves everything as it is.
LEMMA DieInv ==
    ASSUME IInv, core.at \in ProbeSteps \cup RemoveSteps, Die
    PROVE  IInv'
<1>1. core'.at = "dead" /\ core'.priv = core.priv /\ core'.op = core.op
  BY GotoEffect DEF IInv, Die
<1>2. TypeOK'
  BY DEF Die, Goto, IInv, TypeOK
<1>3. Phases' /\ KeptIsLeft' /\ Progress'
  BY <1>1 DEF Die, IInv, Phases, KeptIsLeft, Progress
<1>4. CdevsInPlace'
  BY <1>1 DEF Die, IInv, CdevsInPlace
<1>5. BoundIsComplete'
  BY <1>1 DEF BoundIsComplete
<1>6. FilesInUse'
  BY <1>1, NoFilesInUse
<1> QED
  BY <1>2, <1>3, <1>4, <1>5, <1>6 DEF IInv

\* Adding in front moves the others up by one.
LEMMA ConsProperties ==
    ASSUME NEW S, NEW s \in Seq(S), NEW e \in S
    PROVE  /\ <<e>> \o s \in Seq(S)
           /\ Len(<<e>> \o s) = Len(s) + 1
           /\ \A j \in 1 .. Len(s) + 1 : (<<e>> \o s)[j] = IF j = 1 THEN e ELSE s[j - 1]
OBVIOUS

\* cdev_del leaves only the registrations of probes that gave up.
LEMMA CdevDelEffect ==
    ASSUME IInv, cdev_del
    PROVE  /\ cdevs' \in Seq(Priv)
           /\ \A i \in 1 .. Len(cdevs') : cdevs'[i] \in heap /\ cdevs'[i] \in kept
<1>1. CASE cdevs = <<>>
  BY <1>1 DEF cdev_del
<1>2. CASE cdevs # <<>>
  <2>1. cdevs \in Seq(Priv) /\ cdevs' = Tail(cdevs)
    BY <1>2 DEF cdev_del, IInv, TypeOK
  <2>2. /\ Tail(cdevs) \in Seq(Priv)
        /\ Len(Tail(cdevs)) = Len(cdevs) - 1
        /\ \A i \in 1 .. Len(cdevs) - 1 : Tail(cdevs)[i] = cdevs[i + 1]
    BY <1>2, <2>1
  <2>3. ASSUME NEW i \in 1 .. Len(cdevs) - 1
        PROVE  cdevs[i + 1] \in heap /\ cdevs[i + 1] \in kept
    <3>1. i + 1 \in 1 .. Len(cdevs) /\ i + 1 # 1
      BY <2>1
    <3> QED
      BY <3>1 DEF IInv, CdevsInPlace
  <2> QED
    BY <2>1, <2>2, <2>3
<1> QED
  BY <1>1, <1>2

\* The admin that a probe creates is in its slot, or NULL is.
LEMMA CreateAdminEffect ==
    ASSUME IInv, NEW s \in Slot, CreateAdmin(s), core.priv \in Priv
    PROVE  /\ admin' \in [Slot -> Priv \cup {NULL}] /\ admins' \subseteq Priv \X Slot
           /\ admins \subseteq admins'
           /\ admin'[s] \in {NULL, core.priv}
           /\ admin'[s] # NULL => <<admin'[s], s>> \in admins'
           /\ \A t \in Slot \ {s} : admin'[t] = admin[t]
BY DEF CreateAdmin, IInv, TypeOK

(***************************************************************************)
(* The inductive step: loading and unloading                               *)
(***************************************************************************)

\* A probe that begins has memory that nothing points to, and finds no device
\* bound; without memory nothing has happened.
LEMMA StartProbeInv ==
    ASSUME IInv, At("idle"), ~(driver /\ device), driver', device', NEW op \in {"load", "register"},
           StartProbe(op), UNCHANGED <<bound, cdevs, class, waitq, globals, file, kept>>
    PROVE  IInv'
<1> USE NullAssumption
<1>1. bound = NULL /\ core = NoCore
  BY DEF IInv, Phases
<1>2. CASE UNCHANGED <<core, heap>>
  BY <1>1, <1>2 DEF IInv, TypeOK, Phases, KeptIsLeft, CdevsInPlace, Progress, AdminOf,
                    BoundIsComplete, FilesInUse, Current
<1>3. ASSUME NEW p \in Fresh,
             core' = [at |-> "cdev_add", priv |-> p, op |-> op], heap' = heap \cup {p}
      PROVE  IInv'
  <2>1. /\ p \in Priv /\ p \notin heap /\ p \notin kept
        /\ core'.at = "cdev_add" /\ core'.priv = p
    BY <1>3 DEF Fresh
  <2>2. TypeOK'
    BY <1>3, <2>1 DEF IInv, TypeOK
  <2>3. Phases' /\ KeptIsLeft' /\ Progress'
    BY <1>1, <1>3, <2>1 DEF IInv, Phases, KeptIsLeft, Progress
  <2>4. CdevsInPlace'
    BY <1>1, <1>3, <2>1 DEF IInv, TypeOK, CdevsInPlace
  <2>5. BoundIsComplete'
    BY <2>1 DEF BoundIsComplete
  <2>6. FilesInUse'
    <3> SUFFICES ASSUME NEW u \in User, Current(file[u].priv)' PROVE FALSE
      BY <1>3 DEF FilesInUse
    <3>1. file[u].priv # p
      <4>1. p \notin UNION {{file[v].priv, file[v].admin} : v \in User}
        BY <1>3 DEF Fresh
      <4>2. file[u].priv \in {file[u].priv, file[u].admin}
        OBVIOUS
      <4> QED
        BY Zenon, <4>1, <4>2
    <3> QED
      BY <2>1, <3>1 DEF Current
  <2> QED
    BY <2>2, <2>3, <2>4, <2>5, <2>6 DEF IInv
<1> QED
  BY <1>2, <1>3 DEF StartProbe

\* A remove begins on the bound device; from then on it is not one to use.
LEMMA StartRemoveInv ==
    ASSUME IInv, At("idle"), bound # NULL, NEW op \in {"unload", "unregister"}, StartRemove(op)
    PROVE  IInv'
<1> USE NullAssumption
<1>1. core = NoCore /\ core'.at = "destroy1" /\ core'.priv = bound
  BY DEF StartRemove, IInv, Phases
<1>2. TypeOK'
  BY DEF StartRemove, IInv, TypeOK
<1>3. Phases' /\ KeptIsLeft' /\ Progress'
  BY <1>1 DEF StartRemove, IInv, Phases, KeptIsLeft, Progress
<1>4. CdevsInPlace'
  BY <1>1 DEF StartRemove, IInv, TypeOK, CdevsInPlace
<1>5. BoundIsComplete'
  BY <1>1 DEF BoundIsComplete
<1>6. FilesInUse'
  BY <1>1, NoFilesInUse
<1> QED
  BY <1>2, <1>3, <1>4, <1>5, <1>6 DEF IInv

LEMMA ModulesInv == IInv /\ Modules => IInv'
<1> SUFFICES ASSUME IInv, Modules PROVE IInv'
  OBVIOUS
<1> USE NullAssumption
<1>1. CASE driver_module_init
  <2>1. CASE device
    BY <1>1, <2>1, StartProbeInv DEF driver_module_init, IInv, TypeOK
  <2>2. CASE ~device
    BY <1>1, <2>2 DEF driver_module_init, IInv, TypeOK, Phases, KeptIsLeft, CdevsInPlace, Progress,
                      AdminOf, BoundIsComplete, FilesInUse, Current
  <2> QED
    BY <2>1, <2>2
<1>2. CASE device_module_init
  <2>1. CASE driver
    BY <1>2, <2>1, StartProbeInv DEF device_module_init, IInv, TypeOK
  <2>2. CASE ~driver
    BY <1>2, <2>2 DEF device_module_init, IInv, TypeOK, Phases, KeptIsLeft, CdevsInPlace, Progress,
                      AdminOf, BoundIsComplete, FilesInUse, Current
  <2> QED
    BY <2>1, <2>2
<1>3. CASE driver_module_exit
  <2>1. CASE bound # NULL
    BY <1>3, <2>1, StartRemoveInv DEF driver_module_exit
  <2>2. CASE bound = NULL
    <3>1. /\ At("idle") /\ driver' = FALSE
          /\ UNCHANGED <<device, bound, cdevs, class, core, heap, waitq, globals, file, kept>>
      BY <1>3, <2>2 DEF driver_module_exit
    <3> QED
      BY ZenonT(30), <2>2, <3>1 DEF IInv, TypeOK, Phases, KeptIsLeft, CdevsInPlace, Progress, AdminOf,
                        BoundIsComplete, FilesInUse, Current
  <2> QED
    BY <2>1, <2>2
<1>4. CASE device_module_exit
  <2>1. CASE bound # NULL
    BY <1>4, <2>1, StartRemoveInv DEF device_module_exit
  <2>2. CASE bound = NULL
    <3>1. /\ At("idle") /\ device' = FALSE
          /\ UNCHANGED <<driver, bound, cdevs, class, core, heap, waitq, globals, file, kept>>
      BY <1>4, <2>2 DEF device_module_exit
    <3> QED
      BY ZenonT(30), <2>2, <3>1 DEF IInv, TypeOK, Phases, KeptIsLeft, CdevsInPlace, Progress, AdminOf,
                        BoundIsComplete, FilesInUse, Current
  <2> QED
    BY <2>1, <2>2
<1> QED
  BY <1>1, <1>2, <1>3, <1>4 DEF Modules

(***************************************************************************)
(* The inductive step: plat_probe                                          *)
(***************************************************************************)

LEMMA ProbeInv == IInv /\ plat_probe => IInv'
<1> SUFFICES ASSUME IInv, plat_probe PROVE IInv'
  OBVIOUS
<1> USE NullAssumption
<1>1. CASE cdev_add
  <2>1. /\ core'.at = "class_create" /\ core'.priv = core.priv
        /\ core.priv \in heap /\ core.priv \in Priv /\ bound = NULL
    BY <1>1, GotoEffect DEF cdev_add, IInv, TypeOK, Phases
  <2>2. TypeOK'
    <3>1. cdevs' \in Seq(Priv)
      <4>1. cdevs \in Seq(Priv) /\ cdevs' \in {<<core.priv>> \o cdevs, cdevs}
        BY <1>1 DEF cdev_add, IInv, TypeOK
      <4>2. <<core.priv>> \o cdevs \in Seq(Priv)
        BY <2>1, <4>1, ConsProperties
      <4> QED
        BY <4>1, <4>2
    <3> QED
      BY <1>1, <3>1 DEF cdev_add, Goto, IInv, TypeOK
  <2>3. Phases' /\ KeptIsLeft' /\ Progress'
    BY <1>1, <2>1 DEF cdev_add, IInv, Phases, KeptIsLeft, Progress
  <2>4. CdevsInPlace'
    <3>1. CASE cdevs' = cdevs
      BY <1>1, <2>1, <3>1 DEF cdev_add, IInv, CdevsInPlace
    <3>2. CASE cdevs' = <<core.priv>> \o cdevs
      <4>1. /\ Len(cdevs') = Len(cdevs) + 1
            /\ \A i \in 1 .. Len(cdevs) + 1 :
                 cdevs'[i] = IF i = 1 THEN core.priv ELSE cdevs[i - 1]
        BY <2>1, <3>2, ConsProperties DEF IInv, TypeOK
      <4>2. \A i \in 1 .. Len(cdevs) : cdevs[i] \in heap /\ cdevs[i] \in kept
        BY <1>1 DEF cdev_add, IInv, CdevsInPlace
      <4>3. ASSUME NEW i \in 1 .. Len(cdevs')
            PROVE  cdevs'[i] \in heap /\ (cdevs'[i] \in kept \/ (i = 1 /\ cdevs'[i] = core.priv))
        <5>1. CASE i = 1
          BY <2>1, <4>1, <5>1
        <5>2. CASE i # 1
          <6>1. i - 1 \in 1 .. Len(cdevs) /\ i \in 1 .. Len(cdevs) + 1
            BY <4>1, <5>2 DEF IInv, TypeOK
          <6>2. cdevs'[i] = cdevs[i - 1]
            BY <4>1, <5>2, <6>1
          <6> QED
            BY <4>2, <6>1, <6>2
        <5> QED
          BY <5>1, <5>2
      <4> QED
        BY <1>1, <2>1, <4>3 DEF cdev_add, CdevsInPlace
    <3> QED
      BY <1>1, <3>1, <3>2 DEF cdev_add
  <2>5. BoundIsComplete' /\ FilesInUse'
    BY <1>1, <2>1, ProbeFiles DEF cdev_add, BoundIsComplete
  <2> QED
    BY <2>2, <2>3, <2>4, <2>5 DEF IInv
<1>2. CASE class_create
  <2>1. CASE ~class /\ class' = TRUE /\ Goto("class_device") /\ UNCHANGED kept
    <3>1. FilesInUse'
      BY <1>2, <2>1, ProbeFiles DEF class_create
    <3> QED
      BY <1>2, <2>1, <3>1
      DEF class_create, Goto, IInv, TypeOK, Phases, KeptIsLeft, CdevsInPlace, Progress, BoundIsComplete
  <2>2. CASE core' = NoCore /\ kept' = kept \cup {core.priv} /\ UNCHANGED class
    <3>1. core.priv \in heap /\ core.priv \in Priv /\ bound = NULL
      BY <1>2 DEF class_create, IInv, TypeOK, Phases
    <3>2. TypeOK'
      BY <1>2, <2>2, <3>1 DEF class_create, IInv, TypeOK
    <3>3. Phases' /\ KeptIsLeft' /\ Progress'
      BY <1>2, <2>2, <3>1 DEF class_create, IInv, TypeOK, Phases, KeptIsLeft, Progress
    <3>4. CdevsInPlace'
      BY <1>2, <2>2, <3>1 DEF class_create, IInv, TypeOK, CdevsInPlace
    <3>5. BoundIsComplete' /\ FilesInUse'
      BY <1>2, <2>2, <3>1, NoFilesInUse DEF class_create, IInv, TypeOK, BoundIsComplete
    <3> QED
      BY <3>2, <3>3, <3>4, <3>5 DEF IInv
  <2> QED
    BY <1>2, <2>1, <2>2 DEF class_create
<1>3. CASE class_device_create
  <2>1. FilesInUse'
    BY <1>3, ProbeFiles DEF class_device_create
  <2> QED
    BY <1>3, <2>1
    DEF class_device_create, Goto, IInv, TypeOK, Phases, KeptIsLeft, CdevsInPlace, Progress, BoundIsComplete
<1>4. CASE InitWaitqueues
  <2>1. FilesInUse'
    BY <1>4, ProbeFiles DEF InitWaitqueues
  <2> QED
    BY <1>4, <2>1
    DEF InitWaitqueues, Goto, IInv, TypeOK, Phases, KeptIsLeft, CdevsInPlace, Progress, BoundIsComplete
<1>5. CASE allocator_creator
  <2>1. CASE allocator' = TRUE /\ Goto("pfs")
    <3>1. FilesInUse'
      BY <1>5, <2>1, ProbeFiles DEF allocator_creator
    <3> QED
      BY <1>5, <2>1, <3>1
      DEF allocator_creator, Goto, IInv, TypeOK, Phases, KeptIsLeft, CdevsInPlace, Progress, BoundIsComplete
  <2>2. CASE allocator' = FALSE /\ Goto("err_cdev_del")
    <3>1. FilesInUse'
      BY <1>5, <2>2, ProbeFiles DEF allocator_creator
    <3> QED
      BY <1>5, <2>2, <3>1
      DEF allocator_creator, Goto, IInv, TypeOK, Phases, KeptIsLeft, CdevsInPlace, Progress, BoundIsComplete
  <2> QED
    BY <1>5, <2>1, <2>2 DEF allocator_creator
<1>6. CASE pfs_create
  <2>1. CASE Die
    BY <1>6, <2>1, DieInv DEF pfs_create
  <2>2. CASE ~Die
    <3>1. FilesInUse'
      BY <1>6, <2>2, ProbeFiles DEF pfs_create
    <3> QED
      BY ZenonT(30), <1>6, <2>2, <3>1
      DEF pfs_create, Goto, IInv, TypeOK, Phases, KeptIsLeft, CdevsInPlace, Progress, BoundIsComplete
  <2> QED
    BY <2>1, <2>2
<1>7. CASE RegisterFormats
  <2>1. CASE Die
    BY <1>7, <2>1, DieInv DEF RegisterFormats
  <2>2. CASE ~Die
    <3>1. FilesInUse'
      BY <1>7, <2>2, ProbeFiles DEF RegisterFormats
    <3> QED
      BY ZenonT(30), <1>7, <2>2, <3>1
      DEF RegisterFormats, Goto, IInv, TypeOK, Phases, KeptIsLeft, CdevsInPlace, Progress, BoundIsComplete
  <2> QED
    BY <2>1, <2>2
<1>8. CASE CreateAdmin1
  <2>1. CASE Die
    BY <1>8, <2>1, DieInv DEF CreateAdmin1
  <2>2. CASE ~Die
    <3>1. core.priv \in Priv /\ At("admin1") /\ CreateAdmin(1)
      BY <1>8, <2>2 DEF CreateAdmin1, IInv, TypeOK, Phases
    <3>2. core'.at = "admin2" /\ core'.priv = core.priv
      BY <1>8, <2>2, GotoEffect DEF CreateAdmin1, IInv
    <3>3. TypeOK'
      BY <1>8, <2>2, <3>1, CreateAdminEffect DEF CreateAdmin1, Goto, IInv, TypeOK
    <3>4. Phases' /\ KeptIsLeft' /\ CdevsInPlace'
      BY <1>8, <2>2, <3>2 DEF CreateAdmin1, IInv, Phases, KeptIsLeft, CdevsInPlace
    <3>5. Progress'
      BY <1>8, <2>2, <3>1, <3>2, CreateAdminEffect DEF CreateAdmin1, IInv, Progress, AdminOf
    <3>6. BoundIsComplete' /\ FilesInUse'
      BY <1>8, <2>2, <3>1, <3>2, CreateAdminEffect, ProbeFiles DEF CreateAdmin1, BoundIsComplete
    <3> QED
      BY <3>3, <3>4, <3>5, <3>6 DEF IInv
  <2> QED
    BY <2>1, <2>2
<1>9. CASE CreateAdmin2
  <2>1. CASE Die
    BY <1>9, <2>1, DieInv DEF CreateAdmin2
  <2>2. CASE ~Die
    <3>1. core.priv \in Priv /\ core.priv \in heap /\ At("admin2") /\ CreateAdmin(2)
      BY <1>9, <2>2 DEF CreateAdmin2, IInv, TypeOK, Phases
    <3>2. /\ bound' = core.priv /\ core' = NoCore
          /\ UNCHANGED <<driver, device, cdevs, class, heap, waitq, allocator, pfs_p, file, kept>>
      BY <1>9, <2>2 DEF CreateAdmin2
    <3>3. TypeOK'
      BY <3>1, <3>2, CreateAdminEffect DEF IInv, TypeOK
    <3>4. Phases' /\ KeptIsLeft'
      BY <3>1, <3>2 DEF IInv, Phases, KeptIsLeft
    <3>5. CdevsInPlace'
      BY <3>1, <3>2 DEF IInv, TypeOK, Phases, CdevsInPlace
    <3>6. Progress'
      BY <3>2 DEF Progress
    <3>7. BoundIsComplete'
      BY <3>1, <3>2, CreateAdminEffect DEF IInv, TypeOK, Progress, AdminOf, BoundIsComplete
    <3>8. FilesInUse'
      <4>1. admins \subseteq admins'
        BY <3>1, CreateAdminEffect
      <4> SUFFICES ASSUME NEW u \in User, file[u].at \in {"list", "map"}, Current(file[u].priv)'
                   PROVE  <<file[u].admin, file[u].slot>> \in admins
        BY <3>2, <4>1 DEF FilesInUse
      <4>2. Current(file[u].priv)
        BY <3>1, <3>2 DEF Current
      <4> QED
        BY <4>2 DEF IInv, FilesInUse
    <3> QED
      BY <3>3, <3>4, <3>5, <3>6, <3>7, <3>8 DEF IInv
  <2> QED
    BY <2>1, <2>2
<1>10. CASE ErrorCdevDel
  <2>1. core'.at = "err_kfree" /\ core'.priv = core.priv
    BY <1>10, GotoEffect DEF ErrorCdevDel, IInv
  <2>2. TypeOK'
    BY <1>10, CdevDelEffect DEF ErrorCdevDel, Goto, IInv, TypeOK
  <2>3. Phases' /\ KeptIsLeft' /\ Progress'
    BY <1>10, <2>1 DEF ErrorCdevDel, IInv, Phases, KeptIsLeft, Progress
  <2>4. CdevsInPlace'
    BY <1>10, CdevDelEffect DEF ErrorCdevDel, CdevsInPlace
  <2>5. BoundIsComplete' /\ FilesInUse'
    BY <2>1, NoFilesInUse DEF BoundIsComplete
  <2> QED
    BY <2>2, <2>3, <2>4, <2>5 DEF IInv
<1>11. CASE ErrorKfree
  <2>1. core.priv \in Priv /\ core.priv \in heap /\ bound' \in {NULL, core.priv}
    BY <1>11 DEF ErrorKfree, IInv, TypeOK, Phases
  <2>2. TypeOK'
    BY <1>11, <2>1 DEF ErrorKfree, IInv, TypeOK
  <2>3. Phases' /\ KeptIsLeft' /\ Progress'
    BY <1>11, <2>1 DEF ErrorKfree, IInv, TypeOK, Phases, KeptIsLeft, Progress
  <2>4. CdevsInPlace'
    BY <1>11, <2>1 DEF ErrorKfree, IInv, TypeOK, KeptIsLeft, CdevsInPlace
  <2>5. BoundIsComplete'
    BY <1>11, <2>1 DEF ErrorKfree, IInv, TypeOK, BoundIsComplete
  <2>6. FilesInUse'
    BY <1>11, <2>1, NoFilesInUse DEF ErrorKfree, IInv, TypeOK
  <2> QED
    BY <2>2, <2>3, <2>4, <2>5, <2>6 DEF IInv
<1> QED
  BY <1>1, <1>2, <1>3, <1>4, <1>5, <1>6, <1>7, <1>8, <1>9, <1>10, <1>11 DEF plat_probe

(***************************************************************************)
(* The inductive step: plat_remove                                         *)
(***************************************************************************)

\* destroy_task_admin frees the admin that the global pointer names, or the
\* thread ends there.
LEMMA DestroyAdminInv ==
    ASSUME IInv, NEW s \in Slot, core.at \in {"destroy1", "destroy2"},
           NEW step \in {"destroy2", "class_destroy"}, DestroyAdmin(s, step)
    PROVE  IInv'
<1> USE NullAssumption
<1>1. CASE Die
  BY <1>1, DieInv
<1>2. CASE ~Die
  <2>1. /\ admins' = admins \ {<<admin[s], s>>} /\ Goto(step)
        /\ UNCHANGED <<kernel, heap, waitq, allocator, pfs_p, admin, file, kept>>
    BY <1>2 DEF DestroyAdmin
  <2>2. core'.at = step /\ core'.priv = core.priv
    BY <2>1, GotoEffect DEF IInv
  <2>3. TypeOK'
    BY <2>1 DEF Goto, IInv, TypeOK
  <2>4. Phases' /\ KeptIsLeft' /\ Progress'
    BY <2>1, <2>2 DEF IInv, Phases, KeptIsLeft, Progress
  <2>5. CdevsInPlace'
    BY <2>1, <2>2 DEF IInv, CdevsInPlace
  <2>6. BoundIsComplete' /\ FilesInUse'
    BY <2>2, NoFilesInUse DEF BoundIsComplete
  <2> QED
    BY <2>3, <2>4, <2>5, <2>6 DEF IInv
<1> QED
  BY <1>1, <1>2

LEMMA RemoveInv == IInv /\ plat_remove => IInv'
<1> SUFFICES ASSUME IInv, plat_remove PROVE IInv'
  OBVIOUS
<1> USE NullAssumption
<1>1. CASE DestroyAdmin1
  BY <1>1, DestroyAdminInv DEF DestroyAdmin1
<1>2. CASE DestroyAdmin2
  BY <1>2, DestroyAdminInv DEF DestroyAdmin2
<1>3. CASE ClassDestroy
  <2>1. CASE Die
    BY <1>3, <2>1, DieInv DEF ClassDestroy
  <2>2. CASE ~Die
    <3>1. /\ class' = FALSE /\ Goto("cdev_del") /\ At("class_destroy")
          /\ UNCHANGED <<driver, device, bound, cdevs, heap, waitq, globals, file, kept>>
      BY <1>3, <2>2 DEF ClassDestroy
    <3>2. core'.at = "cdev_del" /\ core'.priv = core.priv
      BY <3>1, GotoEffect DEF IInv
    <3>3. TypeOK'
      BY <3>1 DEF Goto, IInv, TypeOK
    <3>4. Phases' /\ KeptIsLeft' /\ Progress' /\ CdevsInPlace'
      BY <3>1, <3>2 DEF IInv, Phases, KeptIsLeft, Progress, CdevsInPlace
    <3>5. BoundIsComplete' /\ FilesInUse'
      BY <3>2, NoFilesInUse DEF BoundIsComplete
    <3> QED
      BY <3>3, <3>4, <3>5 DEF IInv
  <2> QED
    BY <2>1, <2>2
<1>4. CASE RemoveCdevDel
  <2>1. core'.at = "kfree" /\ core'.priv = core.priv
    BY <1>4, GotoEffect DEF RemoveCdevDel, IInv
  <2>2. TypeOK'
    BY <1>4, CdevDelEffect DEF RemoveCdevDel, Goto, IInv, TypeOK
  <2>3. Phases' /\ KeptIsLeft' /\ Progress'
    BY <1>4, <2>1 DEF RemoveCdevDel, IInv, Phases, KeptIsLeft, Progress
  <2>4. CdevsInPlace'
    BY <1>4, CdevDelEffect DEF RemoveCdevDel, CdevsInPlace
  <2>5. BoundIsComplete' /\ FilesInUse'
    BY <2>1, NoFilesInUse DEF BoundIsComplete
  <2> QED
    BY <2>2, <2>3, <2>4, <2>5 DEF IInv
<1>5. CASE RemoveKfree
  <2>1. TypeOK'
    BY <1>5 DEF RemoveKfree, IInv, TypeOK
  <2>2. Phases' /\ Progress'
    BY <1>5 DEF RemoveKfree, IInv, Phases, Progress
  <2>3. KeptIsLeft'
    BY <1>5 DEF RemoveKfree, IInv, TypeOK, KeptIsLeft
  <2>4. CdevsInPlace'
    BY <1>5 DEF RemoveKfree, IInv, TypeOK, KeptIsLeft, CdevsInPlace
  <2>5. BoundIsComplete'
    BY <1>5 DEF RemoveKfree, IInv, TypeOK, BoundIsComplete
  <2>6. FilesInUse'
    BY <1>5, NoFilesInUse DEF RemoveKfree, IInv, TypeOK
  <2> QED
    BY <2>1, <2>2, <2>3, <2>4, <2>5, <2>6 DEF IInv
<1> QED
  BY <1>1, <1>2, <1>3, <1>4, <1>5 DEF plat_remove

(***************************************************************************)
(* The inductive step: the users                                           *)
(***************************************************************************)

FileType == [at : {"closed"} \cup Using \cup Faults, priv : Priv \cup {NULL},
             slot : Slot, admin : Priv \cup {NULL}]

\* A step of a user changes its own file only; one that is in add_task
\* afterwards has a container that is there, or is where it was.
LEMMA FileInv ==
    ASSUME IInv, NEW u \in User, NEW f \in FileType, Step(u, f),
           f.at \in {"list", "map"} => <<f.admin, f.slot>> \in admins
    PROVE  IInv'
<1>1. /\ file' \in [User -> FileType] /\ file'[u] = f
      /\ \A v \in User \ {u} : file'[v] = file[v]
  BY DEF Step, IInv, TypeOK, FileType
<1>2. UNCHANGED <<kernel, core, heap, waitq, globals, kept>>
  BY DEF Step
<1>3. TypeOK'
  BY <1>1, <1>2 DEF IInv, TypeOK, FileType
<1>4. Phases' /\ KeptIsLeft' /\ CdevsInPlace' /\ Progress' /\ BoundIsComplete'
  BY <1>2 DEF IInv, Phases, KeptIsLeft, CdevsInPlace, Progress, AdminOf, BoundIsComplete
<1>5. FilesInUse'
  <2> SUFFICES ASSUME NEW v \in User, file'[v].at \in {"list", "map"}, Current(file[v].priv)'
               PROVE  <<file'[v].admin, file'[v].slot>> \in admins'
    BY DEF FilesInUse
  <2>1. CASE v = u
    BY <1>1, <1>2, <2>1
  <2>2. CASE v # u
    <3>1. file[v].at \in {"list", "map"} /\ Current(file[v].priv)
      BY <1>1, <1>2, <2>2 DEF Current
    <3> QED
      BY <1>1, <1>2, <2>2, <3>1 DEF IInv, FilesInUse
  <2> QED
    BY <2>1, <2>2
<1> QED
  BY <1>3, <1>4, <1>5 DEF IInv

\* What a user's step may make of its file.
UserStep(u, f) ==
    \/ file[u].at = "closed" /\ cdevs # <<>> /\ driver /\ f.at = "open"
    \/ file[u].at = "closed" /\ ~driver /\ f.at = "module"
    \/ file[u].at = "open" /\ f.at \in {"closed", "open", "asleep", "alloc"}
    \/ file[u].at = "open" /\ file[u].priv \notin heap /\ f.at = "freed"
    \/ file[u].at = "open" /\ file[u].priv \notin waitq /\ f.at = "waitqueue"
    \/ file[u].at = "alloc" /\ ~allocator /\ f.at = "allocator"
    \/ file[u].at = "parse" /\ pfs_p # "ready" /\ f.at \in {"pfs", "format"}
    \/ file[u].at = "task" /\ admin[file[u].slot] # NULL
         /\ <<admin[file[u].slot], file[u].slot>> \notin admins /\ f.at = "freedadmin"
    \/ file[u].at = "task" /\ f.at \in {"list", "map"} /\ <<f.admin, f.slot>> \in admins
    \/ file[u].at \in {"list", "map"} /\ <<file[u].admin, file[u].slot>> \notin admins
         /\ f.at = "freedadmin"
    \/ file[u].at \in Writing
         /\ f.at \in {"open", "parse", "task", "nulladmin", "nomem", "nofield", "badslot"}

UserAction(u) == \/ device_open(u) \/ device_release(u) \/ device_read(u) \/ device_write(u)
                 \/ Write(u)

LEMMA UserStepEffect ==
    ASSUME IInv, NEW u \in User, UserAction(u)
    PROVE  \E f \in FileType : Step(u, f) /\ UserStep(u, f)
<1> USE NullAssumption
<1>1. file[u] \in FileType /\ Closed \in FileType /\ Closed.at = "closed"
  BY DEF IInv, TypeOK, FileType, Closed
<1>2. ASSUME NEW how \in Faults, Fault(u, how)
      PROVE  \E f \in FileType : Step(u, f) /\ f.at = how
  <2>1. [Closed EXCEPT !.at = how] \in FileType /\ [Closed EXCEPT !.at = how].at = how
    BY <1>1 DEF FileType, Closed
  <2> QED
    BY <1>2, <2>1 DEF Fault
<1>3. ASSUME NEW at \in Using, Step(u, [file[u] EXCEPT !.at = at])
      PROVE  \E f \in FileType : Step(u, f) /\ f.at = at
  <2>1. [file[u] EXCEPT !.at = at] \in FileType /\ [file[u] EXCEPT !.at = at].at = at
    BY <1>1 DEF FileType
  <2> QED
    BY <1>3, <2>1
<1>4. CASE device_open(u)
  <2>1. CASE driver
    <3>1. cdevs # <<>> /\ Head(cdevs) \in Priv
      BY <1>4 DEF device_open, IInv, TypeOK
    <3> DEFINE f == [Closed EXCEPT !.at = "open", !.priv = Head(cdevs)]
    <3>2. f \in FileType /\ f.at = "open"
      BY <1>1, <3>1 DEF FileType, Closed
    <3>3. Step(u, f) /\ file[u].at = "closed"
      BY <1>4, <2>1 DEF device_open
    <3> HIDE DEF f
    <3> QED
      BY <2>1, <3>1, <3>2, <3>3 DEF UserStep
  <2>2. CASE ~driver
    BY <1>2, <1>4, <2>2 DEF device_open, UserStep
  <2> QED
    BY <2>1, <2>2 DEF IInv, TypeOK
<1>5. CASE device_release(u)
  <2>1. CASE file[u].priv \in heap
    BY <1>1, <1>5, <2>1 DEF device_release, UserStep
  <2>2. CASE file[u].priv \notin heap
    BY <1>2, <1>5, <2>2 DEF device_release, UserStep
  <2> QED
    BY <2>1, <2>2
<1>6. CASE device_read(u)
  <2>1. CASE file[u].priv \notin heap
    BY <1>2, <1>6, <2>1 DEF device_read, UserStep
  <2>2. CASE file[u].priv \in heap /\ file[u].priv \notin waitq
    BY <1>2, <1>6, <2>2 DEF device_read, UserStep
  <2>3. CASE file[u].priv \in heap /\ file[u].priv \in waitq
    BY <1>3, <1>6, <2>3 DEF device_read, UserStep
  <2> QED
    BY <2>1, <2>2, <2>3
<1>7. CASE device_write(u)
  BY <1>3, <1>7 DEF device_write, UserStep
<1>8. CASE CreateAnalyzer(u)
  <2>1. file[u].at = "alloc"
    BY <1>8 DEF CreateAnalyzer
  <2>2. CASE ~allocator /\ Fault(u, "allocator")
    BY <1>2, <2>1, <2>2 DEF UserStep
  <2>3. CASE Fault(u, "nomem")
    BY <1>2, <2>1, <2>3 DEF UserStep
  <2>4. CASE Step(u, [file[u] EXCEPT !.at = "parse"])
    BY <1>3, <2>1, <2>4 DEF UserStep
  <2> QED
    BY <1>8, <2>2, <2>3, <2>4 DEF CreateAnalyzer
<1>9. CASE InitAnalyzer(u)
  <2>1. file[u].at = "parse"
    BY <1>9 DEF InitAnalyzer
  <2>2. CASE \/ pfs_p = "null" /\ Fault(u, "pfs")
             \/ pfs_p = "empty" /\ Fault(u, "format")
    BY <1>2, <2>1, <2>2 DEF UserStep
  <2>3. ASSUME NEW how \in {"nomem", "nofield"}, Fault(u, how)
        PROVE  \E f \in FileType : Step(u, f) /\ UserStep(u, f)
    BY <1>2, <2>1, <2>3 DEF UserStep
  <2>4. CASE Step(u, [file[u] EXCEPT !.at = "open"])
    BY <1>3, <2>1, <2>4 DEF UserStep
  <2>5. ASSUME NEW s \in Slot, Step(u, [file[u] EXCEPT !.at = "task", !.slot = s])
        PROVE  \E f \in FileType : Step(u, f) /\ UserStep(u, f)
    <3> DEFINE f == [file[u] EXCEPT !.at = "task", !.slot = s]
    <3>1. f \in FileType /\ f.at = "task"
      BY <1>1 DEF FileType
    <3>2. Step(u, f)
      BY <2>5
    <3> HIDE DEF f
    <3> QED
      BY <2>1, <3>1, <3>2 DEF UserStep
  <2> QED
    BY <1>9, <2>2, <2>3, <2>4, <2>5 DEF InitAnalyzer
<1>10. CASE AddTask(u)
  <2> DEFINE p == admin[file[u].slot]
  <2>1. file[u].at = "task" /\ p \in Priv \cup {NULL}
    BY <1>1, <1>10 DEF AddTask, IInv, TypeOK, FileType
  <2>2. CASE Fault(u, "nulladmin") \/ Fault(u, "badslot")
    BY <1>2, <2>1, <2>2 DEF UserStep
  <2>3. CASE p # NULL /\ <<p, file[u].slot>> \notin admins /\ Fault(u, "freedadmin")
    BY <1>2, <2>1, <2>3 DEF UserStep
  <2>4. ASSUME <<p, file[u].slot>> \in admins, NEW container \in {"list", "map"},
               Step(u, [file[u] EXCEPT !.at = container, !.admin = p])
        PROVE  \E f \in FileType : Step(u, f) /\ UserStep(u, f)
    <3> DEFINE f == [file[u] EXCEPT !.at = container, !.admin = p]
    <3>1. f \in FileType /\ f.at = container /\ f.admin = p /\ f.slot = file[u].slot
      BY <1>1, <2>1 DEF FileType
    <3>2. Step(u, f)
      BY <2>4
    <3> HIDE DEF f
    <3> QED
      BY <2>1, <2>4, <3>1, <3>2 DEF UserStep
  <2> QED
    BY <1>10, <2>2, <2>3, <2>4 DEF AddTask
<1>11. ASSUME file[u].at \in {"list", "map"}, Added(u)
       PROVE  \E f \in FileType : Step(u, f) /\ UserStep(u, f)
  <2> DEFINE f == [file[u] EXCEPT !.at = "open", !.slot = 1, !.admin = NULL]
  <2>1. f \in FileType /\ f.at = "open"
    BY <1>1 DEF FileType
  <2>2. Step(u, f)
    BY <1>11 DEF Added
  <2> HIDE DEF f
  <2> QED
    BY <1>11, <2>1, <2>2 DEF UserStep
<1>12. CASE FinishAdd(u)
  <2>1. CASE <<file[u].admin, file[u].slot>> \in admins
    BY <1>11, <1>12, <2>1 DEF FinishAdd
  <2>2. CASE <<file[u].admin, file[u].slot>> \notin admins
    BY <1>2, <1>12, <2>2 DEF FinishAdd, UserStep
  <2> QED
    BY <2>1, <2>2
<1>13. CASE AddWithoutMemory(u)
  BY <1>2, <1>11, <1>13 DEF AddWithoutMemory, UserStep
<1> QED
  BY <1>4, <1>5, <1>6, <1>7, <1>8, <1>9, <1>10, <1>12, <1>13 DEF UserAction, Write

LEMMA UserInv == ASSUME IInv, NEW u \in User, UserAction(u) PROVE IInv'
<1>1. PICK f \in FileType : Step(u, f) /\ UserStep(u, f)
  BY UserStepEffect
<1>2. f.at \in {"list", "map"} => <<f.admin, f.slot>> \in admins
  BY <1>1 DEF UserStep
<1> QED
  BY <1>1, <1>2, FileInv

(***************************************************************************)
(* The theorems                                                            *)
(***************************************************************************)

LEMMA Inductive == Spec => []IInv
<1>1. IInv /\ [Next]_vars => IInv'
  <2> SUFFICES ASSUME IInv, [Next]_vars PROVE IInv'
    OBVIOUS
  <2>1. CASE Next
    BY <2>1, ModulesInv, ProbeInv, RemoveInv, UserInv DEF Next, UserAction
  <2>2. CASE UNCHANGED vars
    BY <2>2 DEF vars, IInv, TypeOK, Phases, KeptIsLeft, CdevsInPlace, Progress, AdminOf,
                BoundIsComplete, FilesInUse, Current
  <2> QED
    BY <2>1, <2>2
<1> QED
  BY InitInv, <1>1, PTL DEF Spec

\* Through all orders of loading, probing, failing, removing and using the
\* device, each variable of plat_driver.c holds what its type allows, and only
\* memory that is not freed has wait queues.
THEOREM TypeCorrect == Spec => []TypeOK
<1>1. IInv => TypeOK
  BY DEF IInv
<1> QED
  BY <1>1, Inductive, PTL

\* Along all error labels of plat_probe the kernel never keeps a character
\* device in a freed pdev_priv, nor one that no cdev_del will take away,
\* except where class_create made plat_probe return at once.
THEOREM CdevsAreBacked == Spec => []CdevBacked
<1>1. IInv => CdevBacked
  <2> SUFFICES ASSUME IInv, NEW p \in ToSet(cdevs)
               PROVE  p \in heap /\ (p \in {bound, core.priv} \/ p \in kept)
    BY DEF CdevBacked
  <2>1. PICK i \in 1 .. Len(cdevs) : p = cdevs[i]
    BY DEF IInv, TypeOK, ToSet
  <2> QED
    BY <2>1 DEF IInv, CdevsInPlace
<1> QED
  BY <1>1, Inductive, PTL

\* A probe that has run to its end has left the device complete, whatever the
\* probes and removes before it did, and nothing takes a part away before
\* plat_remove begins.
THEOREM ProbeCompletes == Spec => []BoundIsComplete
<1>1. IInv => BoundIsComplete
  BY DEF IInv
<1> QED
  BY <1>1, Inductive, PTL

\* On a device whose probe went through, and until plat_remove begins, the file
\* operations of any number of processes find every pointer in place, whichever
\* step of the probe they had come to meanwhile: only memory, an admin or a field
\* that was refused, or slot_num as an address, ends a process.
THEOREM BoundDeviceIsUsable == Spec => BoundIsUsable
<1>1. ASSUME IInv, [Next]_vars, NEW u \in User, Usable,
             file[u].priv = bound \/ file[u].at = "closed", file[u].at \notin Faults
      PROVE  file[u].at' \notin Stale
  <2>1. CASE UNCHANGED file
    BY <1>1, <2>1
  <2>2. CASE \E v \in User : UserAction(v)
    <3>1. PICK v \in User : UserAction(v)
      BY <2>2
    <3>2. PICK f \in FileType : Step(v, f) /\ UserStep(v, f)
      BY <1>1, <3>1, UserStepEffect
    <3>3. file' = [file EXCEPT ![v] = f] /\ file \in [User -> FileType]
      BY <1>1, <3>2 DEF Step, IInv, TypeOK, FileType
    <3>4. CASE v # u
      BY <1>1, <3>3, <3>4
    <3>5. CASE v = u
      <4>1. file'[u] = f /\ file[u] \in FileType
        BY <3>3, <3>5
      <4>2. /\ driver /\ bound \in heap /\ bound \in waitq /\ allocator /\ pfs_p = "ready"
            /\ \A s \in Slot : admin[s] # NULL => <<admin[s], s>> \in admins
        BY <1>1, NullAssumption DEF IInv, TypeOK, Phases, BoundIsComplete
      <4>3. file[u].slot \in Slot
        BY <4>1 DEF FileType
      <4>4. file[u].at \in {"list", "map"} => <<file[u].admin, file[u].slot>> \in admins
        BY <1>1 DEF IInv, FilesInUse, Current
      <4> QED
        BY <1>1, <3>2, <3>5, <4>1, <4>2, <4>3, <4>4 DEF UserStep
    <3> QED
      BY <3>4, <3>5
  <2>3. CASE Modules \/ plat_probe \/ plat_remove
    <3>1. UNCHANGED file
      BY <2>3 DEF Modules, plat_probe, plat_remove, driver_module_init, device_module_init,
         driver_module_exit, device_module_exit, StartRemove, cdev_add, class_create,
         class_device_create, InitWaitqueues, allocator_creator, pfs_create, RegisterFormats,
         CreateAdmin1, CreateAdmin2, ErrorCdevDel, ErrorKfree, Die, DestroyAdmin1, DestroyAdmin2,
         DestroyAdmin, ClassDestroy, RemoveCdevDel, RemoveKfree
    <3> QED
      BY <2>1, <3>1
  <2> QED
    BY <1>1, <2>1, <2>2, <2>3 DEF Next, UserAction, vars
<1>2. IInv /\ [Next]_vars =>
        [\A u \in User :
           Usable /\ (file[u].priv = bound \/ file[u].at = "closed")
                  /\ file[u].at \notin Faults
             => file[u].at' \notin Stale]_vars
  BY <1>1
<1> QED
  BY <1>2, Inductive, PTL DEF Spec, BoundIsUsable
=============================================================================
