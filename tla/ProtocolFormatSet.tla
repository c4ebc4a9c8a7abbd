-------------------------- MODULE ProtocolFormatSet --------------------------
(***************************************************************************)
(* The format set of driver/libproto_analyzer/protocol_format_set.c: how   *)
(* the probe creates it and registers the formats, how the analyzers of    *)
(* the device's writers look formats up and copy them meanwhile, and how   *)
(* the set is destroyed.                                                   *)
(*                                                                         *)
(* The registrar is the thread in plat_probe; the writers run from         *)
(* cdev_add on, on other processors or while memory is found.  Nothing     *)
(* locks the set: what protects a writer is the order of the registrar's   *)
(* assignments.  The driver never destroys its set, the test programs do,  *)
(* in one thread and when no analyzer is being created.                    *)
(*                                                                         *)
(* The array of list heads is a function on the indexes of its heads that  *)
(* are not NULL.  A head cell is named after the place in `Order' of the   *)
(* format it was made for.                                                 *)
(***************************************************************************)
EXTENDS Integers, Sequences, FiniteSets, SequencesExt

CONSTANTS Writer,         \* threads that create analyzers
          Base,           \* proto_base_addr
          MaxNum,         \* proto_max_num
          MaxProtocolNum, \* MAX_PROTOCOL_NUM of pfs_add_proto_link_list
          Formats,        \* protocol number -> names of its fields
          Order,          \* the numbers in the order of their registration
          Wanted,         \* the numbers that analyzers are created for
          MaxLost         \* bound: field allocations that fail

ASSUME SetAssumption == /\ Base \in Nat /\ MaxNum \in Nat \ {0}
                        /\ MaxProtocolNum \in Nat /\ MaxLost \in Nat
ASSUME OrderAssumption == /\ Order \in Seq(DOMAIN Formats)
                          /\ IsInjective(Order)
                          /\ \A p \in DOMAIN Formats : p >= Base
ASSUME FormatsAssumption == /\ DOMAIN Formats \subseteq Nat /\ Wanted \subseteq Nat
                            /\ \A p \in DOMAIN Formats : Formats[p] \in Seq(STRING) \ {<<>>}

VARIABLES pfs,     \* the protocol_format_set_t
          array,   \* list_head_p2: index -> head, for the heads not NULL
          lists,   \* head -> its fields, for the heads that are not freed
          reg,     \* the registrar: its step, format and field
          writer,  \* writer[w]: [at, num, src, copy]
          lost,    \* history: <<number, position>> of fields without memory
          astray   \* history: what was accessed without being part of the set

vars == <<pfs, array, lists, reg, writer, lost, astray>>

NoSet == [base |-> 0, max |-> 0, mem |-> "null"]

Idle == [at |-> "idle", num |-> Base, src |-> 0, copy |-> <<>>]

\* The function f with x mapped to e, and without x.
With(f, x, e) == [y \in DOMAIN f \cup {x} |-> IF y = x THEN e ELSE f[y]]
Without(f, x) == [y \in DOMAIN f \ {x} |-> f[y]]

Heads == DOMAIN Order
Index(num) == num - Base

TypeOK ==
    /\ pfs \in [base : {0, Base}, max : {0, MaxNum},
                mem : {"null", "raw", "zeroed", "freed"}]
    /\ DOMAIN array \subseteq 0 .. MaxNum - 1
    /\ \A i \in DOMAIN array : array[i] \in Heads
    /\ DOMAIN lists \subseteq Heads
    /\ \A h \in DOMAIN lists : Len(lists[h]) <= Len(Formats[Order[h]])
    /\ reg \in [at : {"base", "array", "memset", "max", "head", "field", "add",
                      "done", "destroy", "gone", "dead"},
                h : 0 .. Len(Order) + 1, n : Nat]
    /\ \A w \in Writer :
         /\ writer[w].at \in {"idle", "read", "copy", "ready", "failed", "fault"}
         /\ writer[w].num \in Wanted \cup {Base}
         /\ writer[w].src \in Heads \cup {0}
    /\ Cardinality(lost) <= MaxLost
    /\ astray \subseteq {"beyond", "raw", "null", "freed"}

\* pfs_create_proto_format_set is through: the struct is zero.
Init == /\ pfs = NoSet
        /\ array = <<>> /\ lists = <<>>
        /\ reg = [at |-> "base", h |-> 0, n |-> 0]
        /\ writer = [w \in Writer |-> Idle]
        /\ lost = {} /\ astray = {}

Goto(step) == reg' = [reg EXCEPT !.at = step]

(***************************************************************************)
(* init_proto_format_set                                                   *)
(***************************************************************************)

SetBase == /\ reg.at = "base"
           /\ pfs' = [pfs EXCEPT !.base = Base]
           /\ Goto("array")
           /\ UNCHANGED <<array, lists, writer, lost, astray>>

\* A failed allocation is an oops in memset.
AllocArray == /\ reg.at = "array"
              /\ \/ /\ pfs' = [pfs EXCEPT !.mem = "raw"]
                    /\ Goto("memset")
                 \/ /\ Goto("dead")
                    /\ UNCHANGED pfs
              /\ UNCHANGED <<array, lists, writer, lost, astray>>

\* Mutant of ZeroArray: the size is set before the array is cleared.
MaxBeforeZero == /\ reg.at = "memset"
                 /\ pfs' = [pfs EXCEPT !.max = MaxNum, !.mem = IF @ = "raw" /\ pfs.max = 0
                                                              THEN "raw" ELSE "zeroed"]
                 /\ Goto(IF pfs.max = 0 THEN "memset" ELSE "max")
                 /\ UNCHANGED <<array, lists, writer, lost, astray>>

ZeroArray == /\ reg.at = "memset"
             /\ pfs' = [pfs EXCEPT !.mem = "zeroed"]
             /\ Goto("max")
             /\ UNCHANGED <<array, lists, writer, lost, astray>>

NextFormat(h) == reg' = [at |-> IF h = Len(Order) THEN "done" ELSE "head",
                         h |-> h + 1, n |-> 0]

SetMax == /\ reg.at = "max"
          /\ pfs' = [pfs EXCEPT !.max = MaxNum]
          /\ NextFormat(0)
          /\ UNCHANGED <<array, lists, writer, lost, astray>>

(***************************************************************************)
(* pfs_set_pdt_drv_proto_format: one format after the other                *)
(***************************************************************************)

\* Mutant of pfs_create_head_list: the list is entered before it has fields.
EnterFirst ==
    /\ reg.at = "head"
    /\ lists' = With(lists, reg.h, <<>>)
    /\ array' = With(array, Index(Order[reg.h]), reg.h)
    /\ reg' = [reg EXCEPT !.at = "field", !.n = 1]
    /\ UNCHANGED <<pfs, writer, lost, astray>>

\* pfs_create_head_list and pfs_init_head_list; a failure is an oops.
pfs_create_head_list ==
    /\ reg.at = "head"
    /\ \/ /\ lists' = With(lists, reg.h, <<>>)
          /\ reg' = [reg EXCEPT !.at = "field", !.n = 1]
       \/ /\ Goto("dead")
          /\ UNCHANGED lists
    /\ UNCHANGED <<pfs, array, writer, lost, astray>>

\* pfs_set_proto_info: a field that has no memory is left out, and what the
\* function returns is not looked at.
pfs_set_proto_info ==
    LET num == Order[reg.h]
    IN
    /\ reg.at = "field"
    /\ \/ /\ lists' = [lists EXCEPT ![reg.h] = Append(@, Formats[num][reg.n])]
          /\ UNCHANGED lost
       \/ /\ Cardinality(lost) < MaxLost
          /\ lost' = lost \cup {<<num, reg.n>>}
          /\ UNCHANGED lists
    /\ reg' = IF reg.n = Len(Formats[num]) THEN [reg EXCEPT !.at = "add"]
              ELSE [reg EXCEPT !.n = @ + 1]
    /\ UNCHANGED <<pfs, array, writer, astray>>

\* The list is entered last, complete.  What the index is compared with is not
\* the size of the array.
pfs_add_proto_link_list ==
    LET i == Index(Order[reg.h])
    IN
    /\ reg.at = "add"
    /\ IF i > MaxProtocolNum THEN UNCHANGED <<array, astray>>
       ELSE IF i < MaxNum THEN array' = With(array, i, reg.h) /\ UNCHANGED astray
       ELSE astray' = astray \cup {"beyond"} /\ UNCHANGED array
    /\ NextFormat(reg.h)
    /\ UNCHANGED <<pfs, lists, writer, lost>>

(***************************************************************************)
(* pa_init_protocol_analyzer                                               *)
(***************************************************************************)

SetWriter(w, r) == /\ writer' = [writer EXCEPT ![w] = r]
                   /\ UNCHANGED <<pfs, array, lists, reg, lost>>

\* pa_check_protocol_num of pa_find_protocol_format: base and maximum are read
\* before the array is.
pa_check_protocol_num(w, num) ==
    /\ writer[w].at = "idle"
    /\ reg.at \notin {"destroy", "gone"}
    /\ SetWriter(w, [Idle EXCEPT !.num = num,
                                 !.at = IF num > pfs.base + pfs.max \/ num < pfs.base
                                        THEN "failed" ELSE "read"])
    /\ UNCHANGED astray

\* The rest of pa_find_protocol_format.  What lies beyond the array, or was in
\* it before memset, is no list.
pa_find_protocol_format(w) ==
    LET i == writer[w].num - pfs.base
        wrong == IF pfs.mem # "zeroed" THEN {pfs.mem}
                 ELSE IF i >= MaxNum THEN {"beyond"} ELSE {}
    IN
    /\ writer[w].at = "read"
    /\ SetWriter(w, IF wrong # {} THEN [writer[w] EXCEPT !.at = "fault"]
                    ELSE IF i \in DOMAIN array
                    THEN [writer[w] EXCEPT !.at = "copy", !.src = array[i]]
                    ELSE [writer[w] EXCEPT !.at = "failed"])
    /\ astray' = astray \cup wrong

\* One iteration of the loop of pa_copy_protocol_format, or its end.  A failed
\* allocation is an oops.
pa_copy_protocol_format(w) ==
    LET r == writer[w]
        n == Len(r.copy) + 1
    IN
    /\ r.at = "copy"
    /\ IF r.src \notin DOMAIN lists
       THEN SetWriter(w, [r EXCEPT !.at = "fault"]) /\ astray' = astray \cup {"freed"}
       ELSE /\ \/ SetWriter(w, IF n > Len(lists[r.src]) THEN [r EXCEPT !.at = "ready"]
                               ELSE [r EXCEPT !.copy = Append(@, lists[r.src][n])])
               \/ SetWriter(w, [r EXCEPT !.at = "fault"])
            /\ UNCHANGED astray

\* The analyzer's list is given back.  (What becomes of an analyzer without a
\* format is its owner's affair: PlatDriver.)
pa_destroy_protocol_analyzer(w) ==
    /\ writer[w].at = "ready"
    /\ SetWriter(w, Idle)
    /\ UNCHANGED astray

(***************************************************************************)
(* pfs_destroy_protocol_format_set                                         *)
(***************************************************************************)

DestroyStart ==
    /\ reg.at = "done"
    /\ \A w \in Writer : writer[w].at \notin {"read", "copy"}
    /\ reg' = [at |-> "destroy", h |-> 0, n |-> 0]
    /\ UNCHANGED <<pfs, array, lists, writer, lost, astray>>

\* Mutant of pfs_del_list_for_each: the head cell is not released.
KeepHeadCell(h) == lists' = [lists EXCEPT ![h] = <<>>]

\* Every field and the head cell are freed.
pfs_del_list_for_each(h) == lists' = Without(lists, h)

\* Mutant of DestroyIndex: the loop only advances past heads that are NULL.
StayAtHead == /\ reg.at = "destroy" /\ reg.n < pfs.max
              /\ IF reg.n \in DOMAIN array
                 THEN UNCHANGED <<array, lists, reg>>
                 ELSE /\ UNCHANGED <<array, lists>>
                      /\ reg' = [reg EXCEPT !.n = (@ + 1) % 256]
              /\ UNCHANGED <<pfs, writer, lost, astray>>

\* One iteration; i is a uint8_t, and proto_max_num is not.
DestroyIndex ==
    /\ reg.at = "destroy" /\ reg.n < pfs.max
    /\ IF reg.n \in DOMAIN array
       THEN /\ pfs_del_list_for_each(array[reg.n])
            /\ array' = Without(array, reg.n)
       ELSE UNCHANGED <<array, lists>>
    /\ reg' = [reg EXCEPT !.n = (@ + 1) % 256]
    /\ UNCHANGED <<pfs, writer, lost, astray>>

DestroyEnd == /\ reg.at = "destroy" /\ reg.n >= pfs.max
              /\ pfs' = [pfs EXCEPT !.mem = "freed"]
              /\ Goto("gone")
              /\ UNCHANGED <<array, lists, writer, lost, astray>>

Register == \/ SetBase \/ AllocArray \/ ZeroArray \/ SetMax
            \/ pfs_create_head_list \/ pfs_set_proto_info \/ pfs_add_proto_link_list
Destroy == DestroyIndex \/ DestroyEnd
Use(w) == \/ \E num \in Wanted : pa_check_protocol_num(w, num)
          \/ pa_find_protocol_format(w) \/ pa_copy_protocol_format(w)
          \/ pa_destroy_protocol_analyzer(w)

Next == Register \/ DestroyStart \/ Destroy \/ \E w \in Writer : Use(w)

\* A thread in the destroy loop runs on.
Spec == Init /\ [][Next]_vars /\ WF_vars(Destroy)

-----------------------------------------------------------------------------

\* Registering and looking up stay within what is there: the array is neither
\* written nor read beyond its end, nor read before init_proto_format_set has
\* cleared it, and no freed list is copied -- also when an analyzer is created
\* while the probe registers.
WithinSet == astray = {}

\* An analyzer that has found a format has copied the fields of just that
\* format, all of them in order but those that had no memory when they were
\* registered, at whatever point of the registration it came.
CopyComplete ==
    \A w \in Writer : writer[w].at = "ready" =>
      LET num == writer[w].num
          kept == {n \in DOMAIN Formats[num] : <<num, n>> \notin lost}
      IN  writer[w].copy = [k \in 1 .. Cardinality(kept) |->
                              Formats[num][CHOOSE n \in kept :
                                Cardinality({m \in kept : m <= n}) = k]]

\* When pfs_destroy_protocol_format_set has freed the array, no list that was
\* registered is left in memory.
AllFreed == reg.at = "gone" => lists = <<>>

\* pfs_destroy_protocol_format_set comes to its end.
DestroyTerminates == (reg.at = "destroy") ~> (reg.at = "gone")
=============================================================================
