----------------------------- MODULE ListWriters -----------------------------
(***************************************************************************)
(* Several threads in llist_push_back (link_list.c) of one list, one       *)
(* pointer access at a time, under the stub locks of                       *)
(* driver/libcre/sync_lock/sync_lock.c.                                    *)
(*                                                                         *)
(* Cpus is the number of processors.  The kernel has no preemption: a      *)
(* thread that has left its allocation keeps its processor until           *)
(* llist_insert returns, so at most Cpus threads are in that part.         *)
(***************************************************************************)
EXTENDS Integers, Sequences, FiniteSets

CONSTANTS Thread, Node, HEAD, NONE, Cpus

ASSUME CpusAssumption == Cpus \in Nat \ {0}
ASSUME HeadAssumption == HEAD \notin Node /\ NONE \notin Node \cup {HEAD}

VARIABLES next, prev, \* the ring
          begin, end, \* llist->begin, llist->end
          count,      \* llist->list_count
          heap,       \* the nodes that were allocated
          thread      \* thread[t]: where it is, and its local variables

ring == <<next, prev>>
vars == <<ring, begin, end, count, heap, thread>>

Cell == Node \cup {HEAD}
Idle == [at |-> "idle", pos |-> NONE, next |-> NONE, node |-> NONE]

\* The part of llist_insert behind the allocation.
Linking == {"sync_lock", "read", "next->prev", "new->next", "new->prev",
            "prev->next", "begin", "end", "count", "sync_unlock"}

Running == {t \in Thread : thread[t].at \in Linking}

TypeOK == /\ next \in [Cell -> Cell \cup {NONE}]
          /\ prev \in [Cell -> Cell \cup {NONE}]
          /\ begin \in Cell /\ end \in Cell
          /\ count \in 0 .. Cardinality(Node)
          /\ heap \subseteq Node
          /\ thread \in [Thread -> [at : {"idle", "alloc", "dead"} \cup Linking,
                                    pos : Cell \cup {NONE},
                                    next : Cell \cup {NONE},
                                    node : Node \cup {NONE}]]
          /\ Cardinality(Running) <= Cpus

Init == /\ next = [c \in Cell |-> IF c = HEAD THEN HEAD ELSE NONE]
        /\ prev = [c \in Cell |-> IF c = HEAD THEN HEAD ELSE NONE]
        /\ begin = HEAD /\ end = HEAD
        /\ count = 0
        /\ heap = {}
        /\ thread = [t \in Thread |-> Idle]

At(t, where) == thread[t].at = where
Goto(t, where) == thread' = [thread EXCEPT ![t].at = where]

(***************************************************************************)
(* Before the ring is touched                                              *)
(***************************************************************************)

\* llist_push_back copies llist->end and asks for memory, which may sleep.
llist_push_back(t) ==
    /\ At(t, "idle")
    /\ Cardinality(Running) < Cpus
    /\ thread' = [thread EXCEPT ![t].at = "alloc", ![t].pos = end]
    /\ UNCHANGED <<ring, begin, end, count, heap>>

\* The thread gets a node and a processor, or a NULL pointer that it copies to.
allocator_mem_alloc(t) ==
    /\ At(t, "alloc")
    /\ Cardinality(Running) < Cpus
    /\ \/ \E n \in Node \ heap :
            /\ heap' = heap \cup {n}
            /\ thread' = [thread EXCEPT ![t].at = "sync_lock", ![t].node = n]
       \/ /\ thread' = [thread EXCEPT ![t] = [Idle EXCEPT !.at = "dead"]]
          /\ UNCHANGED heap
    /\ UNCHANGED <<ring, begin, end, count>>

\* sync_lock returns 0 and excludes nobody.
sync_lock(t) == /\ At(t, "sync_lock")
                /\ Goto(t, "read")
                /\ UNCHANGED <<ring, begin, end, count, heap>>

(***************************************************************************)
(* list_add(&p->list_head, pos.list_head_p)                                *)
(***************************************************************************)

\* list_add reads head->next to pass it on.
ReadNext(t) ==
    /\ At(t, "read")
    /\ thread' = [thread EXCEPT ![t].at = "next->prev",
                                ![t].next = next[thread[t].pos]]
    /\ UNCHANGED <<ring, begin, end, count, heap>>

WriteNextPrev(t) ==
    /\ At(t, "next->prev")
    /\ prev' = [prev EXCEPT ![thread[t].next] = thread[t].node]
    /\ Goto(t, "new->next")
    /\ UNCHANGED <<next, begin, end, count, heap>>

WriteNewNext(t) ==
    /\ At(t, "new->next")
    /\ next' = [next EXCEPT ![thread[t].node] = thread[t].next]
    /\ Goto(t, "new->prev")
    /\ UNCHANGED <<prev, begin, end, count, heap>>

\* Mutant of WriteNewPrev: new->prev is taken from next->prev, which is new by
\* now.
NewPrevFromNext(t) ==
    /\ At(t, "new->prev")
    /\ prev' = [prev EXCEPT ![thread[t].node] = prev[thread[t].next]]
    /\ Goto(t, "prev->next")
    /\ UNCHANGED <<next, begin, end, count, heap>>

WriteNewPrev(t) ==
    /\ At(t, "new->prev")
    /\ prev' = [prev EXCEPT ![thread[t].node] = thread[t].pos]
    /\ Goto(t, "prev->next")
    /\ UNCHANGED <<next, begin, end, count, heap>>

\* Mutant of WritePrevNext: the node is linked behind llist->end as it is now,
\* not behind the position it was prepared for.
LinkBehindEnd(t) ==
    /\ At(t, "prev->next")
    /\ next' = [next EXCEPT ![end] = thread[t].node]
    /\ Goto(t, "begin")
    /\ UNCHANGED <<prev, begin, end, count, heap>>

WritePrevNext(t) ==
    /\ At(t, "prev->next")
    /\ next' = [next EXCEPT ![thread[t].pos] = thread[t].node]
    /\ Goto(t, "begin")
    /\ UNCHANGED <<prev, begin, end, count, heap>>

(***************************************************************************)
(* The cached ends and the count                                           *)
(***************************************************************************)

UpdateBegin(t) ==
    /\ At(t, "begin")
    /\ begin' = IF thread[t].pos = HEAD THEN thread[t].node ELSE begin
    /\ Goto(t, "end")
    /\ UNCHANGED <<ring, end, count, heap>>

UpdateEnd(t) ==
    /\ At(t, "end")
    /\ end' = IF thread[t].pos = end THEN thread[t].node ELSE end
    /\ Goto(t, "count")
    /\ UNCHANGED <<ring, begin, count, heap>>

UpdateCount(t) ==
    /\ At(t, "count")
    /\ count' = count + 1
    /\ Goto(t, "sync_unlock")
    /\ UNCHANGED <<ring, begin, end, heap>>

sync_unlock(t) ==
    /\ At(t, "sync_unlock")
    /\ thread' = [thread EXCEPT ![t] = Idle]
    /\ UNCHANGED <<ring, begin, end, count, heap>>

llist_insert(t) == \/ allocator_mem_alloc(t) \/ sync_lock(t) \/ ReadNext(t)
                   \/ WriteNextPrev(t) \/ WriteNewNext(t) \/ WriteNewPrev(t)
                   \/ WritePrevNext(t) \/ UpdateBegin(t) \/ UpdateEnd(t)
                   \/ UpdateCount(t) \/ sync_unlock(t)

Next == \E t \in Thread : llist_push_back(t) \/ llist_insert(t)

Spec == Init /\ [][Next]_vars

(***************************************************************************)
(* Properties                                                              *)
(***************************************************************************)

\* The cells that are reached from c in k steps of f.
Reach(f, c) ==
    LET step[k \in 0 .. Cardinality(Cell)] ==
          IF k = 0 THEN {c}
          ELSE step[k - 1] \cup {f[x] : x \in step[k - 1] \ {NONE}}
    IN  step[Cardinality(Cell)]

\* Whenever nobody is in llist_insert, all nodes that were ever pushed are on
\* one ring that reads the same in both directions, and begin, end and the
\* count are its first node, its last node and its size.
NothingLost ==
    Running = {} =>
      /\ Reach(next, HEAD) = heap \cup {HEAD}
      /\ Reach(prev, HEAD) = heap \cup {HEAD}
      /\ \A c \in heap \cup {HEAD} : prev[next[c]] = c
      /\ begin = next[HEAD] /\ end = prev[HEAD]
      /\ count = Cardinality(heap)

(***************************************************************************)
(* Refinement of AtomicInserts                                             *)
(***************************************************************************)

\* The places in llist_insert where the new node is not on the ring.
Early == {"sync_lock", "read", "next->prev", "new->next", "new->prev", "prev->next"}

\* The cells on the ring.
Linked == {HEAD} \cup {n \in heap : \A t \in Thread : thread[t].at \in Early
                                                       => thread[t].node # n}

After == [c \in Linked |-> next[c]]

\* The threads whose node will be the end once they have updated it.
Ending == {t \in Thread : thread[t].at \in {"begin", "end"} /\ thread[t].pos = end}

\* The insertion happens with the write to prev->next: from then on the node
\* is on the ring, and what the thread still has to do to the end is done.
EndToBe == IF Ending = {} THEN end ELSE thread[CHOOSE t \in Ending : TRUE].node

PosRead == [t \in Thread |-> IF thread[t].at \in Early \cup {"alloc"}
                             THEN thread[t].pos ELSE NONE]

Atomic == INSTANCE AtomicInserts WITH after <- After, end <- EndToBe, pos <- PosRead

\* On one processor llist_push_back inserts in one step behind the end that it
\* read before its allocation, which is how TaskAdmin models it.
ImplementsAtomicInserts == Atomic!Spec
=============================================================================
