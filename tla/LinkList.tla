------------------------------ MODULE LinkList ------------------------------
(***************************************************************************)
(* The doubly linked list of driver/libdata_structure/link_list/           *)
(* link_list.c, pointer by pointer, over the kernel's list_head rings      *)
(* (list_add, list_del of linux/list.h).                                   *)
(*                                                                         *)
(* Several lists share one heap, as the two task lists of a task admin do, *)
(* so that a freed node may come back in another list.  A list and the     *)
(* head cell that llist_init allocates for it have the same name in the    *)
(* model.  list_del poisons the pointers of the entry; using a poisoned    *)
(* pointer is a page fault.                                                *)
(*                                                                         *)
(* `seq' is history: the contents the caller has asked for.  That the      *)
(* pointers realise it is the property (Shape), not an assumption.         *)
(*                                                                         *)
(* Calls on an empty list: llist_pop_*, llist_detach_* unlink the head     *)
(* cell itself ("not consider llist is null", link_list.c:180); keeping    *)
(* away from that is the caller's part here.  UseEndAfterDrain says whether *)
(* the caller also keeps away from llist->end once a list has been emptied. *)
(***************************************************************************)
EXTENDS Integers, Sequences, FiniteSets, SequencesExt

CONSTANTS List,              \* the lists; also their head cells
          Node,              \* the addresses kmalloc can return for a list_t
          POISON,            \* LIST_POISON1 and LIST_POISON2
          UseEndAfterDrain   \* may push_back and friends follow a drain?

ASSUME CellAssumption == /\ List \cap Node = {}
                         /\ POISON \notin List \cup Node
ASSUME UseEndAssumption == UseEndAfterDrain \in BOOLEAN

VARIABLES status,     \* status[l]: "none", "ready" or "destroying"
          next, prev, \* the two pointers of every cell
          begin, end, \* llist->begin, llist->end
          count,      \* llist->list_count
          heap,       \* nodes allocated and not freed
          cursor,     \* the loop running on each list, with its history
          seq,        \* history: what the caller has put into the list
          drained,    \* history: the list was emptied since llist_init
          crash       \* "no", or how the kernel oopsed

pointers == <<next, prev, begin, end, count>>
vars == <<status, pointers, heap, cursor, seq, drained, crash>>

Cell == List \cup Node

Idle == [at |-> "idle", pos |-> POISON, next |-> POISON, due |-> {},
         visited |-> {}, again |-> FALSE]

TypeOK == /\ status \in [List -> {"none", "ready", "destroying"}]
          /\ next \in [Cell -> Cell \cup {POISON}]
          /\ prev \in [Cell -> Cell \cup {POISON}]
          /\ begin \in [List -> Cell]
          /\ end \in [List -> Cell]
          /\ count \in [List -> Nat]
          /\ heap \subseteq Node
          /\ seq \in [List -> Seq(Node)]
          /\ drained \in [List -> BOOLEAN]
          /\ crash \in {"no", "nomem", "dangling", "poison"}
          /\ cursor \in [List -> [at : {"idle", "func", "next", "dangling",
                                        "done", "destroy"},
                                  pos : Cell \cup {POISON},
                                  next : Cell \cup {POISON},
                                  due : SUBSET Node, visited : SUBSET Node,
                                  again : BOOLEAN]]

Running(l) == crash = "no" /\ status[l] = "ready"

Crash(how) == /\ crash' = how
              /\ UNCHANGED <<status, pointers, heap, cursor, seq, drained>>

(***************************************************************************)
(* The kernel's ring                                                       *)
(***************************************************************************)

\* list_add: link n behind pos.
list_add(n, pos) ==
    /\ next' = [next EXCEPT ![n] = next[pos], ![pos] = n]
    /\ prev' = [prev EXCEPT ![next[pos]] = n, ![n] = pos]

\* list_del: unlink pos and poison it.
list_del(pos) ==
    /\ next' = [next EXCEPT ![prev[pos]] = next[pos], ![pos] = POISON]
    /\ prev' = [prev EXCEPT ![next[pos]] = prev[pos], ![pos] = POISON]

(***************************************************************************)
(* llist_create and llist_init                                             *)
(***************************************************************************)

Init == /\ status = [l \in List |-> "none"]
        /\ next = [c \in Cell |-> POISON]
        /\ prev = [c \in Cell |-> POISON]
        /\ begin = [l \in List |-> l]
        /\ end = [l \in List |-> l]
        /\ count = [l \in List |-> 0]
        /\ heap = {}
        /\ cursor = [l \in List |-> Idle]
        /\ seq = [l \in List |-> <<>>]
        /\ drained = [l \in List |-> FALSE]
        /\ crash = "no"

llist_init(l) == /\ crash = "no"
                 /\ status[l] = "none"
                 /\ status' = [status EXCEPT ![l] = "ready"]
                 /\ next' = [next EXCEPT ![l] = l]
                 /\ prev' = [prev EXCEPT ![l] = l]
                 /\ begin' = [begin EXCEPT ![l] = l]
                 /\ end' = [end EXCEPT ![l] = l]
                 /\ count' = [count EXCEPT ![l] = 0]
                 /\ seq' = [seq EXCEPT ![l] = <<>>]
                 /\ drained' = [drained EXCEPT ![l] = FALSE]
                 /\ cursor' = [cursor EXCEPT ![l] = Idle]
                 /\ UNCHANGED <<heap, crash>>

\* llist_create, llist_init and llist_insert write through the pointer that
\* the allocator returned, whether or not it is NULL.
NoMem(l) == /\ crash = "no"
            /\ status[l] \in {"none", "ready"}
            /\ Crash("nomem")

(***************************************************************************)
(* llist_insert: the new node n behind pos.  `s' is the contents that the  *)
(* caller expects from it.                                                 *)
(***************************************************************************)

\* Mutant of llist_insert: begin is left alone.
InsertKeepsBegin(l, pos, n, s) ==
    /\ Running(l)
    /\ n \in Node \ heap
    /\ IF next[pos] = POISON
       THEN Crash("poison")
       ELSE /\ list_add(n, pos)
            /\ end' = [end EXCEPT ![l] = IF pos = end[l] THEN n ELSE @]
            /\ count' = [count EXCEPT ![l] = @ + 1]
            /\ heap' = heap \cup {n}
            /\ seq' = [seq EXCEPT ![l] = s]
            /\ UNCHANGED <<status, begin, cursor, drained, crash>>

\* Mutant of llist_insert: end is left alone.
InsertKeepsEnd(l, pos, n, s) ==
    /\ Running(l)
    /\ n \in Node \ heap
    /\ IF next[pos] = POISON
       THEN Crash("poison")
       ELSE /\ list_add(n, pos)
            /\ begin' = [begin EXCEPT ![l] = IF pos = l THEN n ELSE @]
            /\ count' = [count EXCEPT ![l] = @ + 1]
            /\ heap' = heap \cup {n}
            /\ seq' = [seq EXCEPT ![l] = s]
            /\ UNCHANGED <<status, end, cursor, drained, crash>>

llist_insert(l, pos, n, s) ==
    /\ Running(l)
    /\ n \in Node \ heap
    /\ IF next[pos] = POISON
       THEN Crash("poison")
       ELSE /\ list_add(n, pos)
            /\ begin' = [begin EXCEPT ![l] = IF pos = l THEN n ELSE @]
            /\ end' = [end EXCEPT ![l] = IF pos = end[l] THEN n ELSE @]
            /\ count' = [count EXCEPT ![l] = @ + 1]
            /\ heap' = heap \cup {n}
            /\ seq' = [seq EXCEPT ![l] = s]
            /\ UNCHANGED <<status, cursor, drained, crash>>

\* May the caller use llist->end?
EndUsable(l) == ~drained[l] \/ UseEndAfterDrain

llist_push_front(l, n) == llist_insert(l, l, n, <<n>> \o seq[l])

llist_push_back(l, n) == /\ EndUsable(l)
                         /\ llist_insert(l, end[l], n, Append(seq[l], n))

InsertBehind(l, i, n) ==
    llist_insert(l, seq[l][i], n, InsertAt(seq[l], i + 1, n))

(***************************************************************************)
(* llist_delete and llist_detach of the node at pos, the i-th of the list; *)
(* only llist_delete frees it.                                             *)
(***************************************************************************)

\* What the removal of n means for a loop that stands at it or has saved it.
Undercut(c, n) ==
    [c EXCEPT !.due = @ \ {n}, !.visited = @ \ {n},
              !.at = IF (c.next = n /\ @ \in {"func", "next"})
                        \/ (c.pos = n /\ @ = "func")
                     THEN "dangling" ELSE @]

\* Mutant of Unlink: the count goes down twice.
UnlinkCountsTwice(l, pos, i) ==
    IF POISON \in {next[pos], prev[pos]}
    THEN Crash("poison")
    ELSE /\ begin' = [begin EXCEPT ![l] = IF pos = begin[l] THEN next[pos] ELSE @]
         /\ end' = [end EXCEPT ![l] = IF pos # begin[l] /\ pos = end[l]
                                      THEN prev[pos] ELSE @]
         /\ list_del(pos)
         /\ count' = [count EXCEPT ![l] = @ - 2]
         /\ seq' = [seq EXCEPT ![l] = RemoveAt(@, i)]
         /\ drained' = [drained EXCEPT ![l] = @ \/ Len(seq[l]) = 1]
         /\ UNCHANGED <<status, crash>>

Unlink(l, pos, i) ==
    IF POISON \in {next[pos], prev[pos]}
    THEN Crash("poison")
    ELSE /\ begin' = [begin EXCEPT ![l] = IF pos = begin[l] THEN next[pos] ELSE @]
         /\ end' = [end EXCEPT ![l] = IF pos # begin[l] /\ pos = end[l]
                                      THEN prev[pos] ELSE @]
         /\ list_del(pos)
         /\ count' = [count EXCEPT ![l] = @ - 1]
         /\ seq' = [seq EXCEPT ![l] = RemoveAt(@, i)]
         /\ drained' = [drained EXCEPT ![l] = @ \/ Len(seq[l]) = 1]
         /\ UNCHANGED <<status, crash>>

\* Mutant of llist_delete: the successor is freed.
DeleteFreesNext(l, pos, i) ==
    /\ Unlink(l, pos, i)
    /\ heap' = IF crash' = "no" THEN heap \ {next[pos]} ELSE heap

llist_delete(l, pos, i) ==
    /\ Unlink(l, pos, i)
    /\ heap' = IF crash' = "no" THEN heap \ {pos} ELSE heap

llist_detach(l, pos, i) == Unlink(l, pos, i) /\ UNCHANGED heap

\* The positions a caller can name: the front, the back, and any it has
\* reached by walking.
TakeOut(l, pos, i) ==
    /\ Running(l)
    /\ \/ llist_delete(l, pos, i)
       \/ llist_detach(l, pos, i)
    /\ cursor' = IF crash' = "no" THEN [cursor EXCEPT ![l] = Undercut(@, pos)]
                 ELSE cursor

PopFront(l) == seq[l] # <<>> /\ TakeOut(l, begin[l], 1)

PopBack(l) == /\ seq[l] # <<>>
              /\ EndUsable(l)
              /\ TakeOut(l, end[l], Len(seq[l]))

RemoveAny(l, i) == TakeOut(l, seq[l][i], i)

(***************************************************************************)
(* llist_for_each: the successor is saved before func runs, so func may    *)
(* remove the node it is called on, but not the one after it.              *)
(***************************************************************************)

SetCursor(l, c) == /\ cursor' = [cursor EXCEPT ![l] = c]
                   /\ UNCHANGED <<status, pointers, heap, seq, drained, crash>>

\* Mutant of LoopAt: the loop stops at the last node.
LoopAtShort(l, c, p, n) == [c EXCEPT !.pos = p, !.next = n,
                                     !.at = IF p = l \/ n = l THEN "done"
                                            ELSE "func"]

\* The loop head: stop at the list head, otherwise go on with the body.
LoopAt(l, c, p, n) == [c EXCEPT !.pos = p, !.next = n,
                                !.at = IF p = l THEN "done" ELSE "func"]

ForEachStart(l) ==
    /\ Running(l)
    /\ cursor[l].at \in {"idle", "done"}
    /\ SetCursor(l, LoopAt(l, [Idle EXCEPT !.due = ToSet(seq[l])],
                           begin[l], next[begin[l]]))

ForEachFunc(l) ==
    LET c == cursor[l] IN
    /\ Running(l)
    /\ c.at = "func"
    /\ SetCursor(l, [c EXCEPT !.at = "next", !.due = @ \ {c.pos},
                              !.visited = @ \cup {c.pos},
                              !.again = @ \/ c.pos \in c.visited])

ForEachNext(l) ==
    LET c == cursor[l] IN
    /\ Running(l)
    /\ c.at = "next"
    /\ SetCursor(l, LoopAt(l, c, c.next, next[c.next]))

\* The loop reads a node that was taken away: nothing is known after that.
ForEachDangling(l) == /\ Running(l)
                      /\ cursor[l].at = "dangling"
                      /\ Crash("dangling")

(***************************************************************************)
(* llist_destroy                                                           *)
(***************************************************************************)

DestroyStart(l) ==
    /\ Running(l)
    /\ cursor[l].at \in {"idle", "done"}
    /\ status' = [status EXCEPT ![l] = "destroying"]
    /\ cursor' = [cursor EXCEPT ![l] = [Idle EXCEPT !.at = "destroy",
                                                    !.pos = begin[l],
                                                    !.next = next[begin[l]]]]
    /\ UNCHANGED <<pointers, heap, seq, drained, crash>>

\* Mutant of DestroyStep: the loop does not advance.
DestroyStepStays(l) ==
    LET c == cursor[l] IN
    /\ crash = "no"
    /\ status[l] = "destroying"
    /\ c.pos # l
    /\ llist_delete(l, c.pos, 1)
    /\ UNCHANGED cursor

DestroyStep(l) ==
    LET c == cursor[l] IN
    /\ crash = "no"
    /\ status[l] = "destroying"
    /\ c.pos # l
    /\ llist_delete(l, c.pos, 1)
    /\ cursor' = IF crash' # "no" THEN cursor
                 ELSE [cursor EXCEPT ![l].pos = c.next,
                                     ![l].next = next'[c.next]]

\* Mutant of DestroyEnd: emptiness is read off llist->end.
DestroyEndByEnd(l) == /\ crash = "no"
                      /\ status[l] = "destroying"
                      /\ cursor[l].pos = l
                      /\ status' = [status EXCEPT ![l] = IF end[l] = l THEN "none"
                                                         ELSE "ready"]
                      /\ cursor' = [cursor EXCEPT ![l] = Idle]
                      /\ UNCHANGED <<pointers, heap, seq, drained, crash>>

\* The head is freed only when begin says that the list is empty.
DestroyEnd(l) == /\ crash = "no"
                 /\ status[l] = "destroying"
                 /\ cursor[l].pos = l
                 /\ status' = [status EXCEPT ![l] = IF begin[l] = l THEN "none"
                                                    ELSE "ready"]
                 /\ cursor' = [cursor EXCEPT ![l] = Idle]
                 /\ UNCHANGED <<pointers, heap, seq, drained, crash>>

\* After a kernel oops the caller does not run on.
Halt == crash # "no" /\ UNCHANGED vars

Insert(l) == \E n \in Node : \/ llist_push_front(l, n)
                             \/ llist_push_back(l, n)
                             \/ \E i \in DOMAIN seq[l] : InsertBehind(l, i, n)

RemoveOne(l) == \/ PopFront(l)
                \/ PopBack(l)
                \/ \E i \in DOMAIN seq[l] : RemoveAny(l, i)

ForEach(l) == \/ ForEachStart(l) \/ ForEachFunc(l) \/ ForEachNext(l)
              \/ ForEachDangling(l)

Destroy(l) == DestroyStart(l) \/ DestroyStep(l) \/ DestroyEnd(l)

Next == \/ \E l \in List : \/ llist_init(l) \/ NoMem(l) \/ Insert(l)
                           \/ RemoveOne(l) \/ ForEach(l) \/ Destroy(l)
        \/ Halt

\* The destroy loop belongs to a thread that is not blocked by anything.
Fairness == \A l \in List : WF_vars(DestroyStep(l)) /\ WF_vars(DestroyEnd(l))

Spec == Init /\ [][Next]_vars /\ Fairness

(***************************************************************************)
(* Properties                                                              *)
(***************************************************************************)

\* The i-th cell of the ring of l, counting the head as cell 0.
CellAt(l, i) == IF i = 0 \/ i > Len(seq[l]) THEN l ELSE seq[l][i]

\* Through all the pointer surgery of insert, delete, detach and destroy,
\* on lists that trade nodes with each other through the allocator, the ring
\* read in either direction is exactly what was put in, and begin and
\* list_count agree with it.
Shape ==
    \A l \in List : crash = "no" /\ status[l] # "none" =>
      /\ \A i \in 0 .. Len(seq[l]) : /\ next[CellAt(l, i)] = CellAt(l, i + 1)
                                     /\ prev[CellAt(l, i + 1)] = CellAt(l, i)
      /\ begin[l] = CellAt(l, 1)
      /\ count[l] = Len(seq[l])

\* No node is in two lists, twice in one, or in a list after it was freed.
Separation ==
    /\ \A l \in List : ToSet(seq[l]) \subseteq heap /\ IsInjective(seq[l])
    /\ \A l, m \in List : l # m => ToSet(seq[l]) \cap ToSet(seq[m]) = {}

\* llist->end is the last node as long as the list was never emptied.
EndIsLast ==
    \A l \in List : crash = "no" /\ status[l] # "none" /\ ~drained[l] =>
      end[l] = CellAt(l, Len(seq[l]))

\* No operation follows a pointer of an entry that was taken off its list.
NoPoison == crash # "poison"

\* llist_for_each hands every node that stays in the list to func, and none
\* twice, although func may remove the very node it is given.
WalkComplete == \A l \in List : /\ ~cursor[l].again
                                /\ cursor[l].at = "done" => cursor[l].due = {}

\* The loop of llist_destroy always comes to its end.
DestroyTerminates ==
    \A l \in List : status[l] = "destroying" ~> status[l] = "none" \/ crash # "no"
=============================================================================
