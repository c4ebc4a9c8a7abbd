---------------------------- MODULE AtomicInserts ----------------------------
(***************************************************************************)
(* What TaskAdmin takes for granted of llist_push_back: a caller reads the *)
(* end of the list, sleeps, and then puts its node behind what was the end *)
(* in one step.                                                            *)
(***************************************************************************)
CONSTANTS Thread, Node, HEAD, NONE

VARIABLES after,  \* after[c]: the cell behind c in the ring of HEAD and nodes
          end,    \* the cached end
          pos     \* pos[t]: the end that t has read, or NONE

vars == <<after, end, pos>>

Init == /\ after = [c \in {HEAD} |-> HEAD]
        /\ end = HEAD
        /\ pos = [t \in Thread |-> NONE]

Call(t) == /\ pos[t] = NONE
           /\ pos' = [pos EXCEPT ![t] = end]
           /\ UNCHANGED <<after, end>>

\* The ring with n between p and the cell that was behind p.
Behind(p, n) == [c \in DOMAIN after \cup {n} |->
                   IF c = p THEN n ELSE after[IF c = n THEN p ELSE c]]

Insert(t, n) == /\ pos[t] \in DOMAIN after
                /\ n \notin DOMAIN after
                /\ after' = Behind(pos[t], n)
                /\ end' = IF pos[t] = end THEN n ELSE end
                /\ pos' = [pos EXCEPT ![t] = NONE]

\* A caller that gets no memory does not come back.
Die(t) == /\ pos[t] # NONE
          /\ pos' = [pos EXCEPT ![t] = NONE]
          /\ UNCHANGED <<after, end>>

Next == \E t \in Thread : \/ Call(t)
                          \/ \E n \in Node : Insert(t, n)
                          \/ Die(t)

Spec == Init /\ [][Next]_vars
=============================================================================
