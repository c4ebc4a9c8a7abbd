------------------------------ MODULE KeyStacks ------------------------------
(***************************************************************************)
(* What the hash map of driver/libdata_structure/hash_map promises to the   *)
(* code that uses it (task_admin.c, protocol_analyzer.c), with no bucket,   *)
(* chain or cursor in sight: every key owns a stack of entries.  A second   *)
(* insert of a key shadows the first one, a search returns the most recent  *)
(* entry that is still there, and deleting the top entry uncovers the one   *)
(* below it.  A stack is the set of its entries and the order in which they *)
(* were pushed.  HashMap implements this module (see its refinement).       *)
(***************************************************************************)
CONSTANTS Node, Key, NULL

VARIABLES open,     \* the map exists and accepts operations
          live,     \* live[k]: the entries of key k
          newer,    \* the pairs <<n, m>> of one key with n pushed after m
          found     \* what the last search returned

vars == <<open, live, newer, found>>

Empty == [k \in Key |-> {}]

Entries == UNION {live[k] : k \in Key}

\* The entry of key k that was pushed last, if there is one.
Top(k) == IF live[k] = {} THEN NULL
          ELSE CHOOSE n \in live[k] :
                 \A m \in live[k] \ {n} : <<n, m>> \in newer

Init == /\ open = FALSE
        /\ live = Empty
        /\ newer = {}
        /\ found = NULL

Open == /\ ~open
        /\ open' = TRUE
        /\ live' = Empty
        /\ newer' = {}
        /\ found' = NULL

Insert(k, n) == /\ open
                /\ n \notin Entries
                /\ live' = [live EXCEPT ![k] = @ \cup {n}]
                /\ newer' = newer \cup ({n} \X live[k])
                /\ UNCHANGED <<open, found>>

Delete(k, n) == /\ open
                /\ live' = [live EXCEPT ![k] = @ \ {n}]
                /\ newer' = {p \in newer : n \notin {p[1], p[2]}}
                /\ UNCHANGED <<open, found>>

Search(k) == /\ open
             /\ found' = Top(k)
             /\ UNCHANGED <<open, live, newer>>

\* A map is given up only once every entry has been deleted.
Close == /\ open
         /\ live = Empty
         /\ open' = FALSE
         /\ UNCHANGED <<live, newer, found>>

Next == \/ Open
        \/ \E k \in Key : \/ \E n \in Node : Insert(k, n)
                          \/ \E n \in live[k] : Delete(k, n)
                          \/ Search(k)
        \/ Close

Spec == Init /\ [][Next]_vars
=============================================================================
