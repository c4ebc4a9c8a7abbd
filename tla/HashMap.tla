------------------------------- MODULE HashMap -------------------------------
(***************************************************************************)
(* The chained hash map of driver/libdata_structure/hash_map/hash_list.c.  *)
(*                                                                         *)
(* A bucket is a singly linked hlist; the model keeps it as the sequence   *)
(* of its nodes, first node first, so that hlist_add_head and hlist_del    *)
(* (linux/list.h) are a cons and a removal.  A position (hash_map_pos_t)   *)
(* is a node and a bucket number; its `hlist' and `hmap' members are the   *)
(* same for every position of one map and are left out.  hmap->end is the  *)
(* constant position (NULL, bucket_size - 1): positions are compared by    *)
(* node only, so "equal to end" means "node is NULL".                      *)
(*                                                                         *)
(* Every call but the two loops is one step: the caller holds the map for  *)
(* the call.  hash_map_for_each and hash_map_destroy are one step per loop *)
(* iteration; for_each takes no lock, so other calls fall between its      *)
(* steps.  The C callers pass well-formed arguments: a delete is given the *)
(* position of a live node, and a map is destroyed when nobody walks it.   *)
(***************************************************************************)
EXTENDS Integers, Sequences, FiniteSets, SequencesExt

CONSTANTS Node,         \* the addresses kmalloc can return for a map node
          Key,
          NULL,
          BucketSize,   \* hmap->bucket_size
          HashFunc      \* hmap->hash_func, a function pointer of the caller

ASSUME BucketSizeAssumption == BucketSize \in Nat \ {0}
ASSUME HashFuncAssumption == HashFunc \in [Key -> Nat]
ASSUME NullAssumption == NULL \notin Node

VARIABLES phase,      \* life of the map; "nomap" and "oops" are a kernel oops while
                      \* it is created and while it is walked
          hlist,      \* hlist[b]: the chain of bucket b
          key,        \* key[n]: the key stored in node n, for the nodes the
                      \* allocator has handed out and not got back
          begin,      \* hmap->begin
          found,      \* the node the last hash_map_search returned
          walk        \* the hash_map_for_each in progress, with its history

vars == <<phase, hlist, key, begin, found, walk>>

Bucket == 0 .. BucketSize - 1

Pos(n, b) == [node |-> n, bucket |-> b]

\* The nodes the map owns.
Allocated == DOMAIN key

\* The nodes that are in some chain.
Linked == UNION {ToSet(hlist[b]) : b \in Bucket}

NoWalk == [at |-> "idle", pos |-> Pos(NULL, 0), due |-> {}, visited |-> {},
           again |-> FALSE]

TypeOK == /\ phase \in {"none", "ready", "destroying", "nomap", "oops"}
          /\ hlist \in [Bucket -> Seq(Node)]
          /\ Allocated \subseteq Node
          /\ key \in [Allocated -> Key]
          /\ begin \in [node : Node \cup {NULL}, bucket : Bucket]
          /\ found \in Node \cup {NULL}
          /\ walk \in [at : {"idle", "func", "next", "dangling", "done"},
                       pos : [node : Node \cup {NULL}, bucket : Bucket],
                       due : SUBSET Node, visited : SUBSET Node,
                       again : BOOLEAN]
          /\ walk.at \in {"func", "next"} => walk.pos.node # NULL

\* The hash function every caller in the driver passes: the byte sum of the
\* key modulo the number of buckets.
default_hash_func(bytes) == FoldSeq(LAMBDA byte, sum : sum + byte, 0, bytes)
                              % BucketSize

(***************************************************************************)
(* Positions                                                               *)
(***************************************************************************)

\* Mutant of FirstFrom: the end position is one bucket beyond the table.
FirstFromEndBeyond(b) ==
    LET full == {c \in Bucket : c >= b /\ hlist[c] # <<>>}
    IN  IF full = {} THEN Pos(NULL, BucketSize)
        ELSE LET c == CHOOSE c \in full : \A d \in full : c <= d
             IN  Pos(hlist[c][1], c)

\* The first node of the first non-empty bucket from b on, or the end.
FirstFrom(b) ==
    LET full == {c \in Bucket : c >= b /\ hlist[c] # <<>>}
    IN  IF full = {} THEN Pos(NULL, BucketSize - 1)
        ELSE LET c == CHOOSE c \in full : \A d \in full : c <= d
             IN  Pos(hlist[c][1], c)

\* hash_map_pos_next at the i-th node of bucket b.
hash_map_pos_next(b, i) ==
    IF i < Len(hlist[b]) THEN Pos(hlist[b][i + 1], b) ELSE FirstFrom(b + 1)

\* Mutant of hash_map_search: the loop does not stop at the first match.
SearchOldest(k) ==
    LET b == HashFunc[k]
        hits == {i \in DOMAIN hlist[b] : key[hlist[b][i]] = k}
    IN  IF b >= BucketSize THEN Pos(NULL, b)
        ELSE Pos(IF hits = {} THEN NULL
                 ELSE hlist[b][CHOOSE i \in hits : \A j \in hits : j <= i], b)

\* The first node of the key's bucket that holds the key.
hash_map_search(k) ==
    LET b == HashFunc[k]
    IN  IF b >= BucketSize THEN Pos(NULL, b)
        ELSE LET i == SelectInSeq(hlist[b], LAMBDA n : key[n] = k)
             IN  Pos(IF i = 0 THEN NULL ELSE hlist[b][i], b)

(***************************************************************************)
(* Operations                                                              *)
(***************************************************************************)

Init == /\ phase = "none"
        /\ hlist = [b \in Bucket |-> <<>>]
        /\ key = <<>>
        /\ begin = Pos(NULL, 0)
        /\ found = NULL
        /\ walk = NoWalk

\* hash_map_create and hash_map_init.
Create == /\ phase = "none"
          /\ phase' = "ready"
          /\ hlist' = [b \in Bucket |-> <<>>]
          /\ begin' = Pos(NULL, 0)
          /\ found' = NULL
          /\ walk' = NoWalk
          /\ UNCHANGED key

\* Neither call checks its allocation before it writes through the result.
CreateNoMem == /\ phase = "none"
               /\ phase' = "nomap"
               /\ UNCHANGED <<hlist, key, begin, found, walk>>

\* The memory once k is copied into the fresh node n.
Store(n, k) == [m \in Allocated \cup {n} |-> IF m = n THEN k ELSE key[m]]

\* Mutant of hash_map_insert: begin stays when its own bucket gets a new head.
InsertBehindBegin(k, n) ==
    LET b == HashFunc[k] IN
    /\ phase = "ready"
    /\ n \in Node \ Allocated
    /\ key' = Store(n, k)
    /\ b < BucketSize
    /\ hlist' = [hlist EXCEPT ![b] = <<n>> \o @]
    /\ begin' = IF begin.node = NULL \/ b < begin.bucket THEN Pos(n, b)
                ELSE begin
    /\ UNCHANGED <<phase, found, walk>>

\* Mutant of hash_map_insert: the bucket number is off by one.
InsertNextBucket(k, n) ==
    LET b == (HashFunc[k] + 1) % BucketSize IN
    /\ phase = "ready"
    /\ n \in Node \ Allocated
    /\ key' = Store(n, k)
    /\ HashFunc[k] < BucketSize
    /\ hlist' = [hlist EXCEPT ![b] = <<n>> \o @]
    /\ begin' = IF begin.node = NULL \/ b <= begin.bucket THEN Pos(n, b)
                ELSE begin
    /\ UNCHANGED <<phase, found, walk>>

\* When kmalloc returns no node the call gives -1 back and changes nothing:
\* a stuttering step.
hash_map_insert(k, n) ==
    LET b == HashFunc[k] IN
    /\ phase = "ready"
    /\ n \in Node \ Allocated
    /\ key' = Store(n, k)
    /\ b < BucketSize
    /\ hlist' = [hlist EXCEPT ![b] = <<n>> \o @]
    /\ begin' = IF begin.node = NULL \/ b <= begin.bucket THEN Pos(n, b)
                ELSE begin
    /\ UNCHANGED <<phase, found, walk>>

\* The hash function leaves the table: the call fails and keeps the node.
InsertBadHash(k, n) ==
    /\ phase = "ready"
    /\ n \in Node \ Allocated
    /\ key' = Store(n, k)
    /\ HashFunc[k] >= BucketSize
    /\ UNCHANGED <<phase, hlist, begin, found, walk>>

Search(k) == /\ phase = "ready"
             /\ found' = hash_map_search(k).node
             /\ UNCHANGED <<phase, hlist, key, begin, walk>>

\* Mutant of hash_map_delete: the node is unlinked and not freed.
DeleteKeepsMemory(b, i) ==
    LET n == hlist[b][i] IN
    /\ begin' = IF begin.node = n THEN hash_map_pos_next(b, i) ELSE begin
    /\ hlist' = [hlist EXCEPT ![b] = RemoveAt(@, i)]
    /\ key' = key
    /\ walk' = [walk EXCEPT !.due = @ \ {n}, !.visited = @ \ {n},
                            !.at = IF walk.pos.node = n /\ @ \in {"func", "next"}
                                   THEN "dangling" ELSE @]

\* hash_map_delete of the i-th node of bucket b, in any phase.  The walk is
\* not told: it learns only by reading the freed node.
hash_map_delete(b, i) ==
    LET n == hlist[b][i] IN
    /\ begin' = IF begin.node = n THEN hash_map_pos_next(b, i) ELSE begin
    /\ hlist' = [hlist EXCEPT ![b] = RemoveAt(@, i)]
    /\ key' = Restrict(key, Allocated \ {n})
    /\ walk' = [walk EXCEPT !.due = @ \ {n}, !.visited = @ \ {n},
                            !.at = IF walk.pos.node = n /\ @ \in {"func", "next"}
                                   THEN "dangling" ELSE @]

Delete(b, i) == /\ phase = "ready"
                /\ hash_map_delete(b, i)
                /\ UNCHANGED <<phase, found>>

(***************************************************************************)
(* hash_map_for_each: start, call func on the node, advance.  `due' and    *)
(* `visited' are history: the nodes present since the walk began that func *)
(* has not seen, and the live nodes it has.                                *)
(***************************************************************************)

ForEachStart == /\ phase = "ready"
                /\ walk.at \in {"idle", "done"}
                /\ walk' = [at |-> IF begin.node = NULL THEN "done" ELSE "func",
                            pos |-> begin, due |-> Linked, visited |-> {},
                            again |-> FALSE]
                /\ UNCHANGED <<phase, hlist, key, begin, found>>

ForEachFunc == /\ walk.at = "func"
               /\ walk' = [walk EXCEPT !.at = "next",
                                       !.due = @ \ {walk.pos.node},
                                       !.visited = @ \cup {walk.pos.node},
                                       !.again = @ \/ walk.pos.node \in walk.visited]
               /\ UNCHANGED <<phase, hlist, key, begin, found>>

\* Mutant of ForEachNext: the rest of the chain is skipped.
ForEachNextBucket ==
    /\ walk.at = "next"
    /\ LET next == FirstFrom(walk.pos.bucket + 1)
       IN  walk' = [walk EXCEPT !.pos = next,
                                !.at = IF next.node = NULL THEN "done" ELSE "func"]
    /\ UNCHANGED <<phase, hlist, key, begin, found>>

\* Mutant of ForEachNext: the walk ends with the chain that it started in.
ForEachOneChain ==
    /\ walk.at = "next"
    /\ \E i \in DOMAIN hlist[walk.pos.bucket] :
         /\ hlist[walk.pos.bucket][i] = walk.pos.node
         /\ LET next == hash_map_pos_next(walk.pos.bucket, i)
            IN  walk' = [walk EXCEPT !.pos = next,
                                     !.at = IF next.bucket # walk.pos.bucket
                                            THEN "done" ELSE "func"]
    /\ UNCHANGED <<phase, hlist, key, begin, found>>

ForEachNext ==
    /\ walk.at = "next"
    /\ \E i \in DOMAIN hlist[walk.pos.bucket] :
         /\ hlist[walk.pos.bucket][i] = walk.pos.node
         /\ LET next == hash_map_pos_next(walk.pos.bucket, i)
            IN  walk' = [walk EXCEPT !.pos = next,
                                     !.at = IF next.node = NULL THEN "done"
                                            ELSE "func"]
    /\ UNCHANGED <<phase, hlist, key, begin, found>>

\* The walk reads a node that was freed under it: nothing is known after that.
ForEachDangling == /\ walk.at = "dangling"
                   /\ phase' = "oops"
                   /\ walk' = NoWalk
                   /\ UNCHANGED <<hlist, key, begin, found>>

(***************************************************************************)
(* hash_map_destroy: delete begin until it is the end, then free the table *)
(***************************************************************************)

DestroyStart == /\ phase = "ready"
                /\ walk.at \in {"idle", "done"}
                /\ phase' = "destroying"
                /\ UNCHANGED <<hlist, key, begin, found, walk>>

\* Mutant of DestroyStep: the last node of a chain is never deleted.
DestroyStepButLast ==
    /\ phase = "destroying"
    /\ begin.node # NULL
    /\ \E i \in DOMAIN hlist[begin.bucket] :
         /\ hlist[begin.bucket][i] = begin.node
         /\ IF i < Len(hlist[begin.bucket]) THEN hash_map_delete(begin.bucket, i)
            ELSE UNCHANGED <<hlist, key, begin, walk>>
    /\ UNCHANGED <<phase, found>>

DestroyStep ==
    /\ phase = "destroying"
    /\ begin.node # NULL
    /\ \E i \in DOMAIN hlist[begin.bucket] :
         /\ hlist[begin.bucket][i] = begin.node
         /\ hash_map_delete(begin.bucket, i)
    /\ UNCHANGED <<phase, found>>

DestroyEnd == /\ phase = "destroying"
              /\ begin.node = NULL
              /\ phase' = "none"
              /\ UNCHANGED <<hlist, key, begin, found, walk>>

\* After a kernel oops the caller does not run on.
Halt == phase \in {"nomap", "oops"} /\ UNCHANGED vars

Operation == \/ \E k \in Key, n \in Node : \/ hash_map_insert(k, n)
                                           \/ InsertBadHash(k, n)
             \/ \E k \in Key : Search(k)
             \/ \E b \in Bucket : \E i \in DOMAIN hlist[b] : Delete(b, i)

ForEach == ForEachStart \/ ForEachFunc \/ ForEachNext \/ ForEachDangling

Next == \/ Create
        \/ CreateNoMem
        \/ Operation
        \/ ForEach
        \/ DestroyStart
        \/ DestroyStep
        \/ DestroyEnd
        \/ Halt

\* The destroy loop belongs to a thread that is not blocked by anything.
Fairness == WF_vars(DestroyStep) /\ WF_vars(DestroyEnd)

Spec == Init /\ [][Next]_vars /\ Fairness

(***************************************************************************)
(* Properties                                                              *)
(***************************************************************************)

\* hmap->begin is where every walk and the destroy loop start: whatever was
\* inserted and deleted before, it is the first node of the lowest non-empty
\* bucket, and the end position exactly when the map is empty.
BeginIsFirst ==
    /\ begin.node = NULL => \A b \in Bucket : hlist[b] = <<>>
    /\ begin.node # NULL => /\ begin.bucket \in Bucket
                            /\ hlist[begin.bucket] # <<>>
                            /\ begin.node = hlist[begin.bucket][1]
                            /\ \A b \in Bucket :
                                 b < begin.bucket => hlist[b] = <<>>

\* hash_map_search only looks in the bucket of the key, and hash_map_delete
\* only unlinks from one: a node hangs in exactly one place, its own bucket.
InOwnBucket ==
    /\ \A b \in Bucket : \A i \in DOMAIN hlist[b] :
         /\ hlist[b][i] \in Allocated
         /\ HashFunc[key[hlist[b][i]]] = b
    /\ \A b \in Bucket : \A i, j \in DOMAIN hlist[b] :
         hlist[b][i] = hlist[b][j] => i = j

\* Memory balance of insert, delete and destroy: the map holds no node that
\* it cannot reach, except those an out-of-range hash made it drop, so that
\* a destroyed map has given back everything else.
NoOtherLeak ==
    \A n \in Allocated : n \in Linked \/ HashFunc[key[n]] >= BucketSize

\* hash_map_for_each hands every node that stays in the map during the walk
\* to func, and hands no node over twice, although inserts and deletes of
\* other nodes fall between its steps.
WalkComplete == /\ ~walk.again
                /\ walk.at = "done" => walk.due = {}

\* Whether the j-th node of bucket b lies ahead of a walk that stands at the
\* i-th node of its bucket.
Ahead(b, j, i) == \/ b > walk.pos.bucket
                  \/ /\ b = walk.pos.bucket
                     /\ j > i \/ (j = i /\ walk.at = "func")

\* Why WalkComplete holds: while hash_map_for_each runs, the node it stands at
\* is in its chain, all the nodes it still owes to func lie ahead of it, and
\* none of the nodes it has handed over does.
WalkPosition ==
    walk.at \in {"func", "next"} =>
      \E i \in DOMAIN hlist[walk.pos.bucket] :
        /\ hlist[walk.pos.bucket][i] = walk.pos.node
        /\ \A n \in walk.due : \E b \in Bucket : \E j \in DOMAIN hlist[b] :
             hlist[b][j] = n /\ Ahead(b, j, i)
        /\ \A b \in Bucket : \A j \in DOMAIN hlist[b] :
             Ahead(b, j, i) => hlist[b][j] \notin walk.visited
        /\ walk.visited \subseteq Allocated

\* The loop of hash_map_destroy always comes to its end.
DestroyTerminates == phase = "destroying" ~> phase = "none"

(***************************************************************************)
(* Refinement of KeyStacks                                                 *)
(***************************************************************************)

\* A key's stack is what its bucket holds of it, first node on top.
Live == [k \in Key |-> {n \in Linked : key[n] = k}]

\* Node n of a bucket comes before node m of the same bucket.
InFront(n, m) == \E b \in Bucket : \E i, j \in DOMAIN hlist[b] :
                   i < j /\ hlist[b][i] = n /\ hlist[b][j] = m

Newer == {p \in Linked \X Linked : key[p[1]] = key[p[2]] /\ InFront(p[1], p[2])}

Open == phase \notin {"none", "nomap"}

Stacks == INSTANCE KeyStacks WITH open <- Open, live <- Live, newer <- Newer

\* The map keeps the promise of KeyStacks: a search finds the latest entry of
\* its key that is still there, a delete removes that entry and no other, and
\* a map is given up only when it is empty.
ImplementsKeyStacks == Stacks!Spec
=============================================================================
