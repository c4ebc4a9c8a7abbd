------------------------------ MODULE TaskAdmin ------------------------------
(***************************************************************************)
(* The task admins of driver/task_admin/task_admin.c, one per time slot,   *)
(* and the writers that reach them through do_command_0x3008 of            *)
(* driver/business/business.c.                                             *)
(*                                                                         *)
(* A kernel without preemption on one processor: a writer gives up the     *)
(* processor only where it allocates memory, so add_task is two steps.     *)
(* What it has read or stored before the allocation is used after it: the  *)
(* position llist->end that llist_push_back passed by value, and the one   *)
(* scratch pair of the admin.  The locks of the containers are stubs.      *)
(* (ListWriters is about writers on several processors.)                   *)
(*                                                                         *)
(* A list is the sequence of its nodes (LinkList has its pointers), a node *)
(* is named after the task in it; a map is a sequence of copies of pairs   *)
(* (HashMap has its chains).  The variables of `history' record what came  *)
(* of the tasks; no step depends on them.                                  *)
(***************************************************************************)
EXTENDS Integers, Sequences, FiniteSets, SequencesExt

CONSTANTS Thread,      \* the processes that write to the device
          Request,     \* the tasks they add: [id, slot_num, type, flag]
          Batches,     \* which of them may come up together
          Byte2,       \* what two bytes of memory can hold: pairs of bytes
          HEAD,        \* the head cell of a list
          Consume      \* does anybody call get_task?

ASSUME RequestAssumption ==
    \A r \in Request : /\ r.slot_num \in Nat
                       /\ r.type \in {"DATA", "VOICE", "RC"}
                       /\ r.flag \in {"RCV", "SND"}
ASSUME BatchesAssumption == Batches \subseteq SUBSET Request
ASSUME HeadAssumption == HEAD \notin Request
ASSUME EnvironmentAssumption == Consume \in BOOLEAN

VARIABLES admin,    \* admin[a]: "none", "ready", "null" or "dead"
          sys,      \* sys[a][ty]: the list of tasks for a slot of the system's choice
          end,      \* end[a][ty]: its cached llist->end
          headless, \* headless[a][ty]: its head cell was unlinked
          user,     \* user[a][ty]: the map of tasks for a slot of the user's choice
          pair,     \* pair[a]: admin->pair, the scratch pair
          writer,   \* writer[t]: where a thread is, with its task and position
          consumer, \* the caller of get_task: "alive", or the admin it died in
          todo,     \* the tasks still to come
          done,     \* history: add_task has returned for them
          refused,  \* history: hash_map_insert had no memory for them
          mixed,    \* history: between make_pair and hash_map_insert they met another
          taken,    \* history: get_task has detached them
          before    \* history: before[r], what was done for the same container when
                    \* add_task(r) began

containers == <<sys, end, headless, user>>
history == <<done, refused, mixed, taken, before>>
vars == <<admin, containers, pair, writer, consumer, todo, history>>

Admin == {"slot1", "slot2"}
ListType == {"DATA", "VOICE"}

(***************************************************************************)
(* Where a task belongs                                                    *)
(***************************************************************************)

\* slot_num & 1 selects task_admin_slot2_gp.
AdminOf(r) == IF r.slot_num % 2 = 1 THEN "slot2" ELSE "slot1"

\* slot_num & 0x1000
slot_type(r) == IF (r.slot_num \div 4096) % 2 = 1
                THEN "SYS_DESIGNATE" ELSE "USER_DESIGNATE"

\* Do q and r belong into one container?
Together(q, r) == /\ AdminOf(q) = AdminOf(r)
                  /\ q.type = r.type
                  /\ slot_type(q) = slot_type(r)

\* add_task only logs the others.
Supported(r) == r.flag = "SND" /\ r.type \in ListType

Pair == [key : Byte2, task : Request]
NoPair == [key |-> <<>>, task |-> HEAD]
Idle == [at |-> "idle", req |-> HEAD, pos |-> HEAD]

Dead == {"null", "nomem", "fault", "poison"}

TypeOK ==
    /\ admin \in [Admin -> {"none", "ready", "null", "dead"}]
    /\ sys \in [Admin -> [ListType -> Seq(Request)]]
    /\ end \in [Admin -> [ListType -> Request \cup {HEAD}]]
    /\ headless \in [Admin -> [ListType -> BOOLEAN]]
    /\ user \in [Admin -> [ListType -> Seq(Pair)]]
    /\ pair \in [Admin -> Pair \cup {NoPair}]
    /\ writer \in [Thread -> [at : {"idle", "list", "map"} \cup Dead,
                              req : Request \cup {HEAD},
                              pos : Request \cup {HEAD}]]
    /\ consumer \in {"alive"} \cup Admin
    /\ {todo, done, refused, mixed, taken} \subseteq SUBSET Request
    /\ before \in [Request -> SUBSET Request]

(***************************************************************************)
(* create_task_admin and destroy_task_admin                                *)
(***************************************************************************)

Init == /\ admin = [a \in Admin |-> "none"]
        /\ sys = [a \in Admin |-> [ty \in ListType |-> <<>>]]
        /\ end = [a \in Admin |-> [ty \in ListType |-> HEAD]]
        /\ headless = [a \in Admin |-> [ty \in ListType |-> FALSE]]
        /\ user = [a \in Admin |-> [ty \in ListType |-> <<>>]]
        /\ pair = [a \in Admin |-> NoPair]
        /\ writer = [t \in Thread |-> Idle]
        /\ consumer = "alive"
        /\ todo \in Batches
        /\ done = {} /\ refused = {} /\ mixed = {} /\ taken = {}
        /\ before = [r \in Request |-> {}]

\* Nobody sees the admin before it is finished.  The containers are as Init
\* and destroy_task_admin leave them.
create_task_admin(a) ==
    /\ admin[a] = "none"
    /\ admin' = [admin EXCEPT ![a] = "ready"]
    /\ UNCHANGED <<containers, pair, writer, consumer, todo, history>>

\* No allocator, or no memory for the admin itself: NULL, which plat_probe
\* stores like any other pointer.  No memory later on: llist_create,
\* llist_init, hash_map_create, hash_map_init and create_pair write through
\* the NULL pointer before the tests of create_task_admin see it.
CreateFails(a) ==
    /\ admin[a] = "none"
    /\ \E how \in {"null", "dead"} : admin' = [admin EXCEPT ![a] = how]
    /\ UNCHANGED <<containers, pair, writer, consumer, todo, history>>

\* Is t in add_task for the admin a?
InAdmin(t, a) == writer[t].at \in {"list", "map"} /\ AdminOf(writer[t].req) = a

\* Both maps and both lists with all their nodes go, whatever state `end' is
\* in: the loops go by begin.  The tasks go with them.  Where a get_task has
\* died, begin is poison and the destroy dies of it.  (What becomes of a writer
\* that is in the admin meanwhile is the subject of PlatDriver.)
destroy_task_admin(a) ==
    /\ admin[a] = "ready"
    /\ \A t \in Thread : ~InAdmin(t, a)
    /\ admin' = [admin EXCEPT ![a] = IF consumer = a THEN "dead" ELSE "none"]
    /\ sys' = [sys EXCEPT ![a] = [ty \in ListType |-> <<>>]]
    /\ end' = [end EXCEPT ![a] = [ty \in ListType |-> HEAD]]
    /\ headless' = [headless EXCEPT ![a] = [ty \in ListType |-> FALSE]]
    /\ user' = [user EXCEPT ![a] = [ty \in ListType |-> <<>>]]
    /\ pair' = [pair EXCEPT ![a] = NoPair]
    /\ done' = {r \in done : AdminOf(r) # a}
    /\ refused' = {r \in refused : AdminOf(r) # a}
    /\ mixed' = {r \in mixed : AdminOf(r) # a}
    /\ taken' = {r \in taken : AdminOf(r) # a}
    /\ UNCHANGED <<writer, consumer, todo, before>>

(***************************************************************************)
(* add_task, up to the allocation                                          *)
(***************************************************************************)

Goto(t, where, r, p) ==
    writer' = [writer EXCEPT ![t] = [at |-> where, req |-> r, pos |-> p]]

\* do_command_0x3008 has made a task of a message and calls add_task.
Begin(t, r) == /\ writer[t].at = "idle"
               /\ r \in todo
               /\ admin[AdminOf(r)] \in {"ready", "null"}
               /\ todo' = todo \ {r}
               /\ before' = [before EXCEPT ![r] = {q \in done : Together(q, r)}]

\* RCV, and a type without a container, are logged; a NULL admin is not
\* touched then.
AddUnsupported(t, r) ==
    /\ Begin(t, r)
    /\ ~Supported(r)
    /\ UNCHANGED <<admin, containers, pair, writer, consumer, done, refused, mixed, taken>>

AddToNull(t, r) ==
    /\ Begin(t, r)
    /\ Supported(r)
    /\ admin[AdminOf(r)] = "null"
    /\ Goto(t, "null", r, HEAD)
    /\ UNCHANGED <<admin, containers, pair, consumer, done, refused, mixed, taken>>

\* llist_push_back passes llist->end by value.
llist_push_back(t, r) ==
    /\ Begin(t, r)
    /\ Supported(r) /\ slot_type(r) = "SYS_DESIGNATE"
    /\ admin[AdminOf(r)] = "ready"
    /\ Goto(t, "list", r, end[AdminOf(r)][r.type])
    /\ UNCHANGED <<admin, containers, pair, consumer, done, refused, mixed, taken>>

\* The tasks whose writers are about to copy the scratch pair of the admin a.
InPair(a) == {writer[u].req : u \in {t \in Thread : writer[t].at = "map" /\ InAdmin(t, a)}}

\* make_pair copies two bytes from the address slot_num, which is a number
\* and not a pointer: whatever the process has there, if anything.
make_pair(t, r) ==
    /\ Begin(t, r)
    /\ Supported(r) /\ slot_type(r) = "USER_DESIGNATE"
    /\ admin[AdminOf(r)] = "ready"
    /\ \/ /\ Goto(t, "fault", r, HEAD)
          /\ UNCHANGED <<pair, mixed>>
       \/ \E k \in Byte2 :
            /\ pair' = [pair EXCEPT ![AdminOf(r)] = [key |-> k, task |-> r]]
            /\ Goto(t, "map", r, HEAD)
            /\ mixed' = IF InPair(AdminOf(r)) = {} THEN mixed
                        ELSE mixed \cup InPair(AdminOf(r)) \cup {r}
    /\ UNCHANGED <<admin, containers, consumer, done, refused, taken>>

(***************************************************************************)
(* add_task, from the allocation on                                        *)
(***************************************************************************)

Return(t) == Goto(t, "idle", HEAD, HEAD)

\* add_task returns, and its caller takes the task for done.
Added(t) == Return(t) /\ done' = done \cup {writer[t].req}

\* Mutant of Behind: the new node's next is the head.
BehindCutsTail(s, p, r) ==
    IF p = HEAD THEN <<r>>
    ELSE Append(SubSeq(s, 1, CHOOSE i \in 1 .. Len(s) : s[i] = p), r)

\* s with r behind the node p.
Behind(s, p, r) == IF p = HEAD THEN <<r>> \o s
                   ELSE InsertAt(s, CHOOSE i \in 2 .. Len(s) + 1 : s[i - 1] = p, r)

\* Is p linked in the ring of sys[a][ty]?
Linked(a, ty, p) == IF p = HEAD THEN ~headless[a][ty]
                    ELSE p \in ToSet(sys[a][ty])

\* Mutant of llist_insert: every new node becomes the end.
InsertMovesEnd(t) ==
    LET r == writer[t].req
        a == AdminOf(r)
        p == writer[t].pos
    IN  /\ writer[t].at = "list"
        /\ Linked(a, r.type, p)
        /\ sys' = [sys EXCEPT ![a][r.type] = Behind(@, p, r)]
        /\ end' = [end EXCEPT ![a][r.type] = r]
        /\ Added(t)
        /\ UNCHANGED <<admin, headless, user, pair, consumer, todo, refused,
                       mixed, taken, before>>

\* llist_insert behind the position that was the end before the allocation.
llist_insert(t) ==
    LET r == writer[t].req
        a == AdminOf(r)
        p == writer[t].pos
    IN  /\ writer[t].at = "list"
        /\ Linked(a, r.type, p)
        /\ sys' = [sys EXCEPT ![a][r.type] = Behind(@, p, r)]
        /\ end' = [end EXCEPT ![a][r.type] = IF p = @ THEN r ELSE @]
        /\ Added(t)
        /\ UNCHANGED <<admin, headless, user, pair, consumer, todo, refused,
                       mixed, taken, before>>

\* llist_insert copies to NULL without memory, and list_add writes through
\* the poison of an entry that was unlinked.
InsertDies(t) ==
    LET r == writer[t].req
        p == writer[t].pos
    IN  /\ writer[t].at = "list"
        /\ \/ Goto(t, "nomem", r, p)
           \/ /\ ~Linked(AdminOf(r), r.type, p)
              /\ Goto(t, "poison", r, p)
        /\ UNCHANGED <<admin, containers, pair, consumer, todo, history>>

\* hash_map_insert copies admin->pair once it has a node.
hash_map_insert(t) ==
    LET r == writer[t].req
        a == AdminOf(r)
    IN  /\ writer[t].at = "map"
        /\ user' = [user EXCEPT ![a][r.type] = <<pair[a]>> \o @]
        /\ Added(t)
        /\ UNCHANGED <<admin, sys, end, headless, pair, consumer, todo, refused,
                       mixed, taken, before>>

\* Without memory it returns -1, which add_task does not look at.
InsertRefused(t) ==
    /\ writer[t].at = "map"
    /\ Added(t)
    /\ refused' = refused \cup {writer[t].req}
    /\ UNCHANGED <<admin, containers, pair, consumer, todo, mixed, taken, before>>

(***************************************************************************)
(* get_task, for TASK_FLAG_SND                                             *)
(***************************************************************************)

Flag(b) == IF b THEN 1 ELSE 0

\* The key is made with && where & was meant: each byte is 0 or 1.
SearchKey(slot_num) == <<Flag(slot_num \div 256 # 0), Flag(slot_num # 0)>>

\* hash_map_search(admin->data_user_designate_slot, key)
Found(a, slot_num) ==
    \E i \in DOMAIN user[a]["DATA"] : user[a]["DATA"][i].key = SearchKey(slot_num)

\* A task of the map is found and left there; nothing is handed over.
GetUser(a, slot_num) ==
    /\ Consume /\ consumer = "alive" /\ admin[a] = "ready"
    /\ Found(a, slot_num)
    /\ UNCHANGED vars

\* llist_detach_front.  If the node is the end too, `end' stays at it.
GetSys(a, slot_num) ==
    LET s == sys[a]["DATA"] IN
    /\ Consume /\ consumer = "alive" /\ admin[a] = "ready"
    /\ ~Found(a, slot_num)
    /\ s # <<>>
    /\ sys' = [sys EXCEPT ![a]["DATA"] = Tail(s)]
    /\ taken' = taken \cup {Head(s)}
    /\ UNCHANGED <<admin, end, headless, user, pair, writer, consumer, todo, done,
                   refused, mixed, before>>

\* llist_detach_front of an empty list unlinks the head cell, once; the next
\* call makes its poison the list's begin and follows it.
GetEmpty(a, slot_num) ==
    /\ Consume /\ consumer = "alive" /\ admin[a] = "ready"
    /\ ~Found(a, slot_num)
    /\ sys[a]["DATA"] = <<>>
    /\ headless' = [headless EXCEPT ![a]["DATA"] = TRUE]
    /\ consumer' = IF headless[a]["DATA"] THEN a ELSE consumer
    /\ UNCHANGED <<admin, sys, end, user, pair, writer, todo, history>>

(***************************************************************************)
(* The system                                                              *)
(***************************************************************************)

add_task(t) == \E r \in Request : \/ AddUnsupported(t, r)
                                  \/ AddToNull(t, r)
                                  \/ llist_push_back(t, r)
                                  \/ make_pair(t, r)

FinishAdd(t) == \/ llist_insert(t)
                \/ InsertDies(t)
                \/ hash_map_insert(t)
                \/ InsertRefused(t)

get_task(a) == \E r \in Request : \/ GetUser(a, r.slot_num)
                                  \/ GetSys(a, r.slot_num)
                                  \/ GetEmpty(a, r.slot_num)

Next == \/ \E a \in Admin : \/ create_task_admin(a) \/ CreateFails(a)
                            \/ destroy_task_admin(a)
                            \/ get_task(a)
        \/ \E t \in Thread : add_task(t) \/ FinishAdd(t)

Spec == Init /\ [][Next]_vars

(***************************************************************************)
(* Properties                                                              *)
(***************************************************************************)

\* The places in the lists, or in the maps: admin, type and index.
Places(container) == UNION {{<<a, ty, i>> : i \in DOMAIN container[a][ty]} :
                              a \in Admin, ty \in ListType}

\* How often the task r is in a list or a map.
Copies(r) == Cardinality({x \in Places(sys) : sys[x[1]][x[2]][x[3]] = r})
             + Cardinality({x \in Places(user) : user[x[1]][x[2]][x[3]].task = r})

\* Is the task r in the container for its slot and type?
InPlace(r) ==
    IF slot_type(r) = "SYS_DESIGNATE"
    THEN r \in ToSet(sys[AdminOf(r)][r.type])
    ELSE \E p \in ToSet(user[AdminOf(r)][r.type]) : p.task = r

\* The tasks that add_task has returned for and that belong into a map.
UserDone(a, ty) == {r \in done : /\ AdminOf(r) = a /\ r.type = ty
                                 /\ slot_type(r) = "USER_DESIGNATE"}

\* When add_task has returned, a task of a kind that it supports is in the one
\* container for its slot and type and nowhere else, once, until get_task takes
\* it; one that the map had no memory for is nowhere.  So writers that slept in
\* their allocations with the same old end in hand lose and double nothing.
\* Only tasks whose writers shared the scratch pair take each other's places,
\* and even they lose none: a map has one entry for each task it was given.
TasksKept ==
    /\ \A r \in done \ mixed : IF r \in taken \cup refused THEN Copies(r) = 0
                               ELSE Copies(r) = 1 /\ InPlace(r)
    /\ \A a \in Admin, ty \in ListType :
         Len(user[a][ty]) = Cardinality(UserDone(a, ty) \ refused)

\* The lists are queues although llist_push_back uses a position from before
\* its allocation: a task whose add_task had returned before another's began
\* is in front of it, and get_task takes it first.
RealTimeOrder ==
    \A a \in Admin, ty \in ListType :
      LET s == sys[a][ty] IN
      /\ \A i, j \in DOMAIN s : i < j => s[j] \notin before[s[i]]
      /\ \A r \in taken : AdminOf(r) = a /\ r.type = ty =>
           before[r] \cap ToSet(s) = {}

\* Every task for a slot of the user's choice reaches its map: making the
\* pair never kills the writer.
PairMade == \A t \in Thread : writer[t].at # "fault"

\* A task that add_task has returned for is in its container until it is taken,
\* if there was memory for it.
EveryTaskKept == \A r \in done \ (taken \cup refused) : InPlace(r)
=============================================================================
