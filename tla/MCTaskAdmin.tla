----------------------------- MODULE MCTaskAdmin -----------------------------
(***************************************************************************)
(* TaskAdmin and Business on small instances.  0x1000 and 0x1002 are slots *)
(* of the system's choice for slot 1, 0x1001 one for slot 2, 0 and 0x200   *)
(* slots of the user's choice for slot 1.  do_command_0x3008 only adds     *)
(* DATA tasks to be sent; the other kinds are calls that add_task accepts. *)
(***************************************************************************)
EXTENDS TaskAdmin, Business

Task(id, slot_num, type, flag) ==
    [id |-> id, slot_num |-> slot_num, type |-> type, flag |-> flag]

\* Three tasks for one list, one each for another map and another admin.
QueueTasks == {Task(1, 4096, "DATA", "SND"), Task(2, 4098, "DATA", "SND"),
               Task(3, 4096, "DATA", "SND"), Task(4, 4097, "VOICE", "SND"),
               Task(5, 0, "DATA", "SND")}

\* Tasks for one map, one for the other map, and one that is not supported.
MapTasks == {Task(5, 0, "DATA", "SND"), Task(6, 512, "DATA", "SND"),
             Task(7, 0, "VOICE", "SND"), Task(8, 2, "VOICE", "RCV")}

MCRequest == QueueTasks \cup MapTasks
MCBatches == {QueueTasks, MapTasks}
MapOnly == {MapTasks}

\* What may lie at the addresses 0, 2 and 0x200: the key that get_task makes
\* of slot 0, and something else.
MCByte2 == {<<0, 0>>, <<69, 76>>}

(***************************************************************************)
(* Messages: up to three parts of mixed lengths, without data, with some,  *)
(* and as long as protocol_data allows; as many parts as a count can say.  *)
(***************************************************************************)

\* A message with parts [len, emb] that begin at at[1], at[2], ...  Other bytes
\* than lengths and flags differ from their neighbours.
MCMessage(cmd, parts, at, size) ==
    LET begins == [b \in {at[p] : p \in DOMAIN parts} |-> CHOOSE p \in DOMAIN parts : at[p] = b]
    IN
    [cmd |-> cmd, size |-> size,
     parts |-> [p \in DOMAIN parts |-> [at |-> at[p], len |-> parts[p].len, emb |-> parts[p].emb]],
     data |-> [k \in 0 .. size - 1 |->
       CASE cmd \in {"3010", "301b"} /\ k = HeadLen(cmd) - 1 -> Len(parts)
         [] cmd = "3010" /\ k - 2 \in DOMAIN begins -> parts[begins[k - 2]].len - 3
         [] cmd = "301b" /\ k \in DOMAIN begins -> parts[begins[k]].len
         [] cmd = "301b" /\ k - 1 \in DOMAIN begins -> parts[begins[k - 1]].emb
         [] OTHER -> 16 + (k % 64)]]

MCPart(len, emb) == [len |-> len, emb |-> emb]
UpTo(n, parts) == UNION {[1 .. k -> parts] : k \in 0 .. n}

\* Up to three parts, and 255 of three bytes.
Few(cmd, ps) ==
    LET len(p) == IF p \in DOMAIN ps THEN ps[p].len ELSE 0
        begin == HeadLen(cmd)
    IN  MCMessage(cmd, ps, <<begin, begin + len(1), begin + len(1) + len(2)>>,
                  begin + len(1) + len(2) + len(3))
Many == MCMessage("3010", [p \in 1 .. 255 |-> MCPart(3, 0)],
                  [p \in 1 .. 255 |-> 3 * p + 3], 771)

MCMessages ==
       {Few("3010", ps) : ps \in UpTo(3, {MCPart(l, 0) : l \in {3, 5, 98}})}
  \cup {Few("301b", ps) : ps \in UpTo(3, {MCPart(l, e) : l \in {11, 13, 98}, e \in {0, 1}})}
  \cup {MCMessage("3008", <<MCPart(l, 0)>>, <<0>>, l) : l \in {13, 98}}
  \cup {Many, MCMessage("other", <<>>, <<>>, 2)}

\* A call shares nothing with the admins before it calls add_task: it is followed
\* while they are as they were at first.
MCInit == Init /\ BusInit
MCNext == \/ message = NoMessage /\ Next /\ UNCHANGED busVars
          \/ /\ todo \in Batches /\ \A a \in Admin : admin[a] = "none"
             /\ BusNext
             /\ UNCHANGED vars

MCSpec == MCInit /\ [][MCNext]_<<vars, busVars>>
=============================================================================
