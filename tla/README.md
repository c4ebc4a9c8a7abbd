# Verification of the hpi character driver

TLA+ models of a Linux 2.6.19 character driver (`driver/`): its two containers,
the hash map and the linked list; the protocol analyzer that takes messages
apart and puts them together, and the set of formats it works from; the task
admins that writers fill; the platform driver with its probe, its remove and
the users of its device file; and the uevent printer (`udev1.c`) that comes with
it. TLC checks the models on small instances; TLAPS proves the main facts for
every value of the constants.

All paths below are relative to the repository (`src/`).

## 1. The system

User space writes messages to a device file; the driver dispatches them by
their command number, parses them with a format from a format set, and queues
tasks for two time slots.

| Part | State | Operations | Used by |
|---|---|---|---|
| platform driver, `driver/plat_driver.c` with `device/plat_device.c` | `pdev_priv`, the globals `allocator`, `pfs_p` and the two task admins | probe, remove, open, release, read, write, ioctl | the kernel |
| business, `driver/business/business.c` | none of its own | `process_protocol`, `do_command_0x3008`, `_0x3010`, `_0x301b` | device_write |
| task admin, `driver/task_admin/task_admin.c` | two lists, two maps and one scratch pair per slot | create, destroy, `add_task`, `get_task` (no caller) | business, probe, remove |
| protocol analyzer, `driver/libproto_analyzer/protocol_analyzer.c` | a private copy of one format, a hash map from names to fields, `protocol_data` | init, set, find, parse, generate, reset, destroy | business, tests |
| protocol format set, `driver/libproto_analyzer/protocol_format_set.c`, formats in `test/pdt_drv_proto_format.c` | an array of format lists by protocol number | create, add, find, delete | probe, analyzer |
| hash map, `driver/libdata_structure/hash_map/hash_list.c` | chains, the cached positions `begin` and `end` | create, insert, search, delete, for_each, destroy | analyzer, task admin |
| linked list, `driver/libdata_structure/link_list/link_list.c` | a ring with a head cell, cached `begin` and `end`, a count | create, insert, push, pop, delete, detach, for_each, destroy | task admin |
| sync_lock, `driver/libcre/sync_lock` | none: every function returns 0 | lock, unlock | the containers |
| liballoc, `driver/liballoc` | a table of allocator types | alloc, free | everything |
| udev listener, `udev1.c` | one buffer, one event | receive, filter, parse, print | a user |
| libdbg, `test/` | logging, user-space tests | | |

What is hard about it:

* The containers cache positions (`begin`, `end`) next to the structure itself.
  They are right or wrong only after particular sequences of inserts and
  deletes.
* The loops over a container take no lock, so other calls, or the callback
  itself, change the container under them; the locks are stubs anyway.
* An analyzer changes its own copy of the format while it works (positions,
  lengths, flags, buffers) and serves one message after the other.
* Allocation failures are mostly logged and then ignored.
* The device file is usable before probe is finished, and remove does not wait
  for open files.

`PROJECT.json` lists each such hazard with its line and the properties about it.

## 2. Modules

| Module | Models | Kind |
|---|---|---|
| `KeyStacks` | what the hash map promises: a stack of entries per key | abstract specification |
| `HashMap` | `hash_list.c`, `hash_list.h`, and how they refine `KeyStacks` | component |
| `HashMapProofs` | theorems about `HashMap` | proofs |
| `MCHashMap` | an instance of `HashMap` | model |
| `LinkList` | `link_list.c` over the kernel's `list_head` | component |
| `LinkListProofs` | theorems about `LinkList` | proofs |
| `MCLinkList` | an instance of `LinkList` | model |
| `AtomicInserts` | what `TaskAdmin` takes for granted of `llist_push_back` | abstract specification |
| `ListWriters` | concurrent `llist_push_back` under the stubs of `sync_lock.c`, one pointer access at a time, and how it refines `AtomicInserts` | component |
| `ListWritersProofs` | theorems about `ListWriters` | proofs |
| `MCListWriters` | an instance of `ListWriters` | model |
| `ProtoFormats` | the five formats that probe registers | data |
| `ProtocolAnalyzer` | `protocol_analyzer.c` and the way its callers use it | component |
| `ProtocolAnalyzerProofs` | theorems about `ProtocolAnalyzer` and `BitFields` | proofs |
| `BitFields` | the bit fields of `protocol_analyzer.c` | component |
| `MCBitFields` | formats and values for `BitFields` | data |
| `MCProtocolAnalyzer` | `ProtocolAnalyzer` with the formats of `ProtoFormats`, next to `BitFields` with those of `MCBitFields` | model |
| `ProtocolFormatSet` | `protocol_format_set.c`, and the look-up and copying of a format | component |
| `ProtocolFormatSetProofs` | theorems about `ProtocolFormatSet` | proofs |
| `MCProtocolFormatSet` | an instance of it | model |
| `TaskAdmin` | `task_admin.c` and the writers that reach it | component |
| `TaskAdminProofs` | theorems about `TaskAdmin` and `Business` | proofs |
| `Business` | `business.c` | component |
| `MCTaskAdmin` | an instance of `TaskAdmin` next to one of `Business` | model |
| `PlatDriver` | `plat_driver.c`, `plat_device.c` | component |
| `PlatDriverProofs` | theorems about `PlatDriver` | proofs |
| `MCPlatDriver` | an instance of it | model |
| `UeventListener` | `udev1.c` | component |
| `UeventListenerProofs` | theorems about `UeventListener` | proofs |
| `MCUeventListener` | an instance of it | model |

Definitions have the names of the C functions they translate where one function
is one definition. An operator whose comment begins with "Mutant of" is a
plausible error in that definition; it is not used by the specification. Each
checked property is violated when the definition is replaced by one of its
mutants, as `PROJECT.json` lists them.

### HashMap

`hlist[b]` is the chain of a bucket as a sequence; `key` is the memory of the
allocated nodes; `begin` is `hmap->begin`. `hmap->end` is a constant in the
code, and positions are compared by node only, so it is "node is NULL". Insert,
search and delete are one step each: they allocate before they touch the map
and do not sleep afterwards, so on a kernel without preemption no other thread
runs in between. `hash_map_for_each` and `hash_map_destroy` are one step per
evaluation of the loop. `walk` is the loop in progress with its history: the
nodes that were there when it began and have not been seen (`due`), and those
that have (`visited`). Deleting the node the walk stands at leaves it dangling,
and reading it is an oops (`ForEachDangling`): nothing protects a walk from
that, and no property says otherwise. A failed allocation in
`hash_map_create` or `hash_map_init` is an oops (`CreateNoMem`); in
`hash_map_insert` it changes nothing. A hash value beyond the table loses the
node (`InsertBadHash`).

`KeyStacks` knows no buckets: of each key it has the set of entries, and which of
two was pushed later. The mapping at the end of `HashMap` reads both from the
chain of the key's bucket (`Live`, `Newer`); the map is open until the destroy
has ended, and a destroy is seen as deletes.

### LinkList

The `next` and `prev` pointers of every cell are variables, and several lists
share the nodes of one allocator. `seq` is history, the contents the caller
asked for; `Shape` says that the pointers realise it. `list_del` poisons the
entry as the kernel does, and following a poisoned pointer ends in an oops
(`crash`). The callers keep two rules: no pop or detach on an empty list (the
comment before `llist_detach`: "not consider llist is null"), and, unless
`UseEndAfterDrain`, no use of `llist->end` once the list has been emptied.

### ProtocolAnalyzer

One analyzer, owned by one thread (`protocol_format_set.h`: "proto analyzing
not have cocurrent acktion"). `fields` is its copy of the format. Each step of
`pa_parse_protocol_data` and `pa_generate_protocol_data` handles one field. A
peer's message (`Message`, `Encoded`) is the reference: the values one after
the other, at the format's positions plus what varies before them. Its bytes are a
parameter (`Octet`), which `MCProtocolAnalyzer` chooses so that neighbouring
fields, and consecutive messages, differ. `WellLaid` says what a format has to
be like for the code to handle it; TLC evaluates it for the driver's formats.
`vlenth_value_flag` and `vlenth_value_assigned_flag` only lead to log messages
and are left out, and bit fields, which no format of the driver has, are in
`BitFields`. `Reused`
names the protocols whose analyzers take another message after
`pa_reset_vlen_flag`. `pa_find_key` may return any field, or none, for a name
that does not fit into the key, because it searches with a string that it did
not initialise.

### BitFields

Bit fields are used by the formats of the user-space tests. A byte and a value
are the sets of their 1 bits. A step of `pa_set_protocol_bit_data` or
`pa_get_protocol_bit_data` is one iteration of its loop, which handles what a
field has in one byte; `chunk` holds the loop's locals, and when the field is
done the list goes on with the next. The two functions keep their position in
types of their own (`char` and `uint8_t`, which never falls below 0 and wraps
instead), which is modelled. A user sets values, generates, and parses what it
has generated; before, `protocol_data` may hold anything that the instance
allows (`OldBytes`), as in an analyzer that was used before. `Place` is the
reference: where each single bit belongs. `protocol_data_len` of such a message
(a byte position plus a length in bits) is not modelled. Values may be wider than
their fields, since `pa_set_value` does not look, as in the user-space test, which
sets `0xfffc001` in 24 bits (`test_pdt_pdu_proto_analyzer.c:61`). `pow` multiplies
once too often, so that the masks let one bit more through; `Passed` is what of a
value gets into the message: its low bits and, if the field does not begin at the
top of a byte, the one above. In `MCProtocolAnalyzer`
an analyzer has byte fields or bit fields: one of the two machines moves while
the other is at its start.

### ListWriters and AtomicInserts

Threads in `llist_push_back` of one list. The caller copies `llist->end`, goes
to sleep for its allocation, and then passes through `llist_insert` one memory
access after the other. `sync_lock` and `sync_unlock` are steps that change
nothing, as the stubs do. The kernel has no preemption, so that a thread that is
past its allocation keeps its processor; `Cpus` bounds the threads in that part.
`AtomicInserts` is what remains to be seen from outside: a call reads the end,
and later a node is behind what was the end then, at once. Its ring is the function
from a cell to the one behind it. The mapping at the end of `ListWriters` says
when the step is: with the write to `prev->next`; a cached end that is not yet
updated is seen as it will be (`Ending`). `TaskAdmin` builds on that.

### TaskAdmin

Both admins, their lists as sequences of tasks, their maps as sequences of
copies of pairs (newest first). `add_task` is two steps: on one processor
without preemption a thread gives up the processor only in an allocation, and
everything `add_task` does lies before or behind its one allocation. What it
took along is in `writer`: the old `llist->end` of a list, nothing for a map,
whose key and task lie in the admin's one scratch `pair` meanwhile. Nothing keeps
writers apart. `Consume` says that somebody calls `get_task`, which nothing in
the driver does. `get_task` builds one of four keys by `&&` where `&` was meant
(`SearchKey`), hands nothing over from a map, and unlinks the head cell of an
empty list (`headless`). A creation that fails is NULL or an oops
(`CreateFails`). When a map has no memory, `add_task` returns as always
(`InsertRefused`). The rest is history: `done` are the tasks for which `add_task`
has returned, `refused` those of them that the map had no memory for, `mixed`
those whose writers were in a map of one admin at the same time, `taken` what
`get_task` took, and `before[r]` what was done when r began.

### Business

A step of `do_command_0x3010` or `do_command_0x301b` is one iteration of its
loop over the parts: `os`, `nth` and `count` are its locals (with their widths),
`pdata` is `protocol_data` of its analyzers, which keeps what a shorter part does
not overwrite. A message is its bytes, and where user space has put the parts
(`WellFormed`), as the test programs compose it: the parts fit into the message
and into `protocol_data`. The properties compare what the lengths in the bytes
lead to (`handled`, history) with where the parts are. A call has its own stack
and its own analyzers, and shares nothing with the admins before it calls
`add_task`: `MCTaskAdmin` follows calls while the admins are as they were at
first. The task of message 3008, its slot type and its admin are in `TaskAdmin`
(`slot_type`, `AdminOf`); a failed creation of an analyzer is an oops and has no
state behind it.

### ProtocolFormatSet

The registrar is the thread in `plat_probe`. It fills the struct in the order of
the code's assignments, a step each: base address, array, `memset`, size; then
for every format the head, its fields one by one, and last the entry in the
array. Writers look formats up and copy them meanwhile, a field per step. A
field for which there is no memory is missing in the format (`lost`), as nobody
looks at the NULL. `astray` records what was accessed without being part of the
set: beyond the array, an array that is not cleared, NULL, or freed memory.
`Destroy` is the loop of `pfs_destroy_protocol_format_set`, which only the test programs
call, when no analyzer is being created.

### PlatDriver

`core` is the thread that loads or unloads a module; probe and remove are its
steps, in their order, with every failure and the error label it goes to. `ret`
is not set on all of those ways: `UninitRet` is what the stack may hold. Users
open, read, write and close at any time; `device_open` finds the youngest
registration of the device number, as `kobj_map` does. A write passes through
the globals in the steps between which it may sleep. A fault ends a process with
its kind, and what is left behind stays. The kinds in `Stale` are of things that
are not there yet or no longer: the module, `pdev_priv`, the wait queue, the
allocator, the format set, the format, an admin that was freed. A write may die of
four others at any time: of an admin that could not be created, of memory that was
refused (for the analyzer and its copies, `protocol_analyzer.c:272`, or a list
node, `link_list.c:129`), of a field that was lost from a format and is read after
its NULL was logged (`business.c:60`), and of `make_pair`, which reads from the
address `slot_num` (`task_admin.c:180`). Addresses are reused only when no
pointer to them is left, so that a stale pointer is recognised. `ioctl` changes no
state; `driver_module_init` ignores what the registration returned, so that
loading always succeeds.

### UeventListener

One buffer for all datagrams. A string is one cell and its NUL another; strings
carry the number of their datagram, so that what was left in the buffer by an
earlier one can be told apart. The socket is the kernel's: it drops what it has
no room for, and the next `recvmsg` fails with ENOBUFS, which the loop takes for
its end.

## 3. Runs

| Run | Bounds | States | Shows |
|---|---|---|---|
| `hash_map` | 3 nodes, 3 buckets, 3 keys (two collide) and one with a hash beyond the table | 36,984 | structure, memory balance, complete walks, destroy ends, refinement of `KeyStacks` |
| `link_list` | 2 lists, 3 nodes, symmetric | 463,514 | pointers, separation, `end`, walks |
| `link_list_destroy` | 1 list, 3 nodes | 24,850 | destroy ends |
| `link_list_end` | as `link_list`, with `UseEndAfterDrain` | - | violation, see below |
| `analyzer` | all 5 formats, lengths 0, 4, 5, an array of exactly 28 bytes, formats 3019 and 3054 reused; two formats of bit fields, values also wider than the fields, 2 contents of the array before | 103,960 | parsing and generating are right and stay within the array, for bytes and for bits |
| `analyzer_reuse` | formats 3050 and 3052 reused | - | violation |
| `analyzer_names` | values set by long names too | - | violation |
| `task_admin` | 2 writers, a consumer, one of two batches of 5 tasks; messages of up to 3 parts, and one of 255 | 1,001,890 | only tasks that shared the scratch pair are mixed up, every other one is kept once or was refused; lists are queues; messages are split right |
| `list_writers` | 3 threads, 3 nodes, 1 processor | 20,502 | the ring, and refinement of `AtomicInserts` |
| `plat_driver` | 2 users, 2 addresses | 241,786 | what the kernel holds exists, a bound device is complete, nothing missing or stale kills its users, everything ends |
| `format_set` | 2 writers, the driver's base and sizes, 3 shortened formats, 2 fields lost at most | 455,489 | look-ups stay within the set, copies are of whole formats, destroy frees all and ends |
| `uevent_listener` | 7 kinds of datagrams, 4 sent, a socket for 2, a buffer of 11 cells | 64,456 | what is printed is genuine, in order and complete |

Why the bounds are enough. Three nodes make a chain of two next to another
chain, with `begin` in either; three buckets give an empty bucket before,
between and behind full ones, and the last bucket. Three nodes in a ring are
front, middle and back; two lists let a freed node come back elsewhere. The
lengths 0, 4 and 5 lie on both sides of the 4 bytes that fit into `data`; 28
bytes is the longest message they make (format 3052), so that one byte too far
is seen. An analyzer's messages are not counted: reuse goes on without end.
Symmetry is used for invariants only.

The bit fields begin and end at the edges of bytes and inside them, share bytes
with one and with two others and cross up to four; their values are empty, full,
have a bit at either end, are the bit above alone or all 32 bits, next to a neighbour
that is any of these. Three
tasks for one list make two that sleep with the same old end while a third is
there already or is taken; the others lie in another map, another admin, or are
not supported. Three parts have a first, a middle and a last one, with the
smallest and the largest length; 255 is what the counting byte can say. Three
threads on a list are one that inserts and two that hold positions from before.
Two addresses let a second probe run next to a `pdev_priv` that a file or a
failed probe has kept; a user's files do not depend on another's, two of them
keep the module pinned in turn. The formats are shortened because fields are
copied one like the other; three of them make the registration of one race the
look-up of those before and behind it, and one number that is looked up is never
registered. Four datagrams with a socket for two overrun it, and leave longer
text in the buffer than the next ones overwrite.

Deadlock is checked in the runs of the containers and of the analyzer, where the
models stutter after an oops (`Halt`), but for `analyzer_names`, where the
program may stop with one. The systems of the other runs may stop, and
say so in their configurations: all tasks are added, all threads are dead, all
readers sleep, the program has ended.

Fairness. Weak fairness of the destroy loops of the containers and of the format
set: they run in a thread that waits for nothing. Weak fairness in `PlatDriver`
of the thread in probe or remove and of a user in a write: they wait for memory
only, which arrives or is refused. None of users opening, reading or closing, and
none of loading or unloading. Weak fairness of the listener's loop, not of those
who send.

`TypeOK` of `TaskAdmin`,
`ListWriters`, `PlatDriver`, `ProtocolFormatSet` and `UeventListener` is proved
(`TypeCorrect` of each) and therefore not among the runs' properties.

### Disagreements with the code

Runs that expect a violation:

* `link_list_end`: removing the only node of a list moves `begin` but, because
  of an `else`, not `end`. The next `llist_push_back` (what `add_task` uses)
  links behind the removed entry.
* `analyzer_reuse`: `pa_reset_vlen_flag` restores the flags and not the
  positions, so `do_command_0x301b` reads the second and later parts of a
  message at wrong places when something follows a variable field.
* `analyzer_names`: `pa_find_key` does not copy a name of `key_size` characters
  or more; `sync_index` has exactly that many.

Configurations kept beside the runs, each with one invariant that TLC refutes.
They mark the edge of what the passing runs show:

| Configuration | Module | Invariant | What the code does |
|---|---|---|---|
| `MCTaskAdminPair.cfg` | `MCTaskAdmin` | `EveryTaskKept` | two writers of user slots overlap: both store the second task, since `hash_map_insert` copies the one scratch pair (`task_admin.c:180`) only after its allocation |
| `MCTaskAdminSlot.cfg` | `MCTaskAdmin` | `PairMade` | `make_pair` is given the slot number as a pointer (`task_admin.c:180`) and may die of reading it; what it reads is the key otherwise |
| `MCListWritersSMP.cfg` | `MCListWriters` | `NothingLost` | on two processors the stub locks (`sync_lock.c:63`) let a node fall off the ring; the module that the repository ships is built for SMP |
| `MCProtocolFormatSetAdd.cfg` | `MCProtocolFormatSet` | `WithinSet` | `pfs_add_proto_link_list` compares with `MAX_PROTOCOL_NUM` = 200 where the array has 100 heads |
| `MCProtocolFormatSetFind.cfg` | `MCProtocolFormatSet` | `WithinSet` | `pa_check_protocol_num` accepts `proto_base_addr + proto_max_num`, one behind the array |
| `MCProtocolAnalyzerBits.cfg` | `MCProtocolAnalyzer` | `NoOtherBit` | `pow` multiplies once too often, so that `set_bit_data` (`protocol_analyzer.c:67`) puts the bit above a field into its neighbour |

`LowBitsRead` and `BitsPlaced` say exactly what is wrong with bit fields: a parsed
value has the neighbour's bit on top, and a value that is wider than its field puts
one bit into the neighbour; no other bit is ever read or set. `TasksKept` says the
same of the tasks: what the scratch pair mixes up, and that nothing else does.

## 4. Proofs

Each component with state has a module of proofs. Their shape is the same: an
inductive invariant, one lemma per action that it is kept, and the theorems that
follow from it. A theorem holds for every value of the constants that the named
assumptions of its module allow; where it needs more, the hypothesis is in its
statement, and a run or a configuration of section 3 shows that it fails without.

| Theorem | Module | Property | Hypothesis, and what shows it is needed |
|---|---|---|---|
| `TypeCorrect` | `HashMapProofs` | `TypeOK` | - |
| `StructureCorrect`, `NodesInOwnBucket`, `OnlyBadHashesLeak` | `HashMapProofs` | `BeginIsFirst`, `InOwnBucket`, `NoOtherLeak` | - |
| `WalkCorrect`, `WalkKeepsPosition` | `HashMapProofs` | `WalkComplete`, `WalkPosition` | - |
| `RefinesKeyStacks` | `HashMapProofs` | `ImplementsKeyStacks` | - |
| `TypeCorrect`, `PointersRealiseContents`, `ListsStayApart`, `EndFollowsTheLast`, `PoisonIsNotFollowed`, `WalksAreComplete` | `LinkListProofs` | `TypeOK`, `Shape`, `Separation`, `EndIsLast`, `NoPoison`, `WalkComplete` | `~UseEndAfterDrain`; run `link_list_end` |
| `TypeCorrect`, `OneProcessorLosesNothing` | `ListWritersProofs` | `TypeOK`, `NothingLost` | one processor, finitely many nodes; `MCListWritersSMP.cfg` |
| `RefinesAtomicInserts` | `ListWritersProofs` | `ImplementsAtomicInserts` | the same |
| `TypeCorrect`, `PositionsStable` | `ProtocolAnalyzerProofs` | `TypeOK`, `PositionsKept` | - |
| `ParseIsCorrect`, `GenerateIsCorrect`, `NothingOverrun` | `ProtocolAnalyzerProofs` | `ParseCorrect`, `GenerateCorrect`, `NoOverrun` | `WellUsed`; runs `analyzer_reuse`, `analyzer_names` |
| `BitsArePlaced`, `LowBitsAreRead` | `ProtocolAnalyzerProofs` | `BitsPlaced`, `LowBitsRead` | - |
| `TypeCorrect`, `CopiesAreWhole` | `ProtocolFormatSetProofs` | `TypeOK`, `CopyComplete` | - |
| `SetIsNotLeft` | `ProtocolFormatSetProofs` | `WithinSet` | `NumbersFit` and `WantedFit`; `MCProtocolFormatSetAdd.cfg`, `...Find.cfg` |
| `NothingLeft` | `ProtocolFormatSetProofs` | `AllFreed` | `NumbersFit` |
| `TypeCorrect`, `QueuesKeepOrder` | `TaskAdminProofs` | `TypeOK`, `RealTimeOrder` | - |
| `OnlyOverlapMixesTasks` | `TaskAdminProofs` | `TasksKept` | - |
| `PartsAreInOrder`, `NothingReadBehind` | `TaskAdminProofs` | `PartsInOrder`, `WithinMessage` | - |
| `TypeCorrect`, `CdevsAreBacked`, `ProbeCompletes`, `BoundDeviceIsUsable` | `PlatDriverProofs` | `TypeOK`, `CdevBacked`, `BoundIsComplete`, `BoundIsUsable` | - |
| `TypeCorrect`, `EventsAreGenuine`, `EventsInOrder` | `UeventListenerProofs` | `TypeOK`, `PrintedGenuine`, `PrintedInOrder` | - |

`HashMapProofs`. `InOwnBucket`, `BeginIsFirst` and `NoOtherLeak` are inductive
together with the type invariant. The work is in delete: `begin` becomes the
position after the node, which is the first node of the least non-empty bucket
behind it (`FirstFromProperties`), and what `RemoveAt` does to the other indices
of the chain (`RemoveAtProperties`). `WalkComplete` is not inductive: it says
nothing about a walk that is under way. `WalkPosition` does: what is due lies
ahead of the walk, and what has been handed over does not. It needs the
structure, since the walk starts at `begin`, and one lemma for each operation
that may interleave. The refinement follows from the structure: a key's entries
hang in one bucket, a new node becomes the first of its chain (`InsertPushes`), a
removal keeps the order of the others (`DeleteRemoves`), and what
`hash_map_search` comes to first is the latest (`SearchesTop`). All else is a
stutter; `WalkInReady` adds that a walk exists only in a map that does, so that
the removals of a destroy are those of an open map.

`LinkListProofs`. `Rings` says with indices what `Shape` says by following
pointers: cell i+1 is the next of cell i, and cell i the prev of cell i+1. With
`Separation` this carries over to the lists that an operation does not touch.
`Caches` has `begin`, `count`, and `end` until the list was drained, which is
where the hypothesis comes in. `Walks` is the position of `llist_for_each` in the
ring: the node it has saved is some k-th cell, and what is due lies there or
behind. `DestroyAtFront` does the same for the destroy loop.

`ListWritersProofs`. Between its allocation and its return only one thread runs
(`OneRuns`); it alone may find or leave the ring cut. `Locals` says what each of
its local variables is relative to the pointers at each step, `PrevInverts` and
`Caches` what is true of the ring and of `end` with its pending steps counted in.
That it is one ring is not said by a path, which would change everywhere, but by
induction (`OneRing`): a set with the head in it that is closed under next, or
under prev, is everything. `NothingLost` follows the pointers with a recursive
function; that it reaches all of them is shown with the least number that is not
reached (`LeastNumber`, from the well-foundedness of < in the library), which
needs no induction rule with an operator parameter. For the refinement every
access but the write to `prev->next` is a stutter (`Unseen`), because `After`
leaves out the node that is being linked, and `EndToBe` is what `end` will be.

`ProtocolAnalyzerProofs`. `Base` needs nothing of the formats: the analyzer's list
has the fields of its format, and only fields with a length field are ever
flagged, so that in a `TailOnly` format the only field that
`pa_recompute_byte_pos` is called for is the last one, with nothing behind it to
move. This is what makes the reuse of one analyzer in `do_command_0x3010` (format
3054) sound, and what formats 3050 and 3052 lack.

`WellUsed` is what the code relies on and checks nowhere: every format is
`WellLaid` (no name occurs twice, a length field is one byte and comes before its
variable field, no field lies over another, names that cannot be found belong to
short fields), only `TailOnly` formats are reused, no caller sets a field that
`pa_find_key` does not find, and the array has at most 255 bytes, so that a
`uint8_t` reaches all of it. TLC evaluates `WellLaid` and `TailOnly` for the
formats of the driver (`DriverFormatsAssumption`). Under it `Progress` is
inductive. It is relative to the message `want` that is being handled: with the
loop behind the k-th field, the first k variable fields have got their lengths
and all later ones have moved by them (`Cut`), the array holds the values that
were received or generated (`Laid`), fields have got exactly their values by
parsing (`Got`) or hold at least their bytes for generating, in a buffer that may
be longer (`Holds`), and the length fields that were passed hold the right
numbers (`Known`). `SettleStep` is the heart: one settled field more turns `Cut`
at k into `Cut` at k + 1. The loops do not wrap a position because all of the
message lies in the array. The reference positions are sums (`Sums`, a recursive
function); that it exists and only grows is shown with the least number for which
it does not (`Upwards`), like the ring of `ListWriters`. Numbers of bytes are at
most 4 bytes long, so that writing and reading one is proved by cases
(`BytesRoundTrip`).

The bit fields have an invariant of their own, `BitInv`. `ChunkAt` ties the
loop's locals to the field: 8 * i + (7 - t_pos), the distance from the first
byte's highest bit, is where the field begins plus what has been handled, and
after the first chunk the position is always the highest bit of a byte. While a
message is generated, a byte holds its old bits and those of the values that come
before the loop, that is all of the earlier fields and the bits from t_len on of
this one (`Placed`); while it is parsed, the data read is that of the same bits,
with the bit above from the first chunk on (`BitsRead`). In the other chunks the
mask's extra bit is cut off by the byte, which is why `LowBitsRead` names only
one neighbour. Generating is the same the other way round: the first chunk takes
bit len of the value along if there is a place above it in the byte (`InChunk`,
`PassedBits`), and the later ones lose theirs, whatever the value. No layout is
excluded: fields may overlap, since bits are only ever added.

`ProtocolFormatSetProofs`. `Progress` says what of the struct, and `Entries` what
of each format, is there at each of the registrar's steps; `Writers` says the
same of the fields that a writer has copied so far. A copy enumerates the fields
that were not lost, in the format's order (`Enumerates`), also when the writer
runs while the registrar is at another format. `NumbersFit` is that the
registered numbers lie in the array, `WantedFit` that no writer asks for the
number one behind it, nor, while base and size are still zero, for a number
that the comparison of `pa_check_protocol_num` then lets through.

`TaskAdminProofs`. `Contents` and `Placed` are the two halves of "once and in its
place"; `Writers` says what a sleeping `add_task` holds. The order of a list needs
more: `Ends`, that the cached end is the last node or a node that was taken, and
`Positions`, that behind a position which a writer has kept lies nothing that was
added before it began. Inserting there therefore overtakes nobody, however long
it slept, also at a node that is long gone from the list.

The maps have an invariant of their own, `MapInv`. `Counted` is that a map has one
entry for each task it was given and had memory for, `Entered` that those of them
that were never mixed are in it, and `Entries` that such a task is there only once.
`Sharing` is why: while a writer sleeps, the admin's pair holds its own task, or
both its task and the one in the pair are mixed; and two writers in the maps of one
admin both are. So what an insertion copies is either the task it was called for or
one that `mixed` names already.

A call of `process_protocol` has the invariant `CallInv`. In a call, `os` is where
part nth + 1 begins, `handled` is what the first nth parts give their analyzers,
and what was read lies in the message; otherwise everything is at its start.
Neither `i` nor `os` wraps around because there are at most 255 parts and 1024
bytes. The invariant holds for any number of parts that the counting byte can
say, where the loop is the only induction.

`PlatDriverProofs`. `Phases` says whose thread it is, `Progress` what each step of
the probe has completed, `CdevsInPlace` and `KeptIsLeft` which registrations and
which memory a failed probe, or one that `class_create` made return, leaves
behind. `FilesInUse` is what of the past a write can bring along: a writer that
sleeps in `add_task`, with a file on the bound device or on that of the probe under
way (`Current`), has a container of an admin that still exists, since none goes
before `plat_remove`. All else that a write uses it reads anew in each step, and it
is there once the probe is through (`BoundIsComplete`). This is why a file that was
opened early, and even a write that began then, is safe from that moment on.

`UeventListenerProofs`. `Buffer` says that the buffer begins with the datagram at
the head of the queue, and that `parse_event` stands behind its j-th string and
has taken the first j. `Younger` is that what is queued was sent after what was
printed.

The assumptions are those named in the modules, which TLC evaluates: the table
has a bucket and hash values are numbers; NULL, the poison and the list heads are
no nodes; a message has its parts one behind the other with the lengths
that it says, and fits into the buffers (`WellFormed`); a bit field ends within
`protocol_data` and has at most 32 bits, and so has a value;
formats are non-empty sequences of fields, registered once each under a
number not below the base; a length index names a field of the same format, and
what a message consists of are bytes; what a stack may hold for `ret` is not nothing; a datagram
has a string. None bounds the number of nodes, keys, threads, tasks, formats,
users or messages.

Only model-checked is liveness: `DestroyTerminates` (of three models), `WritesEnd`,
`ModuleCallsEnd`, `EventuallyPrinted`. It rests on fairness, and so on ENABLED.

Every safety property that a passing run checks is proved. No module declares a
RECURSIVE operator.

## 5. What is not modelled

* `libdbg` and all printing (`pfs_print_list_for_each`, `dbg_buf`): no state that
  another part reads.
* The table of allocator types in `liballoc`: a constant. Its allocations and
  frees are in every model as sets of free addresses, or as choices to fail.
* `ioctl`: it changes no state.
* The test programs. Their calls and messages are the data of several models.
* Text formatting and parsing of attribute strings in `udev1.c`: a string is its
  key.
* Messages whose lengths do not fit into `protocol_data`: `byte_pos` is a
  `uint8_t`, the array has 100 bytes, and nothing checks either. The models send
  what fits and show that nothing else is touched then. The same goes for
  `pa_set_buf` of a field of at most 4 bytes, whose value is lost.
