# Verification of the tracking core server

TLA+ models, TLC runs and TLAPS proofs for the server in `src/`: agents report
how strongly they hear Bluetooth beacons, the server keeps the last readings,
decides in which room each beacon is, averages positions and answers queries
over HTTP.

`tlc -config X.cfg M` checks module `M`; `tlapm M_proofs.tla` checks proofs.

## 1. Inventory

| Component | Code | State | Operations | Modelled |
|---|---|---|---|---|
| Reading queues | `headers/Rssi_Queue.h` `rssi_queue_t` | chain of the last readings, counted size, smoothed output | `init_rssi_queue`, `enqueue`, `dequeue`, `set_out`, `add_rssi_to_q` | yes: `RssiQueue`, `RssiFeed` |
| Beacon store | `headers/Rssi_Queue.h` `blist_t`, `beacon_t` | chain of beacons, each with a chain of queues, a flag "new readings", an array of ten positions | `add_rssi_to_blist` and all it calls | yes: `BeaconStore` |
| Room selection | `algorithms/calc.h` | none (a loop over the outputs) | `get_room_num`, `get_info_from_mac`, `get_info_from_room` | yes: `RoomCalc`, `RoomSelection` |
| Published positions | `headers/Position_list.h` | per beacon, the last published average | `add_pos_to_list`, `get_pos_by_mac` | partly: as the server calls them |
| Server threads | `server.c`, `agentHandler.h` | where each thread is, five mutexes | `log_and_storeRSSIFromAgent`, `SIGINT_Handler`, `agent_thread_init` | partly: `TrackingServer` |
| Messages | `agentHandler.h`, `store_rssi_from_agent`, `str_split` | a 1024-byte buffer, `buf[39]`, the position hidden in `strtok` | `read`, tell the kinds apart, split, confirm | yes, bytes counted: `Messages` |
| Agent connections | `agentHandler.h` `agent_list_t` | chain of connections with socket, thread, mac | add, remove by mac, free at shutdown, `check_status` | yes: `Connections`; `free_agent_list` as one step of `TrackingServer` |
| HTTP queries | `posOutputHandler.h` | none of its own | `get_beacon_name_from_url`, `ev_handler` | partly: its lock, `agent_status`, its use of `strtok`; not the text of answers |
| Start-up, configuration | `server.c` `main`, `utils/configure.h`, `utils/param_reader.h`, `headers/*Info.h` | globals, parameter lists with an iterator | read files, parse `-p`, fill arrays | partly: `Startup`, `ParamList`; not the parsing of characters |
| Loggers | `utils/logger.h` | file and mutex | `log_to_file` | lock only |
| Geometry | `utils/mathUtils.h`, `calculate`, `adjustment.h` | none | trilateration, `adjust`, `bound` | no: floating point, a table of constants |
| Kalman filter | `utils/kalman_filter.h` | filter per queue | `filter` | no: the call is commented out |
| Agent program | `test/server/.../btagent/blist.h` | table of the beacons heard, socket | `insert`, `send_message`, wait for `z` | partly: `AgentTable`, `Messages`; not the scanning |
| Unused code | `position.h`, `utils/knn.c` | | | no: not compiled |
| mongoose | `utils/mongoose.*` | | | no: vendored |

### How the parts interact

`main` binds its port first, then reads `conf.ini`, the command line and three
parameter files through lists that carry their own iterator, installs the handler of
SIGINT, makes five objects and starts the HTTP thread; agents that connect meanwhile
wait in the kernel. An agent keeps the strongest reading of each beacon for a tenth of
a second and then sends it, with those of other beacons, as one message without an end
mark, and waits for the reply.

An agent connects; the main thread's `accept` loop starts a thread for it. The
thread enters its connection in `agent_list` (own mutex) and then reads messages.
A batch of records is logged under `logger->lock` and stored under `list->lock`:
every record goes through `add_rssi_to_blist`, which files the reading, computes
the room from the outputs of all agents that hear the beacon, adds the position
to the beacon's batch and, every tenth time, publishes the average in
`position_list`; it also writes the position to a second log under its own mutex.
Then the agent is sent a `z`. The HTTP thread reads `position_list` under
`position_list->lock`. `SIGINT_Handler` takes three of the mutexes, cancels the
other threads, gives the mutexes back, frees everything and exits. Two look-ups
in `calc.h` raise SIGINT themselves, on the thread of an agent.

### What is hard

* Five mutexes, taken nested, by threads that can be cancelled, with a signal
  handler that takes mutexes too and may run on a thread that holds one.
* A protocol without retries: an agent that misses its `z` is silent for good.
* Messages without an end mark, told apart by the length of whatever `read` returned.
* `strtok` in two threads, with one hidden position between them.
* A start in which connections and signals can arrive before what they need exists.
* Iterators inside the lists they walk, which start over by themselves.
* Integer smoothing with truncation towards zero and a sentinel in the same field
  as the value; the sign of the result has a meaning of its own in another module.
* Hand-written selection of the three strongest, with a first triple that is not
  checked for "no output" and ties of every kind.
* Sizes counted beside chains, and arrays indexed by counters without a check.
* A chain of connections searched by a mac that may be uninitialised or shared, walked
  by readers without its lock, its nodes freed under threads that still use them.
* A flag set by one function and taken back by another on one of several paths.

The complete list, with the lines, is under `hazards` in `PROJECT.json`.

### What makes each part correct

* Queues: exactly the last `QMax` readings in order; an output that lies within what was
  heard, follows the signal, and is negative for a present agent.
* Store: every reading in the queue of its own beacon and agent; never more queues than
  the array of pairs holds (a stranger's report makes one more); no usable reading left
  unused; each batch of ten positions published once and whole; a beacon placed only
  where heard.
* Room selection: the three strongest; a room only with three agents of that room; "need
  more info" and a stop only when there is a reason.
* Connections: the chain is sound, no node is lost, a status "on" is founded; each
  connection has a thread of its own and is listed until it ends (neither is so).
* Messages: what is confirmed is filed, under the right mac; no reading that was due is
  overwritten unsent; an agent that waits is answered.
* Start-up: every line of every file is loaded once, the last setting wins, no thread
  exists before its data, a clean exit only when there is something to clean up, and a
  breakdown only for an input that cannot be read or a ^C that is early.
* Threads: sections exclude each other; every message is confirmed; ^C stops the
  process; the handler keeps others out while it frees.

## 2. Modules

| Module | Models | State and actions |
|---|---|---|
| `RssiQueue` | the queue as a value | operators `Enqueue`, `Dequeue`, `SetOut`, `AddRssi`; `CDiv` is C's division |
| `SlidingWindow` | what queues promise (abstract) | `recent[source]`; `Push` |
| `RssiFeed` | one queue, one agent, a moving beacon | `queue` (the `rssi_queue_t`), `signal`, history `seen`; `Receive` = `add_rssi_to_q`, `Move` is the environment |
| `RoomCalc` | `get_room_num` as a definition | array indices from 0 as in C; outcomes `None` (return -1), `Halt` (raise), room |
| `RoomSelection` | `get_room_num` as it runs | `i`, `top` are the C locals; one action per branch |
| `BeaconStore` | the list of beacons and publications | `beacons[b]` has the fields of `beacon_t`; one action, `Store` = `add_rssi_to_blist`, whose ends are `Unplaced`, `Placed`, `Halted` and `Overrun` |
| `TrackingServer` | threads and mutexes | `pc[t]`, `lock[l]` (the holder); one action per stretch of code between two lock operations |
| `Connections` | `agent_list` on the heap, threads' arguments, `check_status` | `node[p]` is what lies at address `p`; `agent[c]`, `argument`, `curr` are the pointers of the C code; history `late`: a thread read its argument after the function that holds it had returned |
| `ParamList` | the parameter list, which the code has three times | `size`, `position`, `counter` are the C fields; operators `AddItem`, `HasNext`, `NextItem`, `AfterNext` |
| `Startup` | `main` from `bind` to `accept`, with ^C and connections | `pc` walks `main`; the nested loop of a loader is `Load`, `TakeField`, `Loaded`; `ReadBlank`, `LoadTooLong` are what a blank part and an overlong key do; `handler` is where `SIGINT_Handler` is |
| `AgentTable` | the agent's `insert` as a function | a node is `mac`, `due` (100 ms are over), `flag` |
| `Messages` | an agent, its TCP stream, its thread, the HTTP thread | `stream`, `cut`: the messages not read to the end and how far the first is; `lines`, `save`: what `strtok` has still to give, and whose text it is |
| `MC*` | instances for TLC | |
| `*_proofs` | theorems | one module for each module above that is checked as a specification |
| `DataInduction` | nothing of the code: induction over the naturals for the proofs | |

`Startup` ends where `TrackingServer` and `Connections` begin: `NoThreadSeesHalf` is what
their initial states assume, and `TypeOK` of `Startup` (`q_max > 0`) is `RssiQueue`'s
assumption on its length. `Messages` is built from `AgentTable`; a record it stores is a
`Store` of `BeaconStore`, its confirmed batch is the `Ack` of `TrackingServer`, and the
macs its keep-alives leave behind are those by which `Connections` removes.

`BeaconStore` is built from `RssiQueue` and `RoomCalc`; `RoomSelection` shows that
`RoomCalc` is what the loop computes. `Connections` details what `TrackingServer` calls
`listed`: there a disconnect removes its own connection, the case the server is meant for.
`TrackingServer` abstracts a record to the
locks its storage touches (`unplaced`, `placed`, `publish`, `unknown`), which are the
outcomes of `BeaconStore!Store`; since a record is stored under `list->lock`
(`SectionsExclude`), `BeaconStore` may treat it as one step.

### Abstractions

* Coordinates are represented by the room whose agents they were computed from.
* Beacons' and agents' macs are model values; a chain is a sequence. A room is an
  integer, which the store keeps in an `int8_t` (`Stored`).
* Undefined behaviour ends what is claimed: `running` of `BeaconStore` turns false when
  the array of pairs is overrun, `ended` of `Startup` is `crashed`, `broken` of
  `Messages` names the buffer, and a thread of `Connections` is `broken` when its search
  of a ring of nodes does not end or it frees a node twice. Nothing is known of the
  process from there, and the models stop.
* Freed memory keeps its contents, except that the allocator may overwrite the first
  words (`con_fd`); `malloc` returns a freed node or a new one. Memory without an
  agent's mac reads as the empty string, as fresh pages do; other leftovers, which match
  nothing, are not distinguished from it. A thread that reads its argument late finds
  the last value stored there; that `main`'s other calls overwrite the dead frame with
  something that is no pointer, and crash the process, is left out.
* A text that `strtok` still points to can be gone: the query's `url[100]` with its
  stack frame, the agent's buffer by the next `read`. What is found there then is any
  length of the three that `NextLine` tells apart (`Overwritten`, `Found`).
* In `Messages` bytes are counted: a header has 19, a record 38 behind its newline, the
  longest there is (four characters of rssi, so every record is as long as it can be); a
  reading is stronger than the one held or not. A mac is `own`, `other` or `unset`.
* In `Startup` a line of a file is its key and its fields; a field is a number. A line
  that has nothing but blanks where a part should be has the key `Blank`, one whose key
  does not fit the array it is copied to is in `TooLong`. What the parsers make of
  repeated separators and other characters is not modelled.
* In `TrackingServer` a message is one of six kinds; a batch of records acts on the
  locks as its last interesting record does.
* `stored`/`MaxRecords` bounds the behaviours of `BeaconStore`; `trail` and `seen` are
  histories that no action reads.
* Definitions marked "Slip" are plausible mistakes in the code below them. No
  specification uses them; putting one in the place of the definition it precedes must
  break the property it is listed with in `PROJECT.json` (`mutants`).

## 3. Runs

| Run | Bounds | What it shows |
|---|---|---|
| `RssiFeed` | queue of 3, readings -64, -60, -5, 0, 3 | the window is kept; the output never leaves what was heard, never overshoots, is negative when every reading is at most -5, and settles within 4 dB of a constant signal |
| `RoomSelection` | 5 agents in two rooms, one unknown mac, outputs -80, -70, -60, 0; every array of 3 to 5 hearers | the ranking at every turn, the room it leads to, both reverses, agreement with `RoomCalc`; no deadlock |
| `BeaconStore` | 1 beacon; two rooms of three agents and a stranger, readings -70 and -60, queue of 1, batches of 2, 6 records and a seventh when all six agents have reported (14,737 states) | every reading filed, no record that can place the beacon fails to, every batch published once and whole, placed only where heard, overrun only by a stranger |
| `TrackingServer` | 2 agents, three kinds of message, SIGINT at any time | sections exclude (the agents' list among agents only), every message confirmed, ^C completes |
| `FailedLookUp` | the same | **violated**: a failed look-up does not exit the process |
| `LockedOut` | 2 agents, five kinds of message | **violated**: the HTTP thread is in its section although the handler holds the lock |
| `UseAfterFree` | the same | **violated**: a thread writes to the log the handler freed |
| `Connections` | 3 connections, two of one agent; threads in time or late; one status query at a time, not followed after a thread was late (930,499 states) | until a thread is late the chain is sound, nothing is lost, "on" is founded; endless searches and second frees come from late threads alone, and ranges hold whatever happens |
| `WrongRemoval` | the same connections | **violated** with every thread in time: a thread serves although its connection is not listed |
| `SharedArgument` | the same | **violated**: two threads serve the same connection |
| `Startup` | 35 sets of files (each file good, empty, missing, with short, long, repeated, keyless, commented and blank lines, and keys too long for one id or for both), 4 command lines, 3 agents, backlog of 1 | files are loaded whole, the last setting wins, no thread sees half of the data, ^C exits cleanly only at the end, breakdowns have a cause in the input, early agents are served |
| `Messages` | 2 beacons, 2 messages, pieces of 17, 18, 19 or 45 bytes, two short reads; queries of four kinds at any time, their parts short or too long for `buf[39]` or `id[32]` (579,194 states) | what is confirmed is filed unless cut or crossed; overruns and strange macs come only from there; no due reading lost; an agent is answered |

Why the bounds are enough. The queue's behaviour depends on whether it is empty,
short of full or full, and on the order and sign of readings: three places and five
values, two closer than the dead band and two without a valid measurement, give
every combination. For the ranking, three strengths and "no output" give every tie;
five pairs exercise two turns of the loop after the first triple. In the store,
six records reach two publications by the same beacon, in every order of the two rooms, so
that a position lost, counted twice or put under the wrong room is a different value, and
a stranger's report may come at any of them; the seventh is the one that finds the array
of pairs full. Queues of one reading suffice, since how a queue fills up and
overflows is the matter of `RssiFeed`; what follows a stranger's report is left out
(`MCFollowed`). Nothing in one beacon's
handling reads another's. The three agents of a room are a symmetry set:
a room of three has the same third agent whichever two are found
first, a position is represented by its room, and the runs check no liveness.
Three connections make each branch of the
removal (head, tail, middle) happen, and a freed node used again while a query stands on
it; the two of one agent are a symmetry set. Late threads are followed to the end, but no query
(`MCFollowed`), of which nothing is claimed from there.
The files of `Startup` are varied one at a time, so that a fault in one meets good ones
before and behind it; every stage of `main` is crossed by ^C and by connections.
In `Messages` the pieces are the longest garbage, the length that falls between the
tests (18), the shortest keep-alive and one that cuts a record; two messages make the
joined line that overruns `buf[39]`, and a query between any two calls of `strtok` is
possible, with parts on either side of both buffers' ends.
Two agents' threads are what exclusion and lock order
need.

The proofs below remove these bounds for the invariants and action properties. They are
about the same specifications, so the runs also guard the theorems against vacuous
assumptions: TLC evaluates every `ASSUME`.

### Fairness

`RssiFeed`: weak fairness of `Receive`, the agent goes on scanning and reporting;
nothing is assumed of the beacon. `TrackingServer`: strong fairness for each thread's
own steps, because a Linux futex mutex is handed to a waiter that keeps trying while it
becomes free again and again; nothing is assumed of agents, clients or ^C, and a
cancelled thread need not notice its cancellation. Fairness is stated for the agent's
thread, with the handler when that thread raised the signal, for the handler on the main
thread and for the HTTP thread. A cancelled thread stops, if it does, at one of
`CancellationPoints`, where it calls a function POSIX lists (`read`, `write`, a log
file's or the console's output). `Startup`: weak fairness of the main thread, nothing of
agents, ^C or the HTTP thread. `Messages`: weak fairness of the agent's thread (delivery
included, TCP retransmits) and of the agent's blocking read; nothing of beacons, clients
or the HTTP thread. That an agent is answered therefore holds also when the HTTP thread
never finishes a query. `RoomSelection` has no liveness: the run checks that no call
gets stuck. `Connections` claims no liveness either: threads wait for their agents.
`CHECK_DEADLOCK FALSE` where the system may stop: `Connections` (all of the bounded
connections have come and gone), `BeaconStore` (bound on records, a raised SIGINT, or
the overrun), `Startup` (the process has ended, or nobody connects), `Messages` (bound
on messages, a raised SIGINT, undefined behaviour), `TrackingServer` (exit, or the
self-deadlock reported below).

### Findings

* `calc.h:111` (and 96): raising SIGINT in a look-up runs the handler on the thread
  that holds `list->lock`; the handler waits for it for ever (`FailedLookUp`).
* `Rssi_Queue.h:340`: `pthread_mutex_unlock` where a lock is meant (`LockedOut`).
* `server.c:183`: the mutexes are given back before what they protect is freed
  (`UseAfterFree`).
* `agentHandler.h:134`: a disconnect removes the first node with the same mac. Macs are
  uninitialised until a keep-alive comes, and the agent program under `test/` sends none,
  so this is not a rare case (`WrongRemoval`).
* `server.c:254`: the thread's argument is a local variable of a function that returns
  (`SharedArgument`).

### Seen while modelling, without a run

These are in the models as the code has them; either no text of the repository says
otherwise, or a reading of two lines shows them.

* `server.c:48`: the port is bound before `conf.ini` and `-p` are read, so neither has
  an effect, against the usage text (`server.c:161`). A failed bind exits with 0
  (`215`).
* `server.c:83`: between `signal` and the last object, ^C dereferences NULL, or waits
  for a mutex nobody initialised.
* `agentHandler.h:72`: the handler walks and frees the list of agents without that
  list's mutex, which is none of the three it takes, also while an agent's thread
  unlinks a node.
* `Rssi_Queue.h:302`: a report under a mac nobody registered makes a queue like any
  other; one queue more than there are agents overruns the array of pairs (`Overrun`).
* `agentInfo.h:30` and `beaconInfo.h:25`: a key longer than `id` overruns it;
  `param_reader.h:182` and `configure.h:154`: of a stretch of blanks nothing is
  allocated and `strncpy` gets the length -1.
* `server.c:254`: once two threads share an `agent_t`, it may be entered into the list
  twice, which makes the list a ring, lose another connection's, or be freed twice
  (`Break`).
* `agentHandler.h:273`: of a message in four pieces of at most 17 bytes nothing is
  confirmed, and the agent waits for ever (it has no time-out and never reconnects).
* `agentHandler.h:267`: a piece of 19 to 35 bytes is confirmed as a keep-alive, and its
  records are lost; each further reply lets the agent run a message ahead.
* `Rssi_Queue.h:537`: the rest of a message that was cut is filed under a text that is
  no mac, whose look-up then raises SIGINT; `543`: two messages in one buffer make a
  line longer than `buf[39]`, and so does the rest of a URL that a query left to
  `strtok`.
* `posOutputHandler.h:32`: `strtok` in two threads. A query between two lines of a
  message takes the rest of the message as its id, more than `id[32]` holds, and the
  agent's thread goes on in the URL; queries that come often enough keep it there.
* `posOutputHandler.h:35` and `42`: a path of slashes gives `strcmp` NULL; an id of 32
  characters or more overruns `id`.
* `blist.h:194`: a reading that was sent is sent again whenever another beacon is heard,
  since `flag` ("sent or not sent", `blist.h:6`) is not tested there.
* `blist.h:177`: `startime` moves in steps of 100 s, not 100 ms, so that after the first
  tenth of a second nearly every reading is due at once.

## 4. Proofs

All for every value of the constants. Every invariant and every action property of the
runs that pass is a theorem; what is only model-checked is at the end of this section.

### Induction over data

Several definitions are recursive functions: the places of a list, the lines of a file,
the turns of the loop that ranks three agents, the beginnings of the messages in a
stream. What they compute is proved by induction, although no theorem with an operator
as a parameter can be used: `DataInduction` states induction of a set. `NatIsInductive`
and `IntervalIsInductive` say that a set with 0 (or the lower bound) and closed under
successors has everything; a proof cites them with the set of the numbers for which its
claim holds. They rest on `LeastElement`, and that on the library's theorem that `<` is
well-founded on the naturals. A recursive definition means something only if a function
with that equation exists: `RecursionExists` and `RecursionMeans` say so for steps given
as functions, and `WalkExists`, `KeptUnfolds`, `ScanIsDefined`, `RankUnfolds`,
`BeginsUnfolds`, `LinesInUnfolds`, `LinesOfUnfolds` apply them.

### `RssiFeed_proofs` (any queue length, any readings of a signed byte)

`TypeCorrect`, `OutputIsBounded`, `PresentAgentCounts`, `NoOvershoot`, and
`ImplementsWindow`, the refinement of `SlidingWindow`. `OutWithinSeen` is not inductive:
it must be known that every reading in the chain was seen and that the counted size is
the chain's length, otherwise `set_out`'s shortcut for one reading could use another one.
The invariant adds both. The arithmetic rests on two lemmas: truncating division leaves
the average between its arguments (`SmoothedBetween`), and below -MA it cannot reach zero
(`SmoothedNegative`).

### `RoomSelection_proofs` (any number of agents from three, any rooms, any outputs)

`TypeCorrect`, `ScanRanks`, `AbsentOnlyEarly`, `RoomsAreBacked`, `NothingIsMissed`,
`HaltsAreMismatches`, `LoopIsDefinition`. The inductive part is `Sorted(top, i)`: distinct
indices below `i` in order, everything passed over absent or not stronger than the third,
nothing absent ranked from place 3 on. `FirstThreeSorts`, `InsertSorts` and `SkipSorts`
show that the branches keep it. That the agents of a room are three different ones needs
`HearersDiffer` (no two pairs have one mac), which holds because a beacon has one queue
per mac (`StrangersOverrun` in `BeaconStore`). `LoopIsDefinition` is what lets `BeaconStore`
use `RoomCalc` for the loop: at turn `i` the locals are what the definition has after `i`
pairs (`ScanIsDefined`), and each exit of the loop is a case of the definition.

### `BeaconStore_proofs` (any beacons, macs, batch size, number of records)

`TypeCorrect`, `OnlyStrangersOverrun`, `BatchesAreWhole`, `OnlyHearingRoomsPlace`, and
two action properties: `StoreImplementsWindows`, each record is a `Push` of
`SlidingWindow` on its own queue, and `PlaceableIsAlwaysPlaced`. The invariant `Sound`
gives each beacon `OneQueueEach` (a chain of queues with different macs, each of an
agent that may be on the air) and, for some number k of batches published, `BatchIs(k,
..)`. k is no part of the state; the proof carries it as a witness, because that a batch
is whole (`PublishesWholeBatches` divides the number of positions by the batch size) is
kept by a step only if it is known which batch it belongs to. `FileKeepsOneEach` shows
that a record adds a queue only for a new mac, `StrangerAmong` that more macs than
agents have one among them that is no agent's (an injection into the agents' indices),
so that nothing need be assumed of the macs on the air; `PositionJoinsBatch` and
`PositionEndsBatch` are the two cases of `add_pos`. `StoreInv` adds, for each beacon,
that the counted size of every queue is its chain's length and that every room on its
trail is heard by three of the room's agents (`Backed`): both are kept because queues
are never taken away (`HeardStays`). `OutcomeIsHeard` says that a room `get_room_num`
returns is heard, `PlaceableIsPlaced` that a determined room is returned, whatever the
order of the queues; both rest on `RankUnfolds`, what the ranking is after n pairs.
`FileShape` and `FileMovesLog` say of `add_rssi_to_q`'s search that it finds the one
queue of the mac and moves its window only. A room's id is any integer: what is claimed
is claimed of the `int8_t` it is kept in.

### `Connections_proofs` (any connections, macs, addresses)

`TypesHold`, `ChainStaysSound`, `NoNodeIsLost`, `RemovalsEnd`, `OnAnswersAreFounded`,
`OnlyFirstNamesakeLeaves`, all of `Spec` as it is: a thread may be late to take its
argument at any time. `TypesHold` says what is true all the same; the others speak of
the states before the first thread is late, because afterwards threads share nodes (run
`SharedArgument`) and what they say is false. `late` is part of the state, set by
`Return`, so that this limits the property and not the behaviours. `RemovalsEnd` turns
it round: whenever a disconnect goes astray, a thread was late. `FirstNamesakeLeaves`,
what a disconnect does to the chain, is stated with its theorem and no property of a
run. `ConnectionsInv` is accordingly `Typed`, which every step keeps, and `~ late =>
OnTime`: a step that makes a thread late owes nothing more, and every other step starts
from `OnTime`. The chain is a function of the heap (`place`: follow `next` from `head`),
so that each step needs to know what it does to the walk: `WalkExists` gives its
equation (also in a ring), an addition extends it by one, a removal takes one out, and
writes to nodes that are not on it change nothing. `ListIsSound` is not inductive: that
a new node is not on the chain needs to be known of whoever still holds it. `OnTime`
adds what threads own (`Ownership`: the node of a thread that starts or enters is used,
not listed, and no other thread's) and the ranges of pointers (`Nodes`, `Threads`). For
`OnIsFounded` the query stands on a node that may have been freed and used again. The
invariant `Query` says that the nodes it can still reach lie in a set W closed under
`next` in which the mac asked for is only on nodes that make the answer founded.

### `Startup_proofs` (any files, options, agents, backlog)

`TypeCorrect`, `ThreadsSeeEverything`, `EarlyInterruptsFail`, `OnlyBadInputBreaks`,
`SettingsAreTheLast`, `EveryLineIsLoaded`. `TypeCorrect` is inductive with the shape of
the lists; the second and third need that `output` and `served` only change at the end
of `main` and how many objects each stage has behind it; the fourth needs that the
iterator of a line is at the field about to be taken, so that `next_val` runs out only
when the line is too short, and that every line in a list comes from its file; keys that
are blank or too long are causes among the others. The last two follow a line from its
file to its array. `SettingsInv`: while a file is read, the list has the lines kept of
what was read (`Kept`, by `KeptUnfolds`), and each setting is the value the list's first
`counter` items give it. `LoadingInv`: while an array is filled, its entries are the
wanted fields of the list's first items, the entry being filled is that of the item the
iterator stands on, and both iterators are in their first round, which is what keeps a
wrap-around from loading a line twice.

### `Messages_proofs` (any beacons, strengths, bounds, pieces and queries)

`TypeCorrect`, `NothingLostUnsent`, `ConfirmedRecordsAreFiled`, `TroubleIsCaused`.
`NothingLostUnsent` is about the agent alone, but under every behaviour of the rest; its
invariant says what the property does not: a flagged node is due, and its present
reading was in a message (`FlaggedWasSent`). `ConfirmedRecordsAreFiled` and
`TroubleIsCaused` need `MessagesInv`. Its part `Lockstep` says what an uncut stream is:
at most one message, and it is in the stream, with the thread, or answered.
`WholeMessage` shows what the thread makes of it: as many lines as the message has
records, each of a length that fits `buf[39]` and has its three fields; the length of
one record or more is never taken for a keep-alive. `Accounted` follows the count of
unfiled records through the message, the buffer and strtok's position, until a query
takes the position over. `TroubleIsCaused` has the rest of a URL among the lines: as
long as no thread was given the other's text, the agent's thread has lines of its own
only. That no record is filed twice (`unfiled` in `TypeCorrect`) holds with short reads
as well: `Counted` compares the unfiled records with those that lie in messages whose
header is unread and in the buffer of a message read from its start. `LinesOfCounted`
bounds the lines of a piece by the records of the messages it touches, `RecordsOfRest`
and `FirstLeftIs` say what a read leaves in the stream.

### `TrackingServer_proofs` (any set of agents)

`TypeCorrect`, `SectionsAreExclusive`.
`SectionsExclude` counts the threads a lock has admitted: the handler, who does not ask the
lock of the list of agents, is not among that list's (nothing keeps it out).
Exclusion alone says nothing of who holds a lock; the invariant `Holds` says that
whoever is in a section is the recorded holder of its lock, also a thread that has
raised SIGINT inside `list`'s section. `ThreadStep` reduces each action to the locks a
thread owes before and after.

### Assumptions

A queue holds at least one reading (`init_blist` replaces a length that is
not positive), readings are signed bytes (`blist.h` of the agent), rooms are integers
(`atoi`), at least three agents
are configured, each once, no agent has the empty mac, the threads are different, an agent
may hear finitely many beacons, the connections are finitely many. Nothing is assumed of
who reports, of how soon a thread starts, or of how long keys and URLs are.

### Only model-checked

All liveness (`SettlesWithinBand`, `ShutdownCompletes`, `EveryMessageConfirmed`,
`EarlyAgentsAreServed`, `AgentIsAnswered`), which TLAPS does not treat. What the runs
that are expected to fail refute is no theorem, of course. That `Store` of `BeaconStore`
is one step because of `SectionsExclude`, and the other correspondences of section 2
between modules, are arguments and not checked.

## 5. Plan

Done in the order of importance: queues and room selection, the store, threads and locks,
connections, start-up, messages; then the proofs. What is left:

1. `Connections`: `free_agent_list` node by node, against removals in other threads.
2. `Connections`: what the list is worth once threads share an argument, beyond its ranges.
3. `TrackingServer`: a second ^C, on another thread than the first; and what a step of the
   handler may never do, as an action property.

## 6. Not modelled

* mongoose: `utils/mongoose.c` and `.h`, 20,919 lines, are a vendored library. It is the
  reason why the mapped lines are a small share (about 6 %) of all lines that
  `PROJECT.json` lists as sources; of the 3,780 lines of this project's own sources
  among them the map covers about two fifths.
* Floating-point geometry and the Kalman filter (`mathUtils.h`, `calculate`, `adjust`,
  `kalman_filter.h`), which TLC and TLAPS cannot treat, and `bound`, a table of
  constants.
* The parsing of characters (`trim_str`, `setParamFromString`, `set_param_s_from_str`):
  a line is what they make of it, with the blank line, on which they break down, among
  its kinds. Among what this leaves out is a field behind "||", which begins with a '|'.
* The text of the answers and of the logs; files and sockets as such.
* Messages of more than 17 records, which overrun the agent's buffer of 672 bytes
  (`blist.h:248`), and the agent's scanning.
* Files so large that the arrays sized by them do not fit the stack.
* `free_agent_list` node by node, and the freeing of the parameter lists.
* Code that is not compiled (`position.h`, `knn.c`) or not called (`zone_adjust`,
  `agent_thread_init_log`, `write_to_file`), and the legacy servers, GUIs and clients
  under `test/`.
* Stores of one thread read by another outside any lock, below the level of statements.
