----------------------------- MODULE BeaconStore -----------------------------
(***************************************************************************)
(* The list of beacons (blist_t of headers/Rssi_Queue.h) and the positions  *)
(* computed from it.  One action is one record accepted from an agent: the  *)
(* whole of add_rssi_to_blist, which finds or makes the beacon, finds or     *)
(* makes the agent's queue in it, and tries to compute a position.  The     *)
(* thread that runs it holds list->lock, so nothing interleaves.            *)
(*                                                                          *)
(* A position's coordinates are represented by the room whose agents they   *)
(* were computed from (calculate, adjust and bound are arithmetic on them). *)
(***************************************************************************)
EXTENDS RssiQueue, RoomCalc, FiniteSets

CONSTANTS
  Beacon,      \* the beacons carried around
  Mac,         \* the macs agents call themselves
  Batch,       \* positions averaged into one publication (10 in the code)
  MaxRecords   \* bound on the number of records of a behaviour

ASSUME StoreAssumption ==
  /\ Batch \in Nat \ {0}
  /\ MaxRecords \in Nat
  /\ NoMac \notin Mac

\* A room's id is what atoi makes of its field.
ASSUME RoomAssumption == \A k \in Index : InfoRoom[k] \in Int

VARIABLES
  beacons,    \* beacons[b]: the beacon_t of b, without queues while unknown
  posList,    \* posList[b]: the b_pos_t of b, at most one publication
  running,    \* FALSE once SIGINT is raised or the array of pairs is overrun
  stored,     \* how many records were accepted (bound)
  trail       \* trail[b]: the rooms of all positions computed (history)

vars == <<beacons, posList, running, stored, trail>>

NoRoom == 0

\* init_beacon.
NewBeacon ==
  [queues   |-> <<>>,                                \* the chain of rssi_queue_t
   flag     |-> 0,                                   \* readings not used yet
   position |-> [k \in 0..Batch - 1 |-> NoRoom],     \* the batch being filled
   posSize  |-> 0]

Init ==
  /\ beacons = [b \in Beacon |-> NewBeacon]
  /\ posList = [b \in Beacon |-> <<>>]
  /\ running = TRUE
  /\ stored = 0
  /\ trail = [b \in Beacon |-> <<>>]

-----------------------------------------------------------------------------
(* The parts of the handler, in the order in which it runs them *)

\* Slip: the search along the chain stops before its tail.
QueuesOfShort(queues, mac) == {k \in 1..Len(queues) - 1 : queues[k].mac = mac}

QueuesOf(queues, mac) == {k \in 1..Len(queues) : queues[k].mac = mac}

\* Slip: the reading goes to the tail queue, not to the one found.
FileAtTail(queues, mac, r) ==
  IF QueuesOf(queues, mac) = {}
  THEN Append(queues, [mac |-> mac, q |-> AddRssi(EmptyQueue, r)])
  ELSE [queues EXCEPT ![Len(queues)].q = AddRssi(@, r)]

\* The agent's queue takes the reading; an agent heard for the first time gets
\* a queue at the tail (add_rssi_to_beacon).
File(queues, mac, r) ==
  IF QueuesOf(queues, mac) = {}
  THEN Append(queues, [mac |-> mac, q |-> AddRssi(EmptyQueue, r)])
  ELSE [queues EXCEPT ![First(QueuesOf(queues, mac))].q = AddRssi(@, r)]

\* Slip: only a new agent raises the flag.
FiledFlagOnce(beacon, mac, r) ==
  [beacon EXCEPT !.flag = IF QueuesOf(beacon.queues, mac) = {} THEN 1 ELSE @,
                 !.queues = File(@, mac, r)]

\* The flag says that there are readings no calculation has used.
Filed(beacon, mac, r) ==
  [beacon EXCEPT !.flag = 1, !.queues = File(@, mac, r)]

\* get_rssi_for_calc: one pair per queue, in the order of the chain, zeros
\* after them; only zeros when there is nothing new.
PairsOf(beacon) ==
  [k \in Index |->
     IF beacon.flag = 1 /\ k < Len(beacon.queues)
     THEN [mac |-> beacon.queues[k + 1].mac, rssi |-> beacon.queues[k + 1].q.out]
     ELSE [mac |-> NoMac, rssi |-> 0]]

\* The room is kept in an int8_t, whose -1 stands for "not placed".
Stored(room) == ((room + 128) % 256) - 128

\* get_pos_for_beacon asks for a room when three agents hear the beacon.
Outcome(beacon) ==
  LET found == GetRoomNum(PairsOf(beacon))
  IN  IF Len(beacon.queues) < 3 THEN None
      ELSE IF found.kind # "room" THEN found
      ELSE IF Stored(found.room) = -1 THEN None
      ELSE [kind |-> "room", room |-> Stored(found.room)]

\* Asking uses the readings up.
Asked(beacon) ==
  IF Len(beacon.queues) < 3 THEN beacon ELSE [beacon EXCEPT !.flag = 0]

\* Slip: the batch starts again one position too late.
WithPositionLate(beacon, room) ==
  [beacon EXCEPT !.position[beacon.posSize] = room,
                 !.posSize = IF @ + 1 > Batch THEN 0 ELSE @ + 1]

\* add_pos: the position takes its place in the batch, and a full batch starts
\* again.
WithPosition(beacon, room) ==
  [beacon EXCEPT !.position[beacon.posSize] = room,
                 !.posSize = IF @ + 1 >= Batch THEN 0 ELSE @ + 1]

CompletesBatch(beacon) == beacon.posSize + 1 >= Batch

\* Slip: the average is taken before the last position is in its place.
AverageEarly(beacon, room) ==
  [room |-> room, of |-> [k \in 1..Batch |-> beacon.position[k - 1]]]

\* The average of the batch, under the room of its last position.
Average(beacon, room) ==
  [room |-> room,
   of   |-> [k \in 1..Batch |->
               IF k = Batch THEN room ELSE beacon.position[k - 1]]]

\* add_pos_to_list with a buffer of one: whatever was published before, in
\* this room or another, makes way.
Publish(published, new) == <<new>>

-----------------------------------------------------------------------------
(* Actions *)

\* Nobody compares the number of queues with the size of the array of pairs
\* on the stack: one queue too many is written past its end, and nothing is
\* known of the process from there.
Overruns(new) == Len(new.queues) > AgentNum

Overrun(b, new) ==
  /\ beacons' = [beacons EXCEPT ![b] = new]
  /\ running' = FALSE
  /\ UNCHANGED <<posList, trail>>

\* The beacon cannot be placed (yet).
Unplaced(b, new, outcome) ==
  /\ outcome = None
  /\ beacons' = [beacons EXCEPT ![b] = Asked(new)]
  /\ UNCHANGED <<posList, running, trail>>

\* The beacon has a position, which may complete a batch.
Placed(b, new, outcome) ==
  /\ outcome.kind = "room"
  /\ beacons' = [beacons EXCEPT ![b] = WithPosition(Asked(new), outcome.room)]
  /\ posList' = IF CompletesBatch(new)
                THEN [posList EXCEPT ![b] = Publish(@, Average(new, outcome.room))]
                ELSE posList
  /\ trail' = [trail EXCEPT ![b] = Append(@, outcome.room)]
  /\ UNCHANGED running

\* A look-up has failed: SIGINT is raised on the spot, with the reading filed
\* and the flag taken back.
Halted(b, new, outcome) ==
  /\ outcome = Halt
  /\ beacons' = [beacons EXCEPT ![b] = Asked(new)]
  /\ running' = FALSE
  /\ UNCHANGED <<posList, trail>>

\* get_pos_for_beacon.
Place(b, new) ==
  LET outcome == Outcome(new) IN
  \/ Unplaced(b, new, outcome)
  \/ Placed(b, new, outcome)
  \/ Halted(b, new, outcome)

\* add_rssi_to_blist: the reading is filed, then a position is attempted.
Store(b, mac, r) ==
  LET new == Filed(beacons[b], mac, r) IN
  /\ running /\ stored < MaxRecords
  /\ stored' = stored + 1
  /\ \/ Overruns(new) /\ Overrun(b, new)
     \/ ~ Overruns(new) /\ Place(b, new)

Next == \E b \in Beacon, mac \in Mac, r \in Rssi : Store(b, mac, r)

Spec == Init /\ [][Next]_vars

-----------------------------------------------------------------------------
(* Properties *)

Rooms == {Stored(InfoRoom[k]) : k \in Index}

BeaconType ==
  [queues   : Seq([mac : Mac,
                   q   : [chain : Seq(Rssi), size : 0..QMax, out : -128..127]]),
   flag     : {0, 1},
   position : [0..Batch - 1 -> Rooms \cup {NoRoom}],
   posSize  : 0..Batch - 1]

\* The store keeps its shape: in particular the next position always has a
\* place in the array of positions.
TypeOK ==
  /\ beacons \in [Beacon -> BeaconType]
  /\ posList \in [Beacon -> Seq([room : Rooms, of : [1..Batch -> Rooms]])]
  /\ running \in BOOLEAN
  /\ stored \in 0..MaxRecords
  /\ trail \in [Beacon -> Seq(Rooms)]

\* A beacon has one queue per mac that reported it.  So as long as only
\* registered agents report, its queues fit the AgentNum pairs that
\* get_rssi_for_calc fills (lines 298-310): the array is overrun by a report
\* under a mac nobody registered, one queue too long, and by nothing else.
StrangersOverrun ==
  \A b \in Beacon :
    LET queues == beacons[b].queues IN
    /\ \A j, k \in 1..Len(queues) : queues[j].mac = queues[k].mac => j = k
    /\ Len(queues) > AgentNum =>
         /\ ~ running
         /\ Len(queues) = AgentNum + 1
         /\ \E k \in 1..Len(queues) : InfoFromMac(queues[k].mac) = NotFound

\* The readings the store holds for an agent and a beacon.
Log ==
  [s \in Beacon \X Mac |->
     LET queues == beacons[s[1]].queues
         mine   == {k \in 1..Len(queues) : queues[k].mac = s[2]}
     IN  IF mine = {} THEN <<>> ELSE queues[CHOOSE k \in mine : TRUE].q.chain]

\* Beacons and queues together are a table of windows: a record shifts the
\* window of its own beacon and agent, and no other.
Windows == INSTANCE SlidingWindow
             WITH Size <- QMax, Sample <- Rssi, Source <- Beacon \X Mac, recent <- Log
FilesEachReading ==
  [][\A b \in Beacon, mac \in Mac, r \in Rssi :
       Store(b, mac, r) => Windows!Push(<<b, mac>>, r)]_vars

\* What was published last: k whole batches have been computed.
PublishedAfter(b, k) ==
  posList[b] =
    IF k = 0 THEN <<>>
    ELSE << [room |-> trail[b][k * Batch],
             of   |-> SubSeq(trail[b], (k - 1) * Batch + 1, k * Batch)] >>

\* Of every Batch positions exactly one publication is made: the average of
\* these Batch positions, each counted once, under the room of the last; the
\* positions since then wait in the array, in their order (add_pos).
PublishesWholeBatches ==
  \A b \in Beacon :
    LET n == Len(trail[b]) IN
    /\ PublishedAfter(b, n \div Batch)
    /\ beacons[b].posSize = n % Batch
    /\ \A k \in 1..n % Batch :
         beacons[b].position[k - 1] = trail[b][(n \div Batch) * Batch + k]

\* The configured agents of a room that hear a beacon.
HearersIn(b, room) ==
  {k \in Index : /\ InfoRoom[k] = room
                 /\ \E j \in 1..Len(beacons[b].queues) :
                      beacons[b].queues[j].mac = InfoMac[k]}

\* A beacon is placed in a room, and published in one, only if three of that
\* room's own agents have heard it; the room is named as an int8_t holds it.
PlacedWhereHeard ==
  \A b \in Beacon :
    \A placed \in {trail[b][k] : k \in 1..Len(trail[b])}
                    \cup {posList[b][k].room : k \in 1..Len(posList[b])} :
      \E i \in Index : /\ Stored(InfoRoom[i]) = placed
                       /\ Cardinality(HearersIn(b, InfoRoom[i])) >= 3

\* Three agents hear a beacon, all of one room, and the one that heard it
\* first has an output: nothing is missing to place the beacon.
Placeable(beacon, room) ==
  LET queues == beacon.queues IN
  /\ Len(queues) >= 3
  /\ queues[1].q.out < 0
  /\ \A j \in 1..Len(queues) :
       \E k \in Index : InfoMac[k] = queues[j].mac /\ InfoRoom[k] = room
  /\ Cardinality({k \in Index : InfoRoom[k] = room}) = 3

\* Every record that can place its beacon does: no accepted reading of a
\* placeable beacon goes by without a position in that room, unless the room's
\* id is one that an int8_t reads as -1.
EveryRecordPlaces ==
  [][\A b \in Beacon, i \in Index :
       Placeable(beacons[b], InfoRoom[i])' /\ Stored(InfoRoom[i]) # -1 =>
         \A mac \in Mac, r \in Rssi :
           Store(b, mac, r) => trail'[b] = Append(trail[b], Stored(InfoRoom[i]))]_vars
=============================================================================
