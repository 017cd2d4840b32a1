---------------------------- MODULE RoomSelection ----------------------------
(***************************************************************************)
(* get_room_num as the thread runs it: one pass over the pairs that keeps   *)
(* the indices of the three strongest, then the look-ups.  The pairs are    *)
(* what get_rssi_for_calc fills: one per agent that hears the beacon, in    *)
(* the order in which they first heard it, and zeros after them.            *)
(***************************************************************************)
EXTENDS RoomCalc, FiniteSets

CONSTANTS
  Mac,      \* the macs agents call themselves, registered or not
  Output    \* the smoothed outputs a queue can have

ASSUME SelectionAssumption ==
  /\ Output \subseteq Int
  /\ NoMac \notin Mac
  /\ \A i \in Index : InfoMac[i] \in Mac

VARIABLES
  pairs,    \* the argument
  pc,       \* "start", "scan", "match", "done" or "halted"
  i,        \* the loop counter
  top,      \* the three indices
  outcome   \* what the caller gets

vars == <<pairs, pc, i, top, outcome>>

Unused == [mac |-> NoMac, rssi |-> 0]

Pairs == [Index -> [mac : Mac, rssi : Output] \cup {Unused}]

\* n agents hear the beacon: the k-th to have heard it, m[k], has output r[k].
Fill(n, m, r) ==
  [k \in Index |-> IF k < n THEN [mac |-> m[k], rssi |-> r[k]] ELSE Unused]

\* n different agents, in the order in which they first heard the beacon.
Hearers(n) ==
  {m \in [0..n - 1 -> Mac] : \A j, k \in 0..n - 1 : m[j] = m[k] => j = k}

Init ==
  /\ \E n \in 3..AgentNum :
       \E m \in Hearers(n), r \in [0..n - 1 -> Output] : pairs = Fill(n, m, r)
  /\ pc = "start" /\ i = 3 /\ top = Top(0, 1, 2) /\ outcome = None

\* Lines 121-122.
GiveUp ==
  /\ pc = "start" /\ NothingToRank(pairs)
  /\ pc' = "done" /\ outcome' = None
  /\ UNCHANGED <<pairs, i, top>>

SortFirstThree ==
  /\ pc = "start" /\ ~ NothingToRank(pairs)
  /\ top' = FirstThree(pairs) /\ i' = 3 /\ pc' = "scan"
  /\ UNCHANGED <<pairs, outcome>>

\* Slip: the counter moves in the branch and at the end of the loop.
SkipAbsentTwice ==
  /\ pc = "scan" /\ i < AgentNum /\ Absent(pairs[i])
  /\ i' = i + 2
  /\ UNCHANGED <<pairs, pc, top, outcome>>

SkipAbsent ==
  /\ pc = "scan" /\ i < AgentNum /\ Absent(pairs[i])
  /\ i' = i + 1
  /\ UNCHANGED <<pairs, pc, top, outcome>>

RankNext ==
  /\ pc = "scan" /\ i < AgentNum /\ ~ Absent(pairs[i])
  /\ top' = Insert(top, pairs, i) /\ i' = i + 1
  /\ UNCHANGED <<pairs, pc, outcome>>

\* Slip: the scan stops one pair early.
LookUpEarly ==
  /\ pc = "scan" /\ i >= AgentNum - 1
  /\ IF Unregistered(pairs, top)
     THEN pc' = "halted" /\ outcome' = Halt
     ELSE pc' = "match" /\ UNCHANGED outcome
  /\ UNCHANGED <<pairs, i, top>>

\* The three get_info_from_mac calls.
LookUp ==
  /\ pc = "scan" /\ i = AgentNum
  /\ IF Unregistered(pairs, top)
     THEN pc' = "halted" /\ outcome' = Halt
     ELSE pc' = "match" /\ UNCHANGED outcome
  /\ UNCHANGED <<pairs, i, top>>

MatchRoom ==
  /\ pc = "match"
  /\ outcome' = RoomOfTop(pairs, top)
  /\ pc' = IF outcome' = Halt THEN "halted" ELSE "done"
  /\ UNCHANGED <<pairs, i, top>>

\* The caller has its answer.  With this action a deadlock is a call that
\* neither returns nor stops the process.
Returned == pc \in {"done", "halted"} /\ UNCHANGED vars

Next ==
  \/ GiveUp \/ SortFirstThree \/ SkipAbsent \/ RankNext
  \/ LookUp \/ MatchRoom \/ Returned

Spec == Init /\ [][Next]_vars

-----------------------------------------------------------------------------
(* Properties *)

TopType == [max : Index, second : Index, third : Index]

\* The state keeps its shape, and every index of the ranking is in the array.
TypeOK ==
  /\ pairs \in Pairs
  /\ pc \in {"start", "scan", "match", "done", "halted"}
  /\ i \in 3..AgentNum
  /\ top \in TopType
  /\ outcome.kind \in {"none", "halt", "room"}

\* The ranking of the pairs below n.
Ranks(t, n) ==
  /\ Cardinality(Members(t)) = 3
  /\ Members(t) \subseteq 0..n - 1
  /\ pairs[t.max].rssi >= pairs[t.second].rssi
  /\ pairs[t.second].rssi >= pairs[t.third].rssi
  /\ \A k \in (0..n - 1) \ Members(t) :
       (k >= 3 /\ Absent(pairs[k])) \/ pairs[k].rssi <= pairs[t.third].rssi

\* At every turn of the loop the three indices are distinct, ordered by
\* strength, and no pair passed over so far that says something is stronger
\* than the third (lines 124-161).
Ranked == pc \in {"scan", "match"} => Ranks(top, i)

\* A pair that says nothing can be ranked only from the second and third
\* places of the array, which the code sorts without looking.
OnlyEarlyAbsent ==
  pc \in {"scan", "match"} =>
    \A k \in Members(top) : Absent(pairs[k]) => k \in {1, 2}

\* A room comes with three different agents of that room, each with the output
\* of its own pair, two of them among the three strongest (lines 168-218).
RoomIsBacked ==
  outcome.kind = "room" =>
    /\ Cardinality({outcome.infos[k] : k \in 1..3}) = 3
    /\ \A k \in 1..3 :
         /\ InfoRoom[outcome.infos[k]] = outcome.room
         /\ \E j \in Index : pairs[j] = [mac  |-> InfoMac[outcome.infos[k]],
                                         rssi |-> outcome.rssi[k]]
    /\ \E a, b \in Members(top) :
         /\ a # b
         /\ pairs[a].mac = InfoMac[outcome.infos[1]]
         /\ pairs[b].mac = InfoMac[outcome.infos[2]]

\* The configured agents among the members of a set of pair indices.
AgentsIn(room, S) ==
  {k \in S : \E a \in Index : InfoMac[a] = pairs[k].mac /\ InfoRoom[a] = room}

\* The reverse: the caller is told "need more info" only for want of it.  A
\* room that has two of the three strongest agents is missed only if the first
\* pair says nothing, or another agent of that room has not heard the beacon.
MissedOnlyForWant ==
  pc = "done" /\ outcome.kind = "none" =>
    \/ Absent(pairs[0])
    \/ \A room \in {InfoRoom[a] : a \in Index} :
         Cardinality(AgentsIn(room, Members(top))) >= 2 =>
           \E a \in Index :
             InfoRoom[a] = room /\ \A k \in Index : pairs[k].mac # InfoMac[a]

\* The process is stopped only for a configuration that does not match what
\* is on the air: an agent nobody registered among the strongest, or two of
\* the strongest in a room of fewer than three agents.
HaltsOnlyOnMismatch ==
  pc = "halted" =>
    \/ \E k \in Members(top) : pairs[k].mac \notin {InfoMac[a] : a \in Index}
    \/ \E room \in {InfoRoom[a] : a \in Index} :
         /\ Cardinality(AgentsIn(room, Members(top))) >= 2
         /\ Cardinality({b \in Index : InfoRoom[b] = room}) < 3

\* The loop computes what the definition of RoomCalc says, which is the form
\* the beacon store uses.
AgreesWithDefinition ==
  pc \in {"done", "halted"} => outcome = GetRoomNum(pairs)
=============================================================================
