------------------------------ MODULE RoomCalc ------------------------------
(***************************************************************************)
(* Which room a beacon is in (get_room_num of algorithms/calc.h and the two *)
(* look-ups it calls).  Constant-level: the smoothed outputs of the agents  *)
(* that hear the beacon come in as an array of pairs, indexed from 0 as in  *)
(* the code, and an outcome comes out.                                      *)
(***************************************************************************)
EXTENDS Integers

CONSTANTS
  AgentNum,   \* how many agents the configuration lists
  InfoMac,    \* infos[i].mac, for i in 0..AgentNum-1
  InfoRoom,   \* infos[i].room_id
  NoMac       \* the empty mac of an unused pair

Index == 0..AgentNum - 1

\* get_pos_for_beacon asks for a room only when three agents hear the beacon,
\* each of which fills one pair of an array of AgentNum.
ASSUME AgentNumAssumption == AgentNum \in Nat /\ AgentNum >= 3

\* parameters/list_agent.txt names each agent once.
ASSUME InfosAssumption ==
  /\ \A i, j \in Index : InfoMac[i] = InfoMac[j] => i = j
  /\ \A i \in Index : InfoMac[i] # NoMac

NotFound == -1

\* The first index that satisfies a condition, as the look-up loops find it.
First(S) == IF S = {} THEN NotFound ELSE CHOOSE i \in S : \A j \in S : i <= j

\* Slip: the search stops before the last entry.
InfoFromMacShort(mac) == First({i \in Index : i < AgentNum - 1 /\ InfoMac[i] = mac})

InfoFromMac(mac) == First({i \in Index : InfoMac[i] = mac})

\* Slip: only the first agent already found is passed over.
InfoFromRoomAgain(room, found1, found2) ==
  First({i \in Index : InfoRoom[i] = room /\ i # found1})

InfoFromRoom(room, found1, found2) ==
  First({i \in Index : InfoRoom[i] = room /\ i # found1 /\ i # found2})

-----------------------------------------------------------------------------
(* The three strongest pairs, by index *)

Top(a, b, c) == [max |-> a, second |-> b, third |-> c]

Members(top) == {top.max, top.second, top.third}

\* The first three pairs are sorted whatever they hold.
FirstThree(pairs) ==
  LET strong == IF pairs[0].rssi > pairs[1].rssi THEN 0 ELSE 1
      weak   == 1 - strong
  IN  IF pairs[2].rssi < pairs[weak].rssi THEN Top(strong, weak, 2)
      ELSE IF pairs[2].rssi > pairs[strong].rssi THEN Top(2, strong, weak)
      ELSE Top(strong, 2, weak)

\* A pair that says nothing is skipped...
Absent(pair) == pair.rssi >= 0

\* Slip: a new second does not push the old second down.
InsertNoShift(top, pairs, i) ==
  IF pairs[i].rssi > pairs[top.max].rssi THEN Top(i, top.max, top.second)
  ELSE IF pairs[i].rssi > pairs[top.second].rssi THEN Top(top.max, i, top.third)
  ELSE IF pairs[i].rssi > pairs[top.third].rssi THEN Top(top.max, top.second, i)
  ELSE top

\* ...and any other is inserted where it is strictly stronger.
Insert(top, pairs, i) ==
  IF pairs[i].rssi > pairs[top.max].rssi THEN Top(i, top.max, top.second)
  ELSE IF pairs[i].rssi > pairs[top.second].rssi THEN Top(top.max, i, top.second)
  ELSE IF pairs[i].rssi > pairs[top.third].rssi THEN Top(top.max, top.second, i)
  ELSE top

\* The whole scan.
TopThree(pairs) ==
  LET upTo[n \in 3..AgentNum] ==
        IF n = 3 THEN FirstThree(pairs)
        ELSE IF Absent(pairs[n - 1]) THEN upTo[n - 1]
        ELSE Insert(upTo[n - 1], pairs, n - 1)
  IN  upTo[AgentNum]

-----------------------------------------------------------------------------
(* The outcome *)

None == [kind |-> "none"]     \* get_room_num returns -1
Halt == [kind |-> "halt"]     \* raise(SIGINT) in a look-up; it never returns

\* Slip: a room is returned although its third agent has no pair.
InRoomOfAnyway(pairs, a, b) ==
  LET info1 == InfoFromMac(pairs[a].mac)
      info2 == InfoFromMac(pairs[b].mac)
      info3 == InfoFromRoom(InfoRoom[info1], info1, info2)
  IN  IF info3 = NotFound THEN Halt
      ELSE [kind |-> "room", room |-> InfoRoom[info1],
            infos |-> <<info1, info2, info3>>, rssi |-> <<0, 0, 0>>]

\* Two of the strongest agents, a and b (pair indices), are in one room: the
\* room is decided, and the calculation wants the room's next agent and the
\* output of that agent, wherever its pair is.
InRoomOf(pairs, a, b) ==
  LET info1 == InfoFromMac(pairs[a].mac)
      info2 == InfoFromMac(pairs[b].mac)
      info3 == InfoFromRoom(InfoRoom[info1], info1, info2)
      at    == First({i \in Index : pairs[i].mac = InfoMac[info3]})
  IN  IF info3 = NotFound THEN Halt
      ELSE IF at = NotFound THEN None
      ELSE [kind  |-> "room", room |-> InfoRoom[info1],
            infos |-> <<info1, info2, info3>>,
            rssi  |-> <<pairs[a].rssi, pairs[b].rssi, pairs[at].rssi>>]

SameRoom(pairs, a, b) ==
  InfoRoom[InfoFromMac(pairs[a].mac)] = InfoRoom[InfoFromMac(pairs[b].mac)]

\* An agent among the strongest that the configuration does not list.
Unregistered(pairs, top) ==
  \E k \in Members(top) : InfoFromMac(pairs[k].mac) = NotFound

\* Slip: the second and the third are not compared.
RoomOfTopTwo(pairs, top) ==
  IF SameRoom(pairs, top.max, top.second) THEN InRoomOf(pairs, top.max, top.second)
  ELSE IF SameRoom(pairs, top.max, top.third) THEN InRoomOf(pairs, top.max, top.third)
  ELSE None

\* The strongest pair of agents that share a room decides.
RoomOfTop(pairs, top) ==
  IF SameRoom(pairs, top.max, top.second) THEN InRoomOf(pairs, top.max, top.second)
  ELSE IF SameRoom(pairs, top.max, top.third) THEN InRoomOf(pairs, top.max, top.third)
  ELSE IF SameRoom(pairs, top.second, top.third) THEN InRoomOf(pairs, top.second, top.third)
  ELSE None

\* Slip: the first agent is not asked whether it has an output.
NothingToRankUnchecked(pairs) == AgentNum < 3

\* Nothing is ranked when the first agent of the beacon has no output.
NothingToRank(pairs) == AgentNum < 3 \/ Absent(pairs[0])

GetRoomNum(pairs) ==
  IF NothingToRank(pairs) THEN None
  ELSE IF Unregistered(pairs, TopThree(pairs)) THEN Halt
  ELSE RoomOfTop(pairs, TopThree(pairs))
=============================================================================
