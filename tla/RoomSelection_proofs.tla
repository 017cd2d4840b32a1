------------------------ MODULE RoomSelection_proofs ------------------------
(***************************************************************************)
(* Proofs about RoomSelection, for every number of agents (at least three), *)
(* every assignment of agents to rooms and every set of outputs.            *)
(***************************************************************************)
EXTENDS RoomSelection, FiniteSetTheorems, DataInduction, TLAPS

-----------------------------------------------------------------------------
(* Look-ups *)

\* A non-empty set of indices has a first one.
LEMMA IndexHasFirst ==
  ASSUME NEW S \in SUBSET Index, S # {}
  PROVE  \E i0 \in S : \A j \in S : i0 <= j
<1>1. S \subseteq Nat
  BY DEF Index
<1> QED BY <1>1, LeastElement

\* First is an index of the set, unless the set is empty.
LEMMA FirstProperties ==
  ASSUME NEW S \in SUBSET Index
  PROVE  /\ First(S) # NotFound => First(S) \in S
         /\ First(S) = NotFound => S = {}
<1>1. CASE S = {}
  BY <1>1 DEF First
<1>2. CASE S # {}
  <2>1. \E i0 \in S : \A j \in S : i0 <= j
    BY <1>2, IndexHasFirst
  <2>2. First(S) \in S
    BY <1>2, <2>1, Zenon DEF First
  <2>3. First(S) # NotFound
    BY <2>2, AgentNumAssumption DEF Index, NotFound
  <2> QED BY <2>2, <2>3, <1>2
<1> QED BY <1>1, <1>2

\* get_info_from_mac finds the entry of the mac, if there is one.
LEMMA InfoFromMacProperties ==
  ASSUME NEW mac
  PROVE  /\ InfoFromMac(mac) # NotFound =>
              InfoFromMac(mac) \in Index /\ InfoMac[InfoFromMac(mac)] = mac
         /\ InfoFromMac(mac) = NotFound => \A a \in Index : InfoMac[a] # mac
<1> DEFINE S == {a \in Index : InfoMac[a] = mac}
<1>1. S \in SUBSET Index
  OBVIOUS
<1>2. /\ First(S) # NotFound => First(S) \in S
      /\ First(S) = NotFound => S = {}
  <2> HIDE DEF S
  <2> QED BY <1>1, FirstProperties
<1> QED BY <1>2, Zenon DEF InfoFromMac

\* get_info_from_room finds a third agent of the room, if there is one.
LEMMA InfoFromRoomProperties ==
  ASSUME NEW room, NEW f1, NEW f2
  PROVE  /\ InfoFromRoom(room, f1, f2) # NotFound =>
              /\ InfoFromRoom(room, f1, f2) \in Index
              /\ InfoRoom[InfoFromRoom(room, f1, f2)] = room
              /\ InfoFromRoom(room, f1, f2) # f1 /\ InfoFromRoom(room, f1, f2) # f2
         /\ InfoFromRoom(room, f1, f2) = NotFound =>
              \A b \in Index : InfoRoom[b] = room => b = f1 \/ b = f2
<1> DEFINE S == {a \in Index : InfoRoom[a] = room /\ a # f1 /\ a # f2}
<1>1. S \in SUBSET Index
  OBVIOUS
<1>2. /\ First(S) # NotFound => First(S) \in S
      /\ First(S) = NotFound => S = {}
  <2> HIDE DEF S
  <2> QED BY <1>1, FirstProperties
<1>3. InfoFromRoom(room, f1, f2) = First(S)
  BY DEF InfoFromRoom
<1> QED BY <1>2, <1>3, Zenon

-----------------------------------------------------------------------------
(* The ranking *)

\* Three different things are three things.
LEMMA ThreeThings ==
  ASSUME NEW a, NEW b, NEW c, a # b, a # c, b # c
  PROVE  Cardinality({a, b, c}) = 3
<1>1. IsFiniteSet({a}) /\ Cardinality({a}) = 1
  BY FS_Singleton
<1>2. IsFiniteSet({a} \cup {b}) /\ Cardinality({a} \cup {b}) = 2
  BY <1>1, FS_AddElement
<1>3. Cardinality(({a} \cup {b}) \cup {c}) = 3
  BY <1>2, FS_AddElement
<1>4. ({a} \cup {b}) \cup {c} = {a, b, c}
  OBVIOUS
<1> QED BY <1>3, <1>4

\* What Ranked says of the ranking, with the three indices compared one by one
\* and without the outer CASE of pc: the form that is inductive.
Sorted(t, n) ==
  /\ t.max # t.second /\ t.max # t.third /\ t.second # t.third
  /\ Members(t) \subseteq 0..n - 1
  /\ pairs[t.max].rssi >= pairs[t.second].rssi
  /\ pairs[t.second].rssi >= pairs[t.third].rssi
  /\ \A k \in (0..n - 1) \ Members(t) :
       (k >= 3 /\ Absent(pairs[k])) \/ pairs[k].rssi <= pairs[t.third].rssi
  /\ \A k \in Members(t) : k >= 3 => ~ Absent(pairs[k])

LEMMA SortedRanks ==
  ASSUME NEW t, NEW n, Sorted(t, n) PROVE Ranks(t, n)
BY ThreeThings DEF Sorted, Ranks, Members

\* Every pair has a number for an output.
LEMMA RssiIsInt ==
  ASSUME pairs \in Pairs PROVE \A k \in Index : pairs[k].rssi \in Int
<1> TAKE k \in Index
<1>1. pairs[k] \in [mac : Mac, rssi : Output] \cup {Unused}
  BY DEF Pairs
<1>2. CASE pairs[k] \in [mac : Mac, rssi : Output]
  BY <1>2, SelectionAssumption
<1>3. CASE pairs[k] = Unused
  BY <1>3 DEF Unused
<1> QED BY <1>1, <1>2, <1>3

\* The comparisons of lines 125-138 sort the first three pairs.
LEMMA FirstThreeSorts ==
  ASSUME pairs \in Pairs
  PROVE  FirstThree(pairs) \in TopType /\ Sorted(FirstThree(pairs), 3)
<1>1. 0 \in Index /\ 1 \in Index /\ 2 \in Index
  BY AgentNumAssumption DEF Index
<1>2. pairs[0].rssi \in Int /\ pairs[1].rssi \in Int /\ pairs[2].rssi \in Int
  BY <1>1, RssiIsInt
<1>3. \E t \in {Top(0, 1, 2), Top(1, 0, 2), Top(2, 0, 1), Top(2, 1, 0),
                Top(0, 2, 1), Top(1, 2, 0)} :
        /\ FirstThree(pairs) = t
        /\ pairs[t.max].rssi >= pairs[t.second].rssi
        /\ pairs[t.second].rssi >= pairs[t.third].rssi
  BY <1>2, SMTT(30) DEF FirstThree, Top
<1>4. ASSUME NEW t \in {Top(0, 1, 2), Top(1, 0, 2), Top(2, 0, 1), Top(2, 1, 0),
                        Top(0, 2, 1), Top(1, 2, 0)}
      PROVE  /\ t \in TopType
             /\ t.max # t.second /\ t.max # t.third /\ t.second # t.third
             /\ Members(t) = 0..2
  BY <1>1, SMTT(30) DEF Top, TopType, Members
<1> QED BY <1>3, <1>4 DEF Sorted

\* Inserting the next pair where it is strictly stronger keeps the order
\* (lines 147-159).
LEMMA InsertSorts ==
  ASSUME pairs \in Pairs, NEW t \in TopType, NEW n \in 3..AgentNum - 1,
         Sorted(t, n), ~ Absent(pairs[n])
  PROVE  Insert(t, pairs, n) \in TopType /\ Sorted(Insert(t, pairs, n), n + 1)
<1> DEFINE u == Insert(t, pairs, n)
<1>1. n \in Index /\ t.max \in Index /\ t.second \in Index /\ t.third \in Index
  BY AgentNumAssumption DEF Index, TopType
<1>2. n \notin Members(t) /\ Members(t) \subseteq Index
  BY AgentNumAssumption DEF Index, TopType, Sorted, Members
<1>3. \A k \in 0..n : k \in Index /\ pairs[k].rssi \in Int
  <2>1. \A k \in 0..n : k \in Index
    BY AgentNumAssumption DEF Index
  <2> QED BY <2>1, RssiIsInt
<1> QED BY <1>1, <1>2, <1>3, AgentNumAssumption, SMTT(60) DEF Insert, Sorted, Members, Top, TopType

\* Passing over a pair that says nothing keeps it, too (lines 143-146).
LEMMA SkipSorts ==
  ASSUME NEW t \in TopType, NEW n \in 3..AgentNum - 1,
         Sorted(t, n), Absent(pairs[n])
  PROVE  Sorted(t, n + 1)
BY AgentNumAssumption DEF Sorted, Members, TopType, Index

-----------------------------------------------------------------------------
(* The room *)

\* No two pairs have the mac of the same configured agent, and every pair that
\* the look-ups find is one of a configured agent.
HearersDiffer ==
  \A j, k \in Index : pairs[j].mac = pairs[k].mac /\ pairs[j].mac # NoMac => j = k

Known(k) == k \in Index /\ InfoFromMac(pairs[k].mac) # NotFound

\* What RoomIsBacked says of an outcome, for two ranked pairs a and b.
Backed(out, a, b) ==
  /\ out.infos[1] \in Index /\ out.infos[2] \in Index /\ out.infos[3] \in Index
  /\ out.infos[1] # out.infos[2] /\ out.infos[1] # out.infos[3]
  /\ out.infos[2] # out.infos[3]
  /\ \A k \in 1..3 :
       /\ InfoRoom[out.infos[k]] = out.room
       /\ \E j \in Index : pairs[j] = [mac  |-> InfoMac[out.infos[k]],
                                       rssi |-> out.rssi[k]]
  /\ pairs[a].mac = InfoMac[out.infos[1]]
  /\ pairs[b].mac = InfoMac[out.infos[2]]

\* Every pair is a record of a mac and an output.
LEMMA PairIsRecord ==
  ASSUME pairs \in Pairs
  PROVE  \A k \in Index : pairs[k] = [mac |-> pairs[k].mac, rssi |-> pairs[k].rssi]
<1> TAKE k \in Index
<1>1. pairs[k] \in [mac : Mac, rssi : Output] \cup {Unused}
  BY DEF Pairs
<1>2. CASE pairs[k] \in [mac : Mac, rssi : Output]
  BY <1>2
<1>3. CASE pairs[k] = Unused
  BY <1>3 DEF Unused
<1> QED BY <1>1, <1>2, <1>3

\* Two ranked pairs of one room lead to a room that is backed, to "need more
\* info" because another agent of the room has not heard the beacon, or to a
\* halt because the room has no third agent (lines 168-184).
LEMMA InRoomOfProperties ==
  ASSUME pairs \in Pairs, HearersDiffer, NEW a, NEW b, Known(a), Known(b), a # b,
         SameRoom(pairs, a, b)
  PROVE  LET out  == InRoomOf(pairs, a, b)
             room == InfoRoom[InfoFromMac(pairs[a].mac)]
         IN
         \/ out = Halt /\ \A c \in Index : InfoRoom[c] = room =>
                            c = InfoFromMac(pairs[a].mac) \/ c = InfoFromMac(pairs[b].mac)
         \/ out = None /\ \E c \in Index : /\ InfoRoom[c] = room
                                           /\ \A k \in Index : pairs[k].mac # InfoMac[c]
         \/ out.kind = "room" /\ Backed(out, a, b)
<1> DEFINE out == InRoomOf(pairs, a, b)
           info1 == InfoFromMac(pairs[a].mac)
           info2 == InfoFromMac(pairs[b].mac)
           room == InfoRoom[info1]
           info3 == InfoFromRoom(room, info1, info2)
           S == {k \in Index : pairs[k].mac = InfoMac[info3]}
           at == First(S)
<1>1. /\ info1 \in Index /\ InfoMac[info1] = pairs[a].mac
      /\ info2 \in Index /\ InfoMac[info2] = pairs[b].mac
      /\ InfoRoom[info2] = room
  BY InfoFromMacProperties DEF Known, SameRoom
<1>2. pairs[a].mac # NoMac /\ pairs[b].mac # NoMac
  BY <1>1, InfosAssumption, Zenon
<1>3. info1 # info2
  BY <1>1, <1>2 DEF HearersDiffer, Known
<1>4. out = IF info3 = NotFound THEN Halt
            ELSE IF at = NotFound THEN None
            ELSE [kind  |-> "room", room |-> room,
                  infos |-> <<info1, info2, info3>>,
                  rssi  |-> <<pairs[a].rssi, pairs[b].rssi, pairs[at].rssi>>]
  BY Zenon DEF InRoomOf
<1>5. /\ info3 # NotFound =>
           info3 \in Index /\ InfoRoom[info3] = room /\ info3 # info1 /\ info3 # info2
      /\ info3 = NotFound =>
           \A c \in Index : InfoRoom[c] = room => c = info1 \/ c = info2
  <2> HIDE DEF info1, info2, room
  <2> QED BY InfoFromRoomProperties
<1>6. CASE info3 = NotFound
  BY <1>4, <1>5, <1>6
<1>7. CASE info3 # NotFound
  <2>1. info3 \in Index /\ InfoRoom[info3] = room /\ info3 # info1 /\ info3 # info2
    BY <1>5, <1>7
  <2>2. S \in SUBSET Index
    OBVIOUS
  <2>3. /\ at # NotFound => at \in S
        /\ at = NotFound => S = {}
    <3> HIDE DEF S
    <3> QED BY <2>2, FirstProperties
  <2>4. CASE at = NotFound
    <3>1. \A k \in Index : pairs[k].mac # InfoMac[info3]
      BY <2>3, <2>4
    <3>2. out = None
      BY <1>4, <1>7, <2>4
    <3> QED BY <2>1, <3>1, <3>2
  <2>5. CASE at # NotFound
    <3>1. out = [kind  |-> "room", room |-> room,
                 infos |-> <<info1, info2, info3>>,
                 rssi  |-> <<pairs[a].rssi, pairs[b].rssi, pairs[at].rssi>>]
      BY <1>4, <1>7, <2>5
    <3>2. at \in Index /\ pairs[at].mac = InfoMac[info3]
      BY <2>3, <2>5
    <3> HIDE DEF out, info1, info2, info3, room, at, S
    <3>3. /\ out.infos[1] = info1 /\ out.infos[2] = info2 /\ out.infos[3] = info3
          /\ out.rssi[1] = pairs[a].rssi /\ out.rssi[2] = pairs[b].rssi
          /\ out.rssi[3] = pairs[at].rssi
          /\ out.room = room /\ out.kind = "room"
      BY <3>1
    <3>4. /\ pairs[a] = [mac |-> InfoMac[info1], rssi |-> pairs[a].rssi]
          /\ pairs[b] = [mac |-> InfoMac[info2], rssi |-> pairs[b].rssi]
          /\ pairs[at] = [mac |-> InfoMac[info3], rssi |-> pairs[at].rssi]
      BY <1>1, <3>2, PairIsRecord DEF Known
    <3>5. \A k \in 1..3 :
            /\ InfoRoom[out.infos[k]] = out.room
            /\ \E j \in Index : pairs[j] = [mac  |-> InfoMac[out.infos[k]],
                                            rssi |-> out.rssi[k]]
      <4> TAKE k \in 1..3
      <4>1. k = 1 \/ k = 2 \/ k = 3
        OBVIOUS
      <4>2. CASE k = 1
        BY <4>2, <3>3, <3>4, <1>1 DEF Known, room
      <4>3. CASE k = 2
        BY <4>3, <3>3, <3>4, <1>1 DEF Known
      <4>4. CASE k = 3
        BY <4>4, <3>2, <3>3, <3>4, <2>1
      <4> QED BY <4>1, <4>2, <4>3, <4>4
    <3>6. Backed(out, a, b)
      BY <1>1, <1>3, <2>1, <3>3, <3>5 DEF Backed
    <3> QED BY <3>3, <3>6 DEF out
  <2> QED BY <2>4, <2>5
<1> QED BY <1>6, <1>7

\* A set with two elements or more has two different ones, and the reverse.
LEMMA TwoOf ==
  ASSUME NEW S, IsFiniteSet(S)
  PROVE  Cardinality(S) >= 2 <=> \E j, k \in S : j # k
<1>1. Cardinality(S) \in Nat
  BY FS_CardinalityType
<1>2. Cardinality(S) = 0 <=> S = {}
  BY FS_EmptySet
<1>3. Cardinality(S) = 1 <=> \E x : S = {x}
  BY FS_Singleton
<1>4. ASSUME NEW j \in S, NEW k \in S, j # k PROVE Cardinality(S) >= 2
  <2>1. Cardinality(S) # 0 /\ Cardinality(S) # 1
    BY <1>2, <1>3, <1>4
  <2> QED BY <1>1, <2>1
<1>5. ASSUME Cardinality(S) >= 2 PROVE \E j, k \in S : j # k
  <2>1. PICK j \in S : TRUE
    BY <1>1, <1>2, <1>5
  <2>2. S # {j}
    BY <1>1, <1>3, <1>5
  <2> QED BY <2>1, <2>2
<1> QED BY <1>4, <1>5

\* The three ranked pairs are of configured agents.
LEMMA RankedAreKnown ==
  ASSUME NEW t \in TopType, ~ Unregistered(pairs, t)
  PROVE  \A k \in Members(t) : Known(k)
BY DEF Unregistered, Known, Members, TopType

\* A configured agent among the members is in the room its entry says.
LEMMA AgentsInProperties ==
  ASSUME NEW S, \A k \in S : Known(k), NEW room
  PROVE  AgentsIn(room, S) = {k \in S : InfoRoom[InfoFromMac(pairs[k].mac)] = room}
<1>1. ASSUME NEW k \in S
      PROVE  (\E a \in Index : InfoMac[a] = pairs[k].mac /\ InfoRoom[a] = room)
               <=> InfoRoom[InfoFromMac(pairs[k].mac)] = room
  <2>1. /\ InfoFromMac(pairs[k].mac) \in Index
        /\ InfoMac[InfoFromMac(pairs[k].mac)] = pairs[k].mac
    BY InfoFromMacProperties DEF Known
  <2> QED BY <2>1, InfosAssumption
<1> QED BY <1>1 DEF AgentsIn

\* The agent of a pair, and "its room has no third agent".
RoomAt(k) == InfoRoom[InfoFromMac(pairs[k].mac)]

NoThird(a, b) ==
  \A c \in Index : InfoRoom[c] = RoomAt(a) =>
    c = InfoFromMac(pairs[a].mac) \/ c = InfoFromMac(pairs[b].mac)

Unheard(room) ==
  \E c \in Index : InfoRoom[c] = room /\ \A k \in Index : pairs[k].mac # InfoMac[c]

\* What the three comparisons of lines 168-219 can lead to.
LEMMA RoomOfTopProperties ==
  ASSUME pairs \in Pairs, HearersDiffer, NEW t \in TopType,
         t.max # t.second, t.max # t.third, t.second # t.third,
         ~ Unregistered(pairs, t)
  PROVE  \/ /\ RoomOfTop(pairs, t) = None
            /\ \A a, b \in Members(t) : RoomAt(a) = RoomAt(b) => a = b
         \/ \E a, b \in Members(t) :
              /\ a # b /\ RoomAt(a) = RoomAt(b)
              /\ \/ RoomOfTop(pairs, t) = Halt /\ NoThird(a, b)
                 \/ RoomOfTop(pairs, t) = None /\ Unheard(RoomAt(a))
                 \/ RoomOfTop(pairs, t).kind = "room" /\ Backed(RoomOfTop(pairs, t), a, b)
<1>1. \A k \in Members(t) : Known(k)
  BY RankedAreKnown
<1>2. ASSUME NEW a \in Members(t), NEW b \in Members(t), a # b, SameRoom(pairs, a, b),
             RoomOfTop(pairs, t) = InRoomOf(pairs, a, b)
      PROVE  /\ a # b /\ RoomAt(a) = RoomAt(b)
             /\ \/ RoomOfTop(pairs, t) = Halt /\ NoThird(a, b)
                \/ RoomOfTop(pairs, t) = None /\ Unheard(RoomAt(a))
                \/ RoomOfTop(pairs, t).kind = "room" /\ Backed(RoomOfTop(pairs, t), a, b)
  <2>1. RoomAt(a) = RoomAt(b)
    BY <1>2 DEF SameRoom, RoomAt
  <2>2. Known(a) /\ Known(b)
    BY <1>1
  <2> QED BY <1>2, <2>1, <2>2, InRoomOfProperties DEF NoThird, Unheard, RoomAt
<1>3. t.max \in Members(t) /\ t.second \in Members(t) /\ t.third \in Members(t)
  BY DEF Members
<1>4. CASE SameRoom(pairs, t.max, t.second)
  <2>1. RoomOfTop(pairs, t) = InRoomOf(pairs, t.max, t.second)
    BY <1>4 DEF RoomOfTop
  <2> QED BY <1>2, <1>3, <1>4, <2>1
<1>5. CASE ~ SameRoom(pairs, t.max, t.second) /\ SameRoom(pairs, t.max, t.third)
  <2>1. RoomOfTop(pairs, t) = InRoomOf(pairs, t.max, t.third)
    BY <1>5 DEF RoomOfTop
  <2> QED BY <1>2, <1>3, <1>5, <2>1
<1>6. CASE /\ ~ SameRoom(pairs, t.max, t.second) /\ ~ SameRoom(pairs, t.max, t.third)
           /\ SameRoom(pairs, t.second, t.third)
  <2>1. RoomOfTop(pairs, t) = InRoomOf(pairs, t.second, t.third)
    BY <1>6 DEF RoomOfTop
  <2> QED BY <1>2, <1>3, <1>6, <2>1
<1>7. CASE /\ ~ SameRoom(pairs, t.max, t.second) /\ ~ SameRoom(pairs, t.max, t.third)
           /\ ~ SameRoom(pairs, t.second, t.third)
  <2>1. RoomOfTop(pairs, t) = None
    BY <1>7 DEF RoomOfTop
  <2>2. \A a, b \in Members(t) : RoomAt(a) = RoomAt(b) => a = b
    BY <1>7 DEF Members, SameRoom, RoomAt
  <2> QED BY <2>1, <2>2
<1> QED BY <1>4, <1>5, <1>6, <1>7

-----------------------------------------------------------------------------
(* The invariant *)

\* While the loop runs, the ranking is sorted and the first agent has an output.
Sorting == pc \in {"scan", "match"} => Sorted(top, i) /\ ~ Absent(pairs[0])

\* The rooms are compared only after the three look-ups have succeeded.
Registered == pc = "match" => ~ Unregistered(pairs, top)

\* Nothing is decided before the end.
Undecided == pc \in {"start", "scan", "match"} => outcome = None

IInv ==
  /\ TypeOK /\ HearersDiffer
  /\ Sorting /\ Registered /\ Undecided
  /\ RoomIsBacked /\ MissedOnlyForWant /\ HaltsOnlyOnMismatch

\* What get_rssi_for_calc fills is an array of pairs of different agents.
LEMMA FillProperties ==
  ASSUME NEW n \in 3..AgentNum, NEW m \in Hearers(n), NEW r \in [0..n - 1 -> Output],
         pairs = Fill(n, m, r)
  PROVE  pairs \in Pairs /\ HearersDiffer
<1>1. /\ m \in [0..n - 1 -> Mac]
      /\ \A j, k \in 0..n - 1 : m[j] = m[k] => j = k
  BY DEF Hearers
<1>2. ASSUME NEW k \in Index
      PROVE  /\ k < n => /\ k \in 0..n - 1 /\ pairs[k] = [mac |-> m[k], rssi |-> r[k]]
                         /\ pairs[k] \in [mac : Mac, rssi : Output]
             /\ ~ (k < n) => pairs[k] = Unused
  <2>1. k < n => k \in 0..n - 1
    BY AgentNumAssumption DEF Index
  <2>2. k \in 0..n - 1 => m[k] \in Mac /\ r[k] \in Output
    BY <1>1
  <2>3. pairs[k] = IF k < n THEN [mac |-> m[k], rssi |-> r[k]] ELSE Unused
    BY DEF Fill
  <2> QED BY <2>1, <2>2, <2>3
<1>3. pairs \in Pairs
  <2>1. pairs = [k \in Index |-> IF k < n THEN [mac |-> m[k], rssi |-> r[k]] ELSE Unused]
    BY DEF Fill
  <2> QED BY <1>2, <2>1 DEF Pairs
<1>4. HearersDiffer
  <2> SUFFICES ASSUME NEW j \in Index, NEW k \in Index,
                      pairs[j].mac = pairs[k].mac, pairs[j].mac # NoMac
               PROVE  j = k
    BY DEF HearersDiffer
  <2>1. Unused.mac = NoMac
    BY DEF Unused
  <2>2. pairs[j] # Unused /\ pairs[k] # Unused
    BY <2>1
  <2>3. j < n /\ k < n
    BY <1>2, <2>2
  <2>4. /\ j \in 0..n - 1 /\ pairs[j] = [mac |-> m[j], rssi |-> r[j]]
        /\ k \in 0..n - 1 /\ pairs[k] = [mac |-> m[k], rssi |-> r[k]]
    BY <1>2, <2>3
  <2>5. m[j] = m[k]
    BY <2>4
  <2> QED BY <1>1, <2>4, <2>5
<1> QED BY <1>3, <1>4

LEMMA IInvInit == Init => IInv
<1> SUFFICES ASSUME Init PROVE IInv
  OBVIOUS
<1>1. pairs \in Pairs /\ HearersDiffer
  BY FillProperties DEF Init
<1>2. /\ pc = "start" /\ i = 3 /\ top = Top(0, 1, 2) /\ outcome = None
  BY DEF Init
<1>3. Top(0, 1, 2) \in TopType
  BY AgentNumAssumption DEF Top, TopType, Index
<1>4. TypeOK
  BY <1>1, <1>2, <1>3, AgentNumAssumption DEF TypeOK, None
<1>5. Sorting /\ Registered /\ Undecided
  BY <1>2 DEF Sorting, Registered, Undecided
<1>6. RoomIsBacked /\ MissedOnlyForWant /\ HaltsOnlyOnMismatch
  BY <1>2 DEF RoomIsBacked, MissedOnlyForWant, HaltsOnlyOnMismatch, None
<1> QED BY <1>1, <1>4, <1>5, <1>6 DEF IInv

\* The scan: the loop before anything is looked up.
LEMMA ScanStep ==
  ASSUME IInv, SortFirstThree \/ SkipAbsent \/ RankNext PROVE IInv'
<1>1. /\ pairs \in Pairs /\ i \in 3..AgentNum /\ top \in TopType
      /\ outcome.kind \in {"none", "halt", "room"}
  BY DEF IInv, TypeOK
<1>2. /\ pairs' = pairs /\ outcome' = outcome /\ pc' = "scan" /\ pc \in {"start", "scan"}
  BY DEF SortFirstThree, SkipAbsent, RankNext
<1>3. HearersDiffer' /\ Registered'
  BY <1>2 DEF IInv, HearersDiffer, Registered
<1>4. outcome = None
  BY <1>2 DEF IInv, Undecided
<1>5. /\ Undecided' /\ RoomIsBacked' /\ MissedOnlyForWant' /\ HaltsOnlyOnMismatch'
  BY <1>2, <1>4 DEF Undecided, RoomIsBacked, MissedOnlyForWant, HaltsOnlyOnMismatch, None
<1>6. i' \in 3..AgentNum /\ top' \in TopType /\ Sorted(top', i') /\ ~ Absent(pairs[0])
  <2>1. CASE SortFirstThree
    <3>1. ~ Absent(pairs[0])
      BY <2>1 DEF SortFirstThree, NothingToRank
    <3> QED BY <1>1, <2>1, <3>1, FirstThreeSorts, AgentNumAssumption DEF SortFirstThree
  <2>2. ASSUME SkipAbsent \/ RankNext
        PROVE  i \in 3..AgentNum - 1 /\ i' = i + 1 /\ Sorted(top, i) /\ ~ Absent(pairs[0])
    <3>1. i < AgentNum /\ i' = i + 1 /\ pc = "scan"
      BY <2>2 DEF SkipAbsent, RankNext
    <3> QED BY <1>1, <3>1, AgentNumAssumption DEF IInv, Sorting
  <2>3. CASE SkipAbsent
    <3>1. Absent(pairs[i]) /\ top' = top
      BY <2>3 DEF SkipAbsent
    <3>2. Sorted(top, i + 1)
      BY <1>1, <2>2, <2>3, <3>1, SkipSorts
    <3> QED BY <1>1, <2>2, <2>3, <3>1, <3>2, AgentNumAssumption
  <2>4. CASE RankNext
    <3>1. ~ Absent(pairs[i]) /\ top' = Insert(top, pairs, i)
      BY <2>4 DEF RankNext
    <3>2. Insert(top, pairs, i) \in TopType /\ Sorted(Insert(top, pairs, i), i + 1)
      BY <1>1, <2>2, <2>4, <3>1, InsertSorts
    <3> QED BY <1>1, <2>2, <2>4, <3>1, <3>2, AgentNumAssumption
  <2> QED BY <2>1, <2>3, <2>4
<1>7. Sorting'
  BY <1>2, <1>6 DEF Sorting, Sorted
<1>8. TypeOK'
  BY <1>1, <1>2, <1>6 DEF TypeOK
<1> QED BY <1>3, <1>5, <1>7, <1>8 DEF IInv

\* Giving up at once.
LEMMA GiveUpStep == ASSUME IInv, GiveUp PROVE IInv'
<1>1. /\ pairs' = pairs /\ i' = i /\ top' = top /\ pc' = "done" /\ outcome' = None
      /\ Absent(pairs[0])
  BY AgentNumAssumption DEF GiveUp, NothingToRank
<1>2. TypeOK' /\ HearersDiffer' /\ Sorting' /\ Registered' /\ Undecided'
  BY <1>1 DEF IInv, TypeOK, HearersDiffer, Sorting, Registered, Undecided, None
<1>3. RoomIsBacked' /\ MissedOnlyForWant' /\ HaltsOnlyOnMismatch'
  BY <1>1 DEF RoomIsBacked, MissedOnlyForWant, HaltsOnlyOnMismatch, None
<1> QED BY <1>2, <1>3 DEF IInv

\* The three look-ups.
LEMMA LookUpStep == ASSUME IInv, LookUp PROVE IInv'
<1>1. /\ pairs' = pairs /\ i' = i /\ top' = top /\ pc = "scan" /\ outcome = None
  BY DEF LookUp, IInv, Undecided
<1>2. top \in TopType
  BY DEF IInv, TypeOK
<1>3. CASE Unregistered(pairs, top)
  <2>1. pc' = "halted" /\ outcome' = Halt
    BY <1>3 DEF LookUp
  <2>2. TypeOK' /\ HearersDiffer' /\ Sorting' /\ Registered' /\ Undecided'
    BY <1>1, <2>1 DEF IInv, TypeOK, HearersDiffer, Sorting, Registered, Undecided, Halt
  <2>3. RoomIsBacked' /\ MissedOnlyForWant'
    BY <2>1 DEF RoomIsBacked, MissedOnlyForWant, Halt
  <2>4. PICK k \in Members(top) : InfoFromMac(pairs[k].mac) = NotFound
    BY <1>3 DEF Unregistered
  <2>5. pairs[k].mac \notin {InfoMac[a] : a \in Index}
    BY <2>4, InfoFromMacProperties
  <2>6. HaltsOnlyOnMismatch'
    BY <1>1, <2>5 DEF HaltsOnlyOnMismatch
  <2> QED BY <2>2, <2>3, <2>6 DEF IInv
<1>4. CASE ~ Unregistered(pairs, top)
  <2>1. pc' = "match" /\ outcome' = outcome
    BY <1>4 DEF LookUp
  <2>2. TypeOK' /\ HearersDiffer' /\ Sorting' /\ Undecided'
    BY <1>1, <2>1 DEF IInv, TypeOK, HearersDiffer, Sorting, Sorted, Undecided
  <2>3. Registered'
    BY <1>1, <1>4 DEF Registered
  <2>4. RoomIsBacked' /\ MissedOnlyForWant' /\ HaltsOnlyOnMismatch'
    BY <1>1, <2>1 DEF RoomIsBacked, MissedOnlyForWant, HaltsOnlyOnMismatch, None
  <2> QED BY <2>2, <2>3, <2>4 DEF IInv
<1> QED BY <1>3, <1>4

\* A backed outcome is what RoomIsBacked asks for.
LEMMA BackedIsBacked ==
  ASSUME NEW out, NEW a, NEW b, Backed(out, a, b)
  PROVE  /\ Cardinality({out.infos[k] : k \in 1..3}) = 3
         /\ \A k \in 1..3 :
              /\ InfoRoom[out.infos[k]] = out.room
              /\ \E j \in Index : pairs[j] = [mac  |-> InfoMac[out.infos[k]],
                                              rssi |-> out.rssi[k]]
         /\ pairs[a].mac = InfoMac[out.infos[1]]
         /\ pairs[b].mac = InfoMac[out.infos[2]]
<1>1. {out.infos[k] : k \in 1..3} = {out.infos[1], out.infos[2], out.infos[3]}
  <2>1. 1..3 = {1, 2, 3}
    OBVIOUS
  <2> QED BY <2>1
<1>2. Cardinality({out.infos[1], out.infos[2], out.infos[3]}) = 3
  <2>1. /\ out.infos[1] # out.infos[2] /\ out.infos[1] # out.infos[3]
        /\ out.infos[2] # out.infos[3]
    BY DEF Backed
  <2> QED BY <2>1, ThreeThings
<1> QED BY <1>1, <1>2 DEF Backed

\* The members are finitely many.
LEMMA MembersFinite ==
  ASSUME NEW t \in TopType PROVE IsFiniteSet(Members(t))
<1>1. IsFiniteSet(Index)
  <2>1. 0 \in Int /\ AgentNum - 1 \in Int
    BY AgentNumAssumption
  <2> QED BY <2>1, FS_Interval DEF Index
<1>2. Members(t) \in SUBSET Index
  BY DEF Members, TopType
<1> QED BY <1>1, <1>2, FS_Subset

\* Two different members in one room: any room that has two of the three
\* members is that room.
LEMMA OneRoom ==
  ASSUME NEW t \in TopType, \A k \in Members(t) : Known(k),
         NEW a \in Members(t), NEW b \in Members(t), a # b, RoomAt(a) = RoomAt(b),
         NEW room, Cardinality(AgentsIn(room, Members(t))) >= 2
  PROVE  room = RoomAt(a)
<1>1. AgentsIn(room, Members(t)) = {k \in Members(t) : RoomAt(k) = room}
  BY AgentsInProperties DEF RoomAt
<1>2. IsFiniteSet(Members(t))
  BY MembersFinite
<1>3. IsFiniteSet(AgentsIn(room, Members(t)))
  BY <1>1, <1>2, FS_Subset
<1>4. PICK j \in Members(t), k \in Members(t) :
        j # k /\ RoomAt(j) = room /\ RoomAt(k) = room
  BY <1>1, <1>3, TwoOf
<1>5. j = a \/ j = b \/ k = a \/ k = b
  BY <1>4 DEF Members
<1> QED BY <1>4, <1>5

\* Two different members in one room are two of the agents in it.
LEMMA TwoInRoom ==
  ASSUME NEW t \in TopType, \A k \in Members(t) : Known(k),
         NEW a \in Members(t), NEW b \in Members(t), a # b, RoomAt(a) = RoomAt(b)
  PROVE  Cardinality(AgentsIn(RoomAt(a), Members(t))) >= 2
<1>1. AgentsIn(RoomAt(a), Members(t)) = {k \in Members(t) : RoomAt(k) = RoomAt(a)}
  BY AgentsInProperties DEF RoomAt
<1>2. IsFiniteSet(Members(t))
  BY MembersFinite
<1>3. IsFiniteSet(AgentsIn(RoomAt(a), Members(t)))
  BY <1>1, <1>2, FS_Subset
<1> QED BY <1>1, <1>3, TwoOf

\* A room without a third agent has fewer than three.
LEMMA NoThirdIsFew ==
  ASSUME NEW a, NEW b, NoThird(a, b)
  PROVE  Cardinality({c \in Index : InfoRoom[c] = RoomAt(a)}) < 3
<1> DEFINE x == InfoFromMac(pairs[a].mac)
           y == InfoFromMac(pairs[b].mac)
           S == {c \in Index : InfoRoom[c] = RoomAt(a)}
<1>1. S \in SUBSET ({x} \cup {y})
  BY DEF NoThird
<1>2. IsFiniteSet({x}) /\ Cardinality({x}) = 1
  BY FS_Singleton
<1>3. /\ IsFiniteSet({x} \cup {y})
      /\ Cardinality({x} \cup {y}) = IF y \in {x} THEN 1 ELSE 2
  <2> HIDE DEF x, y
  <2> QED BY <1>2, FS_AddElement
<1>4. Cardinality(S) <= Cardinality({x} \cup {y}) /\ IsFiniteSet(S)
  <2> HIDE DEF S, x, y
  <2> QED BY <1>1, <1>3, FS_Subset
<1>5. Cardinality(S) \in Nat
  <2> HIDE DEF S
  <2> QED BY <1>4, FS_CardinalityType
<1>6. Cardinality(S) < 3
  <2> HIDE DEF S, x, y
  <2> QED BY <1>3, <1>4, <1>5
<1> QED BY <1>6

\* The comparison of the rooms.
LEMMA MatchRoomStep == ASSUME IInv, MatchRoom PROVE IInv'
<1>1. /\ pairs' = pairs /\ i' = i /\ top' = top /\ pc = "match"
      /\ outcome' = RoomOfTop(pairs, top)
      /\ pc' = IF outcome' = Halt THEN "halted" ELSE "done"
  BY DEF MatchRoom
<1>2. /\ pairs \in Pairs /\ HearersDiffer /\ top \in TopType
      /\ top.max # top.second /\ top.max # top.third /\ top.second # top.third
      /\ ~ Unregistered(pairs, top)
  BY <1>1 DEF IInv, TypeOK, Sorting, Sorted, Registered
<1>3. \A k \in Members(top) : Known(k)
  BY <1>2, RankedAreKnown
<1>4. HearersDiffer' /\ Sorting' /\ Registered' /\ Undecided'
  BY <1>1 DEF IInv, HearersDiffer, Sorting, Registered, Undecided
<1>5. Halt.kind = "halt" /\ None.kind = "none" /\ Halt # None
  BY DEF Halt, None
<1>6. \A room : AgentsIn(room, Members(top))' = AgentsIn(room, Members(top))
  BY <1>1 DEF AgentsIn, Members
<1>7. ASSUME outcome'.kind \in {"none", "halt", "room"} PROVE TypeOK'
  BY <1>1, <1>7 DEF IInv, TypeOK
<1>8. CASE /\ outcome' = None
           /\ \A a, b \in Members(top) : RoomAt(a) = RoomAt(b) => a = b
  <2>1. \A room : ~ (Cardinality(AgentsIn(room, Members(top))) >= 2)
    <3> SUFFICES ASSUME NEW room, Cardinality(AgentsIn(room, Members(top))) >= 2
                 PROVE  FALSE
      OBVIOUS
    <3>1. AgentsIn(room, Members(top)) = {k \in Members(top) : RoomAt(k) = room}
      BY <1>3, AgentsInProperties DEF RoomAt
    <3>2. IsFiniteSet(Members(top))
      BY <1>2, MembersFinite
    <3>3. IsFiniteSet(AgentsIn(room, Members(top)))
      BY <3>1, <3>2, FS_Subset
    <3> QED BY <1>8, <3>1, <3>3, TwoOf
  <2>2. MissedOnlyForWant'
    BY <1>1, <1>6, <2>1 DEF MissedOnlyForWant
  <2>3. RoomIsBacked' /\ HaltsOnlyOnMismatch'
    BY <1>1, <1>5, <1>8 DEF RoomIsBacked, HaltsOnlyOnMismatch
  <2> QED BY <1>4, <1>5, <1>7, <1>8, <2>2, <2>3 DEF IInv
<1>9. ASSUME NEW a \in Members(top), NEW b \in Members(top),
             a # b, RoomAt(a) = RoomAt(b),
             \/ outcome' = Halt /\ NoThird(a, b)
             \/ outcome' = None /\ Unheard(RoomAt(a))
             \/ outcome'.kind = "room" /\ Backed(outcome', a, b)
      PROVE  IInv'
  <2>1. CASE outcome' = Halt /\ NoThird(a, b)
    <3>1. RoomAt(a) \in {InfoRoom[c] : c \in Index}
      BY <1>3, InfoFromMacProperties DEF Known, RoomAt
    <3>2. /\ Cardinality(AgentsIn(RoomAt(a), Members(top))) >= 2
          /\ Cardinality({c \in Index : InfoRoom[c] = RoomAt(a)}) < 3
      BY <1>2, <1>3, <1>9, <2>1, TwoInRoom, NoThirdIsFew
    <3>3. HaltsOnlyOnMismatch'
      BY <1>1, <1>6, <3>1, <3>2 DEF HaltsOnlyOnMismatch
    <3>4. RoomIsBacked' /\ MissedOnlyForWant'
      BY <1>1, <1>5, <2>1 DEF RoomIsBacked, MissedOnlyForWant
    <3> QED BY <1>4, <1>5, <1>7, <2>1, <3>3, <3>4 DEF IInv
  <2>2. CASE outcome' = None /\ Unheard(RoomAt(a))
    <3>1. \A room : Cardinality(AgentsIn(room, Members(top))) >= 2 => Unheard(room)
      BY <1>2, <1>3, <1>9, <2>2, OneRoom
    <3>2. MissedOnlyForWant'
      BY <1>1, <1>6, <3>1 DEF MissedOnlyForWant, Unheard
    <3>3. RoomIsBacked' /\ HaltsOnlyOnMismatch'
      BY <1>1, <1>5, <2>2 DEF RoomIsBacked, HaltsOnlyOnMismatch
    <3> QED BY <1>4, <1>5, <1>7, <2>2, <3>2, <3>3 DEF IInv
  <2>3. CASE outcome'.kind = "room" /\ Backed(outcome', a, b)
    <3>1. RoomIsBacked'
      <4>1. /\ Cardinality({outcome'.infos[k] : k \in 1..3}) = 3
            /\ \A k \in 1..3 :
                 /\ InfoRoom[outcome'.infos[k]] = outcome'.room
                 /\ \E j \in Index : pairs[j] = [mac  |-> InfoMac[outcome'.infos[k]],
                                                  rssi |-> outcome'.rssi[k]]
            /\ pairs[a].mac = InfoMac[outcome'.infos[1]]
            /\ pairs[b].mac = InfoMac[outcome'.infos[2]]
        BY <2>3, BackedIsBacked, Zenon
      <4>2. a \in Members(top') /\ b \in Members(top') /\ a # b
        BY <1>1, <1>9
      <4>3. pairs' = pairs
        BY <1>1
      <4> QED BY <4>1, <4>2, <4>3, Zenon DEF RoomIsBacked
    <3>2. MissedOnlyForWant' /\ HaltsOnlyOnMismatch'
      BY <1>1, <1>5, <2>3 DEF MissedOnlyForWant, HaltsOnlyOnMismatch
    <3> QED BY <1>4, <1>7, <2>3, <3>1, <3>2 DEF IInv
  <2> QED BY <1>9, <2>1, <2>2, <2>3
<1> QED BY <1>1, <1>2, <1>8, <1>9, RoomOfTopProperties

LEMMA IInvStep == IInv /\ [Next]_vars => IInv'
<1> SUFFICES ASSUME IInv, [Next]_vars PROVE IInv'
  OBVIOUS
<1>1. CASE GiveUp
  BY <1>1, GiveUpStep
<1>2. CASE SortFirstThree \/ SkipAbsent \/ RankNext
  BY <1>2, ScanStep
<1>3. CASE LookUp
  BY <1>3, LookUpStep
<1>4. CASE MatchRoom
  BY <1>4, MatchRoomStep
<1>5. CASE Returned \/ UNCHANGED vars
  <2>1. UNCHANGED vars
    BY <1>5 DEF Returned
  <2>2. pairs' = pairs /\ pc' = pc /\ i' = i /\ top' = top /\ outcome' = outcome
    BY <2>1 DEF vars
  <2>3. TypeOK' /\ HearersDiffer' /\ Sorting' /\ Registered' /\ Undecided'
    BY <2>2 DEF IInv, TypeOK, HearersDiffer, Sorting, Sorted, Registered, Undecided
  <2>4. \A room : AgentsIn(room, Members(top))' = AgentsIn(room, Members(top))
    BY <2>2 DEF AgentsIn, Members
  <2>5. RoomIsBacked'
    BY <2>2, Zenon DEF IInv, RoomIsBacked
  <2>6. MissedOnlyForWant'
    BY <2>2, <2>4 DEF IInv, MissedOnlyForWant
  <2>7. HaltsOnlyOnMismatch'
    BY <2>2, <2>4 DEF IInv, HaltsOnlyOnMismatch
  <2> QED BY <2>3, <2>5, <2>6, <2>7 DEF IInv
<1> QED BY <1>1, <1>2, <1>3, <1>4, <1>5 DEF Next

-----------------------------------------------------------------------------
(* Theorems *)

\* The invariant holds throughout.
THEOREM Invariance == Spec => []IInv
BY IInvInit, IInvStep, PTL DEF Spec

\* The state of get_room_num keeps its shape, and no index leaves the array,
\* for every number of agents.
THEOREM TypeCorrect == Spec => []TypeOK
<1>1. IInv => TypeOK
  BY DEF IInv
<1> QED BY <1>1, Invariance, PTL

\* At every turn of the loop the three indices are the three strongest so far
\* (lines 124-161), for every number of agents.
THEOREM ScanRanks == Spec => []Ranked
<1>1. IInv => Ranked
  BY SortedRanks DEF IInv, Sorting, Ranked
<1> QED BY <1>1, Invariance, PTL

\* An agent that says nothing is ranked only from places 1 and 2.
THEOREM AbsentOnlyEarly == Spec => []OnlyEarlyAbsent
<1>1. IInv => OnlyEarlyAbsent
  <2> SUFFICES ASSUME IInv, pc \in {"scan", "match"}, NEW k \in Members(top),
                      Absent(pairs[k])
               PROVE  k \in {1, 2}
    BY DEF OnlyEarlyAbsent
  <2>1. Sorted(top, i) /\ ~ Absent(pairs[0]) /\ i \in 3..AgentNum
    BY DEF IInv, Sorting, TypeOK
  <2>2. k \in 0..i - 1 /\ ~ (k >= 3) /\ k # 0
    BY <2>1 DEF Sorted
  <2> QED BY <2>1, <2>2, AgentNumAssumption
<1> QED BY <1>1, Invariance, PTL

\* Every room comes with three agents of that room and their own outputs.
THEOREM RoomsAreBacked == Spec => []RoomIsBacked
<1>1. IInv => RoomIsBacked
  BY DEF IInv
<1> QED BY <1>1, Invariance, PTL

\* "Need more info" is said only for want of it.
THEOREM NothingIsMissed == Spec => []MissedOnlyForWant
<1>1. IInv => MissedOnlyForWant
  BY DEF IInv
<1> QED BY <1>1, Invariance, PTL

\* The process is stopped only for a configuration that does not match.
THEOREM HaltsAreMismatches == Spec => []HaltsOnlyOnMismatch
<1>1. IInv => HaltsOnlyOnMismatch
  BY DEF IInv
<1> QED BY <1>1, Invariance, PTL

-----------------------------------------------------------------------------
(* The loop and the definition *)

\* The function inside TopThree: the ranking of the first n pairs.
ScanUpTo[n \in 3..AgentNum] ==
  IF n = 3 THEN FirstThree(pairs)
  ELSE IF Absent(pairs[n - 1]) THEN ScanUpTo[n - 1]
  ELSE Insert(ScanUpTo[n - 1], pairs, n - 1)

LEMMA ScanIsDefined ==
  ASSUME pairs \in Pairs
  PROVE  /\ ScanUpTo \in [3..AgentNum -> TopType]
         /\ ScanUpTo = [n \in 3..AgentNum |->
                          IF n = 3 THEN FirstThree(pairs)
                          ELSE IF Absent(pairs[n - 1]) THEN ScanUpTo[n - 1]
                          ELSE Insert(ScanUpTo[n - 1], pairs, n - 1)]
<1> DEFINE Turn(t, n) == IF Absent(pairs[n - 1]) THEN t ELSE Insert(t, pairs, n - 1)
           Goal(g) == g = [n \in 3..AgentNum |->
                             IF n = 3 THEN FirstThree(pairs) ELSE Turn(g[n - 1], n)]
           step == [n \in Nat |-> [t \in TopType |-> IF n \in 4..AgentNum THEN Turn(t, n) ELSE t]]
<1>1. FirstThree(pairs) \in TopType
  BY FirstThreeSorts
<1>2. ASSUME NEW t \in TopType, NEW n \in 4..AgentNum PROVE Turn(t, n) \in TopType
  <2>1. n - 1 \in Index
    BY AgentNumAssumption DEF Index
  <2>2. Insert(t, pairs, n - 1) \in {Top(n - 1, t.max, t.second), Top(t.max, n - 1, t.second),
                                     Top(t.max, t.second, n - 1), t}
    BY DEF Insert
  <2>3. \A x, y, z \in Index : Top(x, y, z) \in TopType
    BY DEF Top, TopType
  <2>4. t.max \in Index /\ t.second \in Index /\ t.third \in Index
    BY DEF TopType
  <2> QED
    BY <2>1, <2>2, <2>3, <2>4
<1>3. step \in [Nat -> [TopType -> TopType]]
  <2> HIDE DEF Turn
  <2> QED
    BY <1>2
<1>4. PICK g : Unrolls(g, 3, AgentNum, TopType, FirstThree(pairs), step)
  <2> HIDE DEF step
  <2>1. 3 \in Nat /\ AgentNum \in Nat /\ 3 <= AgentNum
    BY AgentNumAssumption
  <2> QED
    BY <1>1, <1>3, <2>1, RecursionExists
<1>5. ASSUME NEW n \in 3..AgentNum, n # 3
      PROVE  g[n] = Turn(g[n - 1], n)
  <2> HIDE DEF Turn
  <2>1. n \in (3 + 1)..AgentNum /\ n \in 4..AgentNum /\ n \in Nat /\ n - 1 \in 3..AgentNum
    BY <1>5, AgentNumAssumption
  <2>2. g[n - 1] \in TopType
    BY <2>1, <1>4 DEF Unrolls
  <2> QED
    BY <2>1, <2>2, <1>4 DEF Unrolls
<1>6. Goal(g)
  <2> HIDE DEF Turn
  <2> QED
    BY <1>4, <1>5 DEF Unrolls
<1>7. Goal(ScanUpTo)
  BY <1>6 DEF ScanUpTo
<1>8. ScanUpTo \in [3..AgentNum -> TopType]
  <2> DEFINE T == {n \in 3..AgentNum : ScanUpTo[n] \in TopType}
  <2>1. 3 \in T
    BY <1>1, <1>7, AgentNumAssumption
  <2>2. ASSUME NEW n \in 3..(AgentNum - 1), n \in T PROVE n + 1 \in T
    <3>1. n + 1 \in 4..AgentNum /\ n + 1 # 3 /\ n + 1 \in 3..AgentNum /\ (n + 1) - 1 = n
      BY AgentNumAssumption
    <3>2. ScanUpTo[n + 1] = Turn(ScanUpTo[n], n + 1)
      <4> HIDE DEF Turn
      <4> QED
        BY <1>7, <3>1
    <3>3. Turn(ScanUpTo[n], n + 1) \in TopType
      <4> HIDE DEF Turn
      <4> QED
        BY <1>2, <2>2, <3>1
    <3> QED
      BY <3>1, <3>2, <3>3
  <2>3. 3..AgentNum \subseteq T
    <3> HIDE DEF T
    <3> QED
      BY <2>1, <2>2, IntervalIsInductive, AgentNumAssumption
  <2> QED
    BY <1>7, <2>3
<1> QED
  BY <1>7, <1>8

LEMMA ScanIsTopThree == TopThree(pairs) = ScanUpTo[AgentNum]
BY DEF TopThree, ScanUpTo

\* As long as the loop runs, the three indices are those of the definition.
Follows ==
  /\ pc \in {"scan", "match"} => top = ScanUpTo[i] /\ ~ NothingToRank(pairs)
  /\ pc = "match" => i = AgentNum
  /\ AgreesWithDefinition

LEMMA FollowsInit == Init => Follows
BY DEF Init, Follows, AgreesWithDefinition

LEMMA FollowsStep == IInv /\ Follows /\ [Next]_vars => Follows'
<1> SUFFICES ASSUME IInv, Follows, [Next]_vars PROVE Follows'
  OBVIOUS
<1>1. /\ pairs' = pairs /\ ScanUpTo' = ScanUpTo
  <2>1. pairs' = pairs
    BY DEF Next, GiveUp, SortFirstThree, SkipAbsent, RankNext, LookUp, MatchRoom,
           Returned, vars
  <2> QED
    BY <2>1 DEF ScanUpTo
<1>2. /\ pairs \in Pairs /\ i \in 3..AgentNum
      /\ \A n \in 3..AgentNum :
           ScanUpTo[n] = IF n = 3 THEN FirstThree(pairs)
                         ELSE IF Absent(pairs[n - 1]) THEN ScanUpTo[n - 1]
                         ELSE Insert(ScanUpTo[n - 1], pairs, n - 1)
  BY ScanIsDefined DEF IInv, TypeOK
<1>3. CASE GiveUp
  BY <1>1, <1>3 DEF GiveUp, Follows, AgreesWithDefinition, GetRoomNum
<1>4. CASE SortFirstThree
  <2>1. 3 \in 3..AgentNum
    BY AgentNumAssumption
  <2>2. ScanUpTo[3] = FirstThree(pairs)
    BY <1>2, <2>1
  <2> QED
    BY <1>1, <1>4, <2>2 DEF SortFirstThree, Follows, AgreesWithDefinition
<1>5. CASE SkipAbsent \/ RankNext
  <2>1. /\ pc = "scan" /\ pc' = "scan" /\ i < AgentNum /\ i' = i + 1
        /\ top' = IF Absent(pairs[i]) THEN top ELSE Insert(top, pairs, i)
    BY <1>5 DEF SkipAbsent, RankNext
  <2>2. i + 1 \in 3..AgentNum /\ i + 1 # 3 /\ (i + 1) - 1 = i
    BY <1>2, <2>1, AgentNumAssumption
  <2>3. ScanUpTo[i + 1] = IF Absent(pairs[i]) THEN ScanUpTo[i]
                          ELSE Insert(ScanUpTo[i], pairs, i)
    BY <1>2, <2>2
  <2> QED
    BY <1>1, <2>1, <2>3 DEF Follows, AgreesWithDefinition
<1>6. CASE LookUp
  <2>1. pc = "scan" /\ i = AgentNum /\ i' = i /\ top' = top
    BY <1>6 DEF LookUp
  <2>2. top = TopThree(pairs) /\ ~ NothingToRank(pairs)
    BY <2>1, ScanIsTopThree DEF Follows
  <2>3. CASE Unregistered(pairs, top)
    BY <1>1, <1>6, <2>2, <2>3 DEF LookUp, Follows, AgreesWithDefinition, GetRoomNum
  <2>4. CASE ~ Unregistered(pairs, top)
    BY <1>1, <1>6, <2>1, <2>2, <2>4 DEF LookUp, Follows, AgreesWithDefinition
  <2> QED
    BY <2>3, <2>4
<1>7. CASE MatchRoom
  <2>1. pc = "match" /\ pc' \in {"done", "halted"} /\ outcome' = RoomOfTop(pairs, top)
    BY <1>7 DEF MatchRoom
  <2>2. top = TopThree(pairs) /\ ~ NothingToRank(pairs)
    BY <2>1, ScanIsTopThree DEF Follows
  <2>3. ~ Unregistered(pairs, top)
    BY <2>1 DEF IInv, Registered
  <2>4. outcome' = GetRoomNum(pairs)
    BY <2>1, <2>2, <2>3 DEF GetRoomNum
  <2> QED
    BY <1>1, <2>1, <2>4 DEF Follows, AgreesWithDefinition
<1>8. CASE Returned \/ UNCHANGED vars
  BY <1>1, <1>8 DEF Returned, vars, Follows, AgreesWithDefinition
<1> QED
  BY <1>3, <1>4, <1>5, <1>6, <1>7, <1>8 DEF Next

\* The loop of get_room_num (lines 124-218) computes the outcome RoomCalc
\* defines by recursion and the beacon store uses, for every number of agents.
THEOREM LoopIsDefinition == Spec => []AgreesWithDefinition
<1>1. Follows => AgreesWithDefinition
  BY DEF Follows
<1> QED BY <1>1, FollowsInit, FollowsStep, Invariance, PTL DEF Spec
=============================================================================
