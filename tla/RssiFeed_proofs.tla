--------------------------- MODULE RssiFeed_proofs ---------------------------
(***************************************************************************)
(* Proofs about RssiFeed, for every queue length and every set of readings  *)
(* of a signed byte.                                                        *)
(***************************************************************************)
EXTENDS RssiFeed, SequenceTheorems, DataInduction, TLAPS

-----------------------------------------------------------------------------
(* The maximum that set_out looks for *)

\* A non-empty set of signed bytes has a greatest element.
LEMMA BytesHaveMaximum ==
  ASSUME NEW S \in SUBSET (-128..127), S # {}
  PROVE  \E m \in S : \A s \in S : s <= m
<1>1. S \subseteq Int /\ 127 \in Int /\ \A s \in S : s <= 127
  OBVIOUS
<1> QED BY <1>1, GreatestElement

\* Strongest(q) is a reading of q, and no reading of q is stronger.
LEMMA StrongestProperties ==
  ASSUME NEW q, Readings(q) \in SUBSET Rssi, Readings(q) # {}
  PROVE  /\ Strongest(q) \in Readings(q)
         /\ \A s \in Readings(q) : s <= Strongest(q)
<1>1. Readings(q) \in SUBSET (-128..127)
  BY RssiAssumption
<1>2. \E m \in Readings(q) : \A s \in Readings(q) : s <= m
  BY <1>1, BytesHaveMaximum
<1> QED BY <1>2, Zenon DEF Strongest

\* Readings and outputs are numbers.
LEMMA RssiIsInt == \A r \in Rssi : r \in Int
BY RssiAssumption

LEMMA QueueOutIsInt == \A q \in QueueType : q.out \in Int
<1> TAKE q \in QueueType
<1>1. q.out \in -128..127
  BY DEF QueueType
<1> QED BY <1>1

-----------------------------------------------------------------------------
(* The smoothing *)

\* The truncating average of two integers lies between them.
LEMMA SmoothedBetween ==
  ASSUME NEW old \in Int, NEW new \in Int
  PROVE  /\ Smoothed(old, new) \in Int
         /\ old <= new => old <= Smoothed(old, new) /\ Smoothed(old, new) <= new
         /\ new <= old => new <= Smoothed(old, new) /\ Smoothed(old, new) <= old
BY DEF Smoothed, CDiv, MA

\* Smoothing a reading at or below -MA into an output that is not positive
\* gives a negative output.
LEMMA SmoothedNegative ==
  ASSUME NEW old \in Int, NEW new \in Int, old <= 0, new <= -MA
  PROVE  Smoothed(old, new) < 0
BY DEF Smoothed, CDiv, MA

-----------------------------------------------------------------------------
(* One call of add_rssi_to_q *)

QueueOK(q) == q \in QueueType /\ q.size = Len(q.chain)

\* The queue after add_rssi_to_q has made room in it.
WithRoom(q) == IF q.size < QMax THEN q ELSE Dequeue(q)

\* Making room keeps the youngest readings and leaves the output alone.
LEMMA WithRoomProperties ==
  ASSUME NEW q, QueueOK(q)
  PROVE  /\ WithRoom(q) \in [chain : Seq(Rssi), size : Nat, out : -128..127]
         /\ WithRoom(q).size = Len(WithRoom(q).chain)
         /\ WithRoom(q).size < QMax
         /\ WithRoom(q).out = q.out
         /\ WithRoom(q).chain =
              IF Len(q.chain) < QMax THEN q.chain ELSE Tail(q.chain)
         /\ Readings(WithRoom(q)) \subseteq Readings(q)
<1>1. q \in [chain : Seq(Rssi), size : 0..QMax, out : -128..127]
      /\ q.size = Len(q.chain) /\ QMax \in Nat \ {0}
  BY QMaxAssumption DEF QueueOK, QueueType
<1>2. CASE q.size < QMax
  BY <1>1, <1>2 DEF WithRoom
<1>3. CASE ~ (q.size < QMax)
  <2>1. q.size = QMax /\ q.chain # <<>>
    BY <1>1, <1>3
  <2>2. /\ Tail(q.chain) \in Seq(Rssi)
        /\ Len(Tail(q.chain)) = Len(q.chain) - 1
        /\ \A k \in 1..Len(Tail(q.chain)) : Tail(q.chain)[k] = q.chain[k + 1]
    BY <1>1, <2>1, HeadTailProperties
  <2>3. WithRoom(q) = [q EXCEPT !.chain = Tail(@), !.size = @ - 1]
    BY <1>3, <2>1 DEF WithRoom, Dequeue
  <2>4. WithRoom(q) = [chain |-> Tail(q.chain), size |-> q.size - 1, out |-> q.out]
    BY <1>1, <2>3
  <2>5. Readings(WithRoom(q)) \subseteq Readings(q)
    <3>1. ASSUME NEW k \in 1..Len(Tail(q.chain))
          PROVE  Tail(q.chain)[k] \in Readings(q)
      <4>1. k + 1 \in 1..Len(q.chain)
        BY <1>1, <2>1, <2>2
      <4> QED BY <2>2, <4>1, Zenon DEF Readings
    <3>2. WithRoom(q).chain = Tail(q.chain)
      BY <2>4
    <3> QED BY <3>1, <3>2, Zenon DEF Readings
  <2>6. /\ WithRoom(q).chain = Tail(q.chain)
        /\ WithRoom(q).size = q.size - 1
        /\ WithRoom(q).out = q.out
    BY <2>4
  <2>7. q.size - 1 \in Nat /\ q.size - 1 < QMax /\ q.out \in -128..127
    BY <1>1, <2>1
  <2>8. WithRoom(q) \in [chain : Seq(Rssi), size : Nat, out : -128..127]
    BY <2>2, <2>4, <2>7
  <2>9. q.size - 1 = Len(Tail(q.chain))
    BY <1>1, <2>2
  <2>10. ~ (Len(q.chain) < QMax)
    BY <1>1, <1>3
  <2> QED BY <2>5, <2>6, <2>7, <2>8, <2>9, <2>10, Zenon
<1> QED BY <1>2, <1>3

\* Appending keeps the size the length, adds one reading and no output.
LEMMA EnqueueProperties ==
  ASSUME NEW p \in [chain : Seq(Rssi), size : Nat, out : -128..127],
         p.size = Len(p.chain), NEW r \in Rssi
  PROVE  LET n == Enqueue(p, r) IN
         /\ n = [chain |-> Append(p.chain, r), size |-> p.size + 1, out |-> p.out]
         /\ n.chain \in Seq(Rssi) /\ n.chain # <<>> /\ n.size = Len(n.chain)
         /\ r \in Readings(n) /\ Readings(n) \subseteq Readings(p) \cup {r}
<1> DEFINE n == Enqueue(p, r)
<1>1. /\ Append(p.chain, r) \in Seq(Rssi)
      /\ Append(p.chain, r) # <<>>
      /\ Len(Append(p.chain, r)) = Len(p.chain) + 1
      /\ \A k \in 1..Len(p.chain) : Append(p.chain, r)[k] = p.chain[k]
      /\ Append(p.chain, r)[Len(p.chain) + 1] = r
  BY AppendProperties
<1>2. (IF p.chain = <<>> THEN 1 ELSE p.size + 1) = p.size + 1
  BY EmptySeq
<1>3. n = [chain |-> Append(p.chain, r), size |-> p.size + 1, out |-> p.out]
  <2>1. n = [p EXCEPT !.chain = Append(p.chain, r), !.size = p.size + 1]
    BY <1>2, Zenon DEF Enqueue
  <2> HIDE DEF n
  <2> QED BY <2>1
<1> HIDE DEF n
<1>4. n.chain = Append(p.chain, r) /\ n.size = p.size + 1
  BY <1>3
<1>5. Len(p.chain) \in Nat
  OBVIOUS
<1>6. r \in Readings(n)
  <2>1. Len(p.chain) + 1 \in 1..Len(n.chain)
    BY <1>1, <1>4, <1>5
  <2> QED BY <1>1, <1>4, <2>1, Zenon DEF Readings
<1>7. Readings(n) \subseteq Readings(p) \cup {r}
  <2>1. ASSUME NEW k \in 1..Len(n.chain)
        PROVE  n.chain[k] \in Readings(p) \cup {r}
    <3>1. k \in 1..Len(p.chain) \/ k = Len(p.chain) + 1
      BY <1>1, <1>4, <1>5
    <3> QED BY <3>1, <1>1, <1>4, ZenonT(30) DEF Readings
  <2> QED BY <2>1, Zenon DEF Readings
<1> QED BY <1>1, <1>3, <1>4, <1>5, <1>6, <1>7 DEF n

\* add_rssi_to_q as one equation per field: the window slides, the size stays
\* its length, and the output becomes the strongest reading of the new window
\* or is smoothed towards it.
LEMMA AddRssiProperties ==
  ASSUME NEW q, QueueOK(q), NEW r \in Rssi
  PROVE  LET n == AddRssi(q, r) IN
         /\ QueueOK(n)
         /\ n.chain = Append(IF Len(q.chain) < QMax THEN q.chain ELSE Tail(q.chain), r)
         /\ n.chain # <<>>
         /\ r \in Readings(n)
         /\ Readings(n) \subseteq Readings(q) \cup {r}
         /\ Strongest(n) \in Readings(n)
         /\ n.out = IF q.out > 0 THEN Strongest(n) ELSE Smoothed(q.out, Strongest(n))
<1> DEFINE p == WithRoom(q)
           e == Enqueue(p, r)
           n == AddRssi(q, r)
<1>1. /\ p \in [chain : Seq(Rssi), size : Nat, out : -128..127]
      /\ p.size = Len(p.chain) /\ p.size < QMax /\ p.out = q.out
      /\ p.chain = IF Len(q.chain) < QMax THEN q.chain ELSE Tail(q.chain)
      /\ Readings(p) \subseteq Readings(q)
  BY WithRoomProperties, Zenon
<1>2. /\ e = [chain |-> Append(p.chain, r), size |-> p.size + 1, out |-> p.out]
      /\ e.chain \in Seq(Rssi) /\ e.chain # <<>> /\ e.size = Len(e.chain)
      /\ r \in Readings(e) /\ Readings(e) \subseteq Readings(p) \cup {r}
  <2> HIDE DEF p
  <2> QED BY <1>1, EnqueueProperties
<1>3. n = SetOut(e)
  BY Zenon DEF AddRssi, WithRoom
<1> HIDE DEF n, e, p
<1>4. /\ e.chain = Append(p.chain, r) /\ e.size = p.size + 1 /\ e.out = q.out
      /\ e.size \in 1..QMax
  BY <1>1, <1>2, QMaxAssumption
<1>5. /\ n = [chain |-> e.chain, size |-> e.size, out |-> NextOut(e)]
      /\ n.chain = e.chain /\ n.size = e.size /\ n.out = NextOut(e)
  <2>1. ~ (e.chain = <<>> \/ e.size = 0)
    BY <1>2, <1>4
  <2>2. n = [e EXCEPT !.out = NextOut(e)]
    BY <1>3, <2>1, Zenon DEF SetOut
  <2>3. n = [chain |-> e.chain, size |-> e.size, out |-> NextOut(e)]
    BY <1>2, <2>2
  <2> QED BY <2>3
<1>6. Readings(n) = Readings(e) /\ Strongest(n) = Strongest(e)
  BY <1>5, ZenonT(30) DEF Readings, Strongest
<1>7. Readings(e) \in SUBSET Rssi /\ Readings(e) # {}
  <2>1. \A k \in 1..Len(e.chain) : e.chain[k] \in Rssi
    BY <1>2, ElementOfSeq
  <2> QED BY <1>2, <2>1, ZenonT(30) DEF Readings
<1>8. Strongest(e) \in Readings(e) /\ Strongest(e) \in -128..127
  BY <1>7, StrongestProperties, RssiAssumption
<1>9. q.out \in -128..127
  BY DEF QueueOK, QueueType
<1>10. NextOut(e) = IF q.out > 0 THEN Strongest(e) ELSE Smoothed(q.out, Strongest(e))
  <2>1. CASE q.out > 0 /\ e.size = 1
    <3>1. NextOut(e) = Head(e.chain)
      BY <2>1, <1>4, <1>9 DEF NextOut
    <3>2. Head(e.chain) = e.chain[1] /\ 1..Len(e.chain) = {1}
      BY <1>2, <2>1
    <3>3. Readings(e) = {e.chain[1]}
      BY <3>2, Zenon DEF Readings
    <3> QED BY <2>1, <3>1, <3>2, <3>3, <1>8
  <2>2. CASE q.out > 0 /\ e.size # 1
    BY <2>2, <1>4, <1>9 DEF NextOut
  <2>3. CASE ~ (q.out > 0)
    BY <2>3, <1>4, <1>9 DEF NextOut
  <2> QED BY <2>1, <2>2, <2>3, Zenon
<1>11. NextOut(e) \in -128..127
  <2>1. q.out \in Int /\ Strongest(e) \in Int
    BY <1>8, <1>9
  <2>2. CASE q.out > 0
    BY <2>2, <1>8, <1>10
  <2>3. CASE ~ (q.out > 0)
    <3> DEFINE sm == Smoothed(q.out, Strongest(e))
    <3>1. /\ sm \in Int
          /\ q.out <= Strongest(e) => q.out <= sm /\ sm <= Strongest(e)
          /\ Strongest(e) <= q.out => Strongest(e) <= sm /\ sm <= q.out
      BY <2>1, SmoothedBetween
    <3>2. NextOut(e) = sm
      BY <1>10, <2>3
    <3> HIDE DEF sm
    <3> QED BY <1>8, <1>9, <2>1, <3>1, <3>2
  <2> QED BY <2>2, <2>3
<1>12. QueueOK(n)
  <2>1. e.size \in 0..QMax
    BY <1>4, QMaxAssumption
  <2> QED BY <1>2, <1>5, <1>11, <2>1 DEF QueueOK, QueueType
<1> QED BY <1>1, <1>2, <1>4, <1>5, <1>6, <1>8, <1>10, <1>12, Zenon DEF n

-----------------------------------------------------------------------------
(* The inductive invariant *)

\* A queue without readings has no output, and the window holds only readings
\* that were given to it: what OutWithinSeen and PresentAgentIsSeen need in
\* order to survive a step.
IInv ==
  /\ TypeOK
  /\ queue.chain = <<>> => queue.out = NoOut
  /\ Readings(queue) \subseteq seen
  /\ OutWithinSeen
  /\ PresentAgentIsSeen

LEMMA IInvInit == Init => IInv
<1> SUFFICES ASSUME Init PROVE IInv
  OBVIOUS
<1>1. /\ queue = [chain |-> <<>>, size |-> 0, out |-> 34]
      /\ signal \in Rssi /\ seen = {}
  BY DEF Init, EmptyQueue, NoOut
<1>2. queue.chain = <<>> /\ queue.size = 0 /\ queue.out = 34
  BY <1>1
<1>3. <<>> \in Seq(Rssi) /\ Len(<<>>) = 0 /\ 1..0 = {}
  BY EmptySeq
<1>4. queue \in QueueType /\ queue.size = Len(queue.chain)
  BY <1>1, <1>3, QMaxAssumption DEF QueueType
<1>5. Readings(queue) = {}
  BY <1>2, <1>3, Zenon DEF Readings
<1> QED BY <1>1, <1>2, <1>4, <1>5
        DEF IInv, TypeOK, OutWithinSeen, PresentAgentIsSeen, NoOut

\* What a single record does to the output: it goes to the strongest reading
\* of the new window, or part of the way there.
LEMMA ReceiveOut ==
  ASSUME IInv, Receive
  PROVE  /\ QueueOK(queue') /\ queue'.chain # <<>>
         /\ queue'.out \in Int /\ queue.out \in Int
         /\ Strongest(queue') \in Readings(queue') /\ Strongest(queue') \in Int
         /\ Readings(queue') \subseteq seen' /\ seen \subseteq seen'
         /\ seen' \subseteq Rssi
         /\ queue.out > 0 => queue'.out = Strongest(queue')
         /\ ~ (queue.out > 0) =>
              /\ queue.chain # <<>>
              /\ queue'.out = Smoothed(queue.out, Strongest(queue'))
<1>1. /\ QueueOK(queue) /\ signal \in Rssi /\ queue' = AddRssi(queue, signal)
      /\ seen' = seen \cup {signal} /\ seen \subseteq Rssi
  BY Zenon DEF IInv, TypeOK, Receive, QueueOK
<1>2. /\ QueueOK(queue') /\ queue'.chain # <<>>
      /\ Readings(queue') \subseteq Readings(queue) \cup {signal}
      /\ Strongest(queue') \in Readings(queue')
      /\ queue'.out = IF queue.out > 0 THEN Strongest(queue')
                      ELSE Smoothed(queue.out, Strongest(queue'))
  BY <1>1, AddRssiProperties, Zenon
<1>3. queue'.out \in Int /\ queue.out \in Int
  <2>1. queue' \in QueueType /\ queue \in QueueType
    BY <1>1, <1>2, Zenon DEF QueueOK
  <2> QED BY <2>1, QueueOutIsInt, Zenon
<1>4. Readings(queue') \subseteq seen'
  BY <1>1, <1>2, Zenon DEF IInv
<1>5. seen' \subseteq Rssi /\ seen \subseteq seen'
  BY <1>1, Zenon
<1>6. Strongest(queue') \in Int
  <2>1. Strongest(queue') \in Rssi
    BY <1>2, <1>4, <1>5, Zenon
  <2> QED BY <2>1, RssiIsInt, Zenon
<1>7. ~ (queue.out > 0) => queue.chain # <<>>
  BY DEF IInv, NoOut
<1> QED BY <1>2, <1>3, <1>4, <1>5, <1>6, <1>7, Zenon

LEMMA IInvStep == IInv /\ [Next]_vars => IInv'
<1> SUFFICES ASSUME IInv, [Next]_vars PROVE IInv'
  OBVIOUS
<1>1. CASE Receive
  <2> DEFINE s == Strongest(queue')
  <2>1. /\ QueueOK(queue') /\ queue'.chain # <<>>
        /\ queue'.out \in Int /\ queue.out \in Int
        /\ s \in Readings(queue') /\ s \in Int
        /\ Readings(queue') \subseteq seen' /\ seen \subseteq seen'
        /\ seen' \subseteq Rssi
        /\ queue.out > 0 => queue'.out = s
        /\ ~ (queue.out > 0) =>
             queue.chain # <<>> /\ queue'.out = Smoothed(queue.out, s)
    BY <1>1, ReceiveOut
  <2>2. TypeOK'
    BY <1>1, <2>1 DEF TypeOK, QueueOK, IInv, Receive
  <2>3. OutWithinSeen'
    <3> SUFFICES \E weakest, strongest \in seen' :
                   weakest <= queue'.out /\ queue'.out <= strongest
      BY DEF OutWithinSeen
    <3>1. CASE queue.out > 0
      <4>1. s \in seen' /\ s <= queue'.out /\ queue'.out <= s
        BY <2>1, <3>1
      <4> QED BY <4>1
    <3>2. CASE ~ (queue.out > 0)
      <4>1. PICK w \in seen, v \in seen : w <= queue.out /\ queue.out <= v
        BY <2>1, <3>2 DEF IInv, OutWithinSeen
      <4>2. w \in seen' /\ v \in seen' /\ s \in seen' /\ w \in Int /\ v \in Int
        BY <2>1, RssiAssumption
      <4>3. /\ queue.out <= s => queue.out <= queue'.out /\ queue'.out <= s
            /\ s <= queue.out => s <= queue'.out /\ queue'.out <= queue.out
        BY <2>1, <3>2, SmoothedBetween
      <4>4. CASE queue.out <= s
        <5>1. w <= queue'.out /\ queue'.out <= s
          BY <2>1, <4>1, <4>2, <4>3, <4>4
        <5> QED BY <4>2, <5>1
      <4>5. CASE s <= queue.out
        <5>1. s <= queue'.out /\ queue'.out <= v
          BY <2>1, <4>1, <4>2, <4>3, <4>5
        <5> QED BY <4>2, <5>1
      <4> QED BY <2>1, <4>4, <4>5
    <3> QED BY <3>1, <3>2
  <2>4. PresentAgentIsSeen'
    <3> SUFFICES ASSUME \A r \in Readings(queue') : r <= -MA
                 PROVE  queue'.out < 0
      BY DEF PresentAgentIsSeen
    <3>1. s <= -MA
      BY <2>1
    <3>2. CASE queue.out > 0
      BY <2>1, <3>1, <3>2 DEF MA
    <3>3. CASE ~ (queue.out > 0)
      <4>1. queue.out <= 0
        BY <2>1, <3>3
      <4> HIDE DEF s
      <4> QED BY <2>1, <3>1, <3>3, <4>1, SmoothedNegative
    <3> QED BY <3>2, <3>3
  <2> QED BY <2>1, <2>2, <2>3, <2>4, Zenon DEF IInv
<1>2. CASE \E s \in Rssi : Move(s)
  BY <1>2 DEF Move, IInv, TypeOK, OutWithinSeen, PresentAgentIsSeen, Readings, QueueType
<1>3. CASE UNCHANGED vars
  BY <1>3 DEF vars, IInv, TypeOK, OutWithinSeen, PresentAgentIsSeen, Readings, QueueType
<1> QED BY <1>1, <1>2, <1>3 DEF Next

-----------------------------------------------------------------------------
(* Theorems *)

THEOREM Invariance == Spec => []IInv
<1>1. Init => IInv
  BY IInvInit
<1>2. IInv /\ [Next]_vars => IInv'
  BY IInvStep
<1> QED BY <1>1, <1>2, PTL DEF Spec

\* The queue never holds more than QMax readings and its counted size is the
\* length of its chain (add_rssi_to_q, enqueue, dequeue).
THEOREM TypeCorrect == Spec => []TypeOK
<1>1. IInv => TypeOK
  BY DEF IInv
<1> QED BY <1>1, Invariance, PTL

\* The smoothed output of an agent never leaves the range of what the agent
\* sent (set_out).
THEOREM OutputIsBounded == Spec => []OutWithinSeen
<1>1. IInv => OutWithinSeen
  BY DEF IInv
<1> QED BY <1>1, Invariance, PTL

\* An agent whose recent readings are all at or below -MA has a negative
\* output, so get_room_num does not take it for an absent one.
THEOREM PresentAgentCounts == Spec => []PresentAgentIsSeen
<1>1. IInv => PresentAgentIsSeen
  BY DEF IInv
<1> QED BY <1>1, Invariance, PTL

\* No record moves the output past the strongest reading of the window.
THEOREM NoOvershoot == Spec => NeverOvershoots
<1> DEFINE A == queue.chain # <<>> =>
                  Towards(queue.out, Strongest(queue'), queue'.out)
<1>1. IInv /\ [Next]_vars => [A]_queue
  <2> SUFFICES ASSUME IInv, Receive, queue.chain # <<>>
               PROVE  Towards(queue.out, Strongest(queue'), queue'.out)
    BY DEF Next, Move, vars
  <2> DEFINE s == Strongest(queue')
  <2>1. /\ queue'.out \in Int /\ queue.out \in Int /\ s \in Int
        /\ queue.out > 0 => queue'.out = s
        /\ ~ (queue.out > 0) => queue'.out = Smoothed(queue.out, s)
    BY ReceiveOut
  <2> HIDE DEF s
  <2>2. Towards(queue.out, s, queue'.out)
    <3>1. CASE queue.out > 0
      BY <2>1, <3>1 DEF Towards
    <3>2. CASE ~ (queue.out > 0)
      <4>1. /\ queue.out <= s => queue.out <= queue'.out /\ queue'.out <= s
            /\ s <= queue.out => s <= queue'.out /\ queue'.out <= queue.out
        BY <2>1, <3>2, SmoothedBetween
      <4> QED BY <2>1, <4>1 DEF Towards
    <3> QED BY <3>1, <3>2
  <2> QED BY <2>2 DEF s
<1> QED BY <1>1, Invariance, PTL DEF Spec, NeverOvershoots

\* The chain implements the abstract window: every record shifts it by exactly
\* one reading, and it is always the last QMax readings in order of arrival.
THEOREM ImplementsWindow == Spec => KeepsLastReadings
<1> DEFINE recent == [s \in {"agent"} |-> queue.chain]
<1>1. Init => Window!Init
  BY DEF Init, EmptyQueue, Window!Init
<1>2. IInv /\ [Next]_vars => [Window!Next]_recent
  <2>1. ASSUME IInv, Receive PROVE queue'.chain = Window!Last(Append(queue.chain, signal))
    <3> DEFINE c == queue.chain
    <3>1. /\ c \in Seq(Rssi) /\ Len(c) <= QMax /\ signal \in Rssi
          /\ QueueOK(queue) /\ queue' = AddRssi(queue, signal)
      BY <2>1, QMaxAssumption DEF IInv, TypeOK, QueueType, Receive, QueueOK
    <3>2. queue'.chain = Append(IF Len(c) < QMax THEN c ELSE Tail(c), signal)
      BY <3>1, AddRssiProperties, Zenon
    <3> HIDE DEF c
    <3>3. /\ Append(c, signal) \in Seq(Rssi)
          /\ Append(c, signal) # <<>>
          /\ Len(Append(c, signal)) = Len(c) + 1
      BY <3>1, AppendProperties
    <3>4. CASE Len(c) < QMax
      BY <3>1, <3>2, <3>3, <3>4, QMaxAssumption DEF Window!Last, c
    <3>5. CASE ~ (Len(c) < QMax)
      <4>1. Len(c) = QMax /\ c # <<>>
        BY <3>1, <3>5, QMaxAssumption
      <4>2. Tail(Append(c, signal)) = Append(Tail(c), signal)
        BY <3>1, <4>1, HeadTailAppend
      <4>3. Tail(Append(c, signal)) = SubSeq(Append(c, signal), 2, QMax + 1)
        BY <3>3, <4>1, TailIsSubSeq
      <4>4. /\ ~ (Len(Append(c, signal)) <= QMax)
            /\ Len(Append(c, signal)) - QMax + 1 = 2
            /\ Len(Append(c, signal)) = QMax + 1
        BY <3>3, <4>1, QMaxAssumption
      <4>5. Window!Last(Append(c, signal)) = SubSeq(Append(c, signal), 2, QMax + 1)
        BY <4>4 DEF Window!Last
      <4> QED BY <3>2, <3>5, <4>2, <4>3, <4>5 DEF c
    <3> QED BY <3>4, <3>5
  <2>2. ASSUME IInv, Receive PROVE Window!Push("agent", signal)
    <3>1. recent' = [s \in {"agent"} |-> Window!Last(Append(queue.chain, signal))]
      BY <2>1, <2>2
    <3>2. recent["agent"] = queue.chain
      OBVIOUS
    <3>3. recent' = [recent EXCEPT !["agent"] = Window!Last(Append(recent["agent"], signal))]
      BY <3>1, <3>2
    <3> QED BY <3>3 DEF Window!Push
  <2>3. ASSUME IInv, Receive PROVE Window!Next
    <3>1. signal \in Rssi
      BY <2>3 DEF IInv, TypeOK
    <3> HIDE DEF recent
    <3> QED BY <2>2, <2>3, <3>1 DEF Window!Next
  <2>4. ASSUME UNCHANGED queue PROVE UNCHANGED recent
    BY <2>4
  <2> QED BY <2>3, <2>4 DEF Next, Move, vars
<1> QED BY <1>1, <1>2, Invariance, PTL DEF Spec, KeepsLastReadings, Window!Spec
=============================================================================
