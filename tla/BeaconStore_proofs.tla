-------------------------- MODULE BeaconStore_proofs --------------------------
(***************************************************************************)
(* Proofs about BeaconStore, for every batch size, number of agents and      *)
(* length of a behaviour: the queues of a beacon fit the array that is       *)
(* filled from them, each queue is a window on what its agent reported, a    *)
(* beacon is placed only in a room where three agents hear it and is placed  *)
(* when it can be, and every position is published once, in its batch.       *)
(***************************************************************************)
EXTENDS BeaconStore, FiniteSetTheorems, SequenceTheorems, DataInduction, TLAPS

-----------------------------------------------------------------------------
(* Arithmetic and sequences *)

LEMMA DivMod ==
  ASSUME NEW k \in Nat, NEW B \in Nat \ {0}, NEW r \in 0..B - 1
  PROVE  (k * B + r) \div B = k /\ (k * B + r) % B = r
<1>1. (k * B + r) \div B = k
  BY SMT
<1>2. (k * B + r) % B = r
  BY SMT
<1> QED
  BY <1>1, <1>2

\* A sequence, whatever it is of.
IsSequence(s) == Len(s) \in Nat /\ DOMAIN s = 1..Len(s) /\ s \in Seq({s[k] : k \in DOMAIN s})

LEMMA AppendToSequence ==
  ASSUME NEW s, IsSequence(s), NEW e
  PROVE  /\ IsSequence(Append(s, e))
         /\ Len(Append(s, e)) = Len(s) + 1
         /\ \A k \in 1..Len(s) : Append(s, e)[k] = s[k]
         /\ Append(s, e)[Len(s) + 1] = e
<1> DEFINE S == {s[k] : k \in DOMAIN s} \cup {e}
           t == Append(s, e)
<1>1. s \in Seq(S) /\ e \in S
  BY DEF IsSequence
<1> HIDE DEF S
<1>2. /\ t \in Seq(S) /\ Len(t) = Len(s) + 1 /\ DOMAIN t = 1..(Len(s) + 1)
      /\ \A k \in 1..Len(s) : t[k] = s[k]
      /\ t[Len(s) + 1] = e
  BY <1>1
<1> HIDE DEF t
<1>3. t \in Seq({t[k] : k \in DOMAIN t})
  BY <1>2
<1>4. IsSequence(t)
  BY <1>2, <1>3 DEF IsSequence
<1> QED
  BY <1>2, <1>4 DEF t

LEMMA SubSeqIs ==
  ASSUME NEW s, IsSequence(s), NEW m \in Nat \ {0}, NEW n \in Nat,
         m <= n, n <= Len(s)
  PROVE  SubSeq(s, m, n) = [i \in 1..n - m + 1 |-> s[m + i - 1]]
<1> DEFINE S == {s[k] : k \in DOMAIN s}
           part == SubSeq(s, m, n)
<1>1. s \in Seq(S) /\ \A i \in m..n : s[i] \in S
  BY DEF IsSequence
<1> HIDE DEF S
<1>2. /\ part \in Seq(S) /\ Len(part) = n - m + 1
      /\ \A i \in 1..n - m + 1 : part[i] = s[m + i - 1]
  BY <1>1, SubSeqProperties
<1> HIDE DEF part
<1>3. part = [i \in 1..n - m + 1 |-> part[i]]
  BY <1>2
<1> QED
  BY <1>2, <1>3 DEF part

-----------------------------------------------------------------------------
(* The queue of one agent *)

QueueType == [chain : Seq(Rssi), size : 0..QMax, out : -128..127]
QueueOK(q) == q \in QueueType /\ q.size = Len(q.chain)

\* The strongest reading is one of the readings.
LEMMA StrongestIsReading ==
  ASSUME NEW q, q.chain \in Seq(Rssi), q.chain # <<>>
  PROVE  Strongest(q) \in Rssi
<1>1. Readings(q) \subseteq Rssi /\ Readings(q) # {}
  <2>1. Len(q.chain) \in Nat /\ Len(q.chain) # 0 /\ \A k \in 1..Len(q.chain) : q.chain[k] \in Rssi
    OBVIOUS
  <2>2. 1 \in 1..Len(q.chain)
    BY <2>1
  <2> QED
    BY <2>1, <2>2 DEF Readings
<1>2. Readings(q) \subseteq Int /\ \A s \in Readings(q) : s <= 127
  <2>1. ASSUME NEW s \in Readings(q) PROVE s \in Int /\ s <= 127
    <3>1. s \in -128..127
      BY <1>1, RssiAssumption
    <3> QED
      BY <3>1
  <2> QED
    BY <2>1
<1>3. \E m \in Readings(q) : \A s \in Readings(q) : s <= m
  BY <1>1, <1>2, GreatestElement
<1> QED
  BY <1>1, <1>3, Zenon DEF Strongest

\* An average of two signed bytes is one.
LEMMA SmoothedIsByte ==
  ASSUME NEW old \in -128..127, NEW new \in -128..127
  PROVE  Smoothed(old, new) \in -128..127
BY DEF Smoothed, CDiv, MA

\* add_rssi_to_q: the oldest reading makes way in a full queue, the new one
\* joins at the tail, and the size stays the length of the chain.
LEMMA AddRssiIs ==
  ASSUME NEW q, QueueOK(q), NEW r \in Rssi
  PROVE  /\ QueueOK(AddRssi(q, r))
         /\ AddRssi(q, r).chain = Append(IF Len(q.chain) < QMax THEN q.chain ELSE Tail(q.chain), r)
<1> DEFINE kept == IF Len(q.chain) < QMax THEN q.chain ELSE Tail(q.chain)
           p == [chain |-> kept, size |-> Len(kept), out |-> q.out]
           e == [chain |-> Append(kept, r), size |-> Len(kept) + 1, out |-> q.out]
<1>1. /\ q = [chain |-> q.chain, size |-> q.size, out |-> q.out]
      /\ q.chain \in Seq(Rssi) /\ q.size = Len(q.chain) /\ q.size \in 0..QMax
      /\ q.out \in -128..127 /\ QMax \in Nat \ {0}
  BY QMaxAssumption DEF QueueOK, QueueType
<1>2. /\ kept \in Seq(Rssi) /\ Len(kept) \in Nat /\ Len(kept) < QMax
      /\ (IF q.size < QMax THEN q ELSE Dequeue(q)) = p
  <2>1. CASE q.size < QMax
    BY <1>1, <2>1
  <2>2. CASE ~ (q.size < QMax)
    <3>1. q.chain # <<>> /\ Len(q.chain) = QMax
      BY <1>1, <2>2
    <3>2. Tail(q.chain) \in Seq(Rssi) /\ Len(Tail(q.chain)) = Len(q.chain) - 1
      BY <1>1, <3>1
    <3>3. Dequeue(q) = [chain |-> Tail(q.chain), size |-> q.size - 1, out |-> q.out]
      BY <1>1, <3>1 DEF Dequeue
    <3> QED
      BY <1>1, <2>2, <3>1, <3>2, <3>3
  <2> QED
    BY <2>1, <2>2
<1> HIDE DEF kept
<1>3. Enqueue(p, r) = e
  <2>1. (IF kept = <<>> THEN 1 ELSE Len(kept) + 1) = Len(kept) + 1
    BY <1>2
  <2>2. p.chain = kept /\ p.size = Len(kept)
    OBVIOUS
  <2>3. Enqueue(p, r) = [p EXCEPT !.chain = Append(kept, r), !.size = Len(kept) + 1]
    BY <2>1, <2>2, Zenon DEF Enqueue
  <2> QED
    BY <2>3
<1>4. e.chain = Append(kept, r) /\ e.size = Len(kept) + 1 /\ e.out = q.out
  OBVIOUS
<1>5. /\ e.chain \in Seq(Rssi) /\ e.chain # <<>> /\ e.size = Len(e.chain)
      /\ e.size \in 1..QMax
  <2>1. /\ Append(kept, r) \in Seq(Rssi) /\ Append(kept, r) # <<>>
        /\ Len(Append(kept, r)) = Len(kept) + 1
    BY <1>2, AppendProperties
  <2> HIDE DEF e
  <2> QED
    BY <1>1, <1>2, <1>4, <2>1
<1>6. AddRssi(q, r) = SetOut(e)
  <2> HIDE DEF p, e
  <2> QED
    BY <1>2, <1>3 DEF AddRssi
<1> HIDE DEF e, p
<1>7. SetOut(e) = [e EXCEPT !.out = NextOut(e)]
  BY <1>5 DEF SetOut
<1>8. NextOut(e) \in -128..127
  <2>1. Strongest(e) \in -128..127
    BY <1>5, StrongestIsReading, RssiAssumption
  <2>2. Head(e.chain) \in -128..127
    <3>1. Head(e.chain) \in Rssi
      BY <1>5
    <3> QED
      BY <3>1, RssiAssumption
  <2>3. Smoothed(e.out, Strongest(e)) \in -128..127
    BY <1>1, <1>4, <2>1, SmoothedIsByte
  <2> QED
    BY <2>1, <2>2, <2>3 DEF NextOut
<1>9. SetOut(e) = [chain |-> e.chain, size |-> e.size, out |-> NextOut(e)]
  BY <1>7 DEF e
<1>10. e.size \in 0..QMax
  BY <1>1, <1>5
<1> QED
  BY <1>4, <1>5, <1>6, <1>8, <1>9, <1>10 DEF QueueOK, QueueType, kept

LEMMA EmptyQueueOK == QueueOK(EmptyQueue)
BY QMaxAssumption DEF QueueOK, QueueType, EmptyQueue, NoOut

\* What the chain keeps is what the abstract window keeps.
LEMMA ChainIsWindow ==
  ASSUME NEW c \in Seq(Rssi), Len(c) <= QMax, NEW r \in Rssi
  PROVE  Windows!Last(Append(c, r)) = Append(IF Len(c) < QMax THEN c ELSE Tail(c), r)
<1>1. QMax \in Nat \ {0}
  BY QMaxAssumption
<1>2. /\ Append(c, r) \in Seq(Rssi) /\ Append(c, r) # <<>>
      /\ Len(Append(c, r)) = Len(c) + 1
  BY AppendProperties
<1>3. CASE Len(c) < QMax
  BY <1>1, <1>2, <1>3 DEF Windows!Last
<1>4. CASE ~ (Len(c) < QMax)
  <2>1. Len(c) = QMax /\ c # <<>>
    BY <1>1, <1>4
  <2>2. Tail(Append(c, r)) = Append(Tail(c), r)
    BY <2>1, HeadTailAppend
  <2>3. Tail(Append(c, r)) = SubSeq(Append(c, r), 2, QMax + 1)
    BY <1>2, <2>1, TailIsSubSeq
  <2>4. /\ ~ (Len(Append(c, r)) <= QMax)
        /\ Len(Append(c, r)) - QMax + 1 = 2
        /\ Len(Append(c, r)) = QMax + 1
    BY <1>1, <1>2, <2>1
  <2>5. Windows!Last(Append(c, r)) = SubSeq(Append(c, r), 2, QMax + 1)
    BY <2>4 DEF Windows!Last
  <2> QED
    BY <1>4, <2>2, <2>3, <2>5
<1> QED
  BY <1>3, <1>4

\* First finds an element of any set of naturals that has one.
LEMMA FirstIsElement ==
  ASSUME NEW S, S \subseteq Nat, S # {}
  PROVE  First(S) \in S
<1>1. \E i \in S : \A j \in S : i <= j
  BY LeastElement
<1> QED
  BY <1>1, Zenon DEF First

-----------------------------------------------------------------------------
(* The queues of one beacon *)

\* A rssi_queue_t with the mac of its agent.
IsQueue(queue) == queue = [mac |-> queue.mac, q |-> queue.q]

OneQueueEach(queues) ==
  /\ IsSequence(queues)
  /\ \A k \in 1..Len(queues) : IsQueue(queues[k]) /\ queues[k].mac \in Mac
  /\ \A j, k \in 1..Len(queues) : queues[j].mac = queues[k].mac => j = k

LEMMA FileKeepsOneEach ==
  ASSUME NEW queues, OneQueueEach(queues), NEW mac \in Mac, NEW r
  PROVE  OneQueueEach(File(queues, mac, r))
<1> DEFINE found == QueuesOf(queues, mac)
<1>1. CASE found = {}
  <2> DEFINE e == [mac |-> mac, q |-> AddRssi(EmptyQueue, r)]
             more == Append(queues, e)
  <2>1. File(queues, mac, r) = more
    BY <1>1 DEF File
  <2>2. IsQueue(e) /\ e.mac = mac
    BY DEF IsQueue
  <2>3. \A k \in 1..Len(queues) : queues[k].mac # mac
    BY <1>1 DEF QueuesOf
  <2> HIDE DEF e
  <2>4. /\ IsSequence(more) /\ Len(more) = Len(queues) + 1
        /\ \A k \in 1..Len(queues) : more[k] = queues[k]
        /\ more[Len(queues) + 1] = e
    BY AppendToSequence DEF OneQueueEach
  <2> HIDE DEF more
  <2>5. Len(queues) \in Nat
    BY DEF OneQueueEach, IsSequence
  <2>6. ASSUME NEW j \in 1..Len(more), NEW k \in 1..Len(more), more[j].mac = more[k].mac
        PROVE  j = k
    <3>1. \A i \in 1..Len(more) : i \in 1..Len(queues) \/ i = Len(queues) + 1
      BY <2>4, <2>5
    <3>2. CASE j \in 1..Len(queues) /\ k \in 1..Len(queues)
      BY <2>4, <2>6, <3>2 DEF OneQueueEach
    <3>3. CASE j \in 1..Len(queues) /\ k = Len(queues) + 1
      BY <2>2, <2>3, <2>4, <2>6, <3>3
    <3>4. CASE j = Len(queues) + 1 /\ k \in 1..Len(queues)
      BY <2>2, <2>3, <2>4, <2>6, <3>4
    <3> QED
      BY <3>1, <3>2, <3>3, <3>4
  <2>7. ASSUME NEW k \in 1..Len(more)
        PROVE  IsQueue(more[k]) /\ more[k].mac \in Mac
    <3>1. k \in 1..Len(queues) \/ k = Len(queues) + 1
      BY <2>4, <2>5
    <3> QED
      BY <2>2, <2>4, <3>1 DEF OneQueueEach
  <2> QED
    BY <2>1, <2>4, <2>6, <2>7 DEF OneQueueEach
<1>2. CASE found # {}
  <2> DEFINE at == First(found)
             changed == [queues EXCEPT ![at].q = AddRssi(queues[at].q, r)]
  <2>1. File(queues, mac, r) = changed
    BY <1>2 DEF File
  <2>2. /\ DOMAIN changed = DOMAIN queues
        /\ \A k \in DOMAIN queues :
             changed[k] = IF k = at THEN [queues[k] EXCEPT !.q = AddRssi(queues[at].q, r)]
                                    ELSE queues[k]
    OBVIOUS
  <2>3. ASSUME NEW k \in DOMAIN queues
        PROVE  IsQueue(changed[k]) /\ changed[k].mac = queues[k].mac
    <3>1. PICK o, x : o = queues[k] /\ x = AddRssi(queues[at].q, r)
      OBVIOUS
    <3>2. o = [mac |-> o.mac, q |-> o.q]
      BY <3>1 DEF OneQueueEach, IsSequence, IsQueue
    <3>3. [o EXCEPT !.q = x] = [mac |-> o.mac, q |-> x]
      BY <3>2
    <3>4. changed[k] = [mac |-> o.mac, q |-> x] \/ changed[k] = o
      BY <2>2, <3>1, <3>3
    <3> HIDE DEF changed
    <3> QED
      BY <3>1, <3>2, <3>4 DEF IsQueue
  <2>4. IsSequence(changed) /\ Len(changed) = Len(queues)
    <3> HIDE DEF at
    <3>1. changed = [k \in 1..Len(queues) |-> changed[k]]
      BY <2>2 DEF OneQueueEach, IsSequence
    <3>2. Len(queues) \in Nat
      BY DEF OneQueueEach, IsSequence
    <3> HIDE DEF changed
    <3>3. changed \in Seq({changed[k] : k \in 1..Len(queues)}) /\ Len(changed) = Len(queues)
      BY <3>1, <3>2
    <3> QED
      BY <3>1, <3>2, <3>3 DEF IsSequence
  <2> HIDE DEF changed
  <2>5. DOMAIN queues = 1..Len(queues)
    BY DEF OneQueueEach, IsSequence
  <2> QED
    BY <2>1, <2>3, <2>4, <2>5 DEF OneQueueEach
<1> QED
  BY <1>1, <1>2

AllOK(queues) == \A k \in 1..Len(queues) : QueueOK(queues[k].q)

\* The queue of mac is the one at place `at', which may be new; it took the
\* reading, and the other queues are the ones that were there.
FiledAt(at, queues, mac, r, filed) ==
  /\ at \in 1..Len(filed)
  /\ Len(filed) \in {Len(queues), Len(queues) + 1}
  /\ at \in 1..Len(queues) => queues[at].mac = mac /\ Len(filed) = Len(queues)
  /\ at \notin 1..Len(queues) => /\ \A k \in 1..Len(queues) : queues[k].mac # mac
                                 /\ at = Len(queues) + 1
  /\ filed[at] = [mac |-> mac,
                  q   |-> AddRssi(IF at \in 1..Len(queues) THEN queues[at].q ELSE EmptyQueue, r)]
  /\ \A k \in 1..Len(filed) : k # at => k \in 1..Len(queues) /\ filed[k] = queues[k]

LEMMA FileShape ==
  ASSUME NEW queues, OneQueueEach(queues), NEW mac \in Mac, NEW r
  PROVE  \E at : FiledAt(at, queues, mac, r, File(queues, mac, r))
<1> DEFINE found == QueuesOf(queues, mac)
           n == Len(queues)
<1>1. n \in Nat /\ DOMAIN queues = 1..n /\ IsSequence(queues)
  BY DEF OneQueueEach, IsSequence
<1>2. CASE found = {}
  <2> DEFINE e == [mac |-> mac, q |-> AddRssi(EmptyQueue, r)]
             more == Append(queues, e)
  <2>1. File(queues, mac, r) = more
    BY <1>2 DEF File
  <2>2. \A k \in 1..n : queues[k].mac # mac
    BY <1>2 DEF QueuesOf
  <2> HIDE DEF e
  <2>3. /\ Len(more) = n + 1 /\ \A k \in 1..n : more[k] = queues[k]
        /\ more[n + 1] = e
    BY <1>1, AppendToSequence
  <2> HIDE DEF more, n
  <2>4. n + 1 \in 1..Len(more) /\ n + 1 \notin 1..n
    BY <1>1, <2>3
  <2>5. \A k \in 1..Len(more) : k # n + 1 => k \in 1..n
    BY <1>1, <2>3
  <2>6. FiledAt(n + 1, queues, mac, r, more)
    BY <2>2, <2>3, <2>4, <2>5 DEF FiledAt, e, n
  <2> QED
    BY <2>1, <2>6
<1>3. CASE found # {}
  <2> DEFINE at == First(found)
             new == [mac |-> mac, q |-> AddRssi(queues[at].q, r)]
             changed == [queues EXCEPT ![at].q = AddRssi(queues[at].q, r)]
  <2>1. File(queues, mac, r) = changed
    BY <1>3 DEF File
  <2>2. at \in found
    <3>1. found \subseteq Nat
      BY <1>1 DEF QueuesOf
    <3> HIDE DEF found
    <3> QED
      BY <1>3, <3>1, FirstIsElement
  <2> HIDE DEF at, n
  <2>3. at \in 1..n /\ queues[at].mac = mac /\ IsQueue(queues[at])
    BY <2>2 DEF QueuesOf, OneQueueEach, n
  <2>4. /\ DOMAIN changed = 1..n
        /\ \A k \in 1..n : k # at => changed[k] = queues[k]
        /\ changed[at] = [queues[at] EXCEPT !.q = AddRssi(queues[at].q, r)]
    BY <1>1, <2>3
  <2>5. changed[at] = new
    <3>1. PICK x : x = AddRssi(queues[at].q, r)
      OBVIOUS
    <3>2. PICK o : o = queues[at]
      OBVIOUS
    <3>3. o = [mac |-> mac, q |-> o.q]
      BY <2>3, <3>2 DEF IsQueue
    <3>4. [o EXCEPT !.q = x] = [mac |-> mac, q |-> x]
      BY <3>3
    <3> HIDE DEF changed
    <3> QED
      BY <2>4, <3>1, <3>2, <3>4
  <2>6. Len(changed) = n
    <3> HIDE DEF changed
    <3> QED
      BY <1>1, <2>4
  <2> HIDE DEF changed
  <2>7. FiledAt(at, queues, mac, r, changed)
    <3> SUFFICES /\ at \in 1..n
                 /\ queues[at].mac = mac
                 /\ changed[at] = [mac |-> mac, q |-> AddRssi(queues[at].q, r)]
                 /\ \A k \in 1..n : k # at => changed[k] = queues[k]
      BY <2>6 DEF FiledAt, n
    <3> QED
      BY <2>3, <2>4, <2>5
  <2> QED
    BY <2>1, <2>7
<1> QED
  BY <1>2, <1>3

\* The readings of mac among these queues: Log, beacon by beacon.
LogOf(queues, mac) ==
  LET mine == {k \in 1..Len(queues) : queues[k].mac = mac}
  IN  IF mine = {} THEN <<>> ELSE queues[CHOOSE k \in mine : TRUE].q.chain

LEMMA LogIsOfQueue ==
  ASSUME NEW queues, OneQueueEach(queues), NEW k \in 1..Len(queues)
  PROVE  LogOf(queues, queues[k].mac) = queues[k].q.chain
<1> DEFINE mine == {j \in 1..Len(queues) : queues[j].mac = queues[k].mac}
           c == CHOOSE j \in mine : TRUE
<1>1. k \in mine
  OBVIOUS
<1>2. c \in mine
  BY <1>1, Zenon
<1>3. c = k
  BY <1>2 DEF OneQueueEach
<1>4. LogOf(queues, queues[k].mac) = queues[c].q.chain
  BY <1>1, Zenon DEF LogOf
<1> QED
  BY <1>3, <1>4

LEMMA LogOfStranger ==
  ASSUME NEW queues, NEW mac, \A k \in 1..Len(queues) : queues[k].mac # mac
  PROVE  LogOf(queues, mac) = <<>>
BY DEF LogOf

\* A reading shifts the window of its own agent, and no other.
LEMMA FileMovesLog ==
  ASSUME NEW queues, OneQueueEach(queues), AllOK(queues), NEW mac \in Mac, NEW r \in Rssi
  PROVE  LET filed == File(queues, mac, r)
         IN  /\ AllOK(filed)
             /\ LogOf(filed, mac) = Windows!Last(Append(LogOf(queues, mac), r))
             /\ \A m \in Mac : m # mac => LogOf(filed, m) = LogOf(queues, m)
<1> DEFINE filed == File(queues, mac, r)
<1>1. OneQueueEach(filed)
  BY FileKeepsOneEach
<1>2. PICK at : FiledAt(at, queues, mac, r, filed)
  BY FileShape
<1> HIDE DEF filed
<1> DEFINE old == IF at \in 1..Len(queues) THEN queues[at].q ELSE EmptyQueue
<1>3. QueueOK(old) /\ old.chain = LogOf(queues, mac)
  <2>1. CASE at \in 1..Len(queues)
    <3>1. queues[at].mac = mac
      BY <1>2, <2>1 DEF FiledAt
    <3> QED
      BY <2>1, <3>1, LogIsOfQueue DEF AllOK
  <2>2. CASE at \notin 1..Len(queues)
    <3>1. LogOf(queues, mac) = <<>>
      BY <1>2, <2>2, LogOfStranger DEF FiledAt
    <3> QED
      BY <2>2, <3>1, EmptyQueueOK DEF EmptyQueue
  <2> QED
    BY <2>1, <2>2
<1>4. at \in 1..Len(filed) /\ filed[at].mac = mac /\ filed[at].q = AddRssi(old, r)
  BY <1>2 DEF FiledAt
<1>5. \A k \in 1..Len(filed) : k # at => k \in 1..Len(queues) /\ filed[k] = queues[k]
  BY <1>2 DEF FiledAt
<1> HIDE DEF old
<1>6. QueueOK(AddRssi(old, r))
  BY <1>3, AddRssiIs
<1>7. AllOK(filed)
  BY <1>4, <1>5, <1>6 DEF AllOK
<1>8. LogOf(filed, mac) = Windows!Last(Append(LogOf(queues, mac), r))
  <2>1. LogOf(filed, mac) = AddRssi(old, r).chain
    BY <1>1, <1>4, LogIsOfQueue
  <2>2. old.chain \in Seq(Rssi) /\ Len(old.chain) <= QMax
    BY <1>3, QMaxAssumption DEF QueueOK, QueueType
  <2> QED
    BY <1>3, <2>1, <2>2, AddRssiIs, ChainIsWindow
<1>9. ASSUME NEW m \in Mac, m # mac PROVE LogOf(filed, m) = LogOf(queues, m)
  <2>1. CASE \E k \in 1..Len(filed) : filed[k].mac = m
    <3>1. PICK k \in 1..Len(filed) : filed[k].mac = m
      BY <2>1
    <3>2. k # at /\ k \in 1..Len(queues) /\ filed[k] = queues[k]
      BY <1>4, <1>5, <1>9, <3>1
    <3>3. LogOf(filed, m) = filed[k].q.chain /\ LogOf(queues, m) = queues[k].q.chain
      BY <1>1, <3>1, <3>2, LogIsOfQueue
    <3> QED
      BY <3>2, <3>3
  <2>2. CASE \A k \in 1..Len(filed) : filed[k].mac # m
    <3>1. \A k \in 1..Len(queues) : queues[k].mac # m
      <4>1. ASSUME NEW k \in 1..Len(queues) PROVE queues[k].mac # m
        <5>1. Len(queues) \in Nat /\ k \in 1..Len(filed)
          <6>1. Len(queues) \in Nat
            BY DEF OneQueueEach, IsSequence
          <6> QED
            BY <1>2, <6>1 DEF FiledAt
        <5>2. CASE k = at
          BY <1>2, <1>9, <5>2 DEF FiledAt
        <5>3. CASE k # at
          BY <1>5, <2>2, <5>1, <5>3
        <5> QED
          BY <5>2, <5>3
      <4> QED
        BY <4>1
    <3> QED
      BY <2>2, <3>1, LogOfStranger
  <2> QED
    BY <2>1, <2>2
<1> QED
  BY <1>7, <1>8, <1>9 DEF filed

-----------------------------------------------------------------------------
(* The room of one beacon *)

LEMMA FirstOfIndices ==
  ASSUME NEW S \in SUBSET Index
  PROVE  First(S) = NotFound \/ First(S) \in S
<1>1. S \subseteq Nat
  BY DEF Index
<1> QED
  BY <1>1, FirstIsElement DEF First

LEMMA FirstFinds ==
  ASSUME NEW S \in SUBSET Index, S # {}
  PROVE  First(S) \in S /\ First(S) # NotFound
<1>1. S \subseteq Nat
  BY DEF Index
<1>2. First(S) \in S
  BY <1>1, FirstIsElement
<1> QED
  BY <1>1, <1>2 DEF NotFound

LEMMA InfoOfMac ==
  ASSUME NEW mac
  PROVE  /\ InfoFromMac(mac) # NotFound =>
              InfoFromMac(mac) \in Index /\ InfoMac[InfoFromMac(mac)] = mac
         /\ \A i \in Index : InfoMac[i] = mac => InfoFromMac(mac) = i /\ i # NotFound
<1> DEFINE S == {i \in Index : InfoMac[i] = mac}
<1>1. S \in SUBSET Index
  OBVIOUS
<1>2. First(S) = NotFound \/ First(S) \in S
  <2> HIDE DEF S
  <2> QED
    BY <1>1, FirstOfIndices
<1>3. S # {} => First(S) \in S /\ First(S) # NotFound
  <2> HIDE DEF S
  <2> QED
    BY <1>1, FirstFinds
<1>4. InfoFromMac(mac) = First(S)
  BY DEF InfoFromMac
<1> QED
  BY <1>2, <1>3, <1>4, InfosAssumption, Zenon

\* One queue for each of AgentNum registered agents at most: a longer chain has
\* the queue of a stranger.
LEMMA StrangerAmong ==
  ASSUME NEW queues, OneQueueEach(queues), Len(queues) > AgentNum
  PROVE  \E k \in 1..Len(queues) : InfoFromMac(queues[k].mac) = NotFound
<1> SUFFICES ASSUME \A k \in 1..Len(queues) : InfoFromMac(queues[k].mac) # NotFound
             PROVE  FALSE
  OBVIOUS
<1> DEFINE n == Len(queues)
           infoOf == [k \in 1..n |-> InfoFromMac(queues[k].mac)]
<1>1. n \in Nat
  BY DEF OneQueueEach, IsSequence
<1>2. \A k \in 1..n : infoOf[k] \in Index /\ InfoMac[infoOf[k]] = queues[k].mac
  BY InfoOfMac
<1>3. infoOf \in Injection(1..n, Index)
  <2>1. infoOf \in [1..n -> Index]
    BY <1>2
  <2>2. \A j, k \in 1..n : infoOf[j] = infoOf[k] => j = k
    BY <1>2 DEF OneQueueEach
  <2> HIDE DEF infoOf
  <2> QED
    BY <2>1, <2>2 DEF Injection, IsInjective
<1> HIDE DEF n, infoOf
<1>4. IsFiniteSet(Index) /\ Cardinality(Index) = AgentNum
  <2>1. 0 \in Int /\ AgentNum - 1 \in Int /\ ~ (0 > AgentNum - 1) /\ AgentNum - 1 - 0 + 1 = AgentNum
    BY AgentNumAssumption
  <2>2. /\ IsFiniteSet(0..AgentNum - 1)
        /\ Cardinality(0..AgentNum - 1) = IF 0 > AgentNum - 1 THEN 0 ELSE (AgentNum - 1) - 0 + 1
    BY <2>1, FS_Interval
  <2> QED
    BY <2>1, <2>2 DEF Index
<1>5. Cardinality(1..n) = n
  <2>1. Cardinality(1..n) = IF 1 > n THEN 0 ELSE n - 1 + 1
    BY <1>1, FS_Interval
  <2> QED
    BY <1>1, <2>1
<1>6. Cardinality(1..n) <= Cardinality(Index)
  BY <1>3, <1>4, FS_Injection
<1> QED
  BY <1>1, <1>4, <1>5, <1>6, AgentNumAssumption DEF n

\* The first n pairs, ranked: the function inside TopThree.
RankOf(pairs) ==
  LET upTo[n \in 3..AgentNum] ==
        IF n = 3 THEN FirstThree(pairs)
        ELSE IF Absent(pairs[n - 1]) THEN upTo[n - 1]
        ELSE Insert(upTo[n - 1], pairs, n - 1)
  IN  upTo

Tops == [max : Nat, second : Nat, third : Nat]
Apart(t, n) ==
  /\ t \in Tops
  /\ t.max < n /\ t.second < n /\ t.third < n
  /\ t.max # t.second /\ t.max # t.third /\ t.second # t.third

LEMMA FirstThreeApart ==
  ASSUME NEW pairs
  PROVE  Apart(FirstThree(pairs), 3)
<1>1. FirstThree(pairs) \in {Top(0, 1, 2), Top(1, 0, 2), Top(2, 0, 1), Top(2, 1, 0),
                             Top(0, 2, 1), Top(1, 2, 0)}
  BY DEF FirstThree
<1>2. \A t \in {Top(0, 1, 2), Top(1, 0, 2), Top(2, 0, 1), Top(2, 1, 0),
                Top(0, 2, 1), Top(1, 2, 0)} : Apart(t, 3)
  BY DEF Top, Tops, Apart
<1> QED
  BY <1>1, <1>2

LEMMA InsertApart ==
  ASSUME NEW pairs, NEW n \in Nat, NEW t, Apart(t, n)
  PROVE  Apart(Insert(t, pairs, n), n + 1) /\ Apart(t, n + 1)
<1>1. Insert(t, pairs, n) \in {Top(n, t.max, t.second), Top(t.max, n, t.second),
                               Top(t.max, t.second, n), t}
  BY DEF Insert
<1>2. \A u \in {Top(n, t.max, t.second), Top(t.max, n, t.second),
                Top(t.max, t.second, n), t} : Apart(u, n + 1)
  BY DEF Apart, Tops, Top
<1> QED
  BY <1>1, <1>2

LEMMA RankUnfolds ==
  ASSUME NEW pairs
  PROVE  /\ RankOf(pairs)[3] = FirstThree(pairs)
         /\ \A n \in 4..AgentNum :
              RankOf(pairs)[n] = IF Absent(pairs[n - 1]) THEN RankOf(pairs)[n - 1]
                                 ELSE Insert(RankOf(pairs)[n - 1], pairs, n - 1)
<1> DEFINE Turn(t, n) == IF Absent(pairs[n - 1]) THEN t ELSE Insert(t, pairs, n - 1)
           Goal(g) == g = [n \in 3..AgentNum |->
                             IF n = 3 THEN FirstThree(pairs) ELSE Turn(g[n - 1], n)]
           step == [n \in Nat |-> [t \in Tops |-> IF n \in 4..AgentNum THEN Turn(t, n) ELSE t]]
<1>1. FirstThree(pairs) \in Tops
  BY FirstThreeApart DEF Apart
<1>2. ASSUME NEW t \in Tops, NEW n \in 4..AgentNum PROVE Turn(t, n) \in Tops
  <2>1. n - 1 \in Nat
    BY AgentNumAssumption
  <2>2. Insert(t, pairs, n - 1) \in {Top(n - 1, t.max, t.second), Top(t.max, n - 1, t.second),
                                     Top(t.max, t.second, n - 1), t}
    BY DEF Insert
  <2>3. \A x, y, z \in Nat : Top(x, y, z) \in Tops
    BY DEF Top, Tops
  <2>4. t.max \in Nat /\ t.second \in Nat /\ t.third \in Nat
    BY DEF Tops
  <2> QED
    BY <2>1, <2>2, <2>3, <2>4
<1>3. step \in [Nat -> [Tops -> Tops]]
  <2> HIDE DEF Turn
  <2> QED
    BY <1>2
<1>4. PICK g : Unrolls(g, 3, AgentNum, Tops, FirstThree(pairs), step)
  <2> HIDE DEF step
  <2>1. 3 \in Nat /\ AgentNum \in Nat /\ 3 <= AgentNum
    BY AgentNumAssumption
  <2> QED
    BY <1>1, <1>3, <2>1, RecursionExists
<1>5. ASSUME NEW n \in 3..AgentNum, n # 3
      PROVE  g[n] = Turn(g[n - 1], n)
  <2> HIDE DEF Turn
  <2>1. n \in (3 + 1)..AgentNum /\ n \in 4..AgentNum /\ n \in Nat /\ n - 1 \in 3..AgentNum
    BY <1>5, AgentNumAssumption
  <2>2. g[n - 1] \in Tops
    BY <2>1, <1>4 DEF Unrolls
  <2> QED
    BY <2>1, <2>2, <1>4 DEF Unrolls
<1>6. Goal(g)
  <2> HIDE DEF Turn
  <2> QED
    BY <1>4, <1>5 DEF Unrolls
<1>7. Goal(RankOf(pairs))
  BY <1>6 DEF RankOf
<1>8. ASSUME NEW n \in 4..AgentNum PROVE RankOf(pairs)[n] = Turn(RankOf(pairs)[n - 1], n)
  <2> HIDE DEF Turn
  <2>1. n \in 3..AgentNum /\ n # 3
    BY AgentNumAssumption
  <2> QED
    BY <1>7, <2>1
<1>9. RankOf(pairs)[3] = FirstThree(pairs)
  <2> HIDE DEF Turn
  <2>1. 3 \in 3..AgentNum
    BY AgentNumAssumption
  <2> QED
    BY <1>7, <2>1
<1> QED
  BY <1>8, <1>9

\* The three that are ranked are three different pairs; they are the first
\* three if all the others say nothing.
LEMMA TopThreeApart ==
  ASSUME NEW pairs
  PROVE  /\ Apart(TopThree(pairs), AgentNum)
         /\ (\A k \in 3..AgentNum - 1 : Absent(pairs[k])) => TopThree(pairs) = FirstThree(pairs)
<1> DEFINE rank == RankOf(pairs)
           silent == \A k \in 3..AgentNum - 1 : Absent(pairs[k])
           T == {n \in 3..AgentNum : Apart(rank[n], n) /\ (silent => rank[n] = FirstThree(pairs))}
<1>1. TopThree(pairs) = rank[AgentNum]
  BY DEF TopThree, RankOf
<1> HIDE DEF rank
<1>2. rank[3] = FirstThree(pairs)
  BY RankUnfolds DEF rank
<1>3. 3 \in T
  BY <1>2, FirstThreeApart, AgentNumAssumption
<1>4. ASSUME NEW n \in 3..(AgentNum - 1), n \in T PROVE n + 1 \in T
  <2>1. n + 1 \in 4..AgentNum /\ n + 1 \in 3..AgentNum /\ (n + 1) - 1 = n /\ n \in Nat
    BY AgentNumAssumption
  <2>2. rank[n + 1] = IF Absent(pairs[n]) THEN rank[n] ELSE Insert(rank[n], pairs, n)
    BY <2>1, RankUnfolds DEF rank
  <2>3. Apart(Insert(rank[n], pairs, n), n + 1) /\ Apart(rank[n], n + 1)
    BY <1>4, <2>1, InsertApart
  <2>4. silent => Absent(pairs[n])
    OBVIOUS
  <2> HIDE DEF silent
  <2> QED
    BY <1>4, <2>1, <2>2, <2>3, <2>4
<1>5. 3..AgentNum \subseteq T
  <2> HIDE DEF T
  <2> QED
    BY <1>3, <1>4, IntervalIsInductive, AgentNumAssumption
<1>6. AgentNum \in T
  <2> HIDE DEF T
  <2> QED
    BY <1>5, AgentNumAssumption
<1> HIDE DEF silent
<1> QED
  BY <1>1, <1>6 DEF silent

\* The configured agents of a room that these queues are of: HearersIn, beacon
\* by beacon.
Heard(queues, room) ==
  {i \in Index : /\ InfoRoom[i] = room
                 /\ \E j \in 1..Len(queues) : queues[j].mac = InfoMac[i]}

LEMMA ThreeHeard ==
  ASSUME NEW queues, NEW room, NEW i1 \in Heard(queues, room), NEW i2 \in Heard(queues, room),
         NEW i3 \in Heard(queues, room), i1 # i2, i1 # i3, i2 # i3
  PROVE  Cardinality(Heard(queues, room)) >= 3
<1> DEFINE H == Heard(queues, room)
<1>1. IsFiniteSet(Index)
  <2>1. 0 \in Int /\ AgentNum - 1 \in Int
    BY AgentNumAssumption
  <2> QED
    BY <2>1, FS_Interval DEF Index
<1>2. IsFiniteSet(H)
  <2>1. H \subseteq Index
    BY DEF Heard
  <2> HIDE DEF H
  <2> QED
    BY <1>1, <2>1, FS_Subset
<1>3. IsFiniteSet({i1}) /\ Cardinality({i1}) = 1
  BY FS_Singleton
<1>4. IsFiniteSet({i1} \cup {i2}) /\ Cardinality({i1} \cup {i2}) = 2
  BY <1>3, FS_AddElement
<1>5. Cardinality(({i1} \cup {i2}) \cup {i3}) = 3
  BY <1>4, FS_AddElement
<1>6. ({i1} \cup {i2}) \cup {i3} \subseteq H
  OBVIOUS
<1> HIDE DEF H
<1>7. Cardinality(({i1} \cup {i2}) \cup {i3}) <= Cardinality(H)
  BY <1>2, <1>6, FS_Subset
<1>8. Cardinality(H) \in Nat
  BY <1>2, FS_CardinalityType
<1> QED
  BY <1>5, <1>7, <1>8 DEF H

\* A pair with a mac is the pair of a queue.
LEMMA PairIsOfQueue ==
  ASSUME NEW beacon, OneQueueEach(beacon.queues), NEW k \in Index,
         PairsOf(beacon)[k].mac # NoMac
  PROVE  k + 1 \in 1..Len(beacon.queues) /\ PairsOf(beacon)[k].mac = beacon.queues[k + 1].mac
<1>1. Len(beacon.queues) \in Nat /\ k \in Nat
  BY DEF OneQueueEach, IsSequence, Index
<1>2. k < Len(beacon.queues) /\ PairsOf(beacon)[k].mac = beacon.queues[k + 1].mac
  BY DEF PairsOf
<1> QED
  BY <1>1, <1>2

\* Two pairs of one room decide for it only if a third agent of the room is
\* heard, too.
LEMMA DecidedIsHeard ==
  ASSUME NEW beacon, OneQueueEach(beacon.queues), NEW a \in Index, NEW b \in Index, a # b,
         InfoFromMac(PairsOf(beacon)[a].mac) # NotFound,
         InfoFromMac(PairsOf(beacon)[b].mac) # NotFound,
         SameRoom(PairsOf(beacon), a, b),
         InRoomOf(PairsOf(beacon), a, b).kind = "room"
  PROVE  \E i \in Index : /\ InRoomOf(PairsOf(beacon), a, b).room = InfoRoom[i]
                          /\ Cardinality(Heard(beacon.queues, InfoRoom[i])) >= 3
<1> DEFINE pairs == PairsOf(beacon)
           queues == beacon.queues
           out == InRoomOf(pairs, a, b)
           info1 == InfoFromMac(pairs[a].mac)
           info2 == InfoFromMac(pairs[b].mac)
           room == InfoRoom[info1]
           others == {i \in Index : InfoRoom[i] = room /\ i # info1 /\ i # info2}
           info3 == First(others)
           pairs3 == {k \in Index : pairs[k].mac = InfoMac[info3]}
           at == First(pairs3)
<1>1. /\ info1 \in Index /\ InfoMac[info1] = pairs[a].mac
      /\ info2 \in Index /\ InfoMac[info2] = pairs[b].mac
      /\ InfoRoom[info2] = room
  BY InfoOfMac DEF SameRoom
<1>2. out = IF info3 = NotFound THEN Halt
            ELSE IF at = NotFound THEN None
            ELSE [kind  |-> "room", room |-> room,
                  infos |-> <<info1, info2, info3>>,
                  rssi  |-> <<pairs[a].rssi, pairs[b].rssi, pairs[at].rssi>>]
  BY ZenonT(30) DEF InRoomOf, InfoFromRoom
<1>3. info3 # NotFound /\ at # NotFound
  <2>1. Halt.kind # "room" /\ None.kind # "room" /\ out.kind = "room"
    BY DEF Halt, None
  <2>2. out # Halt /\ out # None
    <3> HIDE DEF out
    <3> QED
      BY <2>1
  <2>3. (info3 = NotFound => out = Halt) /\ (info3 # NotFound /\ at = NotFound => out = None)
    <3> HIDE DEF out, info3, at, pairs, room
    <3> QED
      BY <1>2
  <2> HIDE DEF out, info3, at
  <2> QED
    BY <2>2, <2>3
<1>4. info3 \in others
  <2>1. others \in SUBSET Index
    OBVIOUS
  <2> HIDE DEF others
  <2> QED
    BY <1>3, <2>1, FirstOfIndices
<1>5. at \in pairs3
  <2>1. pairs3 \in SUBSET Index
    OBVIOUS
  <2> HIDE DEF pairs3
  <2> QED
    BY <1>3, <2>1, FirstOfIndices
<1>6. out.room = room
  <2> HIDE DEF out, pairs, info1, info2, room, info3, at
  <2> QED
    BY <1>2, <1>3
<1> HIDE DEF out, pairs, room, info3, at, info1, info2
<1>7. /\ info3 \in Index /\ InfoRoom[info3] = room /\ info3 # info1 /\ info3 # info2
      /\ at \in Index /\ pairs[at].mac = InfoMac[info3]
  BY <1>4, <1>5
<1>8. ASSUME NEW k \in Index, NEW i \in Index, pairs[k].mac = InfoMac[i]
      PROVE  k + 1 \in 1..Len(queues) /\ queues[k + 1].mac = InfoMac[i]
  <2>1. InfoMac[i] # NoMac
    BY InfosAssumption
  <2> QED
    BY <1>8, <2>1, PairIsOfQueue DEF pairs
<1>9. info1 # info2
  <2> SUFFICES ASSUME info1 = info2 PROVE FALSE
    OBVIOUS
  <2>1. /\ a + 1 \in 1..Len(queues) /\ b + 1 \in 1..Len(queues)
        /\ queues[a + 1].mac = queues[b + 1].mac
    BY <1>1, <1>8
  <2>2. a + 1 = b + 1
    BY <2>1 DEF OneQueueEach
  <2>3. a \in Int /\ b \in Int
    BY DEF Index
  <2> QED
    BY <2>2, <2>3
<1>10. \A i \in {info1, info2, info3} : i \in Heard(queues, room)
  <2>1. InfoRoom[info1] = room
    BY DEF room
  <2>2. /\ \E j \in 1..Len(queues) : queues[j].mac = InfoMac[info1]
        /\ \E j \in 1..Len(queues) : queues[j].mac = InfoMac[info2]
        /\ \E j \in 1..Len(queues) : queues[j].mac = InfoMac[info3]
    BY <1>1, <1>7, <1>8
  <2> QED
    BY <1>1, <1>7, <2>1, <2>2 DEF Heard
<1>11. info1 \in Index /\ room = InfoRoom[info1]
  BY <1>1 DEF room
<1>12. Cardinality(Heard(queues, room)) >= 3
  BY <1>7, <1>9, <1>10, ThreeHeard
<1> QED
  BY <1>6, <1>11, <1>12 DEF out, pairs

\* The room, as it is stored, has three of its agents among the queues.
HeardAs(queues, placed) ==
  \E i \in Index : /\ Stored(InfoRoom[i]) = placed
                   /\ Cardinality(Heard(queues, InfoRoom[i])) >= 3

\* A beacon is placed only in a room three of whose agents hear it.
LEMMA OutcomeIsHeard ==
  ASSUME NEW beacon, OneQueueEach(beacon.queues), Outcome(beacon).kind = "room"
  PROVE  HeardAs(beacon.queues, Outcome(beacon).room) /\ Outcome(beacon).room \in Rooms
<1> DEFINE pairs == PairsOf(beacon)
           top == TopThree(pairs)
           found == GetRoomNum(pairs)
           Good(out) == out.kind = "room" =>
                          \E i \in Index : /\ out.room = InfoRoom[i]
                                           /\ Cardinality(Heard(beacon.queues, InfoRoom[i])) >= 3
<1>1. None.kind # "room" /\ Halt.kind # "room"
  BY DEF None, Halt
<1>2. found.kind = "room" /\ Outcome(beacon).room = Stored(found.room)
  <2> HIDE DEF found
  <2>1. Outcome(beacon) = IF Len(beacon.queues) < 3 THEN None
                          ELSE IF found.kind # "room" THEN found
                          ELSE IF Stored(found.room) = -1 THEN None
                          ELSE [kind |-> "room", room |-> Stored(found.room)]
    BY DEF Outcome, found, pairs
  <2> QED
    BY <1>1, <2>1
<1>3. GetRoomNum(pairs) \in {None, Halt} \/ (~ Unregistered(pairs, top) /\ GetRoomNum(pairs) = RoomOfTop(pairs, top))
  BY DEF GetRoomNum
<1>4. /\ top.max \in Index /\ top.second \in Index /\ top.third \in Index
      /\ top.max # top.second /\ top.max # top.third /\ top.second # top.third
  <2>1. Apart(top, AgentNum)
    BY TopThreeApart
  <2> HIDE DEF top
  <2> QED
    BY <2>1, AgentNumAssumption DEF Apart, Tops, Index
<1> HIDE DEF top, pairs
<1>5. ASSUME ~ Unregistered(pairs, top) PROVE Good(RoomOfTop(pairs, top))
  <2>1. ASSUME NEW k \in {top.max, top.second, top.third}
        PROVE  InfoFromMac(pairs[k].mac) # NotFound
    BY <1>5 DEF Unregistered, Members
  <2>2. ASSUME NEW a \in {top.max, top.second, top.third},
               NEW b \in {top.max, top.second, top.third}, a # b, SameRoom(pairs, a, b)
        PROVE  Good(InRoomOf(pairs, a, b))
    <3>1. a \in Index /\ b \in Index
      BY <1>4
    <3> QED
      BY <2>1, <2>2, <3>1, DecidedIsHeard DEF pairs
  <2>3. \/ RoomOfTop(pairs, top) = None
        \/ SameRoom(pairs, top.max, top.second) /\ RoomOfTop(pairs, top) = InRoomOf(pairs, top.max, top.second)
        \/ SameRoom(pairs, top.max, top.third) /\ RoomOfTop(pairs, top) = InRoomOf(pairs, top.max, top.third)
        \/ SameRoom(pairs, top.second, top.third) /\ RoomOfTop(pairs, top) = InRoomOf(pairs, top.second, top.third)
    BY Zenon DEF RoomOfTop
  <2>4. Good(None)
    BY <1>1
  <2> HIDE DEF Good
  <2> QED
    BY <1>4, <2>2, <2>3, <2>4
<1>6. Good(found)
  <2> HIDE DEF Good
  <2>1. Good(None) /\ Good(Halt)
    BY <1>1 DEF Good
  <2> QED
    BY <1>3, <1>5, <2>1
<1>7. PICK i \in Index : /\ found.room = InfoRoom[i]
                        /\ Cardinality(Heard(beacon.queues, InfoRoom[i])) >= 3
  BY <1>2, <1>6
<1> HIDE DEF found
<1> QED
  BY <1>2, <1>7 DEF HeardAs, Rooms

\* The agents of a placeable beacon are all three agents of the room.
LEMMA PlaceableIsHeard ==
  ASSUME NEW beacon, OneQueueEach(beacon.queues), NEW room, Placeable(beacon, room)
  PROVE  /\ Len(beacon.queues) = 3
         /\ \A j \in 1..3 : /\ InfoFromMac(beacon.queues[j].mac) \in Index
                            /\ InfoFromMac(beacon.queues[j].mac) # NotFound
                            /\ InfoMac[InfoFromMac(beacon.queues[j].mac)] = beacon.queues[j].mac
                            /\ InfoRoom[InfoFromMac(beacon.queues[j].mac)] = room
         /\ \A i \in Index : InfoRoom[i] = room => \E j \in 1..3 : beacon.queues[j].mac = InfoMac[i]
<1> DEFINE queues == beacon.queues
           n == Len(queues)
           R == {i \in Index : InfoRoom[i] = room}
           f == [j \in 1..n |-> InfoFromMac(queues[j].mac)]
<1>1. n \in Nat /\ n >= 3 /\ Cardinality(R) = 3
  BY DEF OneQueueEach, IsSequence, Placeable
<1>2. ASSUME NEW j \in 1..n
      PROVE  /\ InfoFromMac(queues[j].mac) \in R
             /\ InfoFromMac(queues[j].mac) # NotFound
             /\ InfoMac[InfoFromMac(queues[j].mac)] = queues[j].mac
  <2>1. PICK i \in Index : InfoMac[i] = queues[j].mac /\ InfoRoom[i] = room
    BY DEF Placeable
  <2>2. InfoFromMac(queues[j].mac) = i /\ i # NotFound
    BY <2>1, InfoOfMac
  <2> QED
    BY <2>1, <2>2
<1>3. f \in Injection(1..n, R)
  <2>1. f \in [1..n -> R]
    BY <1>2
  <2>2. ASSUME NEW j \in 1..n, NEW k \in 1..n, f[j] = f[k] PROVE j = k
    <3>1. queues[j].mac = queues[k].mac
      BY <1>2, <2>2
    <3> QED
      BY <3>1 DEF OneQueueEach
  <2> HIDE DEF f, R, n
  <2> QED
    BY <2>1, <2>2 DEF Injection, IsInjective
<1>4. IsFiniteSet(R)
  <2>1. 0 \in Int /\ AgentNum - 1 \in Int
    BY AgentNumAssumption
  <2>2. IsFiniteSet(Index)
    BY <2>1, FS_Interval DEF Index
  <2>3. R \subseteq Index
    OBVIOUS
  <2> HIDE DEF R
  <2> QED
    BY <2>2, <2>3, FS_Subset
<1>5. Cardinality(1..n) = n
  <2> HIDE DEF n
  <2>1. 1 \in Int /\ n \in Int /\ ~ (1 > n)
    BY <1>1
  <2>2. Cardinality(1..n) = IF 1 > n THEN 0 ELSE n - 1 + 1
    BY <2>1, FS_Interval
  <2> QED
    BY <2>1, <2>2
<1>6. n = 3 /\ f \in Surjection(1..n, R)
  <2> DEFINE S == 1..n
  <2> HIDE DEF R, f, S
  <2>1. f \in Injection(S, R)
    BY <1>3 DEF S
  <2>2. Cardinality(S) <= Cardinality(R)
    BY <1>4, <2>1, FS_Injection
  <2>3. Cardinality(S) = Cardinality(R) => f \in Surjection(S, R)
    BY <1>4, <2>1, FS_Injection
  <2>4. Cardinality(S) = n
    BY <1>5 DEF S
  <2> HIDE DEF n
  <2>5. n = 3
    BY <1>1, <2>2, <2>4
  <2> QED
    BY <1>1, <2>3, <2>4, <2>5 DEF S
<1>7. ASSUME NEW i \in Index, InfoRoom[i] = room
      PROVE  \E j \in 1..3 : queues[j].mac = InfoMac[i]
  <2>1. i \in R
    BY <1>7
  <2>2. PICK j \in 1..n : f[j] = i
    <3> HIDE DEF f, R, n
    <3> QED
      BY <1>6, <2>1 DEF Surjection
  <2> QED
    BY <1>2, <1>6, <2>2
<1> QED
  BY <1>2, <1>6, <1>7

\* What get_room_num answers for such a beacon, while its readings are new.
LEMMA PlaceableIsPlaced ==
  ASSUME NEW beacon, OneQueueEach(beacon.queues), AllOK(beacon.queues), beacon.flag = 1,
         NEW room, Placeable(beacon, room)
  PROVE  Outcome(beacon) = IF Stored(room) = -1 THEN None
                           ELSE [kind |-> "room", room |-> Stored(room)]
<1> DEFINE pairs == PairsOf(beacon)
           queues == beacon.queues
           top == TopThree(pairs)
           infoOf(k) == InfoFromMac(pairs[k].mac)
<1>1. /\ Len(queues) = 3
      /\ \A j \in 1..3 : /\ InfoFromMac(queues[j].mac) \in Index
                         /\ InfoFromMac(queues[j].mac) # NotFound
                         /\ InfoMac[InfoFromMac(queues[j].mac)] = queues[j].mac
                         /\ InfoRoom[InfoFromMac(queues[j].mac)] = room
      /\ \A i \in Index : InfoRoom[i] = room => \E j \in 1..3 : queues[j].mac = InfoMac[i]
  BY PlaceableIsHeard
<1>2. ASSUME NEW k \in 0..2
      PROVE  k \in Index /\ k + 1 \in 1..3 /\ pairs[k] = [mac |-> queues[k + 1].mac, rssi |-> queues[k + 1].q.out]
  BY <1>1, AgentNumAssumption DEF Index, PairsOf
<1>3. ASSUME NEW k \in 3..AgentNum - 1 PROVE Absent(pairs[k])
  <2>1. k \in Index /\ ~ (k < 3)
    BY AgentNumAssumption DEF Index
  <2>2. pairs[k] = [mac |-> NoMac, rssi |-> 0]
    BY <1>1, <2>1 DEF PairsOf
  <2> QED
    BY <2>2 DEF Absent
<1>4. /\ top.max \in 0..2 /\ top.second \in 0..2 /\ top.third \in 0..2
      /\ top.max # top.second /\ top.max # top.third /\ top.second # top.third
  <2> HIDE DEF pairs
  <2>1. top = FirstThree(pairs)
    BY <1>3, TopThreeApart
  <2>2. Apart(top, 3)
    BY <2>1, FirstThreeApart
  <2> HIDE DEF top
  <2> QED
    BY <2>2 DEF Apart, Tops
<1>5. ~ NothingToRank(pairs)
  <2>1. pairs[0].rssi = queues[1].q.out
    BY <1>2
  <2>2. queues[1].q.out < 0 /\ queues[1].q.out \in Int
    <3>1. 1 \in 1..Len(queues)
      BY <1>1
    <3>2. queues[1].q \in QueueType
      BY <3>1 DEF AllOK, QueueOK
    <3>3. queues[1].q.out \in -128..127
      BY <3>2 DEF QueueType
    <3>4. queues[1].q.out < 0
      BY Zenon DEF Placeable
    <3> QED
      BY <3>3, <3>4, SMTT(30)
  <2> HIDE DEF pairs
  <2> QED
    BY <2>1, <2>2, AgentNumAssumption DEF NothingToRank, Absent
<1>6. ASSUME NEW k \in 0..2
      PROVE  /\ infoOf(k) \in Index /\ infoOf(k) # NotFound /\ InfoMac[infoOf(k)] = pairs[k].mac
             /\ InfoRoom[infoOf(k)] = room
             /\ \A j \in 0..2 : infoOf(j) = infoOf(k) => j = k
  <2>1. \A j \in 0..2 : pairs[j].mac = queues[j + 1].mac
    BY <1>2
  <2>2. \A j \in 0..2 : /\ infoOf(j) \in Index /\ infoOf(j) # NotFound
                        /\ InfoMac[infoOf(j)] = pairs[j].mac /\ InfoRoom[infoOf(j)] = room
    BY <1>1, <1>2, <2>1
  <2>3. ASSUME NEW j \in 0..2, infoOf(j) = infoOf(k) PROVE j = k
    <3>1. queues[j + 1].mac = queues[k + 1].mac
      BY <2>1, <2>2, <2>3
    <3>2. j + 1 \in 1..Len(queues) /\ k + 1 \in 1..Len(queues)
      BY <1>1
    <3>3. j + 1 = k + 1
      BY <3>1, <3>2 DEF OneQueueEach
    <3> QED
      BY <3>3
  <2> QED
    BY <2>2, <2>3
<1> HIDE DEF top
<1>7. ~ Unregistered(pairs, top) /\ SameRoom(pairs, top.max, top.second)
  <2> HIDE DEF pairs
  <2> QED
    BY <1>4, <1>6 DEF Unregistered, Members, SameRoom
<1>8. GetRoomNum(pairs) = InRoomOf(pairs, top.max, top.second)
  <2> HIDE DEF pairs
  <2>1. GetRoomNum(pairs) = RoomOfTop(pairs, top)
    BY <1>5, <1>7 DEF GetRoomNum, top
  <2> QED
    BY <1>7, <2>1 DEF RoomOfTop
<1> DEFINE info1 == infoOf(top.max)
           info2 == infoOf(top.second)
           others == {i \in Index : InfoRoom[i] = InfoRoom[info1] /\ i # info1 /\ i # info2}
           info3 == First(others)
           pairs3 == {k \in Index : pairs[k].mac = InfoMac[info3]}
           at == First(pairs3)
<1>9. InfoRoom[info1] = room
  BY <1>4, <1>6
<1>10. info3 \in others /\ info3 # NotFound
  <2>1. infoOf(top.third) \in others
    BY <1>4, <1>6
  <2>2. others \in SUBSET Index
    OBVIOUS
  <2> HIDE DEF others
  <2> QED
    BY <2>1, <2>2, FirstFinds
<1>11. at # NotFound
  <2>1. PICK j \in 1..3 : queues[j].mac = InfoMac[info3]
    BY <1>1, <1>9, <1>10
  <2>2. j - 1 \in pairs3
    <3>1. j - 1 \in 0..2 /\ (j - 1) + 1 = j
      OBVIOUS
    <3> HIDE DEF info3
    <3> QED
      BY <1>2, <2>1, <3>1
  <2>3. pairs3 \in SUBSET Index
    OBVIOUS
  <2> HIDE DEF pairs3
  <2> QED
    BY <2>2, <2>3, FirstFinds
<1>12. GetRoomNum(pairs) = [kind  |-> "room", room |-> InfoRoom[info1],
                            infos |-> <<info1, info2, info3>>,
                            rssi  |-> <<pairs[top.max].rssi, pairs[top.second].rssi, pairs[at].rssi>>]
  BY <1>8, <1>10, <1>11, Zenon DEF InRoomOf, InfoFromRoom
<1>13. ~ (Len(queues) < 3)
  BY <1>1
<1> DEFINE found == GetRoomNum(pairs)
<1> HIDE DEF info1, info2, info3, at
<1>14. found.kind = "room" /\ found.room = room
  <2> HIDE DEF pairs
  <2> QED
    BY <1>9, <1>12
<1>15. Outcome(beacon) = IF Len(queues) < 3 THEN None
                         ELSE IF found.kind # "room" THEN found
                         ELSE IF Stored(found.room) = -1 THEN None
                         ELSE [kind |-> "room", room |-> Stored(found.room)]
  BY DEF Outcome
<1> HIDE DEF found, queues
<1> QED
  BY <1>13, <1>14, <1>15

-----------------------------------------------------------------------------
(* The batch of one beacon *)

\* k batches were published; posSize positions wait, in their order; and the
\* last publication is the last whole batch.
BatchIs(k, beacon, published, rooms) ==
  /\ beacon.posSize \in 0..Batch - 1
  /\ DOMAIN beacon.position = 0..Batch - 1
  /\ IsSequence(rooms) /\ Len(rooms) = k * Batch + beacon.posSize
  /\ \A j \in 1..beacon.posSize : beacon.position[j - 1] = rooms[k * Batch + j]
  /\ published = IF k = 0 THEN <<>>
                 ELSE << [room |-> rooms[k * Batch],
                          of   |-> SubSeq(rooms, (k - 1) * Batch + 1, k * Batch)] >>

LEMMA PositionJoinsBatch ==
  ASSUME NEW k \in Nat, NEW beacon, NEW published, NEW rooms,
         BatchIs(k, beacon, published, rooms), NEW room, NEW next,
         beacon.posSize + 1 < Batch,
         next.posSize = beacon.posSize + 1,
         next.position = [beacon.position EXCEPT ![beacon.posSize] = room]
  PROVE  BatchIs(k, next, published, Append(rooms, room))
<1> DEFINE base == k * Batch
           n == beacon.posSize
           more == Append(rooms, room)
<1>1. Batch \in Nat \ {0} /\ base \in Nat
  BY StoreAssumption
<1>2. n \in 0..Batch - 1 /\ IsSequence(rooms) /\ Len(rooms) = base + n
  BY DEF BatchIs
<1>3. /\ IsSequence(more) /\ Len(more) = base + n + 1
      /\ \A j \in 1..base + n : more[j] = rooms[j]
      /\ more[base + n + 1] = room
  BY <1>1, <1>2, AppendToSequence
<1>4. \A j \in 1..n + 1 : next.position[j - 1] = more[base + j]
  <2> TAKE j \in 1..n + 1
  <2>1. j - 1 \in DOMAIN beacon.position
    BY <1>1, <1>2 DEF BatchIs
  <2>2. CASE j = n + 1
    BY <1>1, <1>2, <1>3, <2>1, <2>2
  <2>3. CASE j \in 1..n
    <3>1. next.position[j - 1] = rooms[base + j]
      BY <1>2, <2>1, <2>3 DEF BatchIs
    <3> QED
      BY <1>1, <1>2, <1>3, <2>3, <3>1
  <2>4. j = n + 1 \/ j \in 1..n
    BY <1>1, <1>2
  <2> QED
    BY <2>2, <2>3, <2>4
<1>5. k # 0 => /\ more[base] = rooms[base]
               /\ SubSeq(more, (k - 1) * Batch + 1, base) = SubSeq(rooms, (k - 1) * Batch + 1, base)
  <2> SUFFICES ASSUME k # 0
               PROVE  /\ more[base] = rooms[base]
                      /\ SubSeq(more, (k - 1) * Batch + 1, base)
                           = SubSeq(rooms, (k - 1) * Batch + 1, base)
    OBVIOUS
  <2>1. (k - 1) * Batch = base - Batch /\ base >= Batch
    BY <1>1
  <2>2. base \in 1..base + n
    BY <1>1, <1>2, <2>1
  <2> HIDE DEF base
  <2>3. \A j \in 1..Batch : more[j + base - Batch] = rooms[j + base - Batch]
    BY <1>1, <1>2, <1>3, <2>1, SMTT(30)
  <2>4. SubSeq(more, base - Batch + 1, base) = SubSeq(rooms, base - Batch + 1, base)
    <3> DEFINE first == base - Batch + 1
    <3>1. first \in Nat \ {0} /\ first <= base /\ base <= Len(rooms) /\ base <= Len(more)
      BY <1>1, <1>2, <1>3, <2>1
    <3>2. \A j \in 1..base - first + 1 : first + j - 1 \in 1..base + n
      BY <1>1, <1>2, <2>1
    <3> HIDE DEF first
    <3>3. /\ SubSeq(more, first, base) = [j \in 1..base - first + 1 |-> more[first + j - 1]]
          /\ SubSeq(rooms, first, base) = [j \in 1..base - first + 1 |-> rooms[first + j - 1]]
      BY <1>1, <1>2, <1>3, <3>1, SubSeqIs
    <3>4. SubSeq(more, first, base) = SubSeq(rooms, first, base)
      BY <1>3, <3>2, <3>3
    <3> QED
      BY <3>4 DEF first
  <2> QED
    BY <1>3, <2>1, <2>2, <2>4
<1>6. DOMAIN next.position = 0..Batch - 1
  BY DEF BatchIs
<1>7. next.posSize = n + 1 /\ n + 1 \in 0..Batch - 1
  BY <1>1, <1>2
<1>8. published = IF k = 0 THEN <<>>
                  ELSE << [room |-> more[base],
                           of   |-> SubSeq(more, (k - 1) * Batch + 1, base)] >>
  BY <1>5 DEF BatchIs
<1>9. Len(more) = base + (n + 1)
  BY <1>1, <1>2, <1>3
<1> HIDE DEF n, more
<1> QED
  BY <1>3, <1>4, <1>6, <1>7, <1>8, <1>9 DEF BatchIs, more

LEMMA PositionEndsBatch ==
  ASSUME NEW k \in Nat, NEW beacon, NEW published, NEW rooms,
         BatchIs(k, beacon, published, rooms), NEW room, NEW next,
         beacon.posSize + 1 >= Batch,
         next.posSize = 0,
         next.position = [beacon.position EXCEPT ![beacon.posSize] = room]
  PROVE  BatchIs(k + 1, next, Publish(published, Average(beacon, room)), Append(rooms, room))
<1> DEFINE base == k * Batch
           more == Append(rooms, room)
<1>1. Batch \in Nat \ {0} /\ base \in Nat
  BY StoreAssumption
<1>2. beacon.posSize = Batch - 1 /\ IsSequence(rooms) /\ Len(rooms) = base + Batch - 1
  BY <1>1 DEF BatchIs
<1>3. /\ IsSequence(more) /\ Len(more) = base + Batch
      /\ \A j \in 1..base + Batch - 1 : more[j] = rooms[j]
      /\ more[base + Batch] = room
  BY <1>1, <1>2, AppendToSequence
<1>4. (k + 1) * Batch = base + Batch /\ (k + 1 - 1) * Batch = base /\ k + 1 # 0
  BY <1>1
<1>5. \A j \in 1..Batch : more[j + base] = IF j = Batch THEN room ELSE beacon.position[j - 1]
  <2> TAKE j \in 1..Batch
  <2>1. CASE j = Batch
    BY <1>1, <1>3, <2>1
  <2>2. CASE j # Batch
    <3>1. j \in 1..beacon.posSize
      BY <1>1, <1>2, <2>2
    <3>2. beacon.position[j - 1] = rooms[base + j]
      BY <3>1 DEF BatchIs
    <3>3. base + j = j + base /\ j + base \in 1..base + Batch - 1
      BY <1>1, <2>2
    <3> QED
      BY <1>3, <2>2, <3>2, <3>3
  <2> QED
    BY <2>1, <2>2
<1>6. SubSeq(more, base + 1, base + Batch) = [j \in 1..Batch |-> IF j = Batch THEN room ELSE beacon.position[j - 1]]
  <2> HIDE DEF base
  <2>1. SubSeq(more, base + 1, base + Batch)
          = [j \in 1..(base + Batch) - (base + 1) + 1 |-> more[(base + 1) + j - 1]]
    <3> DEFINE first == base + 1
               last == base + Batch
    <3>1. first \in Nat \ {0} /\ last \in Nat /\ first <= last /\ last <= Len(more)
      BY <1>1, <1>3
    <3>2. IsSequence(more)
      BY <1>3
    <3> HIDE DEF first, last, more
    <3>3. SubSeq(more, first, last) = [j \in 1..last - first + 1 |-> more[first + j - 1]]
      BY <3>1, <3>2, SubSeqIs
    <3> QED
      BY <3>3 DEF first, last
  <2>2. (base + Batch) - (base + 1) + 1 = Batch
    BY <1>1
  <2>3. \A j \in 1..Batch : (base + 1) + j - 1 = j + base
    BY <1>1
  <2> HIDE DEF more
  <2> DEFINE part == SubSeq(more, base + 1, base + Batch)
  <2>4. part = [j \in 1..Batch |-> more[(base + 1) + j - 1]]
    BY <2>1, <2>2
  <2> HIDE DEF part
  <2>5. part = [j \in 1..Batch |-> more[j + base]]
    BY <2>3, <2>4
  <2>6. part = [j \in 1..Batch |-> IF j = Batch THEN room ELSE beacon.position[j - 1]]
    BY <1>5, <2>5
  <2> QED
    BY <2>6 DEF part
<1>7. Publish(published, Average(beacon, room))
        = << [room |-> more[base + Batch], of |-> SubSeq(more, base + 1, base + Batch)] >>
  BY <1>3, <1>6 DEF Publish, Average
<1>8. DOMAIN next.position = 0..Batch - 1
  BY DEF BatchIs
<1>9. 0 \in 0..Batch - 1 /\ Len(more) = (k + 1) * Batch + 0
  BY <1>1, <1>3, <1>4
<1>10. Publish(published, Average(beacon, room))
         = << [room |-> more[(k + 1) * Batch],
               of   |-> SubSeq(more, (k + 1 - 1) * Batch + 1, (k + 1) * Batch)] >>
  BY <1>4, <1>7
<1>11. \A j \in 1..0 : next.position[j - 1] = more[(k + 1) * Batch + j]
  BY SMT
<1> DEFINE new == Publish(published, Average(beacon, room))
<1> HIDE DEF more, base, new
<1>12. IsSequence(more) /\ next.posSize = 0
  BY <1>3
<1>13. new = IF k + 1 = 0 THEN <<>>
             ELSE << [room |-> more[(k + 1) * Batch],
                      of   |-> SubSeq(more, (k + 1 - 1) * Batch + 1, (k + 1) * Batch)] >>
  BY <1>4, <1>10 DEF new
<1>14. BatchIs(k + 1, next, new, more)
  BY <1>8, <1>9, <1>11, <1>12, <1>13 DEF BatchIs
<1> QED
  BY <1>14 DEF new, more

-----------------------------------------------------------------------------
(* One record *)

Fields == {"queues", "flag", "position", "posSize"}

\* Nothing but the queues and the flag of a beacon changes before a position is known.
LEMMA FiledAndAsked ==
  ASSUME NEW beacon, DOMAIN beacon = Fields, NEW mac, NEW r
  PROVE  LET new == Filed(beacon, mac, r)
             asked == Asked(new)
         IN  /\ DOMAIN new = Fields
             /\ new.queues = File(beacon.queues, mac, r)
             /\ new.posSize = beacon.posSize /\ new.position = beacon.position
             /\ DOMAIN asked = Fields
             /\ asked.queues = File(beacon.queues, mac, r)
             /\ asked.posSize = beacon.posSize /\ asked.position = beacon.position
<1> DEFINE new == Filed(beacon, mac, r)
           queues == File(beacon.queues, mac, r)
<1> HIDE DEF queues
<1>1. /\ DOMAIN new = Fields /\ new.queues = queues
      /\ new.posSize = beacon.posSize /\ new.position = beacon.position
  BY DEF Filed, Fields, queues
<1> HIDE DEF new
<1>2. /\ DOMAIN Asked(new) = Fields /\ Asked(new).queues = new.queues
      /\ Asked(new).posSize = new.posSize /\ Asked(new).position = new.position
  BY <1>1 DEF Asked, Fields
<1> QED
  BY <1>1, <1>2 DEF new, queues

\* add_pos changes the batch and nothing else.
LEMMA PositionTaken ==
  ASSUME NEW beacon, DOMAIN beacon = Fields, NEW room
  PROVE  LET next == WithPosition(beacon, room)
         IN  /\ DOMAIN next = Fields /\ next.queues = beacon.queues
             /\ next.position = [beacon.position EXCEPT ![beacon.posSize] = room]
             /\ next.posSize = IF beacon.posSize + 1 >= Batch THEN 0 ELSE beacon.posSize + 1
  BY DEF WithPosition, Fields

\* A batch is a matter of these two fields.
LEMMA SameBatch ==
  ASSUME NEW k, NEW beacon, NEW next, NEW published, NEW rooms,
         BatchIs(k, beacon, published, rooms),
         next.posSize = beacon.posSize, next.position = beacon.position
  PROVE  BatchIs(k, next, published, rooms)
  BY DEF BatchIs

-----------------------------------------------------------------------------
(* The inductive invariant *)

SoundBeacon(b) ==
  /\ DOMAIN beacons[b] = Fields
  /\ OneQueueEach(beacons[b].queues)
  /\ \E k \in Nat : BatchIs(k, beacons[b], posList[b], trail[b])

\* The code's state: each beacon has one queue for each agent that heard it,
\* and its batch is the one that follows the batches published.
Sound ==
  /\ DOMAIN beacons = Beacon /\ DOMAIN posList = Beacon /\ DOMAIN trail = Beacon
  /\ \A b \in Beacon : SoundBeacon(b)

LEMMA InitSound == Init => Sound
<1> SUFFICES ASSUME Init PROVE Sound
  OBVIOUS
<1>1. Batch \in Nat \ {0}
  BY StoreAssumption
<1>2. IsSequence(<<>>) /\ Len(<<>>) = 0
  BY DEF IsSequence
<1>3. /\ DOMAIN NewBeacon = Fields /\ NewBeacon.queues = <<>>
      /\ NewBeacon.posSize = 0 /\ DOMAIN NewBeacon.position = 0..Batch - 1
  BY DEF NewBeacon, Fields
<1>4. OneQueueEach(<<>>)
  BY <1>2 DEF OneQueueEach
<1>5. BatchIs(0, NewBeacon, <<>>, <<>>)
  <2>1. 0 \in 0..Batch - 1 /\ 0 * Batch + 0 = 0
    BY <1>1
  <2> QED
    BY <1>2, <1>3, <2>1 DEF BatchIs
<1>6. ASSUME NEW b \in Beacon PROVE SoundBeacon(b)
  <2>1. beacons[b] = NewBeacon /\ posList[b] = <<>> /\ trail[b] = <<>>
    BY DEF Init
  <2> QED
    BY <1>3, <1>4, <1>5, <2>1 DEF SoundBeacon
<1> QED
  BY <1>6 DEF Init, Sound

LEMMA StoreKeepsSound ==
  ASSUME Sound, NEW b \in Beacon, NEW mac \in Mac, NEW r \in Rssi, Store(b, mac, r)
  PROVE  Sound'
<1> DEFINE new     == Filed(beacons[b], mac, r)
           outcome == Outcome(new)
           asked   == Asked(new)
           room    == outcome.room
<1>1. SoundBeacon(b)
  BY DEF Sound
<1>2. PICK k \in Nat : BatchIs(k, beacons[b], posList[b], trail[b])
  BY <1>1 DEF SoundBeacon
<1>3. OneQueueEach(File(beacons[b].queues, mac, r))
  BY <1>1, FileKeepsOneEach DEF SoundBeacon
<1>4. /\ DOMAIN new = Fields
      /\ new.queues = File(beacons[b].queues, mac, r)
      /\ new.posSize = beacons[b].posSize /\ new.position = beacons[b].position
      /\ DOMAIN asked = Fields
      /\ asked.queues = File(beacons[b].queues, mac, r)
      /\ asked.posSize = beacons[b].posSize /\ asked.position = beacons[b].position
  BY <1>1, FiledAndAsked DEF SoundBeacon
<1>5. BatchIs(k, asked, posList[b], trail[b])
  BY <1>2, <1>4, SameBatch
<1>6. \/ Overrun(b, new)
      \/ Unplaced(b, new, outcome) \/ Placed(b, new, outcome) \/ Halted(b, new, outcome)
  BY DEF Store, Place
<1> HIDE DEF new, outcome, asked, room
<1>7. ASSUME NEW x, DOMAIN x = Fields, x.queues = File(beacons[b].queues, mac, r),
             x.posSize = beacons[b].posSize, x.position = beacons[b].position,
             beacons' = [beacons EXCEPT ![b] = x], posList' = posList, trail' = trail
      PROVE  Sound'
  <2>1. SoundBeacon(b)'
    <3>1. beacons'[b] = x
      BY <1>7 DEF Sound
    <3>2. BatchIs(k, x, posList[b], trail[b])
      BY <1>2, <1>7, SameBatch
    <3> QED
      BY <1>3, <1>7, <3>1, <3>2 DEF SoundBeacon
  <2>2. ASSUME NEW c \in Beacon, c # b PROVE SoundBeacon(c)'
    BY <1>7, <2>2 DEF Sound, SoundBeacon
  <2> QED
    BY <1>7, <2>1, <2>2 DEF Sound
<1>8. CASE Placed(b, new, outcome)
  <2> DEFINE next == WithPosition(asked, room)
  <2>1. /\ DOMAIN next = Fields /\ next.queues = asked.queues
        /\ next.position = [asked.position EXCEPT ![asked.posSize] = room]
        /\ next.posSize = IF asked.posSize + 1 >= Batch THEN 0 ELSE asked.posSize + 1
    BY <1>4, PositionTaken
  <2> HIDE DEF next
  <2>2. /\ beacons' = [beacons EXCEPT ![b] = next]
        /\ trail' = [trail EXCEPT ![b] = Append(trail[b], room)]
        /\ posList' = IF CompletesBatch(new)
                      THEN [posList EXCEPT ![b] = Publish(posList[b], Average(new, room))]
                      ELSE posList
    BY <1>8 DEF Placed, asked, room, next
  <2>3. beacons'[b] = next /\ trail'[b] = Append(trail[b], room)
    BY <2>2 DEF Sound
  <2>4. \E j \in Nat : BatchIs(j, next, posList'[b], trail'[b])
    <3>4. asked.posSize \in 0..Batch - 1 /\ Batch \in Nat
      <4>1. asked.posSize \in 0..Batch - 1
        BY <1>5 DEF BatchIs
      <4> QED
        BY <4>1, StoreAssumption
    <3>1. asked.posSize + 1 >= Batch \/ asked.posSize + 1 < Batch
      BY <3>4
    <3>2. CASE asked.posSize + 1 < Batch
      <4>1. ~(asked.posSize + 1 >= Batch)
        BY <3>2, <3>4
      <4>2. posList'[b] = posList[b]
        BY <1>4, <2>2, <4>1 DEF CompletesBatch
      <4>3. next.posSize = asked.posSize + 1
        BY <2>1, <4>1
      <4>4. BatchIs(k, next, posList[b], Append(trail[b], room))
        BY <1>5, <2>1, <3>2, <4>3, PositionJoinsBatch
      <4> QED
        BY <2>3, <4>2, <4>4
    <3>3. CASE asked.posSize + 1 >= Batch
      <4>1. posList'[b] = Publish(posList[b], Average(new, room))
        BY <1>4, <2>2, <3>3 DEF CompletesBatch, Sound
      <4>2. Average(new, room) = Average(asked, room)
        BY <1>4 DEF Average
      <4>3. next.posSize = 0
        BY <2>1, <3>3
      <4>4. BatchIs(k + 1, next, Publish(posList[b], Average(asked, room)),
                    Append(trail[b], room))
        BY <1>5, <2>1, <3>3, <4>3, PositionEndsBatch
      <4> QED
        BY <2>3, <4>1, <4>2, <4>4
    <3> QED
      BY <3>1, <3>2, <3>3
  <2>5. SoundBeacon(b)'
    BY <1>3, <1>4, <2>1, <2>3, <2>4 DEF SoundBeacon
  <2>6. ASSUME NEW c \in Beacon, c # b PROVE SoundBeacon(c)'
    <3>1. beacons'[c] = beacons[c] /\ trail'[c] = trail[c] /\ posList'[c] = posList[c]
      BY <2>2, <2>6 DEF Sound
    <3> QED
      BY <3>1 DEF Sound, SoundBeacon
  <2>7. DOMAIN beacons' = Beacon /\ DOMAIN posList' = Beacon /\ DOMAIN trail' = Beacon
    BY <2>2 DEF Sound
  <2> QED
    BY <2>5, <2>6, <2>7 DEF Sound
<1>9. CASE Overrun(b, new)
  <2>1. beacons' = [beacons EXCEPT ![b] = new] /\ posList' = posList /\ trail' = trail
    BY <1>9 DEF Overrun
  <2> QED
    BY <1>4, <1>7, <2>1
<1>10. CASE Unplaced(b, new, outcome) \/ Halted(b, new, outcome)
  <2>1. beacons' = [beacons EXCEPT ![b] = asked] /\ posList' = posList /\ trail' = trail
    BY <1>10 DEF Unplaced, Halted, asked
  <2> QED
    BY <1>4, <1>7, <2>1
<1> QED
  BY <1>6, <1>8, <1>9, <1>10

LEMMA AlwaysSound == Spec => []Sound
<1>1. Sound /\ [Next]_vars => Sound'
  <2> SUFFICES ASSUME Sound, [Next]_vars PROVE Sound'
    OBVIOUS
  <2>1. CASE Next
    BY <2>1, StoreKeepsSound DEF Next
  <2>2. CASE UNCHANGED vars
    BY <2>2 DEF vars, Sound, SoundBeacon
  <2> QED
    BY <2>1, <2>2
<1> QED
  BY InitSound, <1>1, PTL DEF Spec

-----------------------------------------------------------------------------
(* Types, and the rooms that hear *)

LEMMA QueuesAreTyped ==
  ASSUME NEW queues, OneQueueEach(queues), AllOK(queues)
  PROVE  queues \in Seq([mac : Mac, q : QueueType])
<1>1. ASSUME NEW k \in 1..Len(queues) PROVE queues[k] \in [mac : Mac, q : QueueType]
  <2>1. queues[k] = [mac |-> queues[k].mac, q |-> queues[k].q]
        /\ queues[k].mac \in Mac /\ queues[k].q \in QueueType
    BY DEF OneQueueEach, IsQueue, AllOK, QueueOK
  <2> QED
    BY <2>1
<1>2. queues \in Seq({queues[k] : k \in DOMAIN queues}) /\ DOMAIN queues = 1..Len(queues)
  BY DEF OneQueueEach, IsSequence
<1>3. {queues[k] : k \in DOMAIN queues} \subseteq [mac : Mac, q : QueueType]
  BY <1>1, <1>2
<1> DEFINE S == {queues[k] : k \in DOMAIN queues}
           T == [mac : Mac, q : QueueType]
<1>4. queues \in Seq(S) /\ S \subseteq T
  BY <1>2, <1>3
<1> HIDE DEF S, T
<1>5. queues \in Seq(T)
  BY <1>4
<1> QED
  BY <1>5 DEF T

\* An agent that was heard stays heard.
LEMMA HeardStays ==
  ASSUME NEW queues, OneQueueEach(queues), NEW mac \in Mac, NEW r, NEW room,
         Cardinality(Heard(queues, room)) >= 3
  PROVE  Cardinality(Heard(File(queues, mac, r), room)) >= 3
<1> DEFINE filed == File(queues, mac, r)
           H == Heard(queues, room)
           G == Heard(filed, room)
<1>1. PICK at : FiledAt(at, queues, mac, r, filed)
  BY FileShape
<1> HIDE DEF filed
<1>2. ASSUME NEW j \in 1..Len(queues) PROVE j \in 1..Len(filed) /\ filed[j].mac = queues[j].mac
  <2>1. Len(queues) \in Nat
    BY DEF OneQueueEach, IsSequence
  <2>2. j \in 1..Len(filed)
    BY <1>1, <2>1 DEF FiledAt
  <2> QED
    BY <1>1, <2>2 DEF FiledAt
<1>3. H \subseteq G
  BY <1>2 DEF Heard
<1>4. IsFiniteSet(G)
  <2>1. 0 \in Int /\ AgentNum - 1 \in Int
    BY AgentNumAssumption
  <2>2. IsFiniteSet(Index)
    BY <2>1, FS_Interval DEF Index
  <2>3. G \subseteq Index
    BY DEF Heard
  <2> HIDE DEF G
  <2> QED
    BY <2>2, <2>3, FS_Subset
<1> HIDE DEF H, G
<1>5. Cardinality(H) <= Cardinality(G) /\ IsFiniteSet(H)
  BY <1>3, <1>4, FS_Subset
<1>6. Cardinality(H) \in Nat /\ Cardinality(G) \in Nat
  BY <1>4, <1>5, FS_CardinalityType
<1>7. Cardinality(H) >= 3
  BY DEF H
<1>8. Cardinality(G) >= 3
  BY <1>5, <1>6, <1>7
<1> QED
  BY <1>8 DEF G, filed

LEMMA HeardAsStays ==
  ASSUME NEW queues, OneQueueEach(queues), NEW mac \in Mac, NEW r, NEW placed,
         HeardAs(queues, placed)
  PROVE  HeardAs(File(queues, mac, r), placed)
<1>1. PICK i \in Index : /\ Stored(InfoRoom[i]) = placed
                        /\ Cardinality(Heard(queues, InfoRoom[i])) >= 3
  BY DEF HeardAs
<1>2. Cardinality(Heard(File(queues, mac, r), InfoRoom[i])) >= 3
  BY <1>1, HeardStays
<1> QED
  BY <1>1, <1>2 DEF HeardAs

\* The queues count right, each room in which the beacon was placed has three
\* agents that hear it, and the first queue too many ends the run.
Backed(b) ==
  /\ AllOK(beacons[b].queues)
  /\ \A n \in 1..Len(trail[b]) : HeardAs(beacons[b].queues, trail[b][n])
  /\ Len(beacons[b].queues) > AgentNum =>
       ~ running /\ Len(beacons[b].queues) = AgentNum + 1

StoreInv == Sound /\ TypeOK /\ \A b \in Beacon : Backed(b)

Publication == [room : Rooms, of : [1..Batch -> Rooms]]

LEMMA InitTyped == Init => TypeOK /\ \A b \in Beacon : Backed(b)
<1> SUFFICES ASSUME Init PROVE TypeOK /\ \A b \in Beacon : Backed(b)
  OBVIOUS
<1>1. Batch \in Nat \ {0} /\ MaxRecords \in Nat
  BY StoreAssumption
<1>2. NewBeacon \in BeaconType /\ NewBeacon.queues = <<>>
  <2>1. 0 \in 0..Batch - 1 /\ [k \in 0..Batch - 1 |-> NoRoom] \in [0..Batch - 1 -> Rooms \cup {NoRoom}]
    BY <1>1
  <2> QED
    BY <2>1 DEF NewBeacon, BeaconType
<1>3. TypeOK
  BY <1>1, <1>2 DEF Init, TypeOK
<1>4. \A b \in Beacon : Backed(b)
  <2>1. ~ (0 > AgentNum)
    BY AgentNumAssumption
  <2> QED
    BY <1>2, <2>1 DEF Init, Backed, AllOK
<1> QED
  BY <1>3, <1>4

\* A record with its four fields, as filing and asking leave it.
LEMMA FiledIsTyped ==
  ASSUME NEW beacon \in BeaconType, OneQueueEach(beacon.queues), AllOK(beacon.queues),
         NEW mac \in Mac, NEW r \in Rssi
  PROVE  LET asked == Asked(Filed(beacon, mac, r))
             new == Filed(beacon, mac, r)
         IN  /\ new \in BeaconType /\ asked \in BeaconType
             /\ AllOK(new.queues) /\ AllOK(asked.queues)
<1> DEFINE queues == File(beacon.queues, mac, r)
           new == Filed(beacon, mac, r)
           asked == Asked(new)
<1>1. OneQueueEach(queues) /\ AllOK(queues)
  BY FileKeepsOneEach, FileMovesLog
<1>2. queues \in Seq([mac : Mac, q : [chain : Seq(Rssi), size : 0..QMax, out : -128..127]])
  <2> HIDE DEF queues
  <2> QED
    BY <1>1, QueuesAreTyped DEF QueueType
<1> HIDE DEF queues
<1>3. beacon = [queues |-> beacon.queues, flag |-> beacon.flag,
                position |-> beacon.position, posSize |-> beacon.posSize]
      /\ beacon.position \in [0..Batch - 1 -> Rooms \cup {NoRoom}] /\ beacon.posSize \in 0..Batch - 1
  BY DEF BeaconType
<1>4. new = [queues |-> queues, flag |-> 1,
             position |-> beacon.position, posSize |-> beacon.posSize]
  <2>1. PICK q, f, p, n : beacon = [queues |-> q, flag |-> f, position |-> p, posSize |-> n]
    BY <1>3
  <2>2. new = [beacon EXCEPT !.flag = 1, !.queues = queues]
    BY Zenon DEF Filed, queues
  <2> HIDE DEF new
  <2>3. beacon.position = p /\ beacon.posSize = n
    BY <2>1
  <2> QED
    BY <2>1, <2>2, <2>3
<1> HIDE DEF new
<1>5. asked \in {new, [queues |-> queues, flag |-> 0,
                       position |-> beacon.position, posSize |-> beacon.posSize]}
  BY <1>4 DEF Asked
<1> HIDE DEF asked
<1>6. \A x \in {0, 1} : [queues |-> queues, flag |-> x, position |-> beacon.position,
                         posSize |-> beacon.posSize] \in BeaconType
  BY <1>2, <1>3 DEF BeaconType
<1> QED
  BY <1>1, <1>4, <1>5, <1>6 DEF asked, new

LEMMA PositionIsTyped ==
  ASSUME NEW beacon \in BeaconType, NEW room \in Rooms
  PROVE  WithPosition(beacon, room) \in BeaconType /\ WithPosition(beacon, room).queues = beacon.queues
<1>1. beacon = [queues |-> beacon.queues, flag |-> beacon.flag,
                position |-> beacon.position, posSize |-> beacon.posSize]
      /\ beacon.position \in [0..Batch - 1 -> Rooms \cup {NoRoom}] /\ beacon.posSize \in 0..Batch - 1
      /\ beacon.flag \in {0, 1}
      /\ beacon.queues \in Seq([mac : Mac, q : [chain : Seq(Rssi), size : 0..QMax, out : -128..127]])
  BY DEF BeaconType
<1> DEFINE position == [beacon.position EXCEPT ![beacon.posSize] = room]
           posSize == IF beacon.posSize + 1 >= Batch THEN 0 ELSE beacon.posSize + 1
<1>2. position \in [0..Batch - 1 -> Rooms \cup {NoRoom}] /\ posSize \in 0..Batch - 1
  BY <1>1, StoreAssumption
<1>3. WithPosition(beacon, room) = [queues |-> beacon.queues, flag |-> beacon.flag,
                                    position |-> position, posSize |-> posSize]
  <2>1. PICK q, f, p, n : beacon = [queues |-> q, flag |-> f, position |-> p, posSize |-> n]
    BY <1>1
  <2>2. beacon.position = p /\ beacon.posSize = n /\ beacon.queues = q /\ beacon.flag = f
    BY <2>1
  <2> DEFINE next == WithPosition(beacon, room)
  <2>3. next = [beacon EXCEPT !.position = position, !.posSize = posSize]
    BY DEF WithPosition
  <2> HIDE DEF next, position, posSize
  <2>4. next = [queues |-> q, flag |-> f, position |-> position, posSize |-> posSize]
    BY <2>1, <2>3
  <2> QED
    BY <2>2, <2>4 DEF next
<1> HIDE DEF position, posSize
<1> QED
  BY <1>1, <1>2, <1>3 DEF BeaconType

LEMMA AverageIsTyped ==
  ASSUME NEW k \in Nat, NEW beacon, NEW published, NEW rooms \in Seq(Rooms), NEW room \in Rooms,
         BatchIs(k, beacon, published, rooms), CompletesBatch(beacon)
  PROVE  Average(beacon, room) \in Publication
<1>1. Batch \in Nat \ {0} /\ k * Batch \in Nat
  BY StoreAssumption
<1>2. beacon.posSize = Batch - 1 /\ Len(rooms) = k * Batch + (Batch - 1)
  <2>1. beacon.posSize \in 0..Batch - 1 /\ beacon.posSize + 1 >= Batch
        /\ Len(rooms) = k * Batch + beacon.posSize
    BY DEF BatchIs, CompletesBatch
  <2>2. beacon.posSize = Batch - 1
    BY <1>1, <2>1
  <2> QED
    BY <2>1, <2>2
<1>3. ASSUME NEW j \in 1..Batch, j # Batch PROVE beacon.position[j - 1] \in Rooms
  <2>1. j \in 1..beacon.posSize
    BY <1>1, <1>2, <1>3
  <2>2. beacon.position[j - 1] = rooms[k * Batch + j]
    BY <2>1 DEF BatchIs
  <2>3. k * Batch + j \in 1..Len(rooms)
    BY <1>1, <1>2, <1>3
  <2> QED
    BY <2>2, <2>3
<1> DEFINE of == [j \in 1..Batch |-> IF j = Batch THEN room ELSE beacon.position[j - 1]]
<1>4. of \in [1..Batch -> Rooms]
  BY <1>3
<1>5. Average(beacon, room) = [room |-> room, of |-> of]
  BY DEF Average
<1> HIDE DEF of
<1> QED
  BY <1>4, <1>5 DEF Publication

LEMMA StoreKeepsTypes ==
  ASSUME StoreInv, NEW b \in Beacon, NEW mac \in Mac, NEW r \in Rssi, Store(b, mac, r)
  PROVE  TypeOK' /\ \A c \in Beacon : Backed(c)'
<1> DEFINE new     == Filed(beacons[b], mac, r)
           outcome == Outcome(new)
           asked   == Asked(new)
           room    == outcome.room
<1>1. /\ beacons[b] \in BeaconType /\ OneQueueEach(beacons[b].queues) /\ AllOK(beacons[b].queues)
      /\ DOMAIN beacons[b] = Fields
  BY DEF StoreInv, Sound, SoundBeacon, TypeOK, Backed
<1>2. PICK k \in Nat : BatchIs(k, beacons[b], posList[b], trail[b])
  BY DEF StoreInv, Sound, SoundBeacon
<1>3. /\ new.posSize = beacons[b].posSize /\ new.position = beacons[b].position
      /\ new.queues = File(beacons[b].queues, mac, r)
      /\ asked.queues = File(beacons[b].queues, mac, r)
  BY <1>1, FiledAndAsked
<1>4. /\ new \in BeaconType /\ AllOK(new.queues)
      /\ asked \in BeaconType /\ AllOK(asked.queues)
  BY <1>1, FiledIsTyped
<1>5. OneQueueEach(asked.queues) /\ new.queues = asked.queues
  BY <1>1, <1>3, FileKeepsOneEach
<1>6. \A n \in 1..Len(trail[b]) : HeardAs(asked.queues, trail[b][n])
  BY <1>1, <1>3, HeardAsStays DEF StoreInv, Backed
<1>7. \/ Overruns(new) /\ Overrun(b, new)
      \/ /\ ~ Overruns(new)
         /\ Unplaced(b, new, outcome) \/ Placed(b, new, outcome) \/ Halted(b, new, outcome)
  BY DEF Store, Place
<1>8. stored' \in 0..MaxRecords
  BY StoreAssumption DEF Store, StoreInv, TypeOK
<1>9. BatchIs(k, new, posList[b], trail[b])
  BY <1>2, <1>3, SameBatch
<1>10. outcome.kind = "room" => room \in Rooms /\ HeardAs(asked.queues, room)
  BY <1>5, OutcomeIsHeard
<1> HIDE DEF new, outcome, asked, room
<1>14. /\ Overruns(new) => Len(asked.queues) = AgentNum + 1
       /\ ~ Overruns(new) => ~ (Len(asked.queues) > AgentNum)
  <2>1. PICK at : FiledAt(at, beacons[b].queues, mac, r, File(beacons[b].queues, mac, r))
    BY <1>1, FileShape
  <2>2. Len(asked.queues) \in {Len(beacons[b].queues), Len(beacons[b].queues) + 1}
    BY <1>3, <2>1 DEF FiledAt
  <2>3. Len(beacons[b].queues) \in Nat /\ ~ (Len(beacons[b].queues) > AgentNum)
    BY <1>1 DEF Store, StoreInv, Backed, OneQueueEach, IsSequence
  <2>4. Overruns(new) <=> Len(asked.queues) > AgentNum
    BY <1>5 DEF Overruns
  <2> QED
    BY <2>2, <2>3, <2>4, AgentNumAssumption
<1>15. ASSUME NEW c \in Beacon, c # b,
              beacons'[c] = beacons[c], trail'[c] = trail[c]
       PROVE  Backed(c)'
  <2>1. ~ (Len(beacons[c].queues) > AgentNum)
    BY DEF Store, StoreInv, Backed
  <2> QED
    BY <1>15, <2>1 DEF StoreInv, Backed
<1>11. ASSUME NEW x \in BeaconType, x.queues = asked.queues,
              Len(x.queues) > AgentNum => ~ running' /\ Len(x.queues) = AgentNum + 1,
              beacons' = [beacons EXCEPT ![b] = x],
              posList' = posList, trail' = trail, running' \in BOOLEAN
       PROVE  TypeOK' /\ \A c \in Beacon : Backed(c)'
  <2>1. TypeOK'
    BY <1>8, <1>11 DEF StoreInv, TypeOK
  <2>2. ASSUME NEW c \in Beacon PROVE Backed(c)'
    <3>1. beacons'[c] = IF c = b THEN x ELSE beacons[c]
      BY <1>11 DEF StoreInv, TypeOK
    <3>2. CASE c = b
      BY <1>4, <1>6, <1>11, <3>1, <3>2 DEF Backed
    <3>3. CASE c # b
      BY <1>11, <1>15, <3>1, <3>3
    <3> QED
      BY <3>2, <3>3
  <2> QED
    BY <2>1, <2>2
<1>12. CASE ~ Overruns(new) /\ Placed(b, new, outcome)
  <2> DEFINE next == WithPosition(asked, room)
  <2>1. /\ room \in Rooms /\ HeardAs(asked.queues, room)
    BY <1>10, <1>12 DEF Placed
  <2>2. next \in BeaconType /\ next.queues = asked.queues
    BY <1>4, <2>1, PositionIsTyped
  <2> HIDE DEF next
  <2>3. /\ beacons' = [beacons EXCEPT ![b] = next]
        /\ trail' = [trail EXCEPT ![b] = Append(trail[b], room)]
        /\ posList' = IF CompletesBatch(new)
                      THEN [posList EXCEPT ![b] = Publish(posList[b], Average(new, room))]
                      ELSE posList
        /\ running' = running
    BY <1>12 DEF Placed, asked, room, next
  <2>4. trail[b] \in Seq(Rooms)
    BY DEF StoreInv, TypeOK
  <2>5. CompletesBatch(new) => Publish(posList[b], Average(new, room)) \in Seq(Publication)
    <3>1. CompletesBatch(new) => Average(new, room) \in Publication
      BY <1>9, <2>1, <2>4, AverageIsTyped
    <3> QED
      BY <3>1 DEF Publish
  <2>6. posList' \in [Beacon -> Seq(Publication)]
    <3>1. posList \in [Beacon -> Seq(Publication)]
      BY DEF StoreInv, TypeOK, Publication
    <3> QED
      BY <2>3, <2>5, <3>1
  <2>7. Append(trail[b], room) \in Seq(Rooms)
    BY <2>1, <2>4
  <2>8. TypeOK'
    <3>1. beacons' \in [Beacon -> BeaconType] /\ running' \in BOOLEAN
      BY <2>2, <2>3 DEF StoreInv, TypeOK
    <3>2. trail' \in [Beacon -> Seq(Rooms)]
      BY <2>3, <2>7 DEF StoreInv, TypeOK
    <3> QED
      BY <1>8, <2>6, <3>1, <3>2 DEF TypeOK, Publication
  <2>9. ASSUME NEW c \in Beacon PROVE Backed(c)'
    <3>1. CASE c # b
      <4>1. beacons'[c] = beacons[c] /\ trail'[c] = trail[c]
        BY <2>3, <3>1 DEF StoreInv, TypeOK
      <4> QED
        BY <1>15, <3>1, <4>1
    <3>2. CASE c = b
      <4>1. beacons'[b] = next /\ trail'[b] = Append(trail[b], room)
        BY <2>3 DEF StoreInv, TypeOK
      <4>2. ASSUME NEW n \in 1..Len(Append(trail[b], room))
            PROVE  HeardAs(asked.queues, Append(trail[b], room)[n])
        <5>1. \/ n \in 1..Len(trail[b]) /\ Append(trail[b], room)[n] = trail[b][n]
              \/ Append(trail[b], room)[n] = room
          BY <2>1, <2>4
        <5> QED
          BY <1>6, <2>1, <5>1
      <4> QED
        BY <1>4, <1>12, <1>14, <2>2, <3>2, <4>1, <4>2 DEF Backed
    <3> QED
      BY <3>1, <3>2
  <2> QED
    BY <2>8, <2>9
<1>13. running \in BOOLEAN /\ FALSE \in BOOLEAN
  BY Zenon DEF StoreInv, TypeOK
<1>16. CASE Overruns(new) /\ Overrun(b, new)
  <2>1. ~ running' /\ running' \in BOOLEAN
    BY <1>16, <1>13 DEF Overrun
  <2> QED
    BY <1>4, <1>5, <1>11, <1>14, <1>16, <2>1 DEF Overrun
<1>17. CASE ~ Overruns(new) /\ (Unplaced(b, new, outcome) \/ Halted(b, new, outcome))
  <2>1. running' \in BOOLEAN
    BY <1>17, <1>13 DEF Unplaced, Halted
  <2> QED
    BY <1>4, <1>11, <1>14, <1>17, <2>1 DEF Unplaced, Halted, asked
<1> QED
  BY <1>7, <1>12, <1>16, <1>17

LEMMA AlwaysStoreInv == Spec => []StoreInv
<1>1. Init => StoreInv
  BY InitSound, InitTyped DEF StoreInv
<1>2. StoreInv /\ [Next]_vars => StoreInv'
  <2> SUFFICES ASSUME StoreInv, [Next]_vars PROVE StoreInv'
    OBVIOUS
  <2>1. CASE Next
    <3>1. PICK b \in Beacon, mac \in Mac, r \in Rssi : Store(b, mac, r)
      BY <2>1 DEF Next
    <3>2. Sound'
      BY <3>1, StoreKeepsSound DEF StoreInv
    <3>3. TypeOK' /\ \A c \in Beacon : Backed(c)'
      BY <3>1, StoreKeepsTypes
    <3> QED
      BY <3>2, <3>3 DEF StoreInv
  <2>2. CASE UNCHANGED vars
    BY <2>2 DEF vars, StoreInv, Sound, SoundBeacon, TypeOK, Backed
  <2> QED
    BY <2>1, <2>2
<1> QED
  BY <1>1, <1>2, PTL DEF Spec

-----------------------------------------------------------------------------
(* What follows *)

\* The array of AgentNum pairs that get_rssi_for_calc fills takes the queues
\* of every beacon for as long as only registered agents report, however many
\* readings they file: it is overrun by a stranger's report, by one pair, and
\* the run ends there (headers/Rssi_Queue.h 298-310).
THEOREM OnlyStrangersOverrun == Spec => []StrangersOverrun
<1>1. StoreInv => StrangersOverrun
  <2> SUFFICES ASSUME StoreInv, NEW b \in Beacon
               PROVE  LET queues == beacons[b].queues IN
                      /\ \A j, k \in 1..Len(queues) : queues[j].mac = queues[k].mac => j = k
                      /\ Len(queues) > AgentNum =>
                           /\ ~ running
                           /\ Len(queues) = AgentNum + 1
                           /\ \E k \in 1..Len(queues) :
                                InfoFromMac(queues[k].mac) = NotFound
    BY DEF StrangersOverrun
  <2>1. OneQueueEach(beacons[b].queues)
    BY DEF StoreInv, Sound, SoundBeacon
  <2>2. Len(beacons[b].queues) > AgentNum => ~ running /\ Len(beacons[b].queues) = AgentNum + 1
    BY DEF StoreInv, Backed
  <2>3. Len(beacons[b].queues) > AgentNum =>
          \E k \in 1..Len(beacons[b].queues) : InfoFromMac(beacons[b].queues[k].mac) = NotFound
    BY <2>1, StrangerAmong
  <2> QED
    BY <2>1, <2>2, <2>3 DEF OneQueueEach
<1> QED
  BY AlwaysStoreInv, <1>1, PTL

\* Every position computed is published once, with the Batch - 1 others of its
\* batch, whatever the batch size, and none is lost or counted twice (add_pos,
\* headers/Rssi_Queue.h).
THEOREM BatchesAreWhole == Spec => []PublishesWholeBatches
<1>1. Sound => PublishesWholeBatches
  <2> SUFFICES ASSUME Sound, NEW b \in Beacon
               PROVE  LET n == Len(trail[b]) IN
                      /\ PublishedAfter(b, n \div Batch)
                      /\ beacons[b].posSize = n % Batch
                      /\ \A j \in 1..n % Batch :
                           beacons[b].position[j - 1] = trail[b][(n \div Batch) * Batch + j]
    BY DEF PublishesWholeBatches
  <2>1. PICK k \in Nat : BatchIs(k, beacons[b], posList[b], trail[b])
    BY DEF Sound, SoundBeacon
  <2> DEFINE n == Len(trail[b])
             size == beacons[b].posSize
  <2>2. n = k * Batch + size /\ size \in 0..Batch - 1 /\ Batch \in Nat \ {0}
    BY <2>1, StoreAssumption DEF BatchIs
  <2> HIDE DEF n, size
  <2>3. n \div Batch = k /\ n % Batch = size
    BY <2>2, DivMod
  <2>4. PublishedAfter(b, k)
    BY <2>1 DEF BatchIs, PublishedAfter
  <2>5. \A j \in 1..size : beacons[b].position[j - 1] = trail[b][k * Batch + j]
    BY <2>1 DEF BatchIs, size
  <2> QED
    BY <2>3, <2>4, <2>5 DEF n, size
<1> QED
  BY AlwaysSound, <1>1, PTL

\* The store keeps its shape, however many records, agents and beacons there
\* are: every queue holds at most QMax readings and a signed byte as its
\* output, and every position is a room's (headers/Rssi_Queue.h).
THEOREM TypeCorrect == Spec => []TypeOK
<1>1. StoreInv => TypeOK
  BY DEF StoreInv
<1> QED
  BY AlwaysStoreInv, <1>1, PTL

\* Wherever get_room_num places a beacon, three agents of that very room hear
\* it, whatever the configuration and the readings (algorithms/calc.h).
THEOREM OnlyHearingRoomsPlace == Spec => []PlacedWhereHeard
<1>1. StoreInv => PlacedWhereHeard
  <2> SUFFICES ASSUME StoreInv, NEW b \in Beacon,
                      NEW room \in {trail[b][k] : k \in 1..Len(trail[b])}
                                     \cup {posList[b][k].room : k \in 1..Len(posList[b])}
               PROVE  \E i \in Index : /\ Stored(InfoRoom[i]) = room
                                       /\ Cardinality(HearersIn(b, InfoRoom[i])) >= 3
    BY DEF PlacedWhereHeard
  <2>1. \A i \in Index : HearersIn(b, InfoRoom[i]) = Heard(beacons[b].queues, InfoRoom[i])
    BY DEF HearersIn, Heard
  <2>2. PICK k \in Nat : BatchIs(k, beacons[b], posList[b], trail[b])
    BY DEF StoreInv, Sound, SoundBeacon
  <2>3. \E n \in 1..Len(trail[b]) : room = trail[b][n]
    <3>1. CASE room \in {trail[b][n] : n \in 1..Len(trail[b])}
      BY <3>1
    <3>2. CASE room \in {posList[b][n].room : n \in 1..Len(posList[b])}
      <4>1. k # 0
        BY <2>2, <3>2 DEF BatchIs
      <4>2. room = trail[b][k * Batch]
        BY <2>2, <3>2, <4>1 DEF BatchIs
      <4>3. k * Batch \in 1..Len(trail[b])
        <5>1. k * Batch \in Nat /\ k * Batch >= 1 /\ Batch \in Nat
          BY <4>1, StoreAssumption
        <5> QED
          BY <2>2, <5>1 DEF BatchIs
      <4> QED
        BY <4>2, <4>3
    <3> QED
      BY <3>1, <3>2
  <2> QED
    BY <2>1, <2>3 DEF StoreInv, Backed, HeardAs
<1> QED
  BY AlwaysStoreInv, <1>1, PTL

\* Beacons and queues implement the table of windows: a record shifts the
\* window of its beacon and its agent by one reading, and no other window
\* moves (add_rssi_to_blist, add_rssi_to_beacon, add_rssi_to_q).
THEOREM StoreImplementsWindows == Spec => FilesEachReading
<1> DEFINE Shifts == \A b \in Beacon, mac \in Mac, r \in Rssi :
                       Store(b, mac, r) => Windows!Push(<<b, mac>>, r)
<1>1. StoreInv /\ [Next]_vars => Shifts
  <2> SUFFICES ASSUME StoreInv, NEW b \in Beacon, NEW mac \in Mac, NEW r \in Rssi,
                      Store(b, mac, r)
               PROVE  Windows!Push(<<b, mac>>, r)
    OBVIOUS
  <2> DEFINE queues == beacons[b].queues
  <2>1. OneQueueEach(queues) /\ AllOK(queues) /\ DOMAIN beacons[b] = Fields
    BY DEF StoreInv, Sound, SoundBeacon, Backed
  <2>2. DOMAIN beacons = Beacon
    BY DEF StoreInv, Sound
  <2>3. /\ \A c \in Beacon : c # b => beacons'[c] = beacons[c]
        /\ beacons'[b].queues = File(queues, mac, r)
    <3>1. PICK new, outcome : /\ new = Filed(beacons[b], mac, r) /\ outcome = Outcome(new)
                              /\ \/ Overrun(b, new)
                                 \/ Unplaced(b, new, outcome) \/ Placed(b, new, outcome)
                                 \/ Halted(b, new, outcome)
      BY DEF Store, Place
    <3>2. /\ new.queues = File(queues, mac, r)
          /\ Asked(new).queues = File(queues, mac, r) /\ DOMAIN Asked(new) = Fields
      BY <2>1, <3>1, FiledAndAsked
    <3>3. WithPosition(Asked(new), outcome.room).queues = File(queues, mac, r)
      BY <3>2, PositionTaken
    <3>4. \E x : beacons' = [beacons EXCEPT ![b] = x] /\ x.queues = File(queues, mac, r)
      BY <3>1, <3>2, <3>3 DEF Overrun, Unplaced, Placed, Halted
    <3> QED
      BY <2>2, <3>4
  <2>4. /\ Log = [s \in Beacon \X Mac |-> LogOf(beacons[s[1]].queues, s[2])]
        /\ Log' = [s \in Beacon \X Mac |-> LogOf(beacons'[s[1]].queues, s[2])]
    BY DEF Log, LogOf
  <2>5. /\ LogOf(File(queues, mac, r), mac) = Windows!Last(Append(LogOf(queues, mac), r))
        /\ \A m \in Mac : m # mac => LogOf(File(queues, mac, r), m) = LogOf(queues, m)
    BY <2>1, FileMovesLog
  <2> HIDE DEF queues
  <2>6. ASSUME NEW s \in Beacon \X Mac
        PROVE  Log'[s] = IF s = <<b, mac>> THEN Windows!Last(Append(Log[s], r)) ELSE Log[s]
    <3>1. PICK c \in Beacon, m \in Mac : s = <<c, m>>
      OBVIOUS
    <3>2. Log[s] = LogOf(beacons[c].queues, m) /\ Log'[s] = LogOf(beacons'[c].queues, m)
      BY <2>4, <3>1
    <3>3. CASE c # b
      BY <2>3, <3>1, <3>2, <3>3
    <3>4. CASE c = b /\ m # mac
      BY <2>3, <2>5, <3>1, <3>2, <3>4 DEF queues
    <3>5. CASE c = b /\ m = mac
      BY <2>3, <2>5, <3>1, <3>2, <3>5 DEF queues
    <3> QED
      BY <3>3, <3>4, <3>5
  <2>7. Log' = [Log EXCEPT ![<<b, mac>>] = Windows!Last(Append(Log[<<b, mac>>], r))]
    <3>1. <<b, mac>> \in Beacon \X Mac
      OBVIOUS
    <3>2. DOMAIN Log = Beacon \X Mac /\ Log' = [s \in Beacon \X Mac |-> Log'[s]]
          /\ Log = [s \in Beacon \X Mac |-> Log[s]]
      BY <2>4
    <3> QED
      BY <2>6, <3>1, <3>2
  <2> QED
    BY <2>7 DEF Windows!Push
<1> QED
  BY <1>1, AlwaysStoreInv, PTL DEF Spec, FilesEachReading

\* No accepted reading of a beacon that can be placed goes by without placing
\* it: the flag is up whenever get_rssi_for_calc is asked, all pairs are found
\* and the room is the one whose agents hear it (headers/Rssi_Queue.h,
\* algorithms/calc.h).
THEOREM PlaceableIsAlwaysPlaced == Spec => EveryRecordPlaces
<1> DEFINE Places == \A b \in Beacon, i \in Index :
                       Placeable(beacons[b], InfoRoom[i])' /\ Stored(InfoRoom[i]) # -1 =>
                         \A mac \in Mac, r \in Rssi :
                           Store(b, mac, r) =>
                             trail'[b] = Append(trail[b], Stored(InfoRoom[i]))
<1>1. StoreInv /\ [Next]_vars => Places
  <2> SUFFICES ASSUME StoreInv, NEW b \in Beacon, NEW mac \in Mac, NEW r \in Rssi,
                      Store(b, mac, r), NEW i \in Index,
                      Placeable(beacons[b], InfoRoom[i])', Stored(InfoRoom[i]) # -1
               PROVE  trail'[b] = Append(trail[b], Stored(InfoRoom[i]))
    OBVIOUS
  <2> DEFINE room == InfoRoom[i]
  <2>1. /\ OneQueueEach(beacons[b].queues) /\ AllOK(beacons[b].queues)
        /\ DOMAIN beacons[b] = Fields /\ DOMAIN beacons = Beacon /\ DOMAIN trail = Beacon
    BY DEF StoreInv, Sound, SoundBeacon, Backed
  <2>2. PICK new, outcome : /\ new = Filed(beacons[b], mac, r) /\ outcome = Outcome(new)
                            /\ \/ Overruns(new) /\ Overrun(b, new)
                               \/ Unplaced(b, new, outcome) \/ Placed(b, new, outcome)
                               \/ Halted(b, new, outcome)
    BY DEF Store, Place
  <2>3. new.queues = File(beacons[b].queues, mac, r) /\ new.flag = 1
    BY <2>1, <2>2 DEF Filed, Fields
  <2>4. OneQueueEach(new.queues) /\ AllOK(new.queues)
    BY <2>1, <2>3, FileKeepsOneEach, FileMovesLog
  <2>5. beacons'[b].queues = new.queues
    <3>1. Asked(new).queues = new.queues /\ DOMAIN Asked(new) = Fields
      BY <2>1, <2>2, <2>3, FiledAndAsked
    <3>2. WithPosition(Asked(new), outcome.room).queues = new.queues
      BY <3>1, PositionTaken
    <3>3. \E x : beacons' = [beacons EXCEPT ![b] = x] /\ x.queues = new.queues
      BY <2>2, <3>1, <3>2 DEF Overrun, Unplaced, Placed, Halted
    <3> QED
      BY <2>1, <3>3
  <2>6. Placeable(new, room)
    BY <2>5 DEF Placeable
  <2>7. outcome = [kind |-> "room", room |-> Stored(room)]
    BY <2>2, <2>3, <2>4, <2>6, PlaceableIsPlaced
  <2>8. ~ Overruns(new)
    <3>1. Len(new.queues) = 3
      BY <2>4, <2>6, PlaceableIsHeard
    <3> QED
      BY <3>1, AgentNumAssumption DEF Overruns
  <2>9. Placed(b, new, outcome)
    BY <2>2, <2>7, <2>8 DEF Unplaced, Halted, None, Halt
  <2> QED
    BY <2>1, <2>7, <2>9 DEF Placed
<1> QED
  BY <1>1, AlwaysStoreInv, PTL DEF Spec, EveryRecordPlaces
=============================================================================
