----------------------------- MODULE RssiQueue -----------------------------
(***************************************************************************)
(* The queue a beacon keeps for each agent that hears it (rssi_queue_t of   *)
(* headers/Rssi_Queue.h): the last few readings of that agent, the length   *)
(* the code counts beside the chain, and the smoothed output the position   *)
(* calculation uses.  Constant-level: the operations are functions from a   *)
(* queue to a queue.                                                        *)
(***************************************************************************)
EXTENDS Integers, Sequences

CONSTANTS
  QMax,     \* q->max: how many readings a queue holds (conf.ini's MAL)
  Rssi      \* the readings an agent can send

\* init_blist replaces a q_max that is not positive by 5.
ASSUME QMaxAssumption == QMax \in Nat \ {0}

\* A reading starts its life as an int8_t in the agent (btagent, blist.h:7),
\* so the arithmetic of set_out stays far inside a 32-bit int.
ASSUME RssiAssumption == Rssi # {} /\ Rssi \subseteq -128..127

\* "No output yet": the positive value init_rssi_queue stores in q->out.
NoOut == 34

\* set_out's local MA, the weight of the exponential smoothing.  The MA of
\* conf.ini is read at start-up and used nowhere.
MA == 5

\* C's integer division: the quotient is truncated towards zero.
CDiv(a, b) == IF a >= 0 THEN a \div b ELSE -((-a) \div b)

EmptyQueue == [chain |-> <<>>, size |-> 0, out |-> NoOut]

Readings(q) == {q.chain[k] : k \in 1..Len(q.chain)}

\* Slip: the search for the maximum starts from 0, not from the first reading.
StrongestFromZero(q) ==
  CHOOSE r \in Readings(q) \cup {0} : \A s \in Readings(q) \cup {0} : s <= r

\* The strongest reading of a non-empty queue.
Strongest(q) == CHOOSE r \in Readings(q) : \A s \in Readings(q) : s <= r

\* Slips: the divisor, or the weight of the old output, is one off.
SmoothedShortDivisor(old, new) == CDiv(old * (MA - 1) + new, MA - 1)
SmoothedHeavy(old, new) == CDiv(old * MA + new, MA + 1)

\* The old output counts MA - 1 times, the new value once.
Smoothed(old, new) == CDiv(old * (MA - 1) + new, MA)

\* Slip: the size is not counted down.
DequeueKeepsSize(q) ==
  IF q.chain = <<>> THEN q ELSE [q EXCEPT !.chain = Tail(@)]

\* The oldest reading leaves; an empty queue is left alone.
Dequeue(q) ==
  IF q.chain = <<>> THEN q
  ELSE [q EXCEPT !.chain = Tail(@), !.size = @ - 1]

\* A reading joins at the tail; on an empty chain the size restarts at 1.
Enqueue(q, r) ==
  [q EXCEPT !.chain = Append(@, r),
            !.size  = IF q.chain = <<>> THEN 1 ELSE @ + 1]

\* Slip: the sentinel of a queue without output is smoothed like an output.
NextOutSmoothsSentinel(q) == Smoothed(q.out, Strongest(q))

\* The output after the chain has changed: the only reading while there is
\* no output yet, the strongest one while the output is positive, and a
\* smoothing of the strongest into the output otherwise.
NextOut(q) ==
  IF q.out > 0
  THEN IF q.size = 1 THEN Head(q.chain) ELSE Strongest(q)
  ELSE Smoothed(q.out, Strongest(q))

SetOut(q) ==
  IF q.chain = <<>> \/ q.size = 0 THEN q ELSE [q EXCEPT !.out = NextOut(q)]

\* Slip: the queue counts as full one reading too early.
AddRssiShort(q, r) ==
  SetOut(Enqueue(IF q.size < QMax - 1 THEN q ELSE Dequeue(q), r))

\* add_rssi_to_q: make room when the queue is full, append, refresh the output.
AddRssi(q, r) ==
  SetOut(Enqueue(IF q.size < QMax THEN q ELSE Dequeue(q), r))
=============================================================================
