------------------------------ MODULE RssiFeed ------------------------------
(***************************************************************************)
(* One agent feeding one beacon's queue.  The strength at which the agent   *)
(* hears the beacon moves as the beacon moves; every accepted record adds    *)
(* the current strength to the queue (add_rssi_to_q).  The module asks what  *)
(* the smoothed output is worth: where it comes from, what its sign means,   *)
(* and whether it follows a beacon that has stopped moving.                  *)
(***************************************************************************)
EXTENDS RssiQueue

VARIABLES
  signal,   \* how strongly the agent hears the beacon now (environment)
  queue,    \* the rssi_queue_t
  seen      \* every reading the queue was ever given (history)

vars == <<signal, queue, seen>>

Init ==
  /\ signal \in Rssi
  /\ queue = EmptyQueue
  /\ seen = {}

\* The beacon moves, or the radio fades.
Move(s) ==
  /\ signal' = s
  /\ UNCHANGED <<queue, seen>>

\* One record of this (beacon, agent) is stored.
Receive ==
  /\ queue' = AddRssi(queue, signal)
  /\ seen' = seen \cup {signal}
  /\ UNCHANGED signal

Next == Receive \/ \E s \in Rssi : Move(s)

\* The agent keeps scanning and reporting, wherever the beacon is.
Spec == Init /\ [][Next]_vars /\ WF_vars(Receive)

-----------------------------------------------------------------------------
(* Types *)

QueueType ==
  [chain : Seq(Rssi), size : 0..QMax, out : -128..127]

\* The queue is a queue of readings that never holds more than QMax of them,
\* and the size the code counts is the length of the chain it counts.
TypeOK ==
  /\ signal \in Rssi
  /\ queue \in QueueType
  /\ queue.size = Len(queue.chain)
  /\ seen \subseteq Rssi

-----------------------------------------------------------------------------
(* Safety *)

\* Smoothing with a truncating division never manufactures a strength: once a
\* reading has arrived, the output lies between the weakest and the strongest
\* reading this agent ever sent (set_out).
OutWithinSeen ==
  queue.chain # <<>> =>
    \E weakest, strongest \in seen : weakest <= queue.out /\ queue.out <= strongest

\* get_room_num takes an output >= 0 for an agent that has nothing to say.
\* While every reading in the window is at or below -MA, the output is
\* negative, whatever the window held before: a present agent is never taken
\* for an absent one.
PresentAgentIsSeen ==
  (queue.chain # <<>> /\ \A r \in Readings(queue) : r <= -MA) => queue.out < 0

\* A single record moves the output towards the strongest reading of the
\* window and never past it; a non-negative output is replaced outright.
Towards(old, target, new) ==
  \/ target <= new /\ new <= old
  \/ old <= new /\ new <= target
NeverOvershoots ==
  [][queue.chain # <<>> =>
       Towards(queue.out, Strongest(queue'), queue'.out)]_queue

\* The chain of the code is the abstract window of the last QMax readings.
Window == INSTANCE SlidingWindow
            WITH Size <- QMax, Sample <- Rssi, Source <- {"agent"},
                 recent <- [s \in {"agent"} |-> queue.chain]
KeepsLastReadings == Window!Spec

-----------------------------------------------------------------------------
(* Liveness *)

\* The dead band: how far the truncating division lets the output rest away
\* from a constant strength.
Band == MA - 1

\* If the beacon stops moving, the output settles within the dead band of the
\* strength at which the agent hears it.
SettlesWithinBand ==
  \A s \in Rssi :
    <>[](signal = s) =>
      <>[](s - Band <= queue.out /\ queue.out <= s + Band)
=============================================================================
