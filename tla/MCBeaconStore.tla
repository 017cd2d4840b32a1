---------------------------- MODULE MCBeaconStore ----------------------------
(* Room 1 has the agents a1, a2 and a3, room 2 has b1, b2 and b3.  All six   *)
(* hear the beacon, and so does an agent that nobody registered: the seventh  *)
(* to hear it overruns the six pairs.                                         *)
EXTENDS BeaconStore, TLC

CONSTANTS a1, a2, a3, b1, b2, b3, stranger

MCInfoMac == [k \in 0..5 |-> <<a1, b1, a2, b2, a3, b3>>[k + 1]]
MCInfoRoom == [k \in 0..5 |-> <<1, 2, 1, 2, 1, 2>>[k + 1]]
MCMac == {a1, a2, a3, b1, b2, b3, stranger}

\* A far agent's reading and a near one's.
MCRssi == {-70, -60}

\* Bounds: what follows a stranger's report is left out, and a seventh record
\* comes only when the array of pairs is full.
MCFollowed ==
  \A b \in Beacon :
    LET queues == beacons[b].queues IN
    /\ \A k \in 1..Len(queues) : queues[k].mac # stranger
    /\ stored = 6 => Len(queues) = AgentNum

\* The three agents of a room are interchangeable: in a room of three, the
\* third agent is the same whichever two are found first, and a position is
\* represented by its room.
MCSymmetry == {f @@ g : f \in Permutations({a1, a2, a3}), g \in Permutations({b1, b2, b3})}
=============================================================================
