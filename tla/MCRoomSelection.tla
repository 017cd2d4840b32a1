--------------------------- MODULE MCRoomSelection ---------------------------
(* Five agents: three in room 1, two in room 2 (a room too small for the     *)
(* calculation), and one mac nobody registered.                              *)
EXTENDS RoomSelection

CONSTANTS a1, a2, a3, b1, b2, stranger

MCMac == {a1, a2, a3, b1, b2, stranger}
MCInfoMac == [k \in 0..4 |-> <<a1, b1, a2, a3, b2>>[k + 1]]
MCInfoRoom == [k \in 0..4 |-> <<1, 2, 1, 1, 2>>[k + 1]]

\* Three strengths and "says nothing".
MCOutput == {-80, -70, -60, 0}
=============================================================================
