--------------------------- MODULE MCConnections ---------------------------
(* An agent connects as c1 and again as c3, another one as c2. *)
EXTENDS Connections, TLC

CONSTANTS c1, c2, c3, macA, macB

MCMacOf == c1 :> macA @@ c2 :> macB @@ c3 :> macA

\* Bound: no query is followed after a thread was late.
MCFollowed == late => asked = NoMac

\* Two connections of one agent are interchangeable.
MCSymmetry == Permutations({c1, c3})
=============================================================================
