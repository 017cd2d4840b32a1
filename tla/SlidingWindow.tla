--------------------------- MODULE SlidingWindow ---------------------------
(***************************************************************************)
(* What the queues of readings promise: of every source, exactly the last   *)
(* Size samples it gave are remembered, in the order in which they came,    *)
(* and no sample is ever filed under another source.                        *)
(***************************************************************************)
EXTENDS Integers, Sequences

CONSTANTS
  Size,     \* how many samples are remembered of a source
  Sample,   \* the samples
  Source    \* who gives them

VARIABLE recent   \* recent[s]: the last Size samples of s, oldest first

\* The last Size elements of s.
Last(s) ==
  LET n == Len(s) IN IF n <= Size THEN s ELSE SubSeq(s, n - Size + 1, n)

Init == recent = [s \in Source |-> <<>>]

Push(s, r) == recent' = [recent EXCEPT ![s] = Last(Append(@, r))]

Next == \E s \in Source, r \in Sample : Push(s, r)

Spec == Init /\ [][Next]_recent
=============================================================================
