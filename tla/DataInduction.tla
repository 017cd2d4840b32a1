--------------------------- MODULE DataInduction ---------------------------
(***************************************************************************)
(* Induction over the natural numbers for the other proof modules.  Each    *)
(* principle is stated of a set, not of a predicate, so that it can be       *)
(* cited with any set put in its place; they rest on the order of the        *)
(* naturals being well-founded.  The last one says that a function defined   *)
(* by recursion over an interval exists, which is what expanding such a      *)
(* definition needs.                                                         *)
(***************************************************************************)
EXTENDS WellFoundedInduction, TLAPS

Less == {p \in Nat \X Nat : p[1] < p[2]}

\* The order of the naturals, as a set of pairs, is well-founded.
LEMMA LessWellFounded == IsWellFoundedOn(Less, Nat)
BY NatLessThanWellFounded, Zenon DEF OpToRel, Less

LEMMA LeastElement ==
  ASSUME NEW T, T \subseteq Nat, T # {}
  PROVE  \E m \in T : \A k \in T : m <= k
<1>1. PICK m \in T : \A k \in T : <<k, m>> \notin Less
  BY LessWellFounded, WFMin
<1>2. ASSUME NEW k \in T PROVE m <= k
  <2>1. m \in Nat /\ k \in Nat /\ <<k, m>> \notin Less
    BY <1>1
  <2> QED
    BY <2>1 DEF Less
<1> QED
  BY <1>2

LEMMA NatIsInductive ==
  ASSUME NEW T, 0 \in T, \A n \in Nat : n \in T => n + 1 \in T
  PROVE  Nat \subseteq T
<1> SUFFICES ASSUME Nat \ T # {} PROVE FALSE
  OBVIOUS
<1>1. PICK m \in Nat \ T : \A k \in Nat \ T : m <= k
  BY LeastElement
<1>2. m # 0 /\ m - 1 \in Nat
  BY <1>1
<1>3. m - 1 \in T
  BY <1>1, <1>2
<1> QED
  BY <1>1, <1>2, <1>3

LEMMA IntervalIsInductive ==
  ASSUME NEW lo \in Nat, NEW hi \in Nat, NEW T, lo \in T,
         \A n \in lo..(hi - 1) : n \in T => n + 1 \in T
  PROVE  lo..hi \subseteq T
<1> SUFFICES ASSUME (lo..hi) \ T # {} PROVE FALSE
  OBVIOUS
<1>1. PICK m \in (lo..hi) \ T : \A k \in (lo..hi) \ T : m <= k
  BY LeastElement, lo..hi \subseteq Nat
<1>2. m # lo /\ m - 1 \in lo..(hi - 1)
  BY <1>1
<1>3. m - 1 \in T
  BY <1>1, <1>2
<1> QED
  BY <1>1, <1>2, <1>3

\* A set of integers with an upper bound has a greatest element.
LEMMA GreatestElement ==
  ASSUME NEW T, T \subseteq Int, T # {}, NEW b \in Int, \A k \in T : k <= b
  PROVE  \E m \in T : \A k \in T : k <= m
<1> DEFINE U == {b - k : k \in T}
<1>1. U \subseteq Nat /\ U # {}
  <2>1. ASSUME NEW k \in T PROVE b - k \in Nat
    <3>1. k \in Int /\ k <= b
      OBVIOUS
    <3> QED
      BY <3>1
  <2> QED
    BY <2>1
<1>2. PICK u \in U : \A v \in U : u <= v
  <2> HIDE DEF U
  <2> QED
    BY <1>1, LeastElement
<1>3. PICK m \in T : u = b - m
  OBVIOUS
<1>4. ASSUME NEW k \in T PROVE k <= m
  <2>1. b - k \in U
    OBVIOUS
  <2>2. u <= b - k
    BY <1>2, <2>1
  <2> QED
    BY <1>3, <2>2, k \in Int, m \in Int
<1> QED
  BY <1>4

\* g is computed from first upwards, one step for each number of the interval.
Unrolls(g, lo, hi, S, first, step) ==
  /\ g \in [lo..hi -> S]
  /\ g[lo] = first
  /\ \A n \in (lo + 1)..hi : g[n] = step[n][g[n - 1]]

\* What a definition f[n \in lo..hi] == IF n = lo THEN first ELSE ..f[n - 1]..
\* means: such a function exists, so the one CHOOSE takes satisfies it.
LEMMA RecursionExists ==
  ASSUME NEW lo \in Nat, NEW hi \in Nat, lo <= hi,
         NEW S, NEW first \in S, NEW step \in [Nat -> [S -> S]]
  PROVE  \E g : Unrolls(g, lo, hi, S, first, step)
<1> DEFINE Upto(n, g) == /\ g[lo] = first
                         /\ \A k \in (lo + 1)..n : g[k] = step[k][g[k - 1]]
           T == {n \in lo..hi : \E g \in [lo..n -> S] : Upto(n, g)}
<1>1. lo \in T
  <2>1. [k \in lo..lo |-> first] \in [lo..lo -> S] /\ lo \in lo..lo /\ lo \in lo..hi
    OBVIOUS
  <2>2. Upto(lo, [k \in lo..lo |-> first])
    BY <2>1
  <2> QED
    BY <2>1, <2>2
<1>2. ASSUME NEW n \in lo..(hi - 1), n \in T PROVE n + 1 \in T
  <2>1. PICK g \in [lo..n -> S] : Upto(n, g)
    BY <1>2
  <2> DEFINE h == [k \in lo..(n + 1) |-> IF k = n + 1 THEN step[n + 1][g[n]] ELSE g[k]]
  <2>2. step[n + 1][g[n]] \in S
    BY n \in lo..n
  <2>3. h \in [lo..(n + 1) -> S]
    BY <2>2
  <2>4. h[lo] = first
    BY <2>1
  <2>5. ASSUME NEW k \in (lo + 1)..(n + 1) PROVE h[k] = step[k][h[k - 1]]
    <3>1. k - 1 \in lo..n /\ h[k - 1] = g[k - 1]
      OBVIOUS
    <3>2. CASE k = n + 1
      BY <3>1, <3>2
    <3>3. CASE k # n + 1
      <4>1. k \in (lo + 1)..n /\ h[k] = g[k]
        BY <3>3
      <4> QED
        BY <3>1, <4>1, <2>1
    <3> QED
      BY <3>2, <3>3
  <2>6. n + 1 \in lo..hi
    OBVIOUS
  <2>7. Upto(n + 1, h)
    <3> HIDE DEF h
    <3> QED
      BY <2>4, <2>5
  <2> QED
    BY <2>3, <2>6, <2>7
<1>3. hi \in T
  <2> HIDE DEF T
  <2>1. lo..hi \subseteq T
    BY <1>1, <1>2, IntervalIsInductive
  <2> QED
    BY <2>1
<1> QED
  BY <1>3 DEF Unrolls

\* Whatever satisfies the definition is computed by it.
LEMMA RecursionMeans ==
  ASSUME NEW lo \in Nat, NEW hi \in Nat, lo <= hi,
         NEW S, NEW first \in S, NEW step \in [Nat -> [S -> S]],
         NEW f, f = [n \in lo..hi |-> f[n]], f[lo] = first,
         \A n \in (lo + 1)..hi : f[n - 1] \in S => f[n] = step[n][f[n - 1]]
  PROVE  Unrolls(f, lo, hi, S, first, step)
<1> DEFINE T == {n \in lo..hi : f[n] \in S}
<1>1. lo \in T
  OBVIOUS
<1>2. ASSUME NEW n \in lo..(hi - 1), n \in T PROVE n + 1 \in T
  <2>1. n + 1 \in (lo + 1)..hi /\ (n + 1) - 1 = n /\ n + 1 \in Nat /\ n + 1 \in lo..hi
    OBVIOUS
  <2>2. f[n + 1] = step[n + 1][f[n]] /\ f[n] \in S
    BY <1>2, <2>1
  <2> QED
    BY <2>1, <2>2
<1>3. lo..hi \subseteq T
  <2> HIDE DEF T
  <2> QED
    BY <1>1, <1>2, IntervalIsInductive
<1>4. f \in [lo..hi -> S]
  BY <1>3
<1>5. \A n \in (lo + 1)..hi : f[n] = step[n][f[n - 1]]
  <2> SUFFICES ASSUME NEW n \in (lo + 1)..hi PROVE f[n] = step[n][f[n - 1]]
    OBVIOUS
  <2>1. n - 1 \in lo..hi
    OBVIOUS
  <2> QED
    BY <1>4, <2>1
<1> QED
  BY <1>4, <1>5 DEF Unrolls
=============================================================================
