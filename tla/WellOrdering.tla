------------------------------ MODULE WellOrdering ------------------------------
(***************************************************************************)
(* Least elements and recursion.  The code picks a best candidate (the     *)
(* cheapest, the fastest, the one of best priority) and repeats a step in  *)
(* a loop; the proofs about it take a least element, a least               *)
(* counterexample, or the states of a loop from here.                      *)
(***************************************************************************)
EXTENDS Integers, WellFoundedInduction, TLAPS

\* Every non-empty set of natural numbers has a least one.
LEMMA LeastNatural ==
    ASSUME NEW T \in SUBSET Nat, T # {}
    PROVE  \E x \in T : \A y \in T : x <= y
  <1> DEFINE R == OpToRel(<, Nat)
  <1>1. IsWellFoundedOn(R, Nat)
    BY NatLessThanWellFounded
  <1>2. \A x, y \in Nat : y < x => <<y, x>> \in R
    BY DEF OpToRel
  <1> HIDE DEF R
  <1>3. PICK x \in T : \A y \in T : ~(<<y, x>> \in R)
    BY <1>1, WFMin
  <1>4. ASSUME NEW y \in T
        PROVE  x <= y
    <2>1. x \in Nat /\ y \in Nat
      OBVIOUS
    <2>2. ~(y < x)
      BY <1>2, <1>3, <2>1
    <2>3. QED
      BY <2>1, <2>2
  <1>5. QED
    BY <1>4

\* Every non-empty set has a least element by a natural measure.
LEMMA LeastElement ==
    ASSUME NEW S, S # {}, NEW f \in [S -> Nat]
    PROVE  \E x \in S : \A y \in S : f[x] <= f[y]
  <1> DEFINE T == {f[x] : x \in S}
  <1>1. T \in SUBSET Nat /\ T # {}
    OBVIOUS
  <1>2. PICK m \in T : \A n \in T : m <= n
    BY <1>1, LeastNatural
  <1>3. QED
    BY <1>2

-----------------------------------------------------------------------------

\* Induction up to a bound, over a set instead of a predicate.
LEMMA BoundedInduction ==
    ASSUME NEW n \in Nat, NEW A,
           0 \in A, \A k \in 0..n : k < n /\ k \in A => k + 1 \in A
    PROVE  0..n \subseteq A
  <1> DEFINE T == {k \in 0..n : k \notin A}
  <1> SUFFICES ASSUME T # {} PROVE FALSE
    OBVIOUS
  <1>1. T \in SUBSET Nat
    OBVIOUS
  <1>2. PICK k \in T : \A m \in T : k <= m
    BY <1>1, LeastNatural
  <1>3. k # 0 /\ k \in 0..n /\ k \notin A
    OBVIOUS
  <1>4. k - 1 \in 0..n /\ k - 1 < n /\ k - 1 \in A
    BY <1>2, <1>3
  <1>5. (k - 1) + 1 \in A
    BY <1>4
  <1>6. QED
    BY <1>3, <1>5

\* The states g of n turns of a step, step[<<i, s>>] being the i-th from s.
IsRun(g, n, init, step) ==
    /\ DOMAIN g = 0..n
    /\ g[0] = init
    /\ \A i \in 1..n : g[i] = step[<<i, g[i - 1]>>]

\* A step that keeps a set of states has a run of every length in that set.
LEMMA RunExists ==
    ASSUME NEW S, NEW init \in S, NEW n \in Nat, NEW step \in [(1..n) \X S -> S]
    PROVE  \E g \in [0..n -> S] : IsRun(g, n, init, step)
  <1> DEFINE A == {k \in 0..n : \E g \in [0..k -> S] : IsRun(g, k, init, step)}
  <1>1. 0 \in A
    <2> DEFINE g == [i \in 0..0 |-> init]
    <2>1. g \in [0..0 -> S] /\ IsRun(g, 0, init, step)
      BY DEF IsRun
    <2> HIDE DEF g
    <2>2. QED
      BY <2>1
  <1>2. ASSUME NEW k \in 0..n, k < n, k \in A
        PROVE  k + 1 \in A
    <2>1. PICK g \in [0..k -> S] : IsRun(g, k, init, step)
      BY <1>2
    <2> DEFINE h == [i \in 0..(k + 1) |-> IF i <= k THEN g[i] ELSE step[<<k + 1, g[k]>>]]
    <2>2. k + 1 \in 1..n /\ k \in 0..k /\ g[k] \in S
      BY <1>2
    <2>3. step[<<k + 1, g[k]>>] \in S
      BY <2>2
    <2>4. h \in [0..(k + 1) -> S]
      BY <2>3
    <2>5. h[0] = init
      BY <2>1 DEF IsRun
    <2>6. ASSUME NEW i \in 1..(k + 1)
          PROVE  h[i] = step[<<i, h[i - 1]>>]
      <3>1. i - 1 \in 0..k /\ h[i - 1] = g[i - 1]
        OBVIOUS
      <3>2. CASE i <= k
        <4>1. g[i] = step[<<i, g[i - 1]>>] /\ h[i] = g[i]
          BY <2>1, <3>2 DEF IsRun
        <4>2. QED
          BY <3>1, <4>1
      <3>3. CASE i = k + 1
        <4>1. ~(k + 1 <= k) /\ k + 1 \in 0..(k + 1) /\ i - 1 = k
          BY <3>3
        <4>2. h[k + 1] = step[<<k + 1, g[k]>>]
          BY <4>1
        <4>3. QED
          BY <3>1, <3>3, <4>1, <4>2
      <3>4. QED
        BY <3>2, <3>3
    <2>7. IsRun(h, k + 1, init, step)
      BY <2>5, <2>6 DEF IsRun
    <2> HIDE DEF h
    <2>8. QED
      BY <2>2, <2>4, <2>7
  <1> HIDE DEF A
  <1>3. 0..n \subseteq A
    BY <1>1, <1>2, BoundedInduction
  <1>4. n \in A
    BY <1>3
  <1>5. QED
    BY <1>4 DEF A

\* The first m turns from the states of g are the same in both.
SameTurns(g, m, step, long) == \A i \in 1..m : step[<<i, g[i - 1]>>] = long[<<i, g[i - 1]>>]

\* Two runs agree as far as both go.
LEMMA RunsAgree ==
    ASSUME NEW init, NEW m \in Nat, NEW n \in Nat, m <= n, NEW step, NEW long,
           NEW g, NEW h, IsRun(g, m, init, step), IsRun(h, n, init, long),
           SameTurns(g, m, step, long)
    PROVE  \A i \in 0..m : g[i] = h[i]
  <1> DEFINE A == {i \in 0..m : g[i] = h[i]}
  <1>1. 0 \in A
    BY DEF IsRun
  <1>2. ASSUME NEW k \in 0..m, k < m, k \in A
        PROVE  k + 1 \in A
    <2>1. k + 1 \in 1..m /\ k + 1 \in 1..n /\ (k + 1) - 1 = k
      BY <1>2
    <2>2. g[k + 1] = step[<<k + 1, g[k]>>] /\ h[k + 1] = long[<<k + 1, h[k]>>]
      BY <2>1 DEF IsRun
    <2>3. step[<<k + 1, g[k]>>] = long[<<k + 1, g[k]>>]
      BY <2>1 DEF SameTurns
    <2>4. QED
      BY <1>2, <2>1, <2>2, <2>3
  <1> HIDE DEF A
  <1>3. 0..m \subseteq A
    BY <1>1, <1>2, BoundedInduction
  <1>4. QED
    BY <1>3 DEF A

=============================================================================
