------------------------- MODULE RoutingPolicyProofs -------------------------
(***************************************************************************)
(* Proofs about RoutingPolicy for any registry, any share fraction, any    *)
(* window and any number of concurrent requests.                           *)
(***************************************************************************)
EXTENDS RoutingPolicy, FiniteSetTheorems, WellOrdering, TLAPS

-----------------------------------------------------------------------------
(* Arithmetic of the quota.                                                *)

\* Integer division is monotone and stays in Nat.
LEMMA DivMonotone ==
    ASSUME NEW a \in Nat, NEW b \in Nat, a <= b, NEW d \in Nat \ {0}
    PROVE  a \div d <= b \div d /\ a \div d \in Nat /\ b \div d \in Nat
  OBVIOUS

\* Multiplication is monotone.
LEMMA TimesMonotone ==
    ASSUME NEW a \in Nat, NEW b \in Nat, a <= b, NEW d \in Nat
    PROVE  d * a <= d * b /\ d * a \in Nat /\ d * b \in Nat
  OBVIOUS

\* A longer window never has a smaller quota.
LEMMA QuotaMonotone ==
    ASSUME NEW m \in Nat, NEW n \in Nat, m <= n
    PROVE  Quota(m) <= Quota(n) /\ Quota(m) \in Nat /\ Quota(n) \in Nat
<1>1. ShareNum \in Nat /\ ShareDen \in Nat \ {0}
  BY ShareAssumption
<1>2. ShareNum * m <= ShareNum * n /\ ShareNum * m \in Nat /\ ShareNum * n \in Nat
  BY <1>1, TimesMonotone
<1>3. /\ ShareNum * m + ShareDen - 1 \in Nat
      /\ ShareNum * n + ShareDen - 1 \in Nat
      /\ ShareNum * m + ShareDen - 1 <= ShareNum * n + ShareDen - 1
  BY <1>1, <1>2
<1>4. QED
  BY <1>1, <1>3, DivMonotone DEF Quota

-----------------------------------------------------------------------------
(* Sets of positions in a window.  Dropping the oldest entry shifts them   *)
(* down by one, appending an entry adds the next position.                 *)

Shifted(A, n) == {i \in 1..(n - 1) : i + 1 \in A}

\* Positions are finitely many.
LEMMA PositionsFinite ==
    ASSUME NEW n \in Nat, NEW A \in SUBSET (1..n)
    PROVE  IsFiniteSet(A) /\ Cardinality(A) \in Nat
<1>1. IsFiniteSet(1..n)
  BY FS_Interval
<1>2. QED
  BY <1>1, FS_Subset, FS_CardinalityType

\* Shifting loses exactly the oldest position.
LEMMA ShiftedCardinality ==
    ASSUME NEW n \in Nat \ {0}, NEW A \in SUBSET (1..n)
    PROVE  /\ Shifted(A, n) \in SUBSET (1..(n - 1))
           /\ Cardinality(Shifted(A, n)) = Cardinality(A) - (IF 1 \in A THEN 1 ELSE 0)
<1> DEFINE B == A \ {1}
           f == [i \in B |-> i - 1]
<1>1. IsFiniteSet(A) /\ Cardinality(A) \in Nat
  BY PositionsFinite
<1>2. IsFiniteSet(B) /\ Cardinality(B) = IF 1 \in A THEN Cardinality(A) - 1 ELSE Cardinality(A)
  BY <1>1, FS_RemoveElement
<1>3. f \in Bijection(B, Shifted(A, n))
  <2>1. \A i \in B : f[i] \in Shifted(A, n)
    BY DEF Shifted
  <2>2. \A i, j \in B : f[i] = f[j] => i = j
    OBVIOUS
  <2>3. \A k \in Shifted(A, n) : \E i \in B : f[i] = k
    <3>1. SUFFICES ASSUME NEW k \in Shifted(A, n) PROVE k + 1 \in B /\ f[k + 1] = k
      OBVIOUS
    <3>2. k \in 1..(n - 1) /\ k + 1 \in A
      BY DEF Shifted
    <3>3. QED
      BY <3>2
  <2>4. QED
    BY <2>1, <2>2, <2>3, Zenon DEF Bijection, Injection, Surjection, IsInjective
<1>4. Cardinality(Shifted(A, n)) = Cardinality(B)
  BY <1>2, <1>3, FS_Bijection DEF ExistsBijection
<1>5. Shifted(A, n) \in SUBSET (1..(n - 1))
  BY DEF Shifted
<1>6. QED
  BY <1>1, <1>2, <1>4, <1>5

\* Appending counts one more exactly when the new entry matches.
LEMMA ExtendedCardinality ==
    ASSUME NEW n \in Nat, NEW A \in SUBSET (1..n)
    PROVE  Cardinality(A \cup {n + 1}) = Cardinality(A) + 1
<1>1. n + 1 \notin A
  OBVIOUS
<1>2. QED
  BY <1>1, PositionsFinite, FS_AddElement

-----------------------------------------------------------------------------
(* Occurrences of a provider in one window, alone and together with the    *)
(* preference each entry was selected under.                               *)

Occurrences(h, p) == {i \in 1..Len(h) : h[i] = p}

DefaultOccurrences(h, o, p) == {i \in Occurrences(h, p) : o[i] = "default"}

\* Occurrences are positions of the window.
LEMMA OccurrencesArePositions ==
    ASSUME NEW S, NEW h \in Seq(S), NEW o, NEW p
    PROVE  /\ Len(h) \in Nat
           /\ Occurrences(h, p) \in SUBSET (1..Len(h))
           /\ DefaultOccurrences(h, o, p) \in SUBSET (1..Len(h))
           /\ DefaultOccurrences(h, o, p) \in SUBSET Occurrences(h, p)
  BY DEF Occurrences, DefaultOccurrences

\* push_back adds the new position to the occurrences of its provider.
LEMMA AppendOccurrences ==
    ASSUME NEW S, NEW h \in Seq(S), NEW x \in S, NEW p,
           NEW T, NEW o \in Seq(T), NEW y \in T, Len(o) = Len(h)
    PROVE  /\ Occurrences(Append(h, x), p) =
                  Occurrences(h, p) \cup (IF x = p THEN {Len(h) + 1} ELSE {})
           /\ DefaultOccurrences(Append(h, x), Append(o, y), p) =
                  DefaultOccurrences(h, o, p)
                  \cup (IF x = p /\ y = "default" THEN {Len(h) + 1} ELSE {})
           /\ Len(Append(h, x)) = Len(h) + 1
           /\ Len(Append(o, y)) = Len(o) + 1
<1>1. /\ Len(Append(h, x)) = Len(h) + 1
      /\ Len(Append(o, y)) = Len(o) + 1
      /\ Len(h) \in Nat
  OBVIOUS
<1>2. /\ \A i \in 1..Len(h) : Append(h, x)[i] = h[i] /\ Append(o, y)[i] = o[i]
      /\ Append(h, x)[Len(h) + 1] = x
      /\ Append(o, y)[Len(h) + 1] = y
  OBVIOUS
<1>3. QED
  BY <1>1, <1>2 DEF Occurrences, DefaultOccurrences

\* pop_front shifts every occurrence by one position.
LEMMA TailOccurrences ==
    ASSUME NEW S, NEW h \in Seq(S), h # <<>>, NEW p,
           NEW T, NEW o \in Seq(T), Len(o) = Len(h)
    PROVE  /\ Len(h) \in Nat \ {0}
           /\ Tail(h) \in Seq(S) /\ Tail(o) \in Seq(T)
           /\ Len(Tail(h)) = Len(h) - 1 /\ Len(Tail(o)) = Len(h) - 1
           /\ Occurrences(Tail(h), p) = Shifted(Occurrences(h, p), Len(h))
           /\ DefaultOccurrences(Tail(h), Tail(o), p) =
                  Shifted(DefaultOccurrences(h, o, p), Len(h))
           /\ Head(h) = p <=> 1 \in Occurrences(h, p)
<1>1. /\ Len(h) \in Nat \ {0}
      /\ Tail(h) \in Seq(S) /\ Tail(o) \in Seq(T)
      /\ Len(Tail(h)) = Len(h) - 1 /\ Len(Tail(o)) = Len(h) - 1
  OBVIOUS
<1>2. \A i \in 1..(Len(h) - 1) : Tail(h)[i] = h[i + 1] /\ Tail(o)[i] = o[i + 1]
  BY <1>1
<1>3. Head(h) = p <=> 1 \in Occurrences(h, p)
  BY <1>1 DEF Occurrences
<1>4. QED
  BY <1>1, <1>2, <1>3 DEF Occurrences, DefaultOccurrences, Shifted

-----------------------------------------------------------------------------
(* The share windows.                                                      *)

\* The inductive invariant of the windows: the two properties, the ghost's
\* length, and the types.
WindowInv ==
    /\ history \in [Keys -> Seq(Providers)]
    /\ counts \in [Keys -> [Providers -> Nat]]
    /\ origin \in [Keys -> Seq(Preferences)]
    /\ \A key \in Keys : Len(origin[key]) = Len(history[key])
    /\ CountsMatchHistory
    /\ DefaultTrafficIsCapped

\* What WindowInv says of one window (history h, preferences o, counts c).
WindowOK(h, o, c) ==
    /\ h \in Seq(Providers)
    /\ o \in Seq(Preferences)
    /\ c \in [Providers -> Nat]
    /\ Len(o) = Len(h)
    /\ Len(h) <= ShareWindow
    /\ \A p \in Providers :
           /\ c[p] = Cardinality(Occurrences(h, p))
           /\ Cardinality(DefaultOccurrences(h, o, p)) <= Quota(Len(h))

\* WindowInv is WindowOK of every window.
LEMMA WindowByWindow ==
    WindowInv <=>
        /\ history \in [Keys -> Seq(Providers)]
        /\ counts \in [Keys -> [Providers -> Nat]]
        /\ origin \in [Keys -> Seq(Preferences)]
        /\ \A key \in Keys : WindowOK(history[key], origin[key], counts[key])
<1>1. \A key \in Keys, p \in Providers :
          /\ Positions(key, p) = Occurrences(history[key], p)
          /\ DefaultPositions(key, p) =
                 DefaultOccurrences(history[key], origin[key], p)
  BY DEF Positions, DefaultPositions, Occurrences, DefaultOccurrences
<1>2. QED
  BY <1>1 DEF WindowInv, WindowOK, CountsMatchHistory, DefaultTrafficIsCapped

\* Expiring the oldest entry of a full window: every count drops by
\* expired_matches and no default count grows.
LEMMA ExpireKeepsCounts ==
    ASSUME NEW h, NEW o, NEW c, WindowOK(h, o, c), Len(h) = ShareWindow,
           NEW p \in Providers
    PROVE  /\ Tail(h) \in Seq(Providers) /\ Tail(o) \in Seq(Preferences)
           /\ Len(Tail(h)) = ShareWindow - 1 /\ Len(Tail(o)) = ShareWindow - 1
           /\ Cardinality(Occurrences(Tail(h), p)) =
                  c[p] - (IF Head(h) = p THEN 1 ELSE 0)
           /\ Cardinality(DefaultOccurrences(Tail(h), Tail(o), p)) <= Quota(Len(h))
<1>1. /\ h \in Seq(Providers) /\ o \in Seq(Preferences) /\ Len(o) = Len(h)
      /\ h # <<>>
      /\ c[p] = Cardinality(Occurrences(h, p))
      /\ Cardinality(DefaultOccurrences(h, o, p)) <= Quota(Len(h))
  BY ShareAssumption DEF WindowOK
<1>2. /\ Len(h) \in Nat \ {0}
      /\ Tail(h) \in Seq(Providers) /\ Tail(o) \in Seq(Preferences)
      /\ Len(Tail(h)) = Len(h) - 1 /\ Len(Tail(o)) = Len(h) - 1
      /\ Occurrences(Tail(h), p) = Shifted(Occurrences(h, p), Len(h))
      /\ DefaultOccurrences(Tail(h), Tail(o), p) =
             Shifted(DefaultOccurrences(h, o, p), Len(h))
      /\ Head(h) = p <=> 1 \in Occurrences(h, p)
  BY <1>1, TailOccurrences
<1>3. /\ Occurrences(h, p) \in SUBSET (1..Len(h))
      /\ DefaultOccurrences(h, o, p) \in SUBSET (1..Len(h))
  BY <1>1, OccurrencesArePositions
<1>4. Cardinality(Shifted(Occurrences(h, p), Len(h))) =
          Cardinality(Occurrences(h, p)) - (IF 1 \in Occurrences(h, p) THEN 1 ELSE 0)
  BY <1>2, <1>3, ShiftedCardinality
<1>5. Cardinality(Shifted(DefaultOccurrences(h, o, p), Len(h))) =
          Cardinality(DefaultOccurrences(h, o, p))
              - (IF 1 \in DefaultOccurrences(h, o, p) THEN 1 ELSE 0)
  BY <1>2, <1>3, ShiftedCardinality
<1>6. /\ Cardinality(DefaultOccurrences(h, o, p)) \in Nat
      /\ Cardinality(Occurrences(h, p)) \in Nat
      /\ Quota(Len(h)) \in Nat
  <2>1. Len(h) \in Nat /\ Len(h) <= Len(h)
    BY <1>2
  <2>2. Quota(Len(h)) \in Nat
    BY <2>1, QuotaMonotone
  <2>3. QED
    BY <1>3, <2>1, <2>2, PositionsFinite
<1>7. Cardinality(DefaultOccurrences(Tail(h), Tail(o), p)) <= Quota(Len(h))
  BY <1>1, <1>2, <1>5, <1>6
<1>8. QED
  BY <1>1, <1>2, <1>4, <1>7

\* Appending to a window with room: the selected provider's count grows by one,
\* and a default entry fits the quota when the new count does.
LEMMA AppendKeepsWindow ==
    ASSUME NEW h \in Seq(Providers), NEW o \in Seq(Preferences),
           NEW c \in [Providers -> Nat], Len(o) = Len(h), Len(h) < ShareWindow,
           NEW n \in Nat, n <= Len(h) + 1,
           NEW p \in Providers, NEW pref \in Preferences,
           \A q \in Providers :
               /\ c[q] = Cardinality(Occurrences(h, q)) + (IF q = p THEN 1 ELSE 0)
               /\ Cardinality(DefaultOccurrences(h, o, q)) <= Quota(n),
           pref = "default" => c[p] <= Quota(Len(h) + 1)
    PROVE  WindowOK(Append(h, p), Append(o, pref), c)
<1>1. /\ Len(h) \in Nat /\ ShareWindow \in Nat
      /\ Append(h, p) \in Seq(Providers) /\ Append(o, pref) \in Seq(Preferences)
      /\ Len(Append(h, p)) = Len(h) + 1 /\ Len(Append(o, pref)) = Len(h) + 1
  BY ShareAssumption
<1>2. Quota(n) <= Quota(Len(h) + 1) /\ Quota(n) \in Nat /\ Quota(Len(h) + 1) \in Nat
  BY <1>1, QuotaMonotone
<1>3. ASSUME NEW q \in Providers
      PROVE  /\ c[q] = Cardinality(Occurrences(Append(h, p), q))
             /\ Cardinality(DefaultOccurrences(Append(h, p), Append(o, pref), q))
                    <= Quota(Len(h) + 1)
  <2> DEFINE A == Occurrences(h, q)
             D == DefaultOccurrences(h, o, q)
  <2>1. A \in SUBSET (1..Len(h)) /\ D \in SUBSET (1..Len(h)) /\ D \in SUBSET A
    BY OccurrencesArePositions
  <2>2. /\ Cardinality(A \cup {Len(h) + 1}) = Cardinality(A) + 1
        /\ Cardinality(D \cup {Len(h) + 1}) = Cardinality(D) + 1
        /\ IsFiniteSet(A)
        /\ Cardinality(A) \in Nat /\ Cardinality(D) \in Nat
    BY <1>1, <2>1, ExtendedCardinality, PositionsFinite
  <2>3. Cardinality(D) <= Cardinality(A)
    BY <2>1, <2>2, FS_Subset
  <2>4. /\ Occurrences(Append(h, p), q) =
               A \cup (IF p = q THEN {Len(h) + 1} ELSE {})
        /\ DefaultOccurrences(Append(h, p), Append(o, pref), q) =
               D \cup (IF p = q /\ pref = "default" THEN {Len(h) + 1} ELSE {})
    BY AppendOccurrences
  <2>5. CASE p = q
    <3>1. c[q] = Cardinality(A) + 1
      BY <2>5
    <3>2. Occurrences(Append(h, p), q) = A \cup {Len(h) + 1}
      BY <2>4, <2>5
    <3>3. CASE pref = "default"
      <4>1. DefaultOccurrences(Append(h, p), Append(o, pref), q) = D \cup {Len(h) + 1}
        BY <2>4, <2>5, <3>3
      <4>2. c[q] <= Quota(Len(h) + 1)
        BY <2>5, <3>3
      <4>3. QED
        BY <1>2, <2>2, <2>3, <3>1, <3>2, <4>1, <4>2
    <3>4. CASE pref # "default"
      <4>1. DefaultOccurrences(Append(h, p), Append(o, pref), q) = D
        BY <2>4, <3>4
      <4>2. QED
        BY <1>2, <2>2, <3>1, <3>2, <4>1
    <3>5. QED
      BY <3>3, <3>4
  <2>6. CASE p # q
    <3>1. /\ Occurrences(Append(h, p), q) = A
          /\ DefaultOccurrences(Append(h, p), Append(o, pref), q) = D
      BY <2>4, <2>6
    <3>2. QED
      BY <1>2, <2>2, <2>6, <3>1
  <2>7. QED
    BY <2>5, <2>6
<1>4. QED
  BY <1>1, <1>3 DEF WindowOK

\* The same reading of WindowInv in the next state.
LEMMA NextWindowByWindow ==
    ASSUME history' \in [Keys -> Seq(Providers)],
           counts' \in [Keys -> [Providers -> Nat]],
           origin' \in [Keys -> Seq(Preferences)],
           \A key \in Keys : WindowOK(history'[key], origin'[key], counts'[key])
    PROVE  WindowInv'
<1>1. \A key \in Keys, p \in Providers :
          /\ Positions(key, p)' = Occurrences(history'[key], p)
          /\ DefaultPositions(key, p)' =
                 DefaultOccurrences(history'[key], origin'[key], p)
  BY DEF Positions, DefaultPositions, Occurrences, DefaultOccurrences
<1>2. QED
  BY <1>1 DEF WindowInv, WindowOK, CountsMatchHistory, DefaultTrafficIsCapped

\* ShareTracker::record keeps the invariant when a default selection was
\* allowed by allows_next on the window as it was before.
LEMMA RecordKeepsWindow ==
    ASSUME WindowInv, NEW key \in Keys, NEW p \in Providers,
           NEW pref \in Preferences, Record(key, p, pref),
           pref = "default" => AllowsNext(key, p)
    PROVE  WindowInv'
<1> DEFINE h == history[key]
           o == origin[key]
           c == CountAfter(key, p)
<1>1. /\ history \in [Keys -> Seq(Providers)]
      /\ counts \in [Keys -> [Providers -> Nat]]
      /\ origin \in [Keys -> Seq(Preferences)]
      /\ \A k \in Keys : WindowOK(history[k], origin[k], counts[k])
  BY WindowByWindow
<1>2. /\ h \in Seq(Providers) /\ o \in Seq(Preferences)
      /\ Len(o) = Len(h) /\ Len(h) <= ShareWindow
      /\ Len(h) \in Nat /\ ShareWindow \in Nat \ {0}
      /\ counts[key] \in [Providers -> Nat]
  BY <1>1, ShareAssumption DEF WindowOK
<1>3. /\ history' = [history EXCEPT ![key] = Append(Kept(key, h), p)]
      /\ counts' = [counts EXCEPT ![key] = c]
      /\ origin' = [origin EXCEPT ![key] = Append(Kept(key, o), pref)]
  BY <1>1 DEF Record
<1>4. /\ c \in [Providers -> Nat]
      /\ WindowOK(Append(Kept(key, h), p), Append(Kept(key, o), pref), c)
  <2>1. CASE Full(key)
    <3>1. Len(h) = ShareWindow /\ Kept(key, h) = Tail(h) /\ Kept(key, o) = Tail(o)
      BY <2>1 DEF Full, Kept
    <3>2. \A q \in Providers :
              /\ Tail(h) \in Seq(Providers) /\ Tail(o) \in Seq(Preferences)
              /\ Len(Tail(h)) = ShareWindow - 1 /\ Len(Tail(o)) = ShareWindow - 1
              /\ Cardinality(Occurrences(Tail(h), q)) =
                     counts[key][q] - (IF Head(h) = q THEN 1 ELSE 0)
              /\ Cardinality(DefaultOccurrences(Tail(h), Tail(o), q))
                     <= Quota(ShareWindow)
      BY <1>1, <3>1, ExpireKeepsCounts
    <3>3. \A q \in Providers : Cardinality(Occurrences(Tail(h), q)) \in Nat
      BY <1>2, <3>2, OccurrencesArePositions, PositionsFinite
    <3>4. \A q \in Providers :
              c[q] = Cardinality(Occurrences(Tail(h), q)) + (IF q = p THEN 1 ELSE 0)
      BY <1>2, <2>1, <3>2 DEF CountAfter, ExpiredMatches
    <3>5. c \in [Providers -> Nat]
      BY <3>3, <3>4 DEF CountAfter
    <3>6. pref = "default" => c[p] <= Quota(Len(Tail(h)) + 1)
      <4>1. NextLen(key) = Len(Tail(h)) + 1
        BY <1>2, <3>1, <3>2 DEF NextLen, Min2
      <4>2. c[p] = counts[key][p] + 1 - ExpiredMatches(key, p)
        BY <1>2 DEF CountAfter, ExpiredMatches
      <4>3. QED
        BY <4>1, <4>2 DEF AllowsNext
    <3>7. /\ Len(Tail(o)) = Len(Tail(h)) /\ Len(Tail(h)) < ShareWindow
          /\ ShareWindow \in Nat /\ ShareWindow <= Len(Tail(h)) + 1
      BY <1>2, <3>2
    <3>8. WindowOK(Append(Tail(h), p), Append(Tail(o), pref), c)
      BY <3>2, <3>4, <3>5, <3>6, <3>7, AppendKeepsWindow
    <3>9. QED
      BY <3>1, <3>5, <3>8
  <2>2. CASE ~Full(key)
    <3>1. Len(h) < ShareWindow /\ Kept(key, h) = h /\ Kept(key, o) = o
      BY <1>2, <2>2 DEF Full, Kept
    <3>2. \A q \in Providers :
              /\ c[q] = Cardinality(Occurrences(h, q)) + (IF q = p THEN 1 ELSE 0)
              /\ Cardinality(DefaultOccurrences(h, o, q)) <= Quota(Len(h))
              /\ c[q] \in Nat
      BY <1>1, <1>2, <2>2 DEF CountAfter, ExpiredMatches, WindowOK
    <3>3. c \in [Providers -> Nat]
      BY <3>2 DEF CountAfter
    <3>4. pref = "default" => c[p] <= Quota(Len(h) + 1)
      <4>1. NextLen(key) = Len(h) + 1
        BY <1>2, <3>1 DEF NextLen, Min2
      <4>2. c[p] = counts[key][p] + 1 - ExpiredMatches(key, p)
        BY <1>2 DEF CountAfter, ExpiredMatches
      <4>3. QED
        BY <4>1, <4>2 DEF AllowsNext
    <3>5. WindowOK(Append(h, p), Append(o, pref), c)
      <4>1. Len(h) \in Nat /\ Len(h) <= Len(h) + 1
        BY <1>2
      <4>2. QED
        BY <1>2, <3>1, <3>2, <3>3, <3>4, <4>1, AppendKeepsWindow
    <3>6. QED
      BY <3>1, <3>3, <3>5
  <2>3. QED
    BY <2>1, <2>2
<1>5. /\ Append(Kept(key, h), p) \in Seq(Providers)
      /\ Append(Kept(key, o), pref) \in Seq(Preferences)
  BY <1>4 DEF WindowOK
<1>6. /\ history' \in [Keys -> Seq(Providers)]
      /\ counts' \in [Keys -> [Providers -> Nat]]
      /\ origin' \in [Keys -> Seq(Preferences)]
  BY <1>1, <1>3, <1>4, <1>5
<1>7. ASSUME NEW k \in Keys
      PROVE  WindowOK(history'[k], origin'[k], counts'[k])
  BY <1>1, <1>3, <1>4
<1>8. QED
  BY <1>6, <1>7, NextWindowByWindow

-----------------------------------------------------------------------------
(* Types.                                                                  *)

\* The measurements and the workers are well typed.
WorkerInv ==
    /\ measured \in [Profiles \X Providers \X Models -> Measurements \cup {NotMeasured}]
    /\ worker \in [Workers -> WorkerStates]

\* A refused worker keeps its type.
LEMMA RefusedState ==
    ASSUME NEW code \in {400, 404, 503}
    PROVE  Refused(code) \in WorkerStates
  BY DEF WorkerStates

\* A worker in the filtered phase carries a key, a preference and a snapshot of
\* some providers.
LEMMA FilteredState ==
    ASSUME WorkerInv, NEW w \in Workers, worker[w].phase = "filtered"
    PROVE  /\ worker[w].key \in Keys
           /\ worker[w].pref \in Preferences
           /\ worker[w].snapshot \in Snapshots
           /\ DOMAIN worker[w].snapshot \in SUBSET Providers
<1>1. worker[w] \in WorkerStates
  BY DEF WorkerInv
<1>2. worker[w] \in [phase : {"filtered"}, key : Keys, pref : Preferences, snapshot : Snapshots]
  BY <1>1 DEF WorkerStates, Idle, Refused
<1>3. worker[w].snapshot \in Snapshots
  BY <1>2
<1>4. PICK C \in SUBSET Providers :
          worker[w].snapshot \in [C -> Measurements \cup {NotMeasured}]
  BY <1>3 DEF Snapshots
<1>5. QED
  BY <1>2, <1>3, <1>4

\* A worker in the routed phase carries a key and a chain of providers.
LEMMA RoutedState ==
    ASSUME WorkerInv, NEW w \in Workers, worker[w].phase = "routed"
    PROVE  worker[w].key \in Keys /\ worker[w].chain \in Seq(Providers)
<1>1. worker[w] \in WorkerStates
  BY DEF WorkerInv
<1>2. worker[w] \in [phase : {"routed"}, key : Keys, chain : Seq(Providers)]
  BY <1>1 DEF WorkerStates, Idle, Refused
<1>3. QED
  BY <1>2

\* A request that is not malformed has one of the four preferences.
LEMMA PreferenceType ==
    ASSUME NEW r \in AllRequests, ~Malformed(r)
    PROVE  PreferenceOf(r) \in Preferences
  BY DEF AllRequests, Malformed, PreferenceOf, Preferences, Sorts

\* select_route returns a candidate, and under the default preference one that
\* allows_next accepts.
LEMMA SelectedIsCandidate ==
    ASSUME NEW C, NEW pref, NEW key, NEW m, NEW p \in SelectRoute(C, pref, key, m)
    PROVE  p \in C /\ (pref = "default" => AllowsNext(key, p))
  BY DEF SelectRoute, SelectDefault, WeightedPick, StrictPriority, SelectSorted, Eligible

\* A fallback plan is a sequence of the remaining candidates.
LEMMA PlanType ==
    ASSUME NEW C \in SUBSET Providers, NEW pref, NEW key, NEW m,
           NEW s \in FallbackPlans(C, pref, key, m), NEW p \in Providers
    PROVE  <<p>> \o s \in Seq(Providers)
<1>1. PICK n \in 0..Cardinality(C) : s \in [1..n -> C]
  BY DEF FallbackPlans
<1>2. s \in Seq(Providers)
  BY <1>1
<1>3. QED
  BY <1>2

-----------------------------------------------------------------------------
(* The steps.                                                              *)

\* The inductive invariant of the whole specification.
RoutingInv == WindowInv /\ WorkerInv

\* A step that leaves the windows alone keeps their invariant.
LEMMA UnchangedWindow ==
    ASSUME WindowInv, UNCHANGED <<history, counts, origin>>
    PROVE  WindowInv'
  BY DEF WindowInv, CountsMatchHistory, DefaultTrafficIsCapped, Positions,
         DefaultPositions

\* Refusals change one worker only.
LEMMA RefuseKeeps ==
    ASSUME RoutingInv, NEW w \in Workers, NEW code \in {400, 404, 503},
           Refuse(w, code)
    PROVE  RoutingInv'
<1>1. WindowInv'
  BY UnchangedWindow DEF RoutingInv, Refuse
<1>2. WorkerInv'
  BY RefusedState DEF RoutingInv, WorkerInv, Refuse
<1>3. QED
  BY <1>1, <1>2 DEF RoutingInv

\* The unlocked half reads the measurements of the compatible providers.
LEMMA FilterKeeps ==
    ASSUME RoutingInv, NEW w \in Workers, NEW r \in Requests,
           FilterCandidates(w, r)
    PROVE  RoutingInv'
<1>1. WindowInv'
  BY UnchangedWindow DEF RoutingInv, FilterCandidates
<1>2. r \in AllRequests /\ ~Malformed(r) /\ KeyOf(r) \in Keys
  BY InputAssumption DEF FilterCandidates, Known
<1>3. r.profile \in Profiles /\ r.model \in Models
  BY <1>2 DEF KeyOf, Keys
<1>4. Compatible(r) \in SUBSET Providers
  BY <1>2, RegistryAssumption DEF Compatible
<1> DEFINE snapshot == [p \in Compatible(r) |-> measured[<<r.profile, p, r.model>>]]
<1>5. snapshot \in [Compatible(r) -> Measurements \cup {NotMeasured}]
  BY <1>3, <1>4 DEF RoutingInv, WorkerInv
<1>6. snapshot \in Snapshots
  BY <1>4, <1>5 DEF Snapshots
<1>7. Filtered(KeyOf(r), PreferenceOf(r), snapshot) \in WorkerStates
  BY <1>2, <1>6, PreferenceType DEF Filtered, WorkerStates
<1>8. WorkerInv'
  BY <1>7 DEF RoutingInv, WorkerInv, FilterCandidates, GetFor
<1>9. QED
  BY <1>1, <1>8 DEF RoutingInv

\* The locked half: allows_next is evaluated on the same window that record
\* then changes, because no other request can hold the lock in between.
LEMMA SelectKeeps ==
    ASSUME RoutingInv, NEW w \in Workers, SelectAndRecord(w)
    PROVE  RoutingInv'
<1> DEFINE key == worker[w].key
           pref == worker[w].pref
           m == worker[w].snapshot
<1>1. key \in Keys /\ pref \in Preferences /\ DOMAIN m \in SUBSET Providers
  BY FilteredState DEF RoutingInv, SelectAndRecord
<1>2. PICK selected \in SelectRoute(DOMAIN m, pref, key, m) :
          \E fallbacks \in FallbackPlans(DOMAIN m \ {selected}, pref, key, m) :
              /\ Record(key, selected, pref)
              /\ worker' = [worker EXCEPT ![w] = Routed(key, <<selected>> \o fallbacks)]
  BY DEF SelectAndRecord
<1>3. PICK fallbacks \in FallbackPlans(DOMAIN m \ {selected}, pref, key, m) :
          /\ Record(key, selected, pref)
          /\ worker' = [worker EXCEPT ![w] = Routed(key, <<selected>> \o fallbacks)]
  BY <1>2
<1>4. selected \in DOMAIN m /\ (pref = "default" => AllowsNext(key, selected))
  BY SelectedIsCandidate
<1>5. selected \in Providers
  BY <1>1, <1>4
<1>6. WindowInv'
  BY <1>1, <1>3, <1>4, <1>5, RecordKeepsWindow DEF RoutingInv
<1>7. <<selected>> \o fallbacks \in Seq(Providers)
  <2>1. DOMAIN m \ {selected} \in SUBSET Providers
    BY <1>1
  <2>2. QED
    BY <1>5, <2>1, PlanType
<1>8. Routed(key, <<selected>> \o fallbacks) \in WorkerStates
  BY <1>1, <1>7 DEF Routed, WorkerStates
<1>9. WorkerInv'
  BY <1>3, <1>8 DEF RoutingInv, WorkerInv, SelectAndRecord
<1>10. QED
  BY <1>6, <1>9 DEF RoutingInv

\* A smoothed measurement is a measurement.
LEMMA ObservedType ==
    ASSUME NEW old \in Measurements \cup {NotMeasured}, NEW sample \in Measurements,
           NEW value \in Observed(old, sample)
    PROVE  value \in Measurements
  BY DEF Observed, Smoothed, Measurements

\* Serving changes one measurement at most.
LEMMA ServeKeeps ==
    ASSUME RoutingInv, NEW w \in Workers, ServeMeasured(w) \/ ServeUnmeasured(w)
    PROVE  RoutingInv'
<1>1. WindowInv'
  BY UnchangedWindow DEF RoutingInv, ServeMeasured, ServeUnmeasured
<1>2. Idle \in WorkerStates
  BY DEF WorkerStates
<1>3. worker' \in [Workers -> WorkerStates]
  BY <1>2 DEF RoutingInv, WorkerInv, ServeMeasured, ServeUnmeasured
<1>4. measured' \in [Profiles \X Providers \X Models -> Measurements \cup {NotMeasured}]
  <2>1. CASE ServeUnmeasured(w)
    BY <2>1 DEF RoutingInv, WorkerInv, ServeUnmeasured
  <2>2. CASE ServeMeasured(w)
    <3>1. worker[w].key \in Keys /\ worker[w].chain \in Seq(Providers)
      BY <2>2, RoutedState DEF RoutingInv, ServeMeasured
    <3>2. PICK i \in DOMAIN worker[w].chain, sample \in Samples :
              \E value \in Observed(
                      measured[<<worker[w].key[1], worker[w].chain[i], worker[w].key[2]>>],
                      sample) :
                  measured' = [measured EXCEPT
                      ![<<worker[w].key[1], worker[w].chain[i], worker[w].key[2]>>] = value]
      BY <2>2 DEF ServeMeasured
    <3> DEFINE x == <<worker[w].key[1], worker[w].chain[i], worker[w].key[2]>>
    <3>3. x \in Profiles \X Providers \X Models
      BY <3>1 DEF Keys
    <3>4. measured[x] \in Measurements \cup {NotMeasured}
      BY <3>3 DEF RoutingInv, WorkerInv
    <3>5. sample \in Measurements
      BY InputAssumption
    <3>6. PICK value \in Observed(measured[x], sample) :
              measured' = [measured EXCEPT ![x] = value]
      BY <3>2
    <3>7. value \in Measurements
      BY <3>4, <3>5, ObservedType
    <3>8. QED
      BY <3>3, <3>6, <3>7 DEF RoutingInv, WorkerInv
  <2>3. QED
    BY <2>1, <2>2
<1>5. QED
  BY <1>1, <1>3, <1>4 DEF RoutingInv, WorkerInv

-----------------------------------------------------------------------------
(* The theorems.                                                           *)

LEMMA InitRoutingInv == Init => RoutingInv
<1> SUFFICES ASSUME Init PROVE RoutingInv
  OBVIOUS
<1>1. /\ history = [k \in Keys |-> <<>>]
      /\ counts = [k \in Keys |-> [p \in Providers |-> 0]]
      /\ origin = [k \in Keys |-> <<>>]
  BY DEF Init
<1>2. \A p : /\ Occurrences(<<>>, p) = {}
             /\ DefaultOccurrences(<<>>, <<>>, p) = {}
  BY DEF Occurrences, DefaultOccurrences
<1>3. 0 <= Quota(0)
  BY QuotaMonotone
<1>4. \A k \in Keys : WindowOK(history[k], origin[k], counts[k])
  <2>1. <<>> \in Seq(Providers) /\ <<>> \in Seq(Preferences) /\ Len(<<>>) = 0
    OBVIOUS
  <2>2. 0 <= ShareWindow
    BY ShareAssumption
  <2>3. Cardinality({}) = 0
    BY FS_EmptySet
  <2>4. WindowOK(<<>>, <<>>, [p \in Providers |-> 0])
    BY <1>2, <1>3, <2>1, <2>2, <2>3 DEF WindowOK
  <2>5. QED
    BY <1>1, <2>4
<1>5. WindowInv
  BY <1>1, <1>4, WindowByWindow
<1>6. WorkerInv
  BY DEF Init, WorkerInv, WorkerStates
<1>7. QED
  BY <1>5, <1>6 DEF RoutingInv

LEMMA NextRoutingInv == RoutingInv /\ [Next]_vars => RoutingInv'
<1> SUFFICES ASSUME RoutingInv, [Next]_vars PROVE RoutingInv'
  OBVIOUS
<1>1. ASSUME NEW w \in Workers, NEW r \in Requests, RejectMalformed(w, r)
      PROVE  RoutingInv'
  BY <1>1, RefuseKeeps DEF RejectMalformed
<1>2. ASSUME NEW w \in Workers, NEW r \in Requests, RejectUnknownModel(w, r)
      PROVE  RoutingInv'
  BY <1>2, RefuseKeeps DEF RejectUnknownModel
<1>3. ASSUME NEW w \in Workers, NEW r \in Requests, RejectIncompatible(w, r)
      PROVE  RoutingInv'
  BY <1>3, RefuseKeeps DEF RejectIncompatible
<1>4. ASSUME NEW w \in Workers, NEW r \in Requests, FilterCandidates(w, r)
      PROVE  RoutingInv'
  BY <1>4, FilterKeeps
<1>5. ASSUME NEW w \in Workers, SelectAndRecord(w) PROVE RoutingInv'
  BY <1>5, SelectKeeps
<1>6. ASSUME NEW w \in Workers, RefuseNoEligible(w) PROVE RoutingInv'
  BY <1>6, RefuseKeeps DEF RefuseNoEligible
<1>7. ASSUME NEW w \in Workers, ServeMeasured(w) \/ ServeUnmeasured(w)
      PROVE  RoutingInv'
  BY <1>7, ServeKeeps
<1>8. CASE UNCHANGED vars
  <2>1. WindowInv'
    BY <1>8, UnchangedWindow DEF vars, RoutingInv
  <2>2. WorkerInv'
    BY <1>8 DEF vars, RoutingInv, WorkerInv
  <2>3. QED
    BY <2>1, <2>2 DEF RoutingInv
<1>9. QED
  BY <1>1, <1>2, <1>3, <1>4, <1>5, <1>6, <1>7, <1>8 DEF Next

\* Every window, count, measurement and worker keeps its type.
THEOREM TypeCorrect == Spec => []TypeOK
<1>1. RoutingInv => TypeOK
  BY DEF RoutingInv, WindowInv, WorkerInv, TypeOK
<1>2. QED
  BY <1>1, InitRoutingInv, NextRoutingInv, PTL DEF Spec

\* The incremental counts of every ShareTracker equal the occurrences in its
\* window, whatever the registry, the window size and the interleaving: the
\* two expect() calls of record cannot fail.
THEOREM CountsAreExact == Spec => []CountsMatchHistory
<1>1. RoutingInv => CountsMatchHistory
  BY DEF RoutingInv, WindowInv
<1>2. QED
  BY <1>1, InitRoutingInv, NextRoutingInv, PTL DEF Spec

\* No provider receives more default traffic than ceil(max_share * length) of
\* any window, for every share fraction, although explicit sorts fill the same
\* window without asking allows_next.
THEOREM ShareCapHolds == Spec => []DefaultTrafficIsCapped
<1>1. RoutingInv => DefaultTrafficIsCapped
  BY DEF RoutingInv, WindowInv
<1>2. QED
  BY <1>1, InitRoutingInv, NextRoutingInv, PTL DEF Spec

-----------------------------------------------------------------------------
(* Isolation of the profiles.                                              *)

\* What a step may change besides the worker that takes it: the window and the
\* measurements of that worker's profile.
OwnProfileOnly(w) ==
    /\ \A key \in Keys : key[1] # worker[w].key[1] => history'[key] = history[key]
    /\ \A x \in DOMAIN measured : x[1] # worker[w].key[1] => measured'[x] = measured[x]

\* The locked half records in the window of its own key.
LEMMA SelectIsIsolated ==
    ASSUME RoutingInv, NEW w \in Workers, SelectAndRecord(w)
    PROVE  OwnProfileOnly(w)
<1>1. measured' = measured /\ history \in [Keys -> Seq(Providers)]
  BY DEF SelectAndRecord, RoutingInv, WindowInv
<1>2. PICK p : history' = [history EXCEPT ![worker[w].key] = Append(Kept(worker[w].key, @), p)]
  BY DEF SelectAndRecord, Record
<1>3. QED
  BY <1>1, <1>2 DEF OwnProfileOnly

\* An observation is stored under the profile of its request.
LEMMA ServeIsIsolated ==
    ASSUME RoutingInv, NEW w \in Workers, ServeMeasured(w)
    PROVE  OwnProfileOnly(w)
<1>1. history' = history
  BY DEF ServeMeasured
<1>2. PICK i \in DOMAIN worker[w].chain : \E value :
          measured' = [measured EXCEPT ![<<worker[w].key[1], worker[w].chain[i], worker[w].key[2]>>] = value]
  BY DEF ServeMeasured
<1>3. \A x : x[1] # worker[w].key[1] => x # <<worker[w].key[1], worker[w].chain[i], worker[w].key[2]>>
  OBVIOUS
<1>4. QED
  BY <1>1, <1>2, <1>3 DEF OwnProfileOnly

\* A step changes the worker that takes it, and no other.
LEMMA OthersStay ==
    ASSUME RoutingInv, Next
    PROVE  \E v \in Workers :
               /\ \A w \in Workers : w # v => worker'[w] = worker[w]
               /\ \/ UNCHANGED <<history, measured>>
                  \/ SelectAndRecord(v)
                  \/ ServeMeasured(v)
<1>1. worker \in [Workers -> WorkerStates]
  BY DEF RoutingInv, WorkerInv
<1>2. PICK v \in Workers :
          \/ \E r \in Requests :
                 \/ RejectMalformed(v, r)
                 \/ RejectUnknownModel(v, r)
                 \/ RejectIncompatible(v, r)
                 \/ FilterCandidates(v, r)
          \/ SelectAndRecord(v)
          \/ RefuseNoEligible(v)
          \/ ServeMeasured(v)
          \/ ServeUnmeasured(v)
  BY DEF Next
<1>3. \E state : worker' = [worker EXCEPT ![v] = state]
  BY <1>2 DEF RejectMalformed, RejectUnknownModel, RejectIncompatible, FilterCandidates, Refuse,
              SelectAndRecord, RefuseNoEligible, ServeMeasured, ServeUnmeasured
<1>4. \/ UNCHANGED <<history, measured>>
      \/ SelectAndRecord(v)
      \/ ServeMeasured(v)
  BY <1>2 DEF RejectMalformed, RejectUnknownModel, RejectIncompatible, FilterCandidates, Refuse,
              RefuseNoEligible, ServeUnmeasured
<1>5. QED
  BY <1>1, <1>3, <1>4

\* However requests of several profiles interleave, a request changes the share
\* window and the measurements of its own profile only.
THEOREM IsolationHolds == Spec => ProfilesAreIsolated
<1>1. RoutingInv /\ [Next]_vars =>
          [\A w \in Workers : (worker'[w] # worker[w] /\ "key" \in DOMAIN worker[w]) =>
               OwnProfileOnly(w)]_vars
  <2> SUFFICES ASSUME RoutingInv, Next, NEW w \in Workers, worker'[w] # worker[w]
               PROVE  OwnProfileOnly(w)
    OBVIOUS
  <2>1. PICK v \in Workers :
            /\ \A u \in Workers : u # v => worker'[u] = worker[u]
            /\ \/ UNCHANGED <<history, measured>>
               \/ SelectAndRecord(v)
               \/ ServeMeasured(v)
    BY OthersStay
  <2>2. w = v
    BY <2>1
  <2>3. CASE UNCHANGED <<history, measured>>
    BY <2>3 DEF OwnProfileOnly
  <2>4. QED
    BY <2>1, <2>2, <2>3, SelectIsIsolated, ServeIsIsolated
<1>2. Spec => []RoutingInv
  BY InitRoutingInv, NextRoutingInv, PTL DEF Spec
<1>3. QED
  BY <1>1, <1>2, PTL DEF Spec, ProfilesAreIsolated, OwnProfileOnly

-----------------------------------------------------------------------------
(* The weights of the default rule.                                        *)

\* At most one provider is the incumbent: the last of the top entries.
LEMMA OneIncumbent ==
    ASSUME WindowInv, NEW key \in Keys, NEW p \in Incumbents(key), NEW q \in Incumbents(key)
    PROVE  p = q
<1> DEFINE h == history[key]
           Top(x) == \A y \in Providers : counts[key][y] <= counts[key][x]
           last == {j \in DOMAIN h : Top(h[j]) /\ \A l \in DOMAIN h : l > j => ~Top(h[l])}
<1>1. \A j \in DOMAIN h : j \in Nat
  BY DEF WindowInv
<1>2. Incumbents(key) = {h[i] : i \in last}
  BY DEF Incumbents
<1>3. PICK i \in last : p = h[i]
  BY <1>2
<1>4. PICK j \in last : q = h[j]
  BY <1>2
<1> HIDE DEF Top, h
<1>5. ~(i > j) /\ ~(j > i)
  OBVIOUS
<1>6. i \in Nat /\ j \in Nat
  BY <1>1
<1>7. i = j
  BY <1>5, <1>6
<1>8. QED
  BY <1>3, <1>4, <1>7

\* The measured incumbents p competes with.
Rivals(E, key, m, p) == {q \in Incumbents(key) \cap E : q # p /\ Throughput(m, q) > 0}

Challenges(E, key, m, p) ==
    \E q \in Rivals(E, key, m, p) : InBand(Throughput(m, p), Throughput(m, q))

\* A challenger weighs as much as the incumbent it challenges, everybody else
\* as much as its throughput.
LEMMA WeightIs ==
    ASSUME WindowInv, NEW key \in Keys, NEW E, NEW m, NEW p
    PROVE  /\ ~Challenges(E, key, m, p) => Weight(E, key, m, p) = Throughput(m, p)
           /\ \A q \in Rivals(E, key, m, p) :
                  InBand(Throughput(m, p), Throughput(m, q))
                      => Weight(E, key, m, p) = Throughput(m, q)
<1> DEFINE rivals == Rivals(E, key, m, p)
           c == CHOOSE q \in rivals : TRUE
<1>1. Weight(E, key, m, p) = IF Challenges(E, key, m, p) THEN Throughput(m, c) ELSE Throughput(m, p)
  BY DEF Weight, Rivals, Challenges
<1>2. ASSUME NEW q \in rivals, InBand(Throughput(m, p), Throughput(m, q))
      PROVE  Weight(E, key, m, p) = Throughput(m, q)
  <2>1. Challenges(E, key, m, p)
    BY <1>2 DEF Challenges
  <2>2. c \in rivals
    BY <1>2
  <2> HIDE DEF c
  <2>3. c \in Incumbents(key) /\ q \in Incumbents(key)
    BY <1>2, <2>2 DEF Rivals
  <2>4. c = q
    BY <2>3, OneIncumbent
  <2>5. QED
    BY <1>1, <2>1, <2>4
<1>3. QED
  BY <1>1, <1>2

\* The band above an incumbent has no gap.
LEMMA BandIsConvex ==
    ASSUME NEW a \in Nat, NEW b \in Nat, NEW t \in Nat, t < a, a <= b, InBand(b, t)
    PROVE  InBand(a, t)
<1>1. HysteresisDen \in Nat /\ HysteresisNum \in Nat
  BY InputAssumption
<1>2. HysteresisDen * a <= HysteresisDen * b
  BY <1>1, TimesMonotone
<1>3. a * HysteresisDen = HysteresisDen * a /\ b * HysteresisDen = HysteresisDen * b
  BY <1>1
<1>4. t * (HysteresisDen + HysteresisNum) \in Nat
  BY <1>1
<1>5. HysteresisDen * a \in Nat /\ HysteresisDen * b \in Nat
  BY <1>1
<1>6. HysteresisDen * b <= t * (HysteresisDen + HysteresisNum)
  BY <1>3 DEF InBand
<1>7. HysteresisDen * a <= t * (HysteresisDen + HysteresisNum)
  BY <1>2, <1>4, <1>5, <1>6
<1>8. QED
  BY <1>3, <1>7 DEF InBand

\* Nobody is in the band above an incumbent without throughput.
LEMMA NoBandAboveZero ==
    ASSUME NEW a \in Nat
    PROVE  ~InBand(a, 0)
<1>1. HysteresisDen \in Nat \ {0} /\ HysteresisNum \in Nat
  BY InputAssumption
<1> SUFFICES ASSUME a > 0, a * HysteresisDen <= 0 * (HysteresisDen + HysteresisNum)
             PROVE  FALSE
  BY DEF InBand
<1>2. 0 * (HysteresisDen + HysteresisNum) = 0
  BY <1>1
<1>3. a * HysteresisDen > 0
  BY <1>1
<1>4. QED
  BY <1>1, <1>2, <1>3

\* A faster provider weighs no less.
LEMMA WeightMonotone ==
    ASSUME WindowInv, NEW key \in Keys, NEW E, NEW m, NEW p, NEW q \in E, p \in E,
           Throughput(m, p) \in Nat, Throughput(m, q) \in Nat,
           \A r \in E : Throughput(m, r) \in Nat,
           Throughput(m, p) <= Throughput(m, q)
    PROVE  Weight(E, key, m, p) <= Weight(E, key, m, q)
<1> DEFINE T(r) == Throughput(m, r)
           W(r) == Weight(E, key, m, r)
<1> HIDE DEF T, W
<1>0. /\ T(p) \in Nat /\ T(q) \in Nat /\ T(p) <= T(q) /\ (\A r \in E : T(r) \in Nat)
  BY DEF T
<1>a. ASSUME NEW r PROVE ~Challenges(E, key, m, r) => W(r) = T(r)
  BY WeightIs DEF W, T
<1>b. ASSUME NEW r, NEW i \in Rivals(E, key, m, r), InBand(T(r), T(i))
      PROVE  W(r) = T(i) /\ T(i) \in Nat /\ T(i) < T(r)
  <2>1. W(r) = T(i)
    BY <1>b, WeightIs DEF W, T
  <2>2. i \in E
    BY <1>b DEF Rivals
  <2>3. T(i) \in Nat
    BY <1>0, <2>2
  <2>4. T(i) < T(r)
    BY <1>b DEF InBand
  <2>5. QED
    BY <2>1, <2>3, <2>4
<1>1. CASE ~Challenges(E, key, m, p) /\ ~Challenges(E, key, m, q)
  <2>1. W(p) = T(p) /\ W(q) = T(q)
    BY <1>1, <1>a
  <2>2. QED
    BY <1>0, <2>1 DEF W
<1>2. CASE Challenges(E, key, m, p) /\ ~Challenges(E, key, m, q)
  <2>1. PICK i \in Rivals(E, key, m, p) : InBand(T(p), T(i))
    BY <1>2 DEF Challenges, T
  <2>2. W(p) = T(i) /\ T(i) \in Nat /\ T(i) < T(p) /\ W(q) = T(q)
    BY <1>2, <1>a, <1>b, <2>1
  <2>3. W(p) <= W(q)
    BY <1>0, <2>2
  <2>4. QED
    BY <2>3 DEF W
<1>3. CASE Challenges(E, key, m, p) /\ Challenges(E, key, m, q)
  <2>1. PICK i \in Rivals(E, key, m, p) : InBand(T(p), T(i))
    BY <1>3 DEF Challenges, T
  <2>2. PICK j \in Rivals(E, key, m, q) : InBand(T(q), T(j))
    BY <1>3 DEF Challenges, T
  <2>3. i \in Incumbents(key) /\ j \in Incumbents(key)
    BY DEF Rivals
  <2>4. i = j
    BY <2>3, OneIncumbent
  <2>5. W(p) = T(i) /\ W(q) = T(i) /\ T(i) \in Nat
    BY <1>b, <2>1, <2>2, <2>4
  <2>6. W(p) <= W(q)
    BY <2>5
  <2>7. QED
    BY <2>6 DEF W
<1>4. CASE ~Challenges(E, key, m, p) /\ Challenges(E, key, m, q)
  <2>1. PICK j \in Rivals(E, key, m, q) : InBand(T(q), T(j))
    BY <1>4 DEF Challenges, T
  <2>2. W(q) = T(j) /\ T(j) \in Nat /\ T(j) < T(q) /\ W(p) = T(p)
    BY <1>4, <1>a, <1>b, <2>1
  <2>3. T(p) <= T(j)
    <3>1. CASE p = j
      BY <1>0, <3>1
    <3>2. CASE p # j
      <4> SUFFICES ASSUME T(j) < T(p) PROVE FALSE
        BY <1>0, <2>2
      <4>1. InBand(T(p), T(j))
        BY <1>0, <2>1, <2>2, BandIsConvex
      <4>2. j \in Rivals(E, key, m, p)
        BY <3>2 DEF Rivals
      <4>3. QED
        BY <1>4, <4>1, <4>2 DEF Challenges, T
    <3>3. QED
      BY <3>1, <3>2
  <2>4. W(p) <= W(q)
    BY <2>2, <2>3
  <2>5. QED
    BY <2>4 DEF W
<1>5. QED
  BY <1>1, <1>2, <1>3, <1>4 DEF W

\* The hysteresis of select_default never inverts the order of speeds, for any
\* hysteresis fraction, and lets a challenger in its band draw level with the
\* incumbent.
THEOREM WeightsHold == Spec => []WeightsAreMonotone
<1>1. RoutingInv => WeightsAreMonotone
  <2> SUFFICES ASSUME RoutingInv, NEW key \in Keys
               PROVE  LET m == [p \in Providers |-> GetFor(key[1], p, key[2])]
                          E == Eligible(Routes[key], key)
                      IN  \A p, q \in E :
                              /\ Throughput(m, p) <= Throughput(m, q)
                                     => Weight(E, key, m, p) <= Weight(E, key, m, q)
                              /\ (q \in Incumbents(key) /\ InBand(Throughput(m, p), Throughput(m, q)))
                                     => Weight(E, key, m, p) = Weight(E, key, m, q)
    BY DEF WeightsAreMonotone
  <2> DEFINE m == [p \in Providers |-> GetFor(key[1], p, key[2])]
             E == Eligible(Routes[key], key)
  <2>1. WindowInv
    BY DEF RoutingInv
  <2>2. \A p \in E : p \in Providers
    BY RegistryAssumption DEF Eligible
  <2>3. \A p \in Providers : Throughput(m, p) \in Nat
    <3>1. ASSUME NEW p \in Providers
          PROVE  m[p] \in Measurements \cup {NotMeasured}
      BY <3>1 DEF RoutingInv, WorkerInv, GetFor, Keys
    <3>2. \A x \in Measurements : x.throughput \in Nat
      BY InputAssumption DEF Measurements, Levels
    <3> HIDE DEF m
    <3>3. QED
      BY <3>1, <3>2 DEF Throughput
  <2> HIDE DEF m, E
  <2>4. ASSUME NEW p \in E, NEW q \in E, Throughput(m, p) <= Throughput(m, q)
        PROVE  Weight(E, key, m, p) <= Weight(E, key, m, q)
    BY <2>1, <2>2, <2>3, <2>4, WeightMonotone
  <2>5. ASSUME NEW p \in E, NEW q \in E, q \in Incumbents(key),
               InBand(Throughput(m, p), Throughput(m, q))
        PROVE  Weight(E, key, m, p) = Weight(E, key, m, q)
    <3>1. Throughput(m, p) \in Nat /\ Throughput(m, q) \in Nat /\ Throughput(m, q) < Throughput(m, p)
      BY <2>2, <2>3, <2>5 DEF InBand
    <3>2. Throughput(m, q) > 0
      <4> SUFFICES ASSUME Throughput(m, q) = 0 PROVE FALSE
        BY <3>1
      <4>1. QED
        BY <2>5, <3>1, NoBandAboveZero
    <3>3. q \in Rivals(E, key, m, p)
      BY <2>5, <3>1, <3>2 DEF Rivals
    <3>4. Weight(E, key, m, p) = Throughput(m, q)
      BY <2>1, <2>5, <3>3, WeightIs
    <3>5. ~Challenges(E, key, m, q)
      BY <2>1, <2>5, OneIncumbent DEF Challenges, Rivals
    <3>6. Weight(E, key, m, q) = Throughput(m, q)
      BY <2>1, <3>5, WeightIs
    <3>7. QED
      BY <3>4, <3>6
  <2>6. QED
    BY <2>4, <2>5 DEF m, E
<1>2. QED
  BY <1>1, InitRoutingInv, NextRoutingInv, PTL DEF Spec

-----------------------------------------------------------------------------
(* The cap leaves a route.                                                 *)

\* The positions of a window held by providers of C.
HeldBy(h, C) == {i \in 1..Len(h) : h[i] \in C}

\* Pigeonhole: if each provider of C holds n positions, they hold n times as
\* many together.  By the least number of providers for which it would fail.
LEMMA Pigeonhole ==
    ASSUME NEW h \in Seq(Providers), NEW n \in Nat,
           NEW C \in SUBSET Providers, IsFiniteSet(C),
           \A p \in C : n <= Cardinality(Occurrences(h, p))
    PROVE  Cardinality(C) * n <= Len(h)
<1> DEFINE Each(D) == \A p \in D : n <= Cardinality(Occurrences(h, p))
           Fails(k) == \E D \in SUBSET Providers :
                           /\ IsFiniteSet(D) /\ Cardinality(D) = k /\ Each(D)
                           /\ ~(k * n <= Cardinality(HeldBy(h, D)))
           Bad == {k \in Nat : Fails(k)}
<1>0. Len(h) \in Nat
  OBVIOUS
<1>1. \A D : /\ HeldBy(h, D) \in SUBSET (1..Len(h))
             /\ IsFiniteSet(HeldBy(h, D)) /\ Cardinality(HeldBy(h, D)) \in Nat
  <2> SUFFICES ASSUME NEW D
               PROVE  /\ HeldBy(h, D) \in SUBSET (1..Len(h))
                      /\ IsFiniteSet(HeldBy(h, D)) /\ Cardinality(HeldBy(h, D)) \in Nat
    OBVIOUS
  <2>1. HeldBy(h, D) \in SUBSET (1..Len(h))
    BY DEF HeldBy
  <2>2. QED
    BY <1>0, <2>1, PositionsFinite
<1>2. Bad = {}
  <2> SUFFICES ASSUME Bad # {} PROVE FALSE
    OBVIOUS
  <2>1. PICK k \in Bad : \A l \in Bad : k <= l
    <3>1. Bad \in SUBSET Nat
      OBVIOUS
    <3> HIDE DEF Bad
    <3>2. QED
      BY <3>1, LeastNatural
  <2>2. PICK D \in SUBSET Providers :
            /\ IsFiniteSet(D) /\ Cardinality(D) = k /\ Each(D)
            /\ ~(k * n <= Cardinality(HeldBy(h, D)))
    BY <2>1
  <2>3. k \in Nat
    BY <2>1
  <2>4. D # {}
    <3> SUFFICES ASSUME D = {} PROVE FALSE
      OBVIOUS
    <3>1. k = 0
      BY <2>2, FS_EmptySet
    <3>2. 0 * n = 0
      OBVIOUS
    <3>3. QED
      BY <1>1, <2>2, <3>1, <3>2
  <2>5. PICK p \in D : TRUE
    BY <2>4
  <2> DEFINE R == D \ {p}
             A == HeldBy(h, R)
             B == Occurrences(h, p)
  <2>6. IsFiniteSet(R) /\ Cardinality(R) = k - 1 /\ R \in SUBSET Providers
    BY <2>2, FS_RemoveElement
  <2>7. k - 1 \in Nat
    BY <2>6, FS_CardinalityType
  <2>8. (k - 1) * n <= Cardinality(A)
    <3>1. k - 1 \notin Bad
      BY <2>1, <2>3, <2>7
    <3>2. ~Fails(k - 1)
      BY <2>7, <3>1
    <3>3. Each(R)
      BY <2>2
    <3>4. QED
      BY <2>6, <3>2, <3>3
  <2>9. IsFiniteSet(B) /\ Cardinality(B) \in Nat
    BY <1>0, OccurrencesArePositions, PositionsFinite
  <2>10. HeldBy(h, D) = A \cup B /\ A \cap B = {}
    BY <2>5 DEF HeldBy, Occurrences
  <2>11. Cardinality(HeldBy(h, D)) = Cardinality(A) + Cardinality(B)
    <3>1. Cardinality(A \cup B) = Cardinality(A) + Cardinality(B) - Cardinality(A \cap B)
      BY <1>1, <2>9, FS_Union
    <3>2. Cardinality(A \cap B) = 0
      BY <2>10, FS_EmptySet
    <3>3. QED
      BY <1>1, <2>9, <2>10, <3>1, <3>2
  <2>12. n <= Cardinality(B)
    BY <2>2, <2>5
  <2>13. Cardinality(A) \in Nat
    BY <1>1
  <2> HIDE DEF A, B
  <2>14. (k - 1) * n \in Nat /\ k * n = (k - 1) * n + n
    BY <2>3, <2>7
  <2>15. k * n <= Cardinality(A) + Cardinality(B)
    BY <2>8, <2>9, <2>12, <2>13, <2>14
  <2>16. QED
    BY <2>2, <2>11, <2>15
<1>3. Cardinality(C) \in Nat
  BY FS_CardinalityType
<1>4. Cardinality(C) * n <= Cardinality(HeldBy(h, C))
  <2>1. Cardinality(C) \notin Bad
    BY <1>2
  <2>2. ~Fails(Cardinality(C))
    BY <1>3, <2>1
  <2>3. QED
    BY <2>2
<1>5. Cardinality(HeldBy(h, C)) <= Len(h)
  <2>1. IsFiniteSet(1..Len(h)) /\ Cardinality(1..Len(h)) = Len(h)
    BY <1>0, FS_Interval
  <2>2. QED
    BY <1>1, <2>1, FS_Subset
<1>6. QED
  BY <1>0, <1>1, <1>3, <1>4, <1>5

\* The quota covers the fraction it is rounded up from.
LEMMA QuotaCovers ==
    ASSUME NEW len \in Nat
    PROVE  Quota(len) \in Nat /\ ShareNum * len <= ShareDen * Quota(len)
<1>1. ShareNum \in Nat /\ ShareDen \in Nat \ {0}
  BY ShareAssumption
<1> DEFINE x == ShareNum * len
           d == ShareDen
           q == (x + d - 1) \div d
<1>2. x \in Nat /\ x + d - 1 \in Nat /\ d \in Nat /\ d > 0
  BY <1>1
<1> HIDE DEF x, d
<1>3. q \in Nat /\ x + d - 1 < d * q + d
  <2> DEFINE y == x + d - 1
  <2>1. y \in Nat
    BY <1>2
  <2> HIDE DEF y
  <2>2. y \div d \in Nat /\ y < d * (y \div d) + d
    <3>1. y \div d \in Int /\ y \div d >= 0
      BY <1>2, <2>1
    <3>2. y < d * (y \div d) + d
      BY <1>2, <2>1
    <3>3. QED
      BY <3>1, <3>2
  <2>3. QED
    BY <2>2 DEF y
<1>4. Quota(len) = q
  BY DEF Quota, x, d
<1> HIDE DEF q
<1>5. x <= d * q
  <2>1. d * q \in Nat
    BY <1>2, <1>3
  <2>2. QED
    BY <1>2, <1>3, <2>1
<1>6. QED
  BY <1>3, <1>4, <1>5 DEF x, d

\* The arithmetic of the wedge: c providers with max_share of 1/c or more, each
\* at its quota, would need more positions than the window has.
LEMMA NoRoomForAll ==
    ASSUME NEW c \in Nat, NEW q \in Nat, NEW len \in Nat, NEW num \in Nat, NEW den \in Nat \ {0},
           num * len <= den * q, den <= c * num
    PROVE  len <= c * q
<1>1. c * (num * len) <= c * (den * q)
  <2> DEFINE a == num * len
             b == den * q
  <2>1. a \in Nat /\ b \in Nat /\ a <= b
    OBVIOUS
  <2> HIDE DEF a, b
  <2>2. c * a <= c * b
    BY <2>1, TimesMonotone
  <2>3. QED
    BY <2>2 DEF a, b
<1>2. len * den <= len * (c * num)
  <2> DEFINE b == c * num
  <2>1. b \in Nat /\ den <= b
    OBVIOUS
  <2> HIDE DEF b
  <2>2. len * den <= len * b
    BY <2>1, TimesMonotone
  <2>3. QED
    BY <2>2 DEF b
<1>3. len * (c * num) = c * (num * len) /\ c * (den * q) = den * (c * q) /\ len * den = den * len
  BY SMT
<1>4. /\ den * len \in Nat /\ den * (c * q) \in Nat /\ c * q \in Nat
      /\ c * (num * len) \in Nat
  OBVIOUS
<1>5. den * len <= den * (c * q)
  BY <1>1, <1>2, <1>3, <1>4
<1>6. QED
  <2> DEFINE b == c * q
  <2>1. b \in Nat /\ den * len <= den * b
    BY <1>4, <1>5
  <2> HIDE DEF b
  <2>2. ~(b < len)
    <3> SUFFICES ASSUME b < len PROVE FALSE
      OBVIOUS
    <3>1. b + 1 <= len /\ b + 1 \in Nat
      BY <2>1
    <3>2. den * (b + 1) <= den * len
      BY <3>1, TimesMonotone
    <3>3. den * (b + 1) = den * b + den
      BY <2>1
    <3>4. QED
      BY <2>1, <3>2, <3>3
  <2>3. len <= b
    BY <2>1, <2>2
  <2>4. QED
    BY <2>3 DEF b

\* What allows_next counts is what the window holds once its oldest entry has
\* made room.
LEMMA RemainingWindow ==
    ASSUME WindowInv, NEW key \in Keys
    PROVE  /\ Kept(key, history[key]) \in Seq(Providers)
           /\ Len(Kept(key, history[key])) = NextLen(key) - 1
           /\ NextLen(key) \in Nat
           /\ \A p \in Providers :
                  /\ counts[key][p] - ExpiredMatches(key, p)
                         = Cardinality(Occurrences(Kept(key, history[key]), p))
                  /\ counts[key][p] \in Nat /\ ExpiredMatches(key, p) \in Nat
<1> DEFINE h == history[key]
           c == counts[key]
<1>1. WindowOK(h, origin[key], c)
  BY WindowByWindow
<1>2. /\ h \in Seq(Providers) /\ Len(h) \in Nat /\ Len(h) <= ShareWindow
      /\ c \in [Providers -> Nat]
      /\ \A p \in Providers : c[p] = Cardinality(Occurrences(h, p))
  BY <1>1 DEF WindowOK
<1>3. ShareWindow \in Nat \ {0}
  BY ShareAssumption
<1>4. CASE Full(key)
  <2>1. Len(h) = ShareWindow /\ Kept(key, h) = Tail(h)
    BY <1>4 DEF Full, Kept
  <2>2. NextLen(key) = ShareWindow
    BY <1>2, <1>3, <2>1 DEF NextLen, Min2
  <2>3. \A p \in Providers : ExpiredMatches(key, p) = IF Head(h) = p THEN 1 ELSE 0
    BY <1>4 DEF ExpiredMatches
  <2>4. ASSUME NEW p \in Providers
        PROVE  /\ Tail(h) \in Seq(Providers) /\ Len(Tail(h)) = ShareWindow - 1
               /\ Cardinality(Occurrences(Tail(h), p)) = c[p] - (IF Head(h) = p THEN 1 ELSE 0)
    BY <1>1, <2>1, <2>4, ExpireKeepsCounts
  <2>5. Tail(h) \in Seq(Providers) /\ Len(Tail(h)) = ShareWindow - 1
    <3>1. h # <<>>
      BY <1>2, <1>3, <2>1
    <3>2. QED
      BY <1>2, <2>1, <3>1
  <2>6. QED
    BY <1>2, <1>3, <2>1, <2>2, <2>3, <2>4, <2>5
<1>5. CASE ~Full(key)
  <2>1. Len(h) < ShareWindow /\ Kept(key, h) = h
    BY <1>2, <1>3, <1>5 DEF Full, Kept
  <2>2. NextLen(key) = Len(h) + 1
    BY <1>2, <1>3, <2>1 DEF NextLen, Min2
  <2>3. \A p \in Providers : ExpiredMatches(key, p) = 0
    BY <1>5 DEF ExpiredMatches
  <2>4. QED
    BY <1>2, <2>1, <2>2, <2>3
<1>6. QED
  BY <1>4, <1>5

\* Default traffic is never left without a route by the cap, whatever explicit
\* sorts put into the window, as long as max_share times the number of
\* affordable providers is one or more.
THEOREM CapNeverWedges == Spec => []EnoughProvidersNeverWedge
<1>1. RoutingInv => EnoughProvidersNeverWedge
  <2> SUFFICES ASSUME RoutingInv, NEW key \in Keys,
                      NEW C \in SUBSET {p \in Routes[key] : Price[<<p, key[2]>>] <= PriceCeiling},
                      Cardinality(C) * ShareNum >= ShareDen,
                      \A p \in C : ~AllowsNext(key, p)
               PROVE  FALSE
    BY DEF EnoughProvidersNeverWedge
  <2> DEFINE h == Kept(key, history[key])
             len == NextLen(key)
             q == Quota(len)
  <2>1. WindowInv /\ C \in SUBSET Providers /\ IsFiniteSet(C)
    <3>1. C \in SUBSET Providers
      BY RegistryAssumption
    <3>2. QED
      BY <3>1, RegistryAssumption, FS_Subset DEF RoutingInv
  <2>2. /\ h \in Seq(Providers) /\ Len(h) = len - 1 /\ len \in Nat
        /\ \A p \in Providers :
               /\ counts[key][p] - ExpiredMatches(key, p) = Cardinality(Occurrences(h, p))
               /\ counts[key][p] \in Nat /\ ExpiredMatches(key, p) \in Nat
    BY <2>1, RemainingWindow
  <2>3. q \in Nat /\ ShareNum * len <= ShareDen * q
    BY <2>2, QuotaCovers
  <2>4. ASSUME NEW p \in C
        PROVE  q <= Cardinality(Occurrences(h, p))
    <3>1. ~(counts[key][p] + 1 - ExpiredMatches(key, p) <= q)
      BY <2>4 DEF AllowsNext
    <3>2. /\ counts[key][p] \in Nat /\ ExpiredMatches(key, p) \in Nat
          /\ counts[key][p] - ExpiredMatches(key, p) = Cardinality(Occurrences(h, p))
      BY <2>1, <2>2
    <3>3. QED
      BY <2>3, <3>1, <3>2
  <2> HIDE DEF h, len, q
  <2>5. Cardinality(C) * q <= Len(h)
    BY <2>1, <2>2, <2>3, <2>4, Pigeonhole
  <2>6. Cardinality(C) \in Nat
    BY <2>1, FS_CardinalityType
  <2>7. len <= Cardinality(C) * q
    <3>1. ShareNum \in Nat /\ ShareDen \in Nat \ {0} /\ ShareDen <= Cardinality(C) * ShareNum
      BY <2>6, ShareAssumption
    <3>2. QED
      BY <2>2, <2>3, <2>6, <3>1, NoRoomForAll
  <2>8. Cardinality(C) * q \in Nat
    BY <2>3, <2>6
  <2>9. QED
    BY <2>2, <2>5, <2>7, <2>8
<1>2. QED
  BY <1>1, InitRoutingInv, NextRoutingInv, PTL DEF Spec

-----------------------------------------------------------------------------
(* The order of a decision's providers.                                    *)

\* m measures at least the providers of C.
Measures(m, C) == \A p \in C : m[p] \in Measurements \cup {NotMeasured}

\* A provider has a positive weight exactly if it has throughput.
LEMMA PositiveWeight ==
    ASSUME NEW E, NEW key, NEW m, Measures(m, E), NEW p \in E
    PROVE  Weight(E, key, m, p) > 0 <=> Throughput(m, p) > 0
<1>1. \A q \in E : Throughput(m, q) \in Nat
  <2>1. \A x \in Measurements : x.throughput \in Nat
    BY InputAssumption DEF Measurements, Levels
  <2>2. QED
    BY <2>1 DEF Measures, Throughput
<1> DEFINE rivals == Rivals(E, key, m, p)
           c == CHOOSE q \in rivals : TRUE
<1>2. Weight(E, key, m, p) = IF Challenges(E, key, m, p) THEN Throughput(m, c) ELSE Throughput(m, p)
  BY DEF Weight, Rivals, Challenges
<1>3. CASE Challenges(E, key, m, p)
  <2>1. PICK q \in rivals : InBand(Throughput(m, p), Throughput(m, q))
    BY <1>3 DEF Challenges
  <2>2. Throughput(m, q) \in Nat /\ Throughput(m, p) > Throughput(m, q)
    BY <1>1, <2>1 DEF Rivals, InBand
  <2>3. Throughput(m, p) > 0
    BY <1>1, <2>2
  <2>4. c \in rivals
    BY <2>1
  <2>5. Throughput(m, c) > 0
    BY <2>4 DEF Rivals
  <2>6. QED
    BY <1>2, <1>3, <2>3, <2>5
<1>4. CASE ~Challenges(E, key, m, p)
  BY <1>2, <1>4
<1>5. QED
  BY <1>3, <1>4

\* select_default: somebody is selected if anybody is eligible, and whoever is
\* selected goes before everybody else who is.
LEMMA DefaultSelection ==
    ASSUME NEW C \in SUBSET Providers, NEW key, NEW m, Measures(m, C)
    PROVE  /\ SelectDefault(C, key, m) = {} => Eligible(C, key) = {}
           /\ \A p \in SelectDefault(C, key, m) :
                  /\ p \in Eligible(C, key)
                  /\ \A q \in Eligible(C, key) \ {p} :
                         \/ Throughput(m, p) > 0
                         \/ Throughput(m, q) = 0 /\ Rank[p] < Rank[q]
<1> DEFINE E == Eligible(C, key)
           picked == WeightedPick(E, key, m)
<1>1. E \in SUBSET C /\ E \in SUBSET Providers /\ Measures(m, E)
  BY DEF Eligible, Measures
<1>2. Rank \in [Providers -> Nat] /\ \A p, q \in Providers : p # q => Rank[p] # Rank[q]
  BY RegistryAssumption
<1>3. SelectDefault(C, key, m) = IF picked # {} THEN picked ELSE StrictPriority(E)
  BY DEF SelectDefault
<1>4. picked = {p \in E : Throughput(m, p) > 0}
  <2> HIDE DEF E
  <2>1. \A p \in E : Weight(E, key, m, p) > 0 <=> Throughput(m, p) > 0
    BY <1>1, PositiveWeight
  <2>2. QED
    BY <2>1 DEF WeightedPick
<1>5. \A p \in E : Throughput(m, p) \in Nat
  <2>1. \A x \in Measurements : x.throughput \in Nat
    BY InputAssumption DEF Measurements, Levels
  <2>2. QED
    BY <1>1, <2>1 DEF Measures, Throughput
<1> HIDE DEF E, picked
<1>6. E # {} => StrictPriority(E) # {}
  <2> SUFFICES ASSUME E # {} PROVE StrictPriority(E) # {}
    OBVIOUS
  <2> DEFINE f == [p \in E |-> Rank[p]]
  <2>1. f \in [E -> Nat]
    BY <1>1, <1>2
  <2>2. PICK x \in E : \A y \in E : f[x] <= f[y]
    BY <2>1, LeastElement
  <2>3. x \in StrictPriority(E)
    BY <2>2 DEF StrictPriority
  <2>4. QED
    BY <2>3
<1>7. SelectDefault(C, key, m) = {} => E = {}
  BY <1>3, <1>6
<1>8. ASSUME NEW p \in SelectDefault(C, key, m)
      PROVE  /\ p \in E
             /\ \A q \in E \ {p} : \/ Throughput(m, p) > 0
                                   \/ Throughput(m, q) = 0 /\ Rank[p] < Rank[q]
  <2>1. CASE picked # {}
    BY <1>3, <1>4, <1>8, <2>1
  <2>2. CASE picked = {}
    <3>1. p \in StrictPriority(E)
      BY <1>3, <1>8, <2>2
    <3>2. p \in E /\ \A q \in E : Rank[p] <= Rank[q]
      BY <3>1 DEF StrictPriority
    <3>3. ASSUME NEW q \in E, q # p
          PROVE  Throughput(m, q) = 0 /\ Rank[p] < Rank[q]
      <4>1. ~(Throughput(m, q) > 0) /\ Throughput(m, q) \in Nat
        BY <1>4, <1>5, <2>2, <3>3
      <4>2. Rank[p] \in Nat /\ Rank[q] \in Nat /\ Rank[p] # Rank[q] /\ Rank[p] <= Rank[q]
        BY <1>1, <1>2, <3>2, <3>3
      <4>3. QED
        BY <4>1, <4>2
    <3>4. QED
      BY <3>2, <3>3
  <2>3. QED
    BY <2>1, <2>2
<1>9. QED
  BY <1>7, <1>8 DEF E

\* The explicit sorts: somebody comes before all others in any set.
LEMMA SortedSelection ==
    ASSUME NEW C \in SUBSET Providers, NEW pref \in Sorts, NEW key \in Keys, NEW m, Measures(m, C),
           SelectSorted(C, pref, key, m) = {}
    PROVE  C = {}
<1> SUFFICES ASSUME C # {} PROVE FALSE
  OBVIOUS
<1> DEFINE K(p) == SortKey(pref, key, m, p)
<1>1. ASSUME NEW p \in C
      PROVE  K(p) \in Int /\ K(p) + MaxLevel \in Nat
  <2>1. Price[<<p, key[2]>>] \in Nat /\ MaxLevel \in Nat
    BY <1>1, RegistryAssumption, InputAssumption DEF Keys
  <2>2. m[p] # NotMeasured => m[p].throughput \in 0..MaxLevel /\ m[p].ttft \in 0..MaxLevel
    BY <1>1 DEF Measures, Measurements, Levels
  <2>3. CASE pref = "price"
    BY <2>1, <2>3 DEF SortKey
  <2>4. CASE pref = "throughput"
    <3>1. K(p) = IF m[p] = NotMeasured THEN 1 ELSE -m[p].throughput
      BY <2>4 DEF SortKey
    <3>2. QED
      BY <2>1, <2>2, <3>1
  <2>5. CASE pref = "latency"
    <3>1. K(p) = IF m[p] = NotMeasured THEN MaxLevel + 1 ELSE m[p].ttft
      BY <2>5 DEF SortKey
    <3>2. QED
      BY <2>1, <2>2, <3>1
  <2>6. QED
    BY <2>3, <2>4, <2>5 DEF Sorts
<1>2. \A p, q \in C : Before(pref, key, m, p, q) <=> K(p) < K(q) \/ (K(p) = K(q) /\ Rank[p] < Rank[q])
  BY DEF Before
<1> HIDE DEF K
<1>3. Rank \in [Providers -> Nat] /\ \A p, q \in Providers : p # q => Rank[p] # Rank[q]
  BY RegistryAssumption
<1>4. PICK x1 \in C : \A p \in C : K(x1) + MaxLevel <= K(p) + MaxLevel
  <2> DEFINE f == [p \in C |-> K(p) + MaxLevel]
  <2>1. f \in [C -> Nat]
    BY <1>1
  <2>2. \E x \in C : \A y \in C : f[x] <= f[y]
    BY <2>1, LeastElement
  <2>3. QED
    BY <2>2
<1>5. \A p \in C : K(x1) <= K(p)
  <2>1. MaxLevel \in Nat
    BY InputAssumption
  <2>2. QED
    BY <1>1, <1>4, <2>1
<1> DEFINE S == {p \in C : K(p) = K(x1)}
<1>6. PICK x2 \in S : \A p \in S : Rank[x2] <= Rank[p]
  <2> DEFINE f == [p \in S |-> Rank[p]]
  <2>1. f \in [S -> Nat] /\ S # {}
    BY <1>3
  <2> HIDE DEF S
  <2>2. \E x \in S : \A y \in S : f[x] <= f[y]
    BY <2>1, LeastElement
  <2>3. QED
    BY <2>2
<1>7. ASSUME NEW q \in C \ {x2}
      PROVE  Before(pref, key, m, x2, q)
  <2>1. K(x2) = K(x1) /\ x2 \in C
    BY <1>6
  <2>2. CASE q \in S
    <3>1. Rank[x2] <= Rank[q] /\ Rank[x2] # Rank[q] /\ Rank[x2] \in Nat /\ Rank[q] \in Nat
      BY <1>3, <1>6, <1>7, <2>1, <2>2
    <3>2. Rank[x2] < Rank[q] /\ K(x2) = K(q)
      BY <2>1, <2>2, <3>1
    <3>3. QED
      BY <1>2, <1>7, <2>1, <3>2
  <2>3. CASE q \notin S
    <3>1. K(q) # K(x1) /\ K(x1) <= K(q) /\ K(q) \in Int /\ K(x1) \in Int
      BY <1>1, <1>5, <1>7, <2>3
    <3>2. K(x2) < K(q)
      BY <2>1, <3>1
    <3>3. QED
      BY <1>2, <1>7, <2>1, <3>2
  <2>4. QED
    BY <2>2, <2>3
<1>8. x2 \in SelectSorted(C, pref, key, m)
  BY <1>7 DEF SelectSorted
<1>9. QED
  BY <1>8

Earlier(chain, i) == {chain[j] : j \in 1..(i - 1)}

\* The selected provider and the fallback plan are one loop: each provider is
\* selected from what the ones before it leave, until nothing is selected.
LEMMA ChainOfPlan ==
    ASSUME NEW C \in SUBSET Providers, NEW pref, NEW key, NEW m,
           NEW p \in SelectRoute(C, pref, key, m),
           NEW s \in FallbackPlans(C \ {p}, pref, key, m)
    PROVE  LET chain == <<p>> \o s
           IN  /\ \A i \in DOMAIN chain :
                      /\ i \in Nat /\ i > 0 /\ 1..(i - 1) \subseteq DOMAIN chain
                      /\ chain[i] \in SelectRoute(C \ Earlier(chain, i), pref, key, m)
               /\ SelectRoute(C \ SeqRange(chain), pref, key, m) = {}
<1> DEFINE chain == <<p>> \o s
<1>1. PICK n \in 0..Cardinality(C \ {p}) : s \in [1..n -> C \ {p}]
  BY DEF FallbackPlans
<1>2. n \in Nat /\ s \in Seq(Providers) /\ Len(s) = n
  <2>1. n \in Nat
    BY <1>1
  <2>2. QED
    BY <1>1, <2>1
<1>3. p \in Providers
  BY SelectedIsCandidate
<1>4. /\ DOMAIN chain = 1..(n + 1)
      /\ chain[1] = p
      /\ \A i \in 1..n : chain[i + 1] = s[i]
      /\ \A i \in 2..(n + 1) : chain[i] = s[i - 1] /\ i - 1 \in 1..n
  BY <1>2, <1>3
<1>5. /\ \A i \in 1..n : s[i] \in SelectRoute((C \ {p}) \ {s[j] : j \in 1..(i - 1)}, pref, key, m)
      /\ SelectRoute((C \ {p}) \ SeqRange(s), pref, key, m) = {}
  BY <1>1 DEF FallbackPlans
<1> HIDE DEF chain
<1>6. ASSUME NEW i \in DOMAIN chain
      PROVE  /\ i \in Nat /\ i > 0 /\ 1..(i - 1) \subseteq DOMAIN chain
             /\ chain[i] \in SelectRoute(C \ Earlier(chain, i), pref, key, m)
  <2>1. i \in 1..(n + 1) /\ i \in Nat /\ i > 0 /\ 1..(i - 1) \subseteq DOMAIN chain
    BY <1>2, <1>4, <1>6
  <2>2. CASE i = 1
    <3>1. 1..(i - 1) = {}
      BY <2>2
    <3>2. Earlier(chain, i) = {}
      BY <3>1 DEF Earlier
    <3>3. C \ Earlier(chain, i) = C
      BY <3>2
    <3>4. QED
      BY <1>4, <2>1, <2>2, <3>3
  <2>3. CASE i # 1
    <3> DEFINE k == i - 1
    <3>1. k \in 1..n /\ chain[i] = s[k]
      BY <1>2, <1>4, <2>1, <2>3
    <3>2. Earlier(chain, i) = {p} \cup {s[j] : j \in 1..(k - 1)}
      <4>1. ASSUME NEW j \in 1..(i - 1)
            PROVE  chain[j] \in {p} \cup {s[l] : l \in 1..(k - 1)}
        <5>1. CASE j = 1
          BY <1>4, <5>1
        <5>2. CASE j # 1
          <6>1. j \in 2..(n + 1) /\ j - 1 \in 1..(k - 1)
            BY <1>2, <2>1, <4>1, <5>2
          <6>2. QED
            BY <1>4, <6>1
        <5>3. QED
          BY <5>1, <5>2
      <4>2. p \in Earlier(chain, i)
        <5>1. 1 \in 1..(i - 1)
          BY <2>1, <2>3
        <5>2. QED
          BY <1>4, <5>1 DEF Earlier
      <4>3. ASSUME NEW j \in 1..(k - 1)
            PROVE  s[j] \in Earlier(chain, i)
        <5>1. j \in 1..n /\ j + 1 \in 1..(i - 1)
          BY <1>2, <2>1, <4>3
        <5>2. QED
          BY <1>4, <5>1 DEF Earlier
      <4>4. QED
        BY <4>1, <4>2, <4>3 DEF Earlier
    <3> HIDE DEF k
    <3>3. (C \ {p}) \ {s[j] : j \in 1..(k - 1)} = C \ Earlier(chain, i)
      BY <3>2
    <3>4. s[k] \in SelectRoute((C \ {p}) \ {s[j] : j \in 1..(k - 1)}, pref, key, m)
      BY <1>5, <3>1
    <3>5. QED
      BY <2>1, <3>1, <3>3, <3>4
  <2>4. QED
    BY <2>2, <2>3
<1>7. SelectRoute(C \ SeqRange(chain), pref, key, m) = {}
  <2>1. SeqRange(chain) = {p} \cup SeqRange(s)
    <3>1. ASSUME NEW i \in DOMAIN chain
          PROVE  chain[i] \in {p} \cup SeqRange(s)
      <4>1. CASE i = 1
        BY <1>4, <4>1
      <4>2. CASE i # 1
        <5>1. i \in 2..(n + 1)
          BY <1>2, <1>4, <3>1, <4>2
        <5>2. QED
          BY <1>1, <1>4, <5>1 DEF SeqRange
      <4>3. QED
        BY <4>1, <4>2
    <3>2. p \in SeqRange(chain)
      <4>1. 1 \in 1..(n + 1)
        BY <1>2
      <4>2. QED
        BY <1>4, <4>1 DEF SeqRange
    <3>3. ASSUME NEW i \in DOMAIN s
          PROVE  s[i] \in SeqRange(chain)
      <4>1. i \in 1..n /\ i + 1 \in 1..(n + 1)
        BY <1>1, <1>2, <3>3
      <4>2. QED
        BY <1>4, <4>1 DEF SeqRange
    <3>4. QED
      BY <3>1, <3>2, <3>3 DEF SeqRange
  <2>2. (C \ {p}) \ SeqRange(s) = C \ SeqRange(chain)
    BY <2>1
  <2>3. QED
    BY <1>5, <2>2
<1>8. QED
  BY <1>6, <1>7 DEF chain

\* What ChainIsRanked says of one decision.
Ranked(chain, pref, key, m) ==
    LET Precedes(p, q) ==
            IF pref = "default"
            THEN \/ Throughput(m, p) > 0
                 \/ Throughput(m, q) = 0 /\ Rank[p] < Rank[q]
            ELSE Before(pref, key, m, p, q)
    IN  /\ \A i, j \in DOMAIN chain : i < j => chain[i] # chain[j]
        /\ SeqRange(chain) = IF pref = "default" THEN Eligible(DOMAIN m, key) ELSE DOMAIN m
        /\ \A i, j \in DOMAIN chain : i < j => Precedes(chain[i], chain[j])

\* The loop of route_for_endpoint ranks every decision it makes.
LEMMA PlanIsRanked ==
    ASSUME NEW key \in Keys, NEW pref \in Preferences, NEW m,
           DOMAIN m \in SUBSET Providers, Measures(m, DOMAIN m),
           NEW p \in SelectRoute(DOMAIN m, pref, key, m),
           NEW s \in FallbackPlans(DOMAIN m \ {p}, pref, key, m)
    PROVE  Ranked(<<p>> \o s, pref, key, m)
<1> DEFINE C == DOMAIN m
           chain == <<p>> \o s
           Left(i) == C \ Earlier(chain, i)
           E == Eligible(C, key)
<1>1. /\ \A i \in DOMAIN chain :
             /\ i \in Nat /\ i > 0 /\ 1..(i - 1) \subseteq DOMAIN chain
             /\ chain[i] \in SelectRoute(Left(i), pref, key, m)
      /\ SelectRoute(C \ SeqRange(chain), pref, key, m) = {}
  BY ChainOfPlan
<1> HIDE DEF chain
<1>2. \A D \in SUBSET C : D \in SUBSET Providers /\ Measures(m, D)
  BY DEF Measures
<1>3. \A i \in DOMAIN chain : Left(i) \in SUBSET C /\ chain[i] \in Left(i)
  <2>1. \A i \in DOMAIN chain : chain[i] \in Left(i)
    BY <1>1, SelectedIsCandidate
  <2>2. QED
    BY <2>1
<1>4. ASSUME NEW i \in DOMAIN chain, NEW j \in DOMAIN chain, i < j
      PROVE  chain[i] # chain[j] /\ chain[j] \in Left(i)
  <2>1. i \in Nat /\ j \in Nat /\ i > 0
    BY <1>1
  <2>2. i \in 1..(j - 1) /\ 1..(i - 1) \subseteq 1..(j - 1)
    BY <1>4, <2>1
  <2>3. chain[i] \in Earlier(chain, j) /\ Earlier(chain, i) \subseteq Earlier(chain, j)
    BY <2>2 DEF Earlier
  <2>4. chain[j] \in C /\ chain[j] \notin Earlier(chain, j)
    BY <1>3
  <2>5. QED
    BY <2>3, <2>4
<1>5. CASE pref = "default"
  <2>1. \A D : SelectRoute(D, pref, key, m) = SelectDefault(D, key, m)
    BY <1>5 DEF SelectRoute
  <2>2. \A D \in SUBSET C : Eligible(D, key) = E \cap D
    BY DEF Eligible
  <2>3. ASSUME NEW i \in DOMAIN chain
        PROVE  /\ chain[i] \in E
               /\ \A q \in (E \cap Left(i)) \ {chain[i]} :
                      \/ Throughput(m, chain[i]) > 0
                      \/ Throughput(m, q) = 0 /\ Rank[chain[i]] < Rank[q]
    <3> DEFINE D == Left(i)
               x == chain[i]
    <3>1. D \in SUBSET Providers /\ Measures(m, D) /\ D \in SUBSET C
      BY <1>2, <1>3, <2>3
    <3>2. x \in SelectDefault(D, key, m)
      BY <1>1, <2>1, <2>3
    <3>3. Eligible(D, key) = E \cap D
      BY <2>2, <3>1
    <3> HIDE DEF D, x, E
    <3>4. /\ x \in Eligible(D, key)
          /\ \A q \in Eligible(D, key) \ {x} :
                 \/ Throughput(m, x) > 0
                 \/ Throughput(m, q) = 0 /\ Rank[x] < Rank[q]
      BY <3>1, <3>2, DefaultSelection
    <3>5. QED
      BY <3>3, <3>4 DEF D, x
  <2> HIDE DEF E
  <2>4. E \subseteq SeqRange(chain)
    <3> DEFINE D == C \ SeqRange(chain)
    <3>1. D \in SUBSET Providers /\ Measures(m, D) /\ SelectDefault(D, key, m) = {}
      BY <1>1, <1>2, <2>1
    <3>2. Eligible(D, key) = {}
      BY <3>1, DefaultSelection
    <3>3. E \cap D = {} /\ E \subseteq C
      BY <2>2, <3>2 DEF E, Eligible
    <3>4. QED
      BY <3>3
  <2>5. SeqRange(chain) = E
    BY <2>3, <2>4 DEF SeqRange
  <2>6. ASSUME NEW i \in DOMAIN chain, NEW j \in DOMAIN chain, i < j
        PROVE  \/ Throughput(m, chain[i]) > 0
               \/ Throughput(m, chain[j]) = 0 /\ Rank[chain[i]] < Rank[chain[j]]
    <3>1. chain[j] \in (E \cap Left(i)) \ {chain[i]}
      BY <1>4, <2>3, <2>6
    <3>2. QED
      BY <2>3, <3>1
  <2>7. QED
    BY <1>4, <1>5, <2>5, <2>6 DEF Ranked, E, chain
<1>6. CASE pref # "default"
  <2>1. pref \in Sorts
    BY <1>6 DEF Preferences
  <2>2. \A D : SelectRoute(D, pref, key, m) = SelectSorted(D, pref, key, m)
    BY <1>6 DEF SelectRoute
  <2>3. SeqRange(chain) = C
    <3> DEFINE D == C \ SeqRange(chain)
    <3>1. D \in SUBSET Providers /\ Measures(m, D) /\ SelectSorted(D, pref, key, m) = {}
      BY <1>1, <1>2, <2>2
    <3>2. D = {}
      BY <2>1, <3>1, SortedSelection
    <3>3. SeqRange(chain) \subseteq C
      BY <1>3 DEF SeqRange
    <3>4. QED
      BY <3>2, <3>3
  <2>4. ASSUME NEW i \in DOMAIN chain, NEW j \in DOMAIN chain, i < j
        PROVE  Before(pref, key, m, chain[i], chain[j])
    <3>1. chain[i] \in SelectSorted(Left(i), pref, key, m)
      BY <1>1, <2>2, <2>4
    <3>2. chain[j] \in Left(i) \ {chain[i]}
      BY <1>4, <2>4
    <3>3. QED
      BY <3>1, <3>2 DEF SelectSorted
  <2>5. QED
    BY <1>4, <1>6, <2>3, <2>4 DEF Ranked, chain
<1>7. QED
  BY <1>5, <1>6

\* Every decision names each provider once and tries the right ones in the
\* right order, whatever was measured or recorded between the two halves of
\* the call.
THEOREM ChainsAreRanked == Spec => ChainIsRanked
<1>1. ASSUME RoutingInv, Next, NEW w \in Workers,
             worker[w].phase = "filtered", worker'[w].phase = "routed"
      PROVE  Ranked(worker'[w].chain, worker[w].pref, worker[w].key, worker[w].snapshot)
  <2>1. PICK v \in Workers :
            \/ \E r \in Requests :
                   \/ RejectMalformed(v, r)
                   \/ RejectUnknownModel(v, r)
                   \/ RejectIncompatible(v, r)
                   \/ FilterCandidates(v, r)
            \/ SelectAndRecord(v)
            \/ RefuseNoEligible(v)
            \/ ServeMeasured(v)
            \/ ServeUnmeasured(v)
    BY <1>1 DEF Next
  <2>2. worker \in [Workers -> WorkerStates]
    BY <1>1 DEF RoutingInv, WorkerInv
  <2>3. v = w
    <3>1. \E state : worker' = [worker EXCEPT ![v] = state]
      BY <2>1 DEF RejectMalformed, RejectUnknownModel, RejectIncompatible, FilterCandidates, Refuse,
                  SelectAndRecord, RefuseNoEligible, ServeMeasured, ServeUnmeasured
    <3>2. v # w => worker'[w] = worker[w]
      BY <2>2, <3>1
    <3>3. QED
      BY <1>1, <3>2
  <2>4. SelectAndRecord(w)
    <3>1. \A code : Refuse(w, code) => worker'[w].phase = "refused"
      BY <2>2 DEF Refuse, Refused
    <3>2. ~RefuseNoEligible(w)
      BY <1>1, <3>1 DEF RefuseNoEligible
    <3>3. QED
      BY <1>1, <2>1, <2>3, <3>2 DEF RejectMalformed, RejectUnknownModel, RejectIncompatible,
             FilterCandidates, MayReceive, ServeMeasured, ServeUnmeasured
  <2> DEFINE key == worker[w].key
             pref == worker[w].pref
             m == worker[w].snapshot
  <2>5. key \in Keys /\ pref \in Preferences /\ m \in Snapshots /\ DOMAIN m \in SUBSET Providers
    BY <1>1, FilteredState DEF RoutingInv
  <2>6. PICK p \in SelectRoute(DOMAIN m, pref, key, m) :
            \E s \in FallbackPlans(DOMAIN m \ {p}, pref, key, m) :
                worker' = [worker EXCEPT ![w] = Routed(key, <<p>> \o s)]
    BY <2>4 DEF SelectAndRecord
  <2>7. PICK s \in FallbackPlans(DOMAIN m \ {p}, pref, key, m) :
            worker' = [worker EXCEPT ![w] = Routed(key, <<p>> \o s)]
    BY <2>6
  <2>8. worker'[w].chain = <<p>> \o s
    BY <2>2, <2>7 DEF Routed
  <2>9. Measures(m, DOMAIN m)
    BY <2>5 DEF Snapshots, Measures
  <2> HIDE DEF key, pref, m
  <2>10. Ranked(<<p>> \o s, pref, key, m)
    BY <2>5, <2>9, PlanIsRanked
  <2>11. QED
    BY <2>8, <2>10 DEF key, pref, m
<1>2. RoutingInv /\ [Next]_vars =>
          [\A w \in Workers : (worker[w].phase = "filtered" /\ worker'[w].phase = "routed") =>
               Ranked(worker'[w].chain, worker[w].pref, worker[w].key, worker[w].snapshot)]_vars
  BY <1>1
<1>3. Spec => []RoutingInv
  BY InitRoutingInv, NextRoutingInv, PTL DEF Spec
<1>4. QED
  BY <1>2, <1>3, PTL DEF Spec, ChainIsRanked, Ranked

=============================================================================
