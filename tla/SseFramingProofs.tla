--------------------------- MODULE SseFramingProofs ---------------------------
(***************************************************************************)
(* Proofs about SseFraming for every source, however long, and every way   *)
(* of cutting it into chunks.                                              *)
(***************************************************************************)
EXTENDS SseFraming, SequenceTheorems, WellOrdering, TLAPS

-----------------------------------------------------------------------------
(* Separators, by position.                                                *)

\* A sequence is a suffix when it is found at the end.
LEMMA SuffixIs ==
    ASSUME NEW T, NEW s \in Seq(T), NEW t \in Seq(T)
    PROVE  IsSuffix(s, t) <=>
               /\ Len(s) <= Len(t)
               /\ \A i \in 1..Len(s) : t[Len(t) - Len(s) + i] = s[i]
  <1> DEFINE rs == Reverse(s)
             rt == Reverse(t)
             m == Len(s)
             n == Len(t)
  <1>1. m \in Nat /\ n \in Nat
    OBVIOUS
  <1>2. /\ rs \in Seq(T) /\ Len(rs) = m /\ \A i \in 1..m : rs[i] = s[m - i + 1]
        /\ rt \in Seq(T) /\ Len(rt) = n /\ \A i \in 1..n : rt[i] = t[n - i + 1]
    BY <1>1 DEF Reverse
  <1> HIDE DEF rs, rt
  <1>3. IsSuffix(s, t) <=> m <= n /\ SubSeq(rs, 1, m) = SubSeq(rt, 1, m)
    BY <1>2 DEF IsSuffix, IsPrefix, rs, rt
  <1> SUFFICES ASSUME m <= n
               PROVE  SubSeq(rs, 1, m) = SubSeq(rt, 1, m) <=>
                          \A i \in 1..m : t[n - m + i] = s[i]
    BY <1>3
  <1>4. /\ SubSeq(rs, 1, m) \in Seq(T) /\ Len(SubSeq(rs, 1, m)) = m
        /\ \A i \in 1..m : SubSeq(rs, 1, m)[i] = s[m - i + 1]
    BY <1>1, <1>2, SubSeqFull
  <1>5. /\ SubSeq(rt, 1, m) \in Seq(T) /\ Len(SubSeq(rt, 1, m)) = m
        /\ \A i \in 1..m : SubSeq(rt, 1, m)[i] = t[n - i + 1]
    <2>1. \A i \in 1..m : rt[i] \in T
      BY <1>1, <1>2
    <2>2. /\ SubSeq(rt, 1, m) \in Seq(T)
          /\ Len(SubSeq(rt, 1, m)) = m
          /\ \A i \in 1..m : SubSeq(rt, 1, m)[i] = rt[1 + i - 1]
      BY <1>1, <2>1, SubSeqProperties
    <2>3. \A i \in 1..m : 1 + i - 1 = i /\ i \in 1..n
      BY <1>1
    <2>4. QED
      BY <1>2, <2>2, <2>3
  <1>6. ASSUME SubSeq(rs, 1, m) = SubSeq(rt, 1, m), NEW i \in 1..m
        PROVE  t[n - m + i] = s[i]
    <2>1. PICK j \in 1..m : m - j + 1 = i /\ n - j + 1 = n - m + i
      <3>1. m - i + 1 \in 1..m /\ m - (m - i + 1) + 1 = i /\ n - (m - i + 1) + 1 = n - m + i
        BY <1>1
      <3>2. QED
        BY <3>1
    <2>2. s[m - j + 1] = t[n - j + 1]
      BY <1>4, <1>5, <1>6
    <2>3. QED
      BY <2>1, <2>2
  <1>7. ASSUME \A i \in 1..m : t[n - m + i] = s[i]
        PROVE  SubSeq(rs, 1, m) = SubSeq(rt, 1, m)
    <2>1. ASSUME NEW i \in 1..m
          PROVE  s[m - i + 1] = t[n - i + 1]
      <3>1. m - i + 1 \in 1..m /\ n - m + (m - i + 1) = n - i + 1
        BY <1>1
      <3>2. QED
        BY <1>7, <3>1
    <2>2. QED
      BY <1>4, <1>5, <2>1, SeqEqual
  <1>8. QED
    BY <1>6, <1>7

\* A separator of either kind ends at position i.
LfLfAt(bytes, i) == i >= 2 /\ bytes[i - 1] = "lf" /\ bytes[i] = "lf"

CrLfCrLfAt(bytes, i) ==
    i >= 4 /\ bytes[i - 3] = "cr" /\ bytes[i - 2] = "lf" /\ bytes[i - 1] = "cr" /\ bytes[i] = "lf"

SeparatorAt(bytes, i) == LfLfAt(bytes, i) \/ CrLfCrLfAt(bytes, i)

LEMMA Separators ==
    /\ LfLf \in Seq(Tokens) /\ Len(LfLf) = 2
    /\ CrLfCrLf \in Seq(Tokens) /\ Len(CrLfCrLf) = 4
  BY DEF LfLf, CrLfCrLf, Tokens

\* ends_with finds a separator at the end.
LEMMA SuffixIsSeparator ==
    ASSUME NEW bytes \in Seq(Tokens)
    PROVE  /\ IsSuffix(LfLf, bytes) <=> LfLfAt(bytes, Len(bytes))
           /\ IsSuffix(CrLfCrLf, bytes) <=> CrLfCrLfAt(bytes, Len(bytes))
  <1>1. IsSuffix(LfLf, bytes) <=>
            2 <= Len(bytes) /\ \A i \in 1..2 : bytes[Len(bytes) - 2 + i] = LfLf[i]
    <2>1. IsSuffix(LfLf, bytes) <=>
              /\ Len(LfLf) <= Len(bytes)
              /\ \A i \in 1..Len(LfLf) : bytes[Len(bytes) - Len(LfLf) + i] = LfLf[i]
      BY SuffixIs, Separators
    <2>2. QED
      BY <2>1, Separators
  <1>2. IsSuffix(CrLfCrLf, bytes) <=>
            4 <= Len(bytes) /\ \A i \in 1..4 : bytes[Len(bytes) - 4 + i] = CrLfCrLf[i]
    <2>1. IsSuffix(CrLfCrLf, bytes) <=>
              /\ Len(CrLfCrLf) <= Len(bytes)
              /\ \A i \in 1..Len(CrLfCrLf) : bytes[Len(bytes) - Len(CrLfCrLf) + i] = CrLfCrLf[i]
      BY SuffixIs, Separators
    <2>2. QED
      BY <2>1, Separators
  <1>3. \A i : i \in 1..2 <=> i = 1 \/ i = 2
    OBVIOUS
  <1>4. \A i : i \in 1..4 <=> i = 1 \/ i = 2 \/ i = 3 \/ i = 4
    OBVIOUS
  <1>5. Len(bytes) \in Nat
    OBVIOUS
  <1>6. LfLf[1] = "lf" /\ LfLf[2] = "lf"
    BY DEF LfLf
  <1>7. CrLfCrLf[1] = "cr" /\ CrLfCrLf[2] = "lf" /\ CrLfCrLf[3] = "cr" /\ CrLfCrLf[4] = "lf"
    BY DEF CrLfCrLf
  <1>8. /\ Len(bytes) - 2 + 1 = Len(bytes) - 1 /\ Len(bytes) - 2 + 2 = Len(bytes)
        /\ Len(bytes) - 4 + 1 = Len(bytes) - 3 /\ Len(bytes) - 4 + 2 = Len(bytes) - 2
        /\ Len(bytes) - 4 + 3 = Len(bytes) - 1 /\ Len(bytes) - 4 + 4 = Len(bytes)
    BY <1>5
  <1>9. (\A i \in 1..2 : bytes[Len(bytes) - 2 + i] = LfLf[i]) <=>
            bytes[Len(bytes) - 1] = "lf" /\ bytes[Len(bytes)] = "lf"
    BY <1>3, <1>6, <1>8
  <1>10. (\A i \in 1..4 : bytes[Len(bytes) - 4 + i] = CrLfCrLf[i]) <=>
            /\ bytes[Len(bytes) - 3] = "cr" /\ bytes[Len(bytes) - 2] = "lf"
            /\ bytes[Len(bytes) - 1] = "cr" /\ bytes[Len(bytes)] = "lf"
    BY <1>4, <1>7, <1>8
  <1>11. QED
    BY <1>1, <1>2, <1>5, <1>9, <1>10 DEF LfLfAt, CrLfCrLfAt

\* find_subslice finds every separator.
LEMMA EndsAre ==
    ASSUME NEW bytes \in Seq(Tokens)
    PROVE  EndsOf(bytes, LfLf) \cup EndsOf(bytes, CrLfCrLf) =
               {i \in 1..Len(bytes) : SeparatorAt(bytes, i)}
  <1>1. Len(bytes) \in Nat
    OBVIOUS
  <1>2. ASSUME NEW i \in 2..Len(bytes)
        PROVE  SubSeq(bytes, i - 2 + 1, i) = LfLf <=> LfLfAt(bytes, i)
    <2> DEFINE s == SubSeq(bytes, i - 2 + 1, i)
    <2>1. i - 2 + 1 = i - 1 /\ i - 1 \in 1..Len(bytes) /\ i \in 1..Len(bytes)
      BY <1>1
    <2>2. s \in Seq(Tokens) /\ Len(s) = 2 /\ s[1] = bytes[i - 1] /\ s[2] = bytes[i]
      BY <1>1, <2>1
    <2>3. s = LfLf <=> s[1] = LfLf[1] /\ s[2] = LfLf[2]
      <3> HIDE DEF s
      <3>1. ASSUME s[1] = LfLf[1] /\ s[2] = LfLf[2] PROVE s = LfLf
        <4>1. \A j \in 1..Len(s) : s[j] = LfLf[j]
          BY <2>2, <3>1
        <4>2. QED
          BY <2>2, <4>1, Separators, SeqEqual
      <3>2. QED
        BY <3>1
    <2>4. QED
      BY <2>1, <2>2, <2>3 DEF LfLf, LfLfAt
  <1>3. ASSUME NEW i \in 4..Len(bytes)
        PROVE  SubSeq(bytes, i - 4 + 1, i) = CrLfCrLf <=> CrLfCrLfAt(bytes, i)
    <2> DEFINE s == SubSeq(bytes, i - 4 + 1, i)
    <2>1. i - 4 + 1 = i - 3 /\ i - 3 \in 1..Len(bytes) /\ i \in 1..Len(bytes)
      BY <1>1
    <2>2. /\ s \in Seq(Tokens) /\ Len(s) = 4
          /\ s[1] = bytes[i - 3] /\ s[2] = bytes[i - 2] /\ s[3] = bytes[i - 1] /\ s[4] = bytes[i]
      BY <1>1, <2>1
    <2>3. s = CrLfCrLf <=> /\ s[1] = CrLfCrLf[1] /\ s[2] = CrLfCrLf[2]
                           /\ s[3] = CrLfCrLf[3] /\ s[4] = CrLfCrLf[4]
      <3> HIDE DEF s
      <3>1. ASSUME s[1] = CrLfCrLf[1], s[2] = CrLfCrLf[2], s[3] = CrLfCrLf[3], s[4] = CrLfCrLf[4]
            PROVE  s = CrLfCrLf
        <4>1. \A j \in 1..Len(s) : s[j] = CrLfCrLf[j]
          BY <2>2, <3>1
        <4>2. QED
          BY <2>2, <4>1, Separators, SeqEqual
      <3>2. QED
        BY <3>1
    <2>4. QED
      BY <2>1, <2>2, <2>3 DEF CrLfCrLf, CrLfCrLfAt
  <1>4. EndsOf(bytes, LfLf) = {i \in 2..Len(bytes) : LfLfAt(bytes, i)}
    BY <1>2, Separators DEF EndsOf
  <1>5. EndsOf(bytes, CrLfCrLf) = {i \in 4..Len(bytes) : CrLfCrLfAt(bytes, i)}
    BY <1>3, Separators DEF EndsOf
  <1>6. \A i \in 1..Len(bytes) : /\ LfLfAt(bytes, i) => i \in 2..Len(bytes)
                                 /\ CrLfCrLfAt(bytes, i) => i \in 4..Len(bytes)
    BY <1>1 DEF LfLfAt, CrLfCrLfAt
  <1>7. QED
    BY <1>4, <1>5, <1>6 DEF SeparatorAt

\* next_event_end is the end of the first separator.
LEMMA EventEnd ==
    ASSUME NEW bytes \in Seq(Tokens)
    PROVE  LET end == NextEventEnd(bytes)
           IN  \/ end = 0 /\ \A i \in 1..Len(bytes) : ~SeparatorAt(bytes, i)
               \/ /\ end \in 2..Len(bytes) /\ SeparatorAt(bytes, end)
                  /\ \A i \in 1..(end - 1) : ~SeparatorAt(bytes, i)
  <1> DEFINE ends == EndsOf(bytes, LfLf) \cup EndsOf(bytes, CrLfCrLf)
  <1>1. ends = {i \in 1..Len(bytes) : SeparatorAt(bytes, i)}
    BY EndsAre
  <1>2. NextEventEnd(bytes) = IF ends = {} THEN 0 ELSE Min(ends)
    BY DEF NextEventEnd
  <1> HIDE DEF ends
  <1>3. CASE ends = {}
    BY <1>1, <1>2, <1>3
  <1>4. CASE ends # {}
    <2>1. ends \in SUBSET Nat
      BY <1>1
    <2>2. \E x \in ends : \A y \in ends : x <= y
      BY <1>4, <2>1, LeastNatural
    <2>3. Min(ends) \in ends /\ \A y \in ends : Min(ends) <= y
      BY <2>2 DEF Min
    <2> DEFINE end == Min(ends)
    <2>4. end \in 1..Len(bytes) /\ SeparatorAt(bytes, end)
      BY <1>1, <2>3
    <2>5. end \in 2..Len(bytes)
      BY <2>4 DEF SeparatorAt, LfLfAt, CrLfCrLfAt
    <2>6. ASSUME NEW i \in 1..(end - 1), SeparatorAt(bytes, i)
          PROVE  FALSE
      <3>1. i \in 1..Len(bytes) /\ ~(end <= i)
        BY <2>4
      <3>2. i \in ends
        BY <1>1, <2>6, <3>1
      <3>3. QED
        BY <2>3, <3>1, <3>2
    <2>7. QED
      BY <1>2, <1>4, <2>4, <2>5, <2>6
  <1>5. QED
    BY <1>3, <1>4

\* Whether a separator ends somewhere is decided by the bytes up to there.
LEMMA SeparatorInPrefix ==
    ASSUME NEW bytes \in Seq(Tokens), NEW k \in 0..Len(bytes), NEW i \in 1..k
    PROVE  SeparatorAt(SubSeq(bytes, 1, k), i) <=> SeparatorAt(bytes, i)
  <1> DEFINE s == SubSeq(bytes, 1, k)
  <1>1. Len(bytes) \in Nat
    OBVIOUS
  <1>2. \A j \in 1..k : s[j] = bytes[j]
    BY <1>1
  <1> HIDE DEF s
  <1>3. LfLfAt(s, i) <=> LfLfAt(bytes, i)
    BY <1>1, <1>2 DEF LfLfAt
  <1>4. CrLfCrLfAt(s, i) <=> CrLfCrLfAt(bytes, i)
    BY <1>1, <1>2 DEF CrLfCrLfAt
  <1>5. QED
    BY <1>3, <1>4 DEF SeparatorAt, s

-----------------------------------------------------------------------------
(* An event is read as the reference reads it.                             *)

\* The two accepted shapes of an event.
LEMMA EventShapes ==
    ASSUME NEW event \in Seq(Tokens), NEW x \in Tokens
    PROVE  /\ event = <<"data", x>> \o LfLf <=>
                  /\ Len(event) = 4 /\ event[1] = "data" /\ event[2] = x
                  /\ event[3] = "lf" /\ event[4] = "lf"
           /\ event = <<"data", x>> \o CrLfCrLf <=>
                  /\ Len(event) = 6 /\ event[1] = "data" /\ event[2] = x
                  /\ event[3] = "cr" /\ event[4] = "lf" /\ event[5] = "cr" /\ event[6] = "lf"
  <1> DEFINE line == <<"data", x>>
             a == line \o LfLf
             b == line \o CrLfCrLf
  <1>1. line \in Seq(Tokens) /\ Len(line) = 2 /\ line[1] = "data" /\ line[2] = x
    BY DEF Tokens
  <1>2. /\ LfLf[1] = "lf" /\ LfLf[2] = "lf"
        /\ CrLfCrLf[1] = "cr" /\ CrLfCrLf[2] = "lf" /\ CrLfCrLf[3] = "cr" /\ CrLfCrLf[4] = "lf"
    BY DEF LfLf, CrLfCrLf
  <1> HIDE DEF line
  <1>3. /\ a \in Seq(Tokens) /\ Len(a) = 4
        /\ a[1] = "data" /\ a[2] = x /\ a[3] = "lf" /\ a[4] = "lf"
    <2>1. /\ a \in Seq(Tokens) /\ Len(a) = Len(line) + Len(LfLf)
          /\ \A i \in 1..(Len(line) + Len(LfLf)) :
                 a[i] = IF i <= Len(line) THEN line[i] ELSE LfLf[i - Len(line)]
      BY <1>1, Separators, ConcatProperties
    <2> HIDE DEF a
    <2>2. \A i \in 1..4 : a[i] = IF i <= 2 THEN line[i] ELSE LfLf[i - 2]
      BY <1>1, <2>1, Separators
    <2>3. QED
      BY <1>1, <1>2, <2>1, <2>2, Separators
  <1>4. /\ b \in Seq(Tokens) /\ Len(b) = 6
        /\ b[1] = "data" /\ b[2] = x
        /\ b[3] = "cr" /\ b[4] = "lf" /\ b[5] = "cr" /\ b[6] = "lf"
    <2>1. /\ b \in Seq(Tokens) /\ Len(b) = Len(line) + Len(CrLfCrLf)
          /\ \A i \in 1..(Len(line) + Len(CrLfCrLf)) :
                 b[i] = IF i <= Len(line) THEN line[i] ELSE CrLfCrLf[i - Len(line)]
      BY <1>1, Separators, ConcatProperties
    <2> HIDE DEF b
    <2>2. \A i \in 1..6 : b[i] = IF i <= 2 THEN line[i] ELSE CrLfCrLf[i - 2]
      BY <1>1, <2>1, Separators
    <2>3. QED
      BY <1>1, <1>2, <2>1, <2>2, Separators
  <1> HIDE DEF a, b
  <1>5. event = a <=> /\ Len(event) = 4 /\ event[1] = "data" /\ event[2] = x
                      /\ event[3] = "lf" /\ event[4] = "lf"
    <2>1. ASSUME Len(event) = 4, event[1] = "data", event[2] = x, event[3] = "lf", event[4] = "lf"
          PROVE  event = a
      <3>1. \A i \in 1..Len(event) : event[i] = a[i]
        BY <1>3, <2>1
      <3>2. QED
        BY <1>3, <2>1, <3>1, SeqEqual
    <2>2. QED
      BY <1>3, <2>1
  <1>6. event = b <=> /\ Len(event) = 6 /\ event[1] = "data" /\ event[2] = x
                      /\ event[3] = "cr" /\ event[4] = "lf" /\ event[5] = "cr" /\ event[6] = "lf"
    <2>1. ASSUME Len(event) = 6, event[1] = "data", event[2] = x, event[3] = "cr",
                 event[4] = "lf", event[5] = "cr", event[6] = "lf"
          PROVE  event = b
      <3>1. \A i \in 1..Len(event) : event[i] = b[i]
        BY <1>4, <2>1
      <3>2. QED
        BY <1>4, <2>1, <3>1, SeqEqual
    <2>2. QED
      BY <1>4, <2>1
  <1>7. QED
    BY <1>5, <1>6 DEF a, b, line

\* split_separator and single_data_line accept what the reference spells out.
LEMMA SameMeaning ==
    ASSUME NEW event \in Seq(Tokens), SeparatorAt(event, Len(event))
    PROVE  /\ SingleDataLine(EventBody(event)) = Meaning(event)
           /\ Meaning(event) \in Tokens
  <1> DEFINE n == Len(event)
             d == IF CrLfCrLfAt(event, n) THEN 4 ELSE 2
             body == SubSeq(event, 1, n - d)
             Plain(x) == x \notin {"lf", "cr", "data"}
  <1>1. n \in Nat /\ n >= d /\ d \in {2, 4} /\ (d = 2 => LfLfAt(event, n))
    BY DEF SeparatorAt, LfLfAt, CrLfCrLfAt
  <1>2. EventBody(event) = body
    BY SuffixIsSeparator DEF EventBody
  <1>3. /\ body \in Seq(Tokens) /\ Len(body) = n - d /\ DOMAIN body = 1..(n - d)
        /\ \A i \in 1..(n - d) : body[i] = event[i]
    <2>1. n - d \in 0..n
      BY <1>1
    <2> HIDE DEF d
    <2>2. QED
      BY <2>1
  <1> DEFINE Accepted == n = d + 2 /\ event[1] = "data" /\ Plain(event[2])
  <1>4. SingleDataLine(body) = IF Accepted THEN event[2] ELSE "junk"
    <2> HIDE DEF body, d
    <2>1. CASE n = d + 2
      <3>1. DOMAIN body = 1..2 /\ Len(body) = 2 /\ body[1] = event[1] /\ body[2] = event[2]
        BY <1>1, <1>3, <2>1
      <3>2. (\A i \in DOMAIN body : body[i] \notin {"lf", "cr"}) <=>
                body[1] \notin {"lf", "cr"} /\ body[2] \notin {"lf", "cr"}
        BY <3>1
      <3>3. QED
        BY <2>1, <3>1, <3>2 DEF SingleDataLine
    <2>2. CASE n # d + 2
      <3>1. Len(body) # 2
        BY <1>1, <1>3, <2>2
      <3>2. QED
        BY <2>2, <3>1 DEF SingleDataLine
    <2>3. QED
      BY <2>1, <2>2
  <1>5. ASSUME Accepted
        PROVE  event \in {<<"data", event[2]>> \o sep : sep \in {LfLf, CrLfCrLf}}
    <2>1. event[2] \in Tokens
      BY <1>1, <1>5
    <2>2. CASE d = 2
      <3>1. n = 4 /\ event[3] = "lf" /\ event[4] = "lf"
        BY <1>1, <1>5, <2>2 DEF LfLfAt
      <3>2. QED
        BY <1>5, <2>1, <3>1, EventShapes
    <2>3. CASE d = 4
      <3>1. CrLfCrLfAt(event, n)
        BY <2>3
      <3>2. n = 6 /\ event[3] = "cr" /\ event[4] = "lf" /\ event[5] = "cr" /\ event[6] = "lf"
        <4>1. n = 6 /\ n - 3 = 3 /\ n - 2 = 4 /\ n - 1 = 5
          BY <1>1, <1>5, <2>3
        <4>2. QED
          BY <3>1, <4>1 DEF CrLfCrLfAt
      <3>3. QED
        BY <1>5, <2>1, <3>2, EventShapes
    <2>4. QED
      BY <1>1, <2>2, <2>3
  <1>6. ASSUME event \in {<<"data", event[2]>> \o sep : sep \in {LfLf, CrLfCrLf}},
               Plain(event[2])
        PROVE  Accepted
    <2>1. n >= 2 /\ event[2] \in Tokens
      BY <1>1 DEF SeparatorAt, LfLfAt, CrLfCrLfAt
    <2>2. CASE event = <<"data", event[2]>> \o LfLf
      <3>1. n = 4 /\ event[1] = "data"
        BY <2>1, <2>2, EventShapes
      <3>2. ~CrLfCrLfAt(event, n)
        BY <3>1 DEF CrLfCrLfAt
      <3>3. QED
        BY <1>6, <3>1, <3>2
    <2>3. CASE event = <<"data", event[2]>> \o CrLfCrLf
      <3>1. /\ n = 6 /\ event[1] = "data"
            /\ event[3] = "cr" /\ event[4] = "lf" /\ event[5] = "cr" /\ event[6] = "lf"
        <4>1. PICK x \in Tokens : x = event[2]
          BY <2>1
        <4>2. event = <<"data", x>> \o CrLfCrLf
          BY <2>3, <4>1
        <4>3. QED
          BY <4>2, EventShapes
      <3>2. CrLfCrLfAt(event, n)
        BY <3>1 DEF CrLfCrLfAt
      <3>3. QED
        BY <1>6, <3>1, <3>2
    <2>4. QED
      BY <1>6, <2>2, <2>3
  <1>7. Meaning(event) = IF Accepted THEN event[2] ELSE "junk"
    BY <1>5, <1>6 DEF Meaning
  <1>8. Accepted => event[2] \in Tokens
    BY <1>1
  <1>9. "junk" \in Tokens
    BY DEF Tokens
  <1> HIDE DEF Accepted, body
  <1>10. QED
    BY <1>2, <1>4, <1>7, <1>8, <1>9

-----------------------------------------------------------------------------
(* The states of the reference.                                            *)

Events == Usages \cup {"content", "done", "error"}

MaybeUsage == Usages \cup {Nothing}

ReferenceState ==
    [event : Seq(Tokens), last : MaybeUsage, out : Seq(Events), over : BOOLEAN, billed : MaybeUsage]

ErrorItems == <<"error", "done">>

LEMMA EventItems ==
    /\ \A x \in Events : <<x>> \in Seq(Events)
    /\ ErrorItems \in Seq(Events)
  BY DEF Events, ErrorItems

\* What an event does, case by case.
LEMMA ReferenceEventIs ==
    ASSUME NEW s \in ReferenceState, NEW payload
    PROVE  LET r == ReferenceEvent(s, payload)
           IN  /\ r.event = s.event
               /\ payload \in Usages =>
                      /\ r.last = payload /\ r.out = Append(s.out, payload)
                      /\ r.over = s.over /\ r.billed = s.billed
               /\ payload = "content" =>
                      /\ r.last = s.last /\ r.out = Append(s.out, payload)
                      /\ r.over = s.over /\ r.billed = s.billed
               /\ payload = "done" /\ s.last # Nothing =>
                      /\ r.last = s.last /\ r.out = Append(s.out, "done")
                      /\ r.over = TRUE /\ r.billed = s.last
               /\ payload \notin Usages \cup {"content"} /\ ~(payload = "done" /\ s.last # Nothing) =>
                      /\ r.last = s.last /\ r.out = s.out \o ErrorItems
                      /\ r.over = TRUE /\ r.billed = s.billed
               /\ r \in ReferenceState
  <1>1. "content" \notin Usages /\ "done" \notin Usages
    BY SseAssumption
  <1>2. \A x \in Events : Append(s.out, x) \in Seq(Events)
    BY DEF ReferenceState
  <1>3. s.out \o ErrorItems \in Seq(Events)
    BY EventItems, ConcatProperties DEF ReferenceState
  <1>4. CASE payload \in Usages
    <2>1. ReferenceEvent(s, payload) = [s EXCEPT !.last = payload, !.out = Append(@, payload)]
      BY <1>1, <1>4 DEF ReferenceEvent
    <2>2. Append(s.out, payload) \in Seq(Events)
      BY <1>2, <1>4 DEF Events
    <2>3. QED
      BY <1>1, <1>4, <2>1, <2>2 DEF ReferenceState, MaybeUsage
  <1>5. CASE payload = "content"
    <2>1. ReferenceEvent(s, payload) = [s EXCEPT !.out = Append(@, payload)]
      BY <1>1, <1>5 DEF ReferenceEvent
    <2>2. Append(s.out, payload) \in Seq(Events)
      BY <1>2, <1>5 DEF Events
    <2>3. QED
      BY <1>1, <1>5, <2>1, <2>2 DEF ReferenceState, MaybeUsage
  <1>6. CASE payload = "done" /\ s.last # Nothing
    <2>1. ReferenceEvent(s, payload) =
              [s EXCEPT !.out = Append(@, "done"), !.over = TRUE, !.billed = s.last]
      BY <1>1, <1>6 DEF ReferenceEvent
    <2>2. Append(s.out, "done") \in Seq(Events)
      BY <1>2 DEF Events
    <2>3. QED
      BY <1>1, <1>6, <2>1, <2>2 DEF ReferenceState, MaybeUsage
  <1>7. CASE payload \notin Usages \cup {"content"} /\ ~(payload = "done" /\ s.last # Nothing)
    <2>1. ReferenceEvent(s, payload) = [s EXCEPT !.out = @ \o ErrorItems, !.over = TRUE]
      BY <1>7 DEF ReferenceEvent, ErrorItems
    <2>2. QED
      BY <1>3, <1>7, <2>1 DEF ReferenceState, MaybeUsage
  <1>8. QED
    BY <1>4, <1>5, <1>6, <1>7

\* What a byte does: nothing once the stream is over, else it is collected, and
\* a separator makes an event of what was.
LEMMA ReferenceStepIs ==
    ASSUME NEW s \in ReferenceState, NEW byte \in Tokens
    PROVE  LET event == Append(s.event, byte)
           IN  /\ s.over => ReferenceStep(s, byte) = s
               /\ ~s.over /\ SeparatorAt(event, Len(event)) =>
                      ReferenceStep(s, byte) = ReferenceEvent([s EXCEPT !.event = <<>>], Meaning(event))
               /\ ~s.over /\ ~SeparatorAt(event, Len(event)) =>
                      ReferenceStep(s, byte) = [s EXCEPT !.event = event]
               /\ ReferenceStep(s, byte) \in ReferenceState
  <1> DEFINE event == Append(s.event, byte)
             fresh == [s EXCEPT !.event = <<>>]
  <1>1. event \in Seq(Tokens) /\ s.over \in BOOLEAN
    BY DEF ReferenceState
  <1>2. SeparatorAt(event, Len(event)) <=> IsSuffix(LfLf, event) \/ IsSuffix(CrLfCrLf, event)
    BY <1>1, SuffixIsSeparator DEF SeparatorAt
  <1>3. fresh \in ReferenceState
    <2>1. <<>> \in Seq(Tokens)
      OBVIOUS
    <2>2. QED
      BY <2>1 DEF ReferenceState
  <1>4. ReferenceEvent(fresh, Meaning(event)) \in ReferenceState
    BY <1>3, ReferenceEventIs
  <1>5. [s EXCEPT !.event = event] \in ReferenceState
    BY <1>1 DEF ReferenceState
  <1>6. CASE s.over
    <2>1. ReferenceStep(s, byte) = s
      BY <1>6 DEF ReferenceStep
    <2>2. QED
      BY <1>6, <2>1
  <1>7. CASE ~s.over /\ SeparatorAt(event, Len(event))
    <2>1. ReferenceStep(s, byte) = ReferenceEvent(fresh, Meaning(event))
      BY <1>2, <1>7 DEF ReferenceStep
    <2>2. QED
      BY <1>4, <1>7, <2>1
  <1>8. CASE ~s.over /\ ~SeparatorAt(event, Len(event))
    <2>1. ReferenceStep(s, byte) = [s EXCEPT !.event = event]
      BY <1>2, <1>8 DEF ReferenceStep
    <2>2. QED
      BY <1>5, <1>8, <2>1
  <1>9. QED
    BY <1>6, <1>7, <1>8

LEMMA ReferenceInitType == ReferenceInit \in ReferenceState
  BY DEF ReferenceInit, ReferenceState, MaybeUsage

ByteStep(bytes) ==
    [x \in (1..Len(bytes)) \X ReferenceState |-> ReferenceStep(x[2], bytes[x[1]])]

\* The reference is defined on every sequence of bytes.
LEMMA ReferenceRun ==
    ASSUME NEW bytes \in Seq(Tokens)
    PROVE  LET R == ReferenceStates(bytes)
           IN  /\ R \in [0..Len(bytes) -> ReferenceState]
               /\ R[0] = ReferenceInit
               /\ \A i \in 1..Len(bytes) : R[i] = ReferenceStep(R[i - 1], bytes[i])
               /\ IsRun(R, Len(bytes), ReferenceInit, ByteStep(bytes))
  <1> DEFINE n == Len(bytes)
             step == ByteStep(bytes)
             F(g) == [i \in 0..n |-> IF i = 0 THEN ReferenceInit ELSE ReferenceStep(g[i - 1], bytes[i])]
             R == ReferenceStates(bytes)
  <1>1. n \in Nat /\ \A i \in 1..n : bytes[i] \in Tokens
    OBVIOUS
  <1>2. step \in [(1..n) \X ReferenceState -> ReferenceState]
    <2>1. \A x \in (1..n) \X ReferenceState : ReferenceStep(x[2], bytes[x[1]]) \in ReferenceState
      BY <1>1, ReferenceStepIs
    <2>2. QED
      BY <2>1 DEF ByteStep
  <1>3. \A i \in 1..n, s \in ReferenceState : step[<<i, s>>] = ReferenceStep(s, bytes[i])
    BY DEF ByteStep
  <1> HIDE DEF step
  <1>4. PICK g \in [0..n -> ReferenceState] : IsRun(g, n, ReferenceInit, step)
    BY <1>1, <1>2, ReferenceInitType, RunExists
  <1>5. g = F(g)
    <2>1. ASSUME NEW i \in 0..n
          PROVE  g[i] = F(g)[i]
      <3>1. CASE i = 0
        BY <1>4, <3>1 DEF IsRun
      <3>2. CASE i # 0
        <4>1. i \in 1..n /\ i - 1 \in 0..n
          BY <1>1, <3>2
        <4>2. g[i] = step[<<i, g[i - 1]>>]
          BY <1>4, <4>1 DEF IsRun
        <4>3. QED
          BY <1>3, <3>2, <4>1, <4>2
      <3>3. QED
        BY <3>1, <3>2
    <2>2. QED
      BY <2>1
  <1>6. R = CHOOSE f : f = F(f)
    BY DEF ReferenceStates
  <1>7. R = F(R)
    BY <1>5, <1>6
  <1> HIDE DEF R
  <1>8. R[0] = ReferenceInit
    BY <1>1, <1>7
  <1>9. \A i \in 1..n : R[i] = ReferenceStep(R[i - 1], bytes[i])
    BY <1>1, <1>7
  <1>10. R \in [0..n -> ReferenceState]
    <2> DEFINE A == {i \in 0..n : R[i] \in ReferenceState}
    <2>1. 0 \in A
      BY <1>1, <1>8, ReferenceInitType
    <2>2. ASSUME NEW k \in 0..n, k < n, k \in A
          PROVE  k + 1 \in A
      <3>1. k + 1 \in 1..n /\ (k + 1) - 1 = k
        BY <1>1, <2>2
      <3>2. R[k + 1] = ReferenceStep(R[k], bytes[k + 1])
        BY <1>9, <3>1
      <3>3. R[k] \in ReferenceState /\ bytes[k + 1] \in Tokens
        BY <1>1, <2>2, <3>1
      <3>4. ReferenceStep(R[k], bytes[k + 1]) \in ReferenceState
        BY <3>3, ReferenceStepIs
      <3>5. QED
        BY <3>1, <3>2, <3>4
    <2> HIDE DEF A
    <2>3. 0..n \subseteq A
      BY <1>1, <2>1, <2>2, BoundedInduction
    <2>4. \A i \in 0..n : R[i] \in ReferenceState
      BY <2>3 DEF A
    <2>5. DOMAIN R = 0..n /\ R = [i \in 0..n |-> R[i]]
      BY <1>7
    <2>6. QED
      BY <2>4, <2>5
  <1>11. IsRun(R, n, ReferenceInit, step)
    <2>1. ASSUME NEW i \in 1..n
          PROVE  R[i] = step[<<i, R[i - 1]>>]
      <3>1. i - 1 \in 0..n
        BY <1>1
      <3>2. QED
        BY <1>3, <1>9, <1>10, <3>1
    <2>2. QED
      BY <1>8, <1>10, <2>1 DEF IsRun
  <1>12. QED
    BY <1>8, <1>9, <1>10, <1>11 DEF R, step

\* What the reference makes of the first bytes does not depend on the others.
LEMMA ReferencePrefix ==
    ASSUME NEW bytes \in Seq(Tokens), NEW more \in Seq(Tokens)
    PROVE  \A i \in 0..Len(bytes) : ReferenceStates(bytes \o more)[i] = ReferenceStates(bytes)[i]
  <1> DEFINE all == bytes \o more
             m == Len(bytes)
             n == Len(all)
             g == ReferenceStates(bytes)
             h == ReferenceStates(all)
  <1>1. /\ all \in Seq(Tokens) /\ m \in Nat /\ n \in Nat /\ m <= n
        /\ \A i \in 1..m : all[i] = bytes[i]
    BY ConcatProperties
  <1>2. g \in [0..m -> ReferenceState] /\ IsRun(g, m, ReferenceInit, ByteStep(bytes))
    BY ReferenceRun
  <1>3. IsRun(h, n, ReferenceInit, ByteStep(all))
    BY <1>1, ReferenceRun
  <1>4. ASSUME NEW i \in 1..m
        PROVE  ByteStep(bytes)[<<i, g[i - 1]>>] = ByteStep(all)[<<i, g[i - 1]>>]
    <2>1. g[i - 1] \in ReferenceState /\ i \in 1..n
      BY <1>1, <1>2
    <2>2. QED
      BY <1>1, <2>1 DEF ByteStep
  <1> DEFINE short == ByteStep(bytes)
             long == ByteStep(all)
  <1>5. /\ m \in Nat /\ n \in Nat /\ m <= n
        /\ IsRun(g, m, ReferenceInit, short) /\ IsRun(h, n, ReferenceInit, long)
        /\ SameTurns(g, m, short, long)
    BY <1>1, <1>2, <1>3, <1>4 DEF SameTurns
  <1> HIDE DEF g, h, all, m, n, short, long
  <1>6. \A i \in 0..m : g[i] = h[i]
    BY <1>5, RunsAgree
  <1>7. QED
    BY <1>6 DEF g, h, all, m

\* Nothing follows the end.
LEMMA OverStays ==
    ASSUME NEW bytes \in Seq(Tokens), NEW c \in 0..Len(bytes), ReferenceStates(bytes)[c].over
    PROVE  ReferenceStates(bytes)[Len(bytes)] = ReferenceStates(bytes)[c]
  <1> DEFINE R == ReferenceStates(bytes)
             n == Len(bytes) - c
             A == {k \in 0..n : R[c + k] = R[c]}
  <1>1. n \in Nat /\ c \in Nat /\ Len(bytes) \in Nat
    OBVIOUS
  <1>2. 0 \in A
    BY <1>1
  <1>3. ASSUME NEW k \in 0..n, k < n, k \in A
        PROVE  k + 1 \in A
    <2>1. c + (k + 1) \in 1..Len(bytes) /\ (c + (k + 1)) - 1 = c + k
      BY <1>1, <1>3
    <2>2. R[c + (k + 1)] = ReferenceStep(R[c + k], bytes[c + (k + 1)])
      BY <2>1, ReferenceRun
    <2>3. R[c] \in ReferenceState /\ R[c + k] = R[c] /\ R[c].over
      BY <1>3, ReferenceRun
    <2>4. bytes[c + (k + 1)] \in Tokens
      BY <2>1
    <2> HIDE DEF R
    <2>5. ReferenceStep(R[c], bytes[c + (k + 1)]) = R[c]
      BY <2>3, <2>4, ReferenceStepIs
    <2>6. QED
      BY <1>1, <1>3, <2>2, <2>3, <2>5
  <1> HIDE DEF A
  <1>4. 0..n \subseteq A
    BY <1>1, <1>2, <1>3, BoundedInduction
  <1>5. n \in A /\ c + n = Len(bytes)
    BY <1>1, <1>4
  <1>6. QED
    BY <1>5 DEF A

\* The bytes from c on.
Rest(bytes, c) == SubSeq(bytes, c + 1, Len(bytes))

LEMMA RestIs ==
    ASSUME NEW bytes \in Seq(Tokens), NEW c \in 0..Len(bytes)
    PROVE  /\ Rest(bytes, c) \in Seq(Tokens)
           /\ Len(Rest(bytes, c)) = Len(bytes) - c
           /\ \A i \in 1..(Len(bytes) - c) : Rest(bytes, c)[i] = bytes[c + i]
  BY DEF Rest

\* The first k bytes hold no separator.
NoSeparator(bytes, k) == \A i \in 1..k : ~SeparatorAt(bytes, i)

\* Between two events.
Between(s) == s.event = <<>> /\ ~s.over

Collected(s, bytes, k) == [s EXCEPT !.event = SubSeq(bytes, 1, k)]

\* Bytes without a separator are collected.
LEMMA Collects ==
    ASSUME NEW bytes \in Seq(Tokens), NEW c \in 0..Len(bytes),
           Between(ReferenceStates(bytes)[c]),
           NEW last \in 0..(Len(bytes) - c), NoSeparator(Rest(bytes, c), last)
    PROVE  ReferenceStates(bytes)[c + last] =
               Collected(ReferenceStates(bytes)[c], Rest(bytes, c), last)
  <1> DEFINE R == ReferenceStates(bytes)
             p == Rest(bytes, c)
             A == {k \in 0..last : R[c + k] = Collected(R[c], p, k)}
  <1>1. last \in Nat /\ c \in Nat /\ Len(bytes) \in Nat /\ c + last <= Len(bytes)
    OBVIOUS
  <1>2. /\ p \in Seq(Tokens) /\ Len(p) = Len(bytes) - c
        /\ \A i \in 1..(Len(bytes) - c) : p[i] = bytes[c + i]
    BY RestIs
  <1>3. R[c] \in ReferenceState
    BY ReferenceRun
  <1> HIDE DEF R, p
  <1>4. 0 \in A
    <2>1. SubSeq(p, 1, 0) = <<>> /\ R[c].event = <<>> /\ c + 0 = c
      BY <1>1, <1>2 DEF R, Between
    <2>2. Collected(R[c], p, 0) = R[c]
      BY <1>3, <2>1 DEF ReferenceState, Collected
    <2>3. QED
      BY <1>1, <2>1, <2>2
  <1>5. ASSUME NEW k \in 0..last, k < last, k \in A
        PROVE  k + 1 \in A
    <2> DEFINE s == Collected(R[c], p, k)
               byte == bytes[c + (k + 1)]
    <2>1. /\ c + (k + 1) \in 1..Len(bytes) /\ (c + (k + 1)) - 1 = c + k
          /\ k + 1 \in 1..last /\ k + 1 \in 1..Len(p) /\ k \in 0..Len(p)
      <3>1. Len(p) = Len(bytes) - c /\ k \in Nat /\ k < last
        BY <1>1, <1>2, <1>5
      <3>2. QED
        BY <1>1, <3>1
    <2>2. R[c + (k + 1)] = ReferenceStep(s, byte)
      <3>1. R[c + (k + 1)] = ReferenceStep(R[c + k], byte)
        BY <2>1, ReferenceRun DEF R
      <3>2. QED
        BY <1>5, <3>1
    <2>3. SubSeq(p, 1, k) \in Seq(Tokens)
      BY <1>2, <2>1
    <2>4. s \in ReferenceState /\ ~s.over /\ s.event = SubSeq(p, 1, k)
      <3>1. ~R[c].over
        BY DEF R, Between
      <3>2. QED
        BY <1>3, <2>3, <3>1 DEF ReferenceState, Collected
    <2>5. byte = p[k + 1] /\ byte \in Tokens
      BY <1>2, <2>1
    <2>6. Append(s.event, byte) = SubSeq(p, 1, k + 1)
      <3>1. Append(SubSeq(p, 1, k), p[k + 1]) = SubSeq(p, 1, k + 1)
        BY <1>2, <2>1
      <3>2. QED
        BY <2>4, <2>5, <3>1
    <2>7. Len(SubSeq(p, 1, k + 1)) = k + 1
      BY <1>2, <2>1
    <2>8. ~SeparatorAt(SubSeq(p, 1, k + 1), k + 1)
      <3>1. ~SeparatorAt(p, k + 1)
        BY <2>1 DEF p, NoSeparator
      <3>2. k + 1 \in 0..Len(p) /\ k + 1 \in 1..(k + 1)
        BY <2>1
      <3>3. QED
        BY <1>2, <3>1, <3>2, SeparatorInPrefix
    <2>9. ReferenceStep(s, byte) = [s EXCEPT !.event = SubSeq(p, 1, k + 1)]
      <3> HIDE DEF s, byte
      <3>1. ~SeparatorAt(Append(s.event, byte), Len(Append(s.event, byte)))
        BY <2>6, <2>7, <2>8
      <3>2. QED
        BY <2>4, <2>5, <2>6, <3>1, ReferenceStepIs
    <2>10. [s EXCEPT !.event = SubSeq(p, 1, k + 1)] = Collected(R[c], p, k + 1)
      BY <1>3 DEF ReferenceState, Collected
    <2>11. k + 1 \in 0..last
      BY <2>1
    <2> HIDE DEF s, byte
    <2>12. QED
      BY <2>2, <2>9, <2>10, <2>11
  <1> HIDE DEF A
  <1>6. 0..last \subseteq A
    BY <1>1, <1>4, <1>5, BoundedInduction
  <1>7. last \in A
    BY <1>1, <1>6
  <1>8. QED
    BY <1>7 DEF A, R, p

\* Bytes up to their first separator are one event.
LEMMA CollectsAnEvent ==
    ASSUME NEW bytes \in Seq(Tokens), NEW c \in 0..Len(bytes),
           Between(ReferenceStates(bytes)[c]),
           NEW end \in 1..(Len(bytes) - c), SeparatorAt(Rest(bytes, c), end),
           NoSeparator(Rest(bytes, c), end - 1)
    PROVE  ReferenceStates(bytes)[c + end] =
               ReferenceEvent(ReferenceStates(bytes)[c], Meaning(SubSeq(Rest(bytes, c), 1, end)))
  <1> DEFINE R == ReferenceStates(bytes)
             p == Rest(bytes, c)
             k == end - 1
             s == Collected(R[c], p, k)
             byte == bytes[c + end]
  <1>1. /\ k \in 0..(Len(bytes) - c) /\ c \in Nat /\ Len(bytes) \in Nat
        /\ c + end \in 1..Len(bytes) /\ (c + end) - 1 = c + k /\ k + 1 = end
    OBVIOUS
  <1>2. /\ p \in Seq(Tokens) /\ Len(p) = Len(bytes) - c
        /\ \A i \in 1..(Len(bytes) - c) : p[i] = bytes[c + i]
    BY RestIs
  <1>3. R[c] \in ReferenceState
    BY ReferenceRun
  <1>4. R[c + k] = s
    <2>1. PICK before \in 0..(Len(bytes) - c) : before = k
      BY <1>1
    <2>2. NoSeparator(p, before)
      BY <2>1
    <2>3. R[c + before] = Collected(R[c], p, before)
      BY <2>2, Collects
    <2>4. QED
      BY <2>1, <2>3
  <1>5. R[c + end] = ReferenceStep(s, byte)
    BY <1>1, <1>4, ReferenceRun
  <1>6. R[c].event = <<>> /\ ~R[c].over
    BY DEF Between
  <1>7. SeparatorAt(p, end)
    OBVIOUS
  <1> HIDE DEF R, p
  <1>8. SubSeq(p, 1, k) \in Seq(Tokens)
    BY <1>1, <1>2
  <1>9. s \in ReferenceState /\ ~s.over /\ s.event = SubSeq(p, 1, k)
    BY <1>3, <1>6, <1>8 DEF ReferenceState, Collected
  <1>10. byte = p[end] /\ byte \in Tokens
    BY <1>1, <1>2
  <1>11. Append(s.event, byte) = SubSeq(p, 1, end)
    <2>1. Append(SubSeq(p, 1, k), p[end]) = SubSeq(p, 1, end)
      BY <1>1, <1>2
    <2>2. QED
      BY <1>9, <1>10, <2>1
  <1>12. Len(SubSeq(p, 1, end)) = end
    BY <1>1, <1>2
  <1>13. SeparatorAt(SubSeq(p, 1, end), end)
    <2>1. end \in 0..Len(p) /\ end \in 1..end
      BY <1>1, <1>2
    <2>2. QED
      BY <1>2, <1>7, <2>1, SeparatorInPrefix
  <1>14. [s EXCEPT !.event = <<>>] = R[c]
    BY <1>3, <1>6 DEF ReferenceState, Collected
  <1>15. ReferenceStep(s, byte) =
             ReferenceEvent([s EXCEPT !.event = <<>>], Meaning(SubSeq(p, 1, end)))
    <2> HIDE DEF s, byte
    <2>1. SeparatorAt(Append(s.event, byte), Len(Append(s.event, byte)))
      BY <1>11, <1>12, <1>13
    <2>2. QED
      BY <1>9, <1>10, <1>11, <2>1, ReferenceStepIs
  <1>16. QED
    BY <1>5, <1>14, <1>15 DEF R, p

-----------------------------------------------------------------------------
(* The turns of transform's loop.                                          *)

Results == [left : Transformers, items : Seq(Events), completed : MaybeUsage]

\* What transform_public_event puts out and leaves behind.
LEMMA TransformEventIs ==
    ASSUME NEW t \in Transformers, NEW payload
    PROVE  LET r == TransformEvent(t, payload)
           IN  /\ payload \in Usages =>
                      r = Result([t EXCEPT !.costed = payload], <<payload>>, Nothing)
               /\ payload = "content" => r = Result(t, <<payload>>, Nothing)
               /\ payload = "done" /\ t.costed # Nothing =>
                      r = Result([t EXCEPT !.closed = TRUE, !.costed = Nothing], <<"done">>, t.costed)
               /\ payload \notin Usages \cup {"content"} /\ ~(payload = "done" /\ t.costed # Nothing) =>
                      r = Result([t EXCEPT !.closed = TRUE, !.costed = Nothing], ErrorItems, Nothing)
  <1>1. "content" \notin Usages /\ "done" \notin Usages
    BY SseAssumption
  <1>2. CASE payload \in Usages
    BY <1>1, <1>2 DEF TransformEvent
  <1>3. CASE payload = "content"
    BY <1>1, <1>3 DEF TransformEvent
  <1>4. CASE payload = "done" /\ t.costed # Nothing
    BY <1>1, <1>4 DEF TransformEvent
  <1>5. CASE payload \notin Usages \cup {"content"} /\ ~(payload = "done" /\ t.costed # Nothing)
    BY <1>1, <1>5 DEF TransformEvent, CloseWithGenericError, ErrorEvent, ErrorItems
  <1>6. QED
    BY <1>2, <1>3, <1>4, <1>5

\* The payload of the first event of the buffer.
FirstPayload(bytes) == SingleDataLine(EventBody(SubSeq(bytes, 1, NextEventEnd(bytes))))

Open(bytes, costed) == [pending |-> bytes, costed |-> costed, closed |-> FALSE]

Closed == [pending |-> <<>>, costed |-> Nothing, closed |-> TRUE]

\* What a turn of the loop does, case by case.
LEMMA NextTurnIs ==
    ASSUME NEW r \in Results
    PROVE  LET t == r.left
               end == NextEventEnd(t.pending)
               rest == Rest(t.pending, end)
               payload == FirstPayload(t.pending)
               turn == NextTurn(r)
           IN  /\ t.closed \/ end = 0 => turn = r
               /\ ~t.closed /\ end # 0 =>
                    /\ payload \in Usages =>
                         turn = Result(Open(rest, payload), r.items \o <<payload>>, Nothing)
                    /\ payload = "content" =>
                         turn = Result(Open(rest, t.costed), r.items \o <<payload>>, Nothing)
                    /\ payload = "done" /\ t.costed # Nothing =>
                         turn = Result(Closed, r.items \o <<"done">>, t.costed)
                    /\ payload \notin Usages \cup {"content"} /\ ~(payload = "done" /\ t.costed # Nothing) =>
                         turn = Result(Closed, r.items \o ErrorItems, Nothing)
               /\ turn \in Results
  <1> DEFINE t == r.left
             end == NextEventEnd(t.pending)
             rest == Rest(t.pending, end)
             payload == FirstPayload(t.pending)
             trimmed == [t EXCEPT !.pending = rest]
             event == TransformEvent(trimmed, payload)
             turn == NextTurn(r)
  <1>1. t \in Transformers /\ t.pending \in Seq(Tokens) /\ t.closed \in BOOLEAN /\ t.costed \in MaybeUsage
    BY DEF Results, Transformers, MaybeUsage
  <1>2. r.items \in Seq(Events)
    BY DEF Results
  <1>3. CASE t.closed \/ end = 0
    <2>1. turn = r
      BY <1>3 DEF NextTurn
    <2>2. QED
      BY <1>3, <2>1
  <1>4. CASE ~t.closed /\ end # 0
    <2>1. turn = Result([event.left EXCEPT !.pending = IF event.left.closed THEN <<>> ELSE @],
                        r.items \o event.items, event.completed)
      BY <1>4 DEF NextTurn, Rest, FirstPayload
    <2>2. end \in 0..Len(t.pending)
      BY <1>1, EventEnd
    <2> HIDE DEF end
    <2>3. rest \in Seq(Tokens)
      BY <1>1, <2>2, RestIs
    <2> HIDE DEF t, rest, payload, event, turn
    <2>4. /\ trimmed \in Transformers /\ trimmed.costed = t.costed /\ trimmed.pending = rest
          /\ trimmed.closed = FALSE /\ trimmed = Open(rest, t.costed)
      <3>1. t.closed = FALSE
        BY <1>1, <1>4
      <3>2. trimmed = Open(rest, t.costed)
        <4>1. trimmed = [pending |-> rest, costed |-> t.costed, closed |-> t.closed]
          BY <1>1 DEF Transformers
        <4>2. QED
          BY <3>1, <4>1 DEF Open
      <3>3. Open(rest, t.costed) \in Transformers
        BY <1>1, <2>3 DEF Transformers, Open, MaybeUsage
      <3>4. QED
        BY <3>2, <3>3 DEF Open
    <2>5. \A x \in Events : r.items \o <<x>> \in Seq(Events)
      BY <1>2, EventItems, ConcatProperties
    <2>6. r.items \o ErrorItems \in Seq(Events)
      BY <1>2, EventItems, ConcatProperties
    <2>7. CASE payload \in Usages
      <3>1. event = Result([trimmed EXCEPT !.costed = payload], <<payload>>, Nothing)
        BY <2>4, <2>7, TransformEventIs DEF event
      <3>2. turn = Result(Open(rest, payload), r.items \o <<payload>>, Nothing)
        BY <2>1, <2>4, <3>1 DEF Result, Open
      <3>3. r.items \o <<payload>> \in Seq(Events)
        BY <2>5, <2>7 DEF Events
      <3>4. turn \in Results
        BY <2>3, <2>7, <3>2, <3>3 DEF Result, Results, Open, Transformers, MaybeUsage
      <3>5. payload # "content" /\ payload # "done"
        BY <2>7, SseAssumption
      <3>6. QED
        BY <1>4, <2>7, <3>2, <3>4, <3>5 DEF t, end, rest, payload, turn
    <2>8. CASE payload = "content"
      <3>1. event = Result(trimmed, <<payload>>, Nothing)
        BY <2>4, <2>8, TransformEventIs DEF event
      <3>2. turn = Result(Open(rest, t.costed), r.items \o <<payload>>, Nothing)
        BY <2>1, <2>4, <3>1 DEF Result, Open
      <3>3. r.items \o <<payload>> \in Seq(Events)
        BY <2>5, <2>8 DEF Events
      <3>4. turn \in Results
        BY <1>1, <2>3, <3>2, <3>3 DEF Result, Results, Open, Transformers, MaybeUsage
      <3>5. payload \notin Usages /\ payload # "done"
        BY <2>8, SseAssumption
      <3>6. QED
        BY <1>4, <2>8, <3>2, <3>4, <3>5 DEF t, end, rest, payload, turn
    <2>9. CASE payload = "done" /\ t.costed # Nothing
      <3>1. event = Result([trimmed EXCEPT !.closed = TRUE, !.costed = Nothing], <<"done">>, t.costed)
        BY <2>4, <2>9, TransformEventIs DEF event
      <3>2. turn = Result(Closed, r.items \o <<"done">>, t.costed)
        BY <2>1, <2>4, <3>1 DEF Result, Open, Closed
      <3>3. r.items \o <<"done">> \in Seq(Events)
        BY <2>5 DEF Events
      <3>4. turn \in Results
        BY <1>1, <3>2, <3>3 DEF Result, Results, Closed, Transformers, MaybeUsage
      <3>5. payload \notin Usages /\ payload # "content"
        BY <2>9, SseAssumption
      <3>6. QED
        BY <1>4, <2>9, <3>2, <3>4, <3>5 DEF t, end, rest, payload, turn
    <2>10. CASE payload \notin Usages \cup {"content"} /\ ~(payload = "done" /\ t.costed # Nothing)
      <3>1. event = Result([trimmed EXCEPT !.closed = TRUE, !.costed = Nothing], ErrorItems, Nothing)
        BY <2>4, <2>10, TransformEventIs DEF event
      <3>2. turn = Result(Closed, r.items \o ErrorItems, Nothing)
        BY <2>1, <2>4, <3>1 DEF Result, Open, Closed
      <3>3. turn \in Results
        BY <2>6, <3>2 DEF Result, Results, Closed, Transformers, MaybeUsage
      <3>4. QED
        BY <1>4, <2>10, <3>2, <3>3 DEF t, end, rest, payload, turn
    <2>11. QED
      BY <2>7, <2>8, <2>9, <2>10
  <1>5. QED
    BY <1>1, <1>3, <1>4

\* The loop is defined for every buffer.
LEMMA TurnsRun ==
    ASSUME NEW t \in Transformers
    PROVE  LET T == Turns(t)
               n == Len(t.pending)
           IN  /\ T \in [0..n -> Results]
               /\ T[0] = Result(t, <<>>, Nothing)
               /\ \A k \in 1..n : T[k] = NextTurn(T[k - 1])
  <1> DEFINE T == Turns(t)
             n == Len(t.pending)
             start == Result(t, <<>>, Nothing)
             step == [x \in (1..n) \X Results |-> NextTurn(x[2])]
             F(g) == [k \in 0..n |-> IF k = 0 THEN start ELSE NextTurn(g[k - 1])]
  <1>1. n \in Nat
    BY DEF Transformers
  <1>2. start \in Results
    BY DEF Result, Results, MaybeUsage
  <1>3. step \in [(1..n) \X Results -> Results]
    <2>1. \A x \in (1..n) \X Results : NextTurn(x[2]) \in Results
      BY NextTurnIs
    <2>2. QED
      BY <2>1
  <1>4. \A k \in 1..n, r \in Results : step[<<k, r>>] = NextTurn(r)
    OBVIOUS
  <1> HIDE DEF step, start
  <1>5. PICK g \in [0..n -> Results] : IsRun(g, n, start, step)
    BY <1>1, <1>2, <1>3, RunExists
  <1>6. g = F(g)
    <2>1. ASSUME NEW k \in 0..n
          PROVE  g[k] = F(g)[k]
      <3>1. CASE k = 0
        BY <1>5, <3>1 DEF IsRun
      <3>2. CASE k # 0
        <4>1. k \in 1..n /\ k - 1 \in 0..n
          BY <1>1, <3>2
        <4>2. g[k] = step[<<k, g[k - 1]>>]
          BY <1>5, <4>1 DEF IsRun
        <4>3. QED
          BY <1>4, <3>2, <4>1, <4>2
      <3>3. QED
        BY <3>1, <3>2
    <2>2. QED
      BY <2>1
  <1>7. T = CHOOSE f : f = F(f)
    BY DEF Turns, start
  <1>8. T = F(T)
    BY <1>6, <1>7
  <1> HIDE DEF T
  <1>9. T[0] = start
    BY <1>1, <1>8
  <1>10. \A k \in 1..n : T[k] = NextTurn(T[k - 1])
    BY <1>1, <1>8
  <1>11. T \in [0..n -> Results]
    <2> DEFINE A == {k \in 0..n : T[k] \in Results}
    <2>1. 0 \in A
      BY <1>1, <1>2, <1>9
    <2>2. ASSUME NEW k \in 0..n, k < n, k \in A
          PROVE  k + 1 \in A
      <3>1. k + 1 \in 1..n /\ (k + 1) - 1 = k
        BY <1>1, <2>2
      <3>2. T[k + 1] = NextTurn(T[k])
        BY <1>10, <3>1
      <3>3. NextTurn(T[k]) \in Results
        BY <2>2, NextTurnIs
      <3>4. QED
        BY <3>1, <3>2, <3>3
    <2> HIDE DEF A
    <2>3. 0..n \subseteq A
      BY <1>1, <2>1, <2>2, BoundedInduction
    <2>4. \A k \in 0..n : T[k] \in Results
      BY <2>3 DEF A
    <2>5. DOMAIN T = 0..n /\ T = [k \in 0..n |-> T[k]]
      BY <1>8
    <2>6. QED
      BY <2>4, <2>5
  <1>12. QED
    BY <1>9, <1>10, <1>11 DEF T, start

-----------------------------------------------------------------------------
(* The loop and the reference, event by event.                             *)

\* Events a stream goes on after.
Ongoing == Usages \cup {"content"}

\* The reference between two events.
Fresh(costed, sent) ==
    [event |-> <<>>, last |-> costed, out |-> sent, over |-> FALSE, billed |-> Nothing]

\* After c bytes the reference is between two events, and the buffer holds the others.
BufferFrom(bytes, sent, r, c) ==
    /\ r.left.pending = Rest(bytes, c)
    /\ ReferenceStates(bytes)[c] = Fresh(r.left.costed, sent \o r.items)

\* The stream goes on: what was put out is what the reference puts out for the
\* bytes that have left the buffer.
Abreast(bytes, sent, r) ==
    /\ ~r.left.closed
    /\ r.completed = Nothing
    /\ r.items \in Seq(Ongoing)
    /\ \E c \in 0..Len(bytes) : BufferFrom(bytes, sent, r, c)

\* How the items of a stream that closes end.
Ending(completed) == IF completed = Nothing THEN ErrorItems ELSE <<"done">>

\* The stream is closed as the reference closes it.
Finished(bytes, sent, r) ==
    /\ r.left.closed
    /\ LET s == ReferenceStates(bytes)[Len(bytes)]
       IN  s.over /\ s.out = sent \o r.items /\ s.billed = r.completed
    /\ \E before \in Seq(Ongoing) : r.items = before \o Ending(r.completed)

\* Adding an event to what was sent.
LEMMA Sending ==
    ASSUME NEW sent \in Seq(Events), NEW items \in Seq(Events)
    PROVE  /\ \A x \in Events : Append(sent \o items, x) = sent \o (items \o <<x>>)
           /\ (sent \o items) \o ErrorItems = sent \o (items \o ErrorItems)
           /\ sent \o items \in Seq(Events)
  <1>1. sent \o items \in Seq(Events)
    BY ConcatProperties
  <1>2. ASSUME NEW x \in Events
        PROVE  Append(sent \o items, x) = sent \o (items \o <<x>>)
    <2>1. <<x>> \in Seq(Events)
      BY EventItems
    <2>2. Append(sent \o items, x) = (sent \o items) \o <<x>>
      BY <1>1, AppendIsConcat
    <2>3. (sent \o items) \o <<x>> = sent \o (items \o <<x>>)
      BY <2>1, ConcatAssociative
    <2>4. QED
      BY <2>2, <2>3
  <1>3. (sent \o items) \o ErrorItems = sent \o (items \o ErrorItems)
    BY EventItems, ConcatAssociative
  <1>4. QED
    BY <1>1, <1>2, <1>3

\* The rest of the rest.
LEMMA RestOfRest ==
    ASSUME NEW bytes \in Seq(Tokens), NEW c \in 0..Len(bytes), NEW end \in 0..(Len(bytes) - c)
    PROVE  Rest(Rest(bytes, c), end) = Rest(bytes, c + end)
  <1> DEFINE p == Rest(bytes, c)
             a == Rest(p, end)
             b == Rest(bytes, c + end)
             n == Len(bytes) - (c + end)
  <1>1. n \in Nat /\ c + end \in 0..Len(bytes) /\ Len(bytes) - c - end = n
    OBVIOUS
  <1>2. /\ p \in Seq(Tokens) /\ Len(p) = Len(bytes) - c
        /\ \A i \in 1..(Len(bytes) - c) : p[i] = bytes[c + i]
    BY RestIs
  <1> HIDE DEF p
  <1>3. /\ a \in Seq(Tokens) /\ Len(a) = n
        /\ \A i \in 1..n : a[i] = p[end + i]
    <2>1. end \in 0..Len(p) /\ Len(p) - end = n
      BY <1>1, <1>2
    <2>2. QED
      BY <1>2, <2>1, RestIs
  <1>4. /\ b \in Seq(Tokens) /\ Len(b) = n
        /\ \A i \in 1..n : b[i] = bytes[(c + end) + i]
    BY <1>1, RestIs
  <1> HIDE DEF a, b
  <1>5. ASSUME NEW i \in 1..n
        PROVE  a[i] = b[i]
    <2>1. end + i \in 1..(Len(bytes) - c) /\ c + (end + i) = (c + end) + i
      BY <1>1
    <2>2. QED
      BY <1>2, <1>3, <1>4, <2>1
  <1>6. a = b
    BY <1>3, <1>4, <1>5, SeqEqual
  <1>7. QED
    BY <1>6 DEF a, b, p

\* A turn of the loop takes the first event out of the buffer, and does with it
\* what the reference does with its bytes.
LEMMA TurnKeepsAbreast ==
    ASSUME NEW bytes \in Seq(Tokens), NEW sent \in Seq(Events), NEW r \in Results,
           Abreast(bytes, sent, r), NextEventEnd(r.left.pending) # 0
    PROVE  \/ /\ Abreast(bytes, sent, NextTurn(r))
              /\ Len(NextTurn(r).left.pending) < Len(r.left.pending)
           \/ Finished(bytes, sent, NextTurn(r))
  <1> DEFINE R == ReferenceStates(bytes)
             t == r.left
             p == t.pending
             end == NextEventEnd(p)
             payload == FirstPayload(p)
             turn == NextTurn(r)
             s == Fresh(t.costed, sent \o r.items)
  <1>1. PICK c \in 0..Len(bytes) : BufferFrom(bytes, sent, r, c)
    BY DEF Abreast
  <1>2. p = Rest(bytes, c) /\ R[c] = s
    BY <1>1 DEF BufferFrom
  <1>3. p \in Seq(Tokens) /\ Len(p) = Len(bytes) - c /\ Len(bytes) \in Nat /\ c \in Nat
    BY <1>2, RestIs
  <1>4. end \in 1..(Len(bytes) - c) /\ SeparatorAt(p, end) /\ NoSeparator(p, end - 1)
    <2>1. end \in 2..Len(p) /\ SeparatorAt(p, end) /\ \A i \in 1..(end - 1) : ~SeparatorAt(p, i)
      BY <1>3, EventEnd
    <2> HIDE DEF end, p
    <2>2. QED
      BY <1>3, <2>1 DEF NoSeparator
  <1>5. /\ r.items \in Seq(Ongoing) /\ r.items \in Seq(Events)
        /\ t \in Transformers /\ t.costed \in MaybeUsage /\ ~t.closed
    BY DEF Abreast, Results, Transformers, MaybeUsage
  <1>6. c + end \in 0..Len(bytes)
    BY <1>3, <1>4
  <1> HIDE DEF R, end, p, t, payload, turn
  <1>7. R[c + end] = ReferenceEvent(s, payload)
    <2>1. Between(R[c])
      BY <1>2 DEF Between, Fresh
    <2>2. R[c + end] = ReferenceEvent(R[c], Meaning(SubSeq(p, 1, end)))
      BY <1>2, <1>4, <2>1, CollectsAnEvent DEF R
    <2>3. Meaning(SubSeq(p, 1, end)) = payload
      <3> DEFINE event == SubSeq(p, 1, end)
      <3>1. end \in 0..Len(p) /\ end \in 1..end
        BY <1>3, <1>4
      <3>2. event \in Seq(Tokens) /\ Len(event) = end
        BY <1>3, <3>1
      <3>3. SeparatorAt(event, Len(event))
        BY <1>3, <1>4, <3>1, <3>2, SeparatorInPrefix
      <3> HIDE DEF event
      <3>4. SingleDataLine(EventBody(event)) = Meaning(event)
        BY <3>2, <3>3, SameMeaning
      <3>5. QED
        BY <3>4 DEF payload, FirstPayload, event, end
    <2>4. QED
      BY <1>2, <2>2, <2>3
  <1>8. sent \o r.items \in Seq(Events)
    BY <1>5, Sending
  <1>9. s \in ReferenceState
    BY <1>5, <1>8 DEF Fresh, ReferenceState, MaybeUsage
  <1>10. R[c + end] \in ReferenceState
    BY <1>6, ReferenceRun DEF R
  <1>11. Rest(p, end) = Rest(bytes, c + end) /\ Len(Rest(p, end)) < Len(p)
    <2>1. Rest(Rest(bytes, c), end) = Rest(bytes, c + end)
      <3>1. PICK j \in 0..(Len(bytes) - c) : j = end
        BY <1>4
      <3>2. QED
        BY <3>1, RestOfRest
    <2>2. end \in 0..Len(p) /\ 0 < end /\ Len(p) \in Nat
      BY <1>3, <1>4
    <2>3. Len(Rest(p, end)) = Len(p) - end
      BY <1>3, <2>2, RestIs
    <2>4. QED
      BY <1>2, <2>1, <2>2, <2>3
  <1>12. end # 0
    BY DEF end, p, t
  \* The stream goes on with a usage or with content.
  <1>13. ASSUME NEW costed \in MaybeUsage, payload \in Ongoing,
                turn = Result(Open(Rest(p, end), costed), r.items \o <<payload>>, Nothing),
                R[c + end].event = <<>>, R[c + end].last = costed,
                R[c + end].out = Append(sent \o r.items, payload),
                R[c + end].over = FALSE, R[c + end].billed = Nothing
         PROVE  Abreast(bytes, sent, turn) /\ Len(turn.left.pending) < Len(p)
    <2>1. payload \in Events /\ <<payload>> \in Seq(Ongoing)
      BY <1>13 DEF Ongoing, Events
    <2>2. /\ turn.left.pending = Rest(p, end) /\ turn.left.costed = costed
          /\ turn.left.closed = FALSE
          /\ turn.items = r.items \o <<payload>> /\ turn.completed = Nothing
      BY <1>13 DEF Result, Open
    <2>3. Append(sent \o r.items, payload) = sent \o turn.items
      <3>1. Append(sent \o r.items, payload) = sent \o (r.items \o <<payload>>)
        BY <1>5, <2>1, Sending
      <3>2. QED
        BY <2>2, <3>1
    <2>4. R[c + end] = Fresh(costed, sent \o turn.items)
      <3>1. R[c + end] = [event |-> R[c + end].event, last |-> R[c + end].last, out |-> R[c + end].out,
                          over |-> R[c + end].over, billed |-> R[c + end].billed]
        BY <1>10 DEF ReferenceState
      <3>2. QED
        BY <1>13, <2>3, <3>1 DEF Fresh
    <2>5. BufferFrom(bytes, sent, turn, c + end)
      BY <1>11, <2>2, <2>4 DEF BufferFrom, R
    <2>6. turn.items \in Seq(Ongoing)
      BY <1>5, <2>1, <2>2, ConcatProperties
    <2>7. ~turn.left.closed
      BY <2>2
    <2>8. QED
      BY <1>6, <1>11, <2>2, <2>5, <2>6, <2>7 DEF Abreast
  \* The stream closes.
  <1>14. ASSUME NEW completed \in MaybeUsage,
                turn = Result(Closed, r.items \o Ending(completed), completed),
                R[c + end].out = sent \o (r.items \o Ending(completed)),
                R[c + end].over = TRUE, R[c + end].billed = completed
         PROVE  Finished(bytes, sent, turn)
    <2>1. /\ turn.left.closed = TRUE /\ turn.completed = completed
          /\ turn.items = r.items \o Ending(completed)
      BY <1>14 DEF Result, Closed
    <2>2. R[Len(bytes)] = R[c + end]
      BY <1>6, <1>14, OverStays DEF R
    <2>3. turn.left.closed
      BY <2>1
    <2>4. R[Len(bytes)].over
      BY <1>14, <2>2
    <2>5. QED
      BY <1>5, <1>14, <2>1, <2>2, <2>3, <2>4 DEF Finished, R
  <1>15. /\ s.event = <<>> /\ s.last = t.costed /\ s.out = sent \o r.items
         /\ s.over = FALSE /\ s.billed = Nothing
    BY DEF Fresh
  <1> HIDE DEF s
  <1>16. CASE payload \in Usages
    <2>1. turn = Result(Open(Rest(p, end), payload), r.items \o <<payload>>, Nothing)
      BY <1>5, <1>12, <1>16, NextTurnIs DEF turn, t, end, p, payload
    <2>2. payload \in MaybeUsage /\ payload \in Ongoing
      BY <1>16 DEF MaybeUsage, Ongoing
    <2>3. /\ R[c + end].event = <<>> /\ R[c + end].last = payload
          /\ R[c + end].out = Append(sent \o r.items, payload)
          /\ R[c + end].over = FALSE /\ R[c + end].billed = Nothing
      <3> DEFINE e == ReferenceEvent(s, payload)
      <3>1. /\ e.event = s.event /\ e.last = payload /\ e.out = Append(s.out, payload)
            /\ e.over = s.over /\ e.billed = s.billed
        BY <1>9, <1>15, <1>16, ReferenceEventIs
      <3> HIDE DEF e
      <3>2. R[c + end] = e
        BY <1>7 DEF e
      <3>3. QED
        BY <1>15, <3>1, <3>2
    <2>4. QED
      BY <1>13, <2>1, <2>2, <2>3 DEF turn, p, t
  <1>17. CASE payload = "content"
    <2>1. turn = Result(Open(Rest(p, end), t.costed), r.items \o <<payload>>, Nothing)
      BY <1>5, <1>12, <1>17, NextTurnIs DEF turn, t, end, p, payload
    <2>2. payload \in Ongoing
      BY <1>17 DEF Ongoing
    <2>3. /\ R[c + end].event = <<>> /\ R[c + end].last = t.costed
          /\ R[c + end].out = Append(sent \o r.items, payload)
          /\ R[c + end].over = FALSE /\ R[c + end].billed = Nothing
      <3> DEFINE e == ReferenceEvent(s, payload)
      <3>1. /\ e.event = s.event /\ e.last = s.last /\ e.out = Append(s.out, payload)
            /\ e.over = s.over /\ e.billed = s.billed
        BY <1>9, <1>15, <1>17, ReferenceEventIs
      <3> HIDE DEF e
      <3>2. R[c + end] = e
        BY <1>7 DEF e
      <3>3. QED
        BY <1>15, <3>1, <3>2
    <2>4. QED
      BY <1>5, <1>13, <2>1, <2>2, <2>3 DEF turn, p, t
  <1>18. CASE payload = "done" /\ t.costed # Nothing
    <2>1. turn = Result(Closed, r.items \o <<"done">>, t.costed)
      BY <1>5, <1>12, <1>18, NextTurnIs DEF turn, t, end, p, payload
    <2>2. Ending(t.costed) = <<"done">>
      BY <1>18 DEF Ending
    <2>3. /\ R[c + end].out = Append(sent \o r.items, "done")
          /\ R[c + end].over = TRUE /\ R[c + end].billed = t.costed
      <3> DEFINE e == ReferenceEvent(s, payload)
      <3>1. /\ e.event = s.event /\ e.last = s.last /\ e.out = Append(s.out, "done")
            /\ e.over = TRUE /\ e.billed = s.last
        BY <1>9, <1>15, <1>18, ReferenceEventIs
      <3> HIDE DEF e
      <3>2. R[c + end] = e
        BY <1>7 DEF e
      <3>3. QED
        BY <1>15, <3>1, <3>2
    <2>4. Append(sent \o r.items, "done") = sent \o (r.items \o <<"done">>)
      <3>1. "done" \in Events
        BY DEF Events
      <3>2. QED
        BY <1>5, <3>1, Sending
    <2>5. Finished(bytes, sent, turn)
      BY <1>5, <1>14, <2>1, <2>2, <2>3, <2>4
    <2>6. QED
      BY <2>5 DEF turn
  <1>19. CASE payload \notin Usages \cup {"content"} /\ ~(payload = "done" /\ t.costed # Nothing)
    <2>1. turn = Result(Closed, r.items \o ErrorItems, Nothing)
      BY <1>5, <1>12, <1>19, NextTurnIs DEF turn, t, end, p, payload
    <2>2. Ending(Nothing) = ErrorItems /\ Nothing \in MaybeUsage
      BY DEF Ending, MaybeUsage
    <2>3. /\ R[c + end].out = (sent \o r.items) \o ErrorItems
          /\ R[c + end].over = TRUE /\ R[c + end].billed = Nothing
      <3> DEFINE e == ReferenceEvent(s, payload)
      <3>1. /\ e.event = s.event /\ e.last = s.last /\ e.out = s.out \o ErrorItems
            /\ e.over = TRUE /\ e.billed = s.billed
        BY <1>9, <1>15, <1>19, ReferenceEventIs
      <3> HIDE DEF e
      <3>2. R[c + end] = e
        BY <1>7 DEF e
      <3>3. QED
        BY <1>15, <3>1, <3>2
    <2>4. (sent \o r.items) \o ErrorItems = sent \o (r.items \o ErrorItems)
      BY <1>5, Sending
    <2>5. Finished(bytes, sent, turn)
      BY <1>14, <2>1, <2>2, <2>3, <2>4
    <2>6. QED
      BY <2>5 DEF turn
  <1>20. QED
    BY <1>16, <1>17, <1>18, <1>19

\* transform's loop ends with the buffer free of complete events or the stream
\* closed, having put out what the reference puts out.
LEMMA LoopAgrees ==
    ASSUME NEW bytes \in Seq(Tokens), NEW sent \in Seq(Events), NEW t \in Transformers,
           Abreast(bytes, sent, Result(t, <<>>, Nothing))
    PROVE  LET r == DrainEvents(t)
           IN  /\ r \in Results
               /\ \/ Abreast(bytes, sent, r) /\ NextEventEnd(r.left.pending) = 0
                  \/ Finished(bytes, sent, r)
  <1> DEFINE T == Turns(t)
             n == Len(t.pending)
             Drained(r) == Abreast(bytes, sent, r) /\ NextEventEnd(r.left.pending) = 0
             A == {k \in 0..n : \/ Abreast(bytes, sent, T[k]) /\ Len(T[k].left.pending) + k <= n
                                \/ Drained(T[k])
                                \/ Finished(bytes, sent, T[k])}
  <1>1. n \in Nat
    BY DEF Transformers
  <1>2. /\ T \in [0..n -> Results]
        /\ T[0] = Result(t, <<>>, Nothing)
        /\ \A k \in 1..n : T[k] = NextTurn(T[k - 1])
    BY TurnsRun
  <1> HIDE DEF T, n
  <1>3. 0 \in A
    <2>1. Len(T[0].left.pending) + 0 <= n
      BY <1>1, <1>2 DEF Result, n
    <2>2. Abreast(bytes, sent, T[0])
      BY <1>2
    <2>3. QED
      BY <1>1, <2>1, <2>2
  <1>4. ASSUME NEW k \in 0..n, k < n, k \in A
        PROVE  k + 1 \in A
    <2>1. k + 1 \in 1..n /\ (k + 1) - 1 = k /\ k + 1 \in 0..n
      BY <1>1, <1>4
    <2>2. T[k + 1] = NextTurn(T[k]) /\ T[k] \in Results /\ T[k + 1] \in Results
      <3>1. T[k + 1] = NextTurn(T[(k + 1) - 1])
        BY <1>2, <2>1
      <3>2. QED
        BY <1>2, <2>1, <3>1
    <2>3. CASE Abreast(bytes, sent, T[k]) /\ NextEventEnd(T[k].left.pending) # 0
      <3>1. Len(T[k].left.pending) + k <= n
        <4>1. ~Finished(bytes, sent, T[k])
          BY <2>3 DEF Abreast, Finished
        <4>2. QED
          BY <1>4, <2>3, <4>1
      <3>2. Len(T[k].left.pending) \in Nat /\ Len(T[k + 1].left.pending) \in Nat
        BY <2>2 DEF Results, Transformers
      <3>3. \/ /\ Abreast(bytes, sent, T[k + 1])
               /\ Len(T[k + 1].left.pending) < Len(T[k].left.pending)
            \/ Finished(bytes, sent, T[k + 1])
        BY <2>2, <2>3, TurnKeepsAbreast
      <3>4. CASE /\ Abreast(bytes, sent, T[k + 1])
                 /\ Len(T[k + 1].left.pending) < Len(T[k].left.pending)
        <4>1. Len(T[k + 1].left.pending) + (k + 1) <= n
          <5>1. PICK a \in Nat, b \in Nat : a = Len(T[k].left.pending) /\ b = Len(T[k + 1].left.pending)
            BY <3>2
          <5>2. b < a /\ a + k <= n
            BY <3>1, <3>4, <5>1
          <5>3. b + (k + 1) <= n
            BY <1>1, <5>2
          <5>4. QED
            BY <5>1, <5>3
        <4>2. QED
          BY <2>1, <3>4, <4>1
      <3>5. QED
        BY <2>1, <3>3, <3>4
    <2>4. CASE Drained(T[k]) \/ Finished(bytes, sent, T[k])
      <3>1. T[k].left.closed \/ NextEventEnd(T[k].left.pending) = 0
        BY <2>4 DEF Finished
      <3>2. T[k + 1] = T[k]
        BY <2>2, <3>1, NextTurnIs
      <3>3. QED
        BY <2>1, <2>4, <3>2
    <2>5. QED
      BY <1>4, <2>3, <2>4
  <1> HIDE DEF A
  <1>5. 0..n \subseteq A
    BY <1>1, <1>3, <1>4, BoundedInduction
  <1>6. n \in A /\ T[n] \in Results
    BY <1>1, <1>2, <1>5
  <1>7. DrainEvents(t) = T[n]
    BY DEF DrainEvents, T, n
  <1>8. ASSUME Len(T[n].left.pending) + n <= n
        PROVE  NextEventEnd(T[n].left.pending) = 0
    <2> DEFINE p == T[n].left.pending
    <2>1. p \in Seq(Tokens)
      BY <1>6 DEF Results, Transformers
    <2>2. Len(p) = 0
      BY <1>1, <1>8, <2>1
    <2> HIDE DEF p
    <2>3. NextEventEnd(p) = 0 \/ NextEventEnd(p) \in 2..Len(p)
      BY <2>1, EventEnd
    <2>4. QED
      BY <2>2, <2>3 DEF p
  <1>9. Drained(T[n]) \/ Finished(bytes, sent, T[n])
    BY <1>6, <1>8 DEF A
  <1>10. QED
    BY <1>6, <1>7, <1>9

-----------------------------------------------------------------------------
(* The end of the input: finish.                                           *)

\* A data line of [DONE], with or without its line end.
FinalDone == {<<"data", "done">> \o end : end \in {<<>>, <<"lf">>, <<"cr", "lf">>}}

\* The three accepted shapes, by position.
LEMMA FinalShapes ==
    ASSUME NEW bytes \in Seq(Tokens)
    PROVE  bytes \in FinalDone <=>
               /\ Len(bytes) \in 2..4 /\ bytes[1] = "data" /\ bytes[2] = "done"
               /\ Len(bytes) = 3 => bytes[3] = "lf"
               /\ Len(bytes) = 4 => bytes[3] = "cr" /\ bytes[4] = "lf"
  <1> DEFINE line == <<"data", "done">>
             lf == <<"lf">>
             crlf == <<"cr", "lf">>
             a == line \o <<>>
             b == line \o lf
             c == line \o crlf
             n == Len(bytes)
  <1>1. /\ line \in Seq(Tokens) /\ Len(line) = 2 /\ line[1] = "data" /\ line[2] = "done"
        /\ lf \in Seq(Tokens) /\ Len(lf) = 1 /\ lf[1] = "lf"
        /\ crlf \in Seq(Tokens) /\ Len(crlf) = 2 /\ crlf[1] = "cr" /\ crlf[2] = "lf"
    BY DEF Tokens
  <1>2. FinalDone = {a, b, c}
    BY DEF FinalDone
  <1>3. n \in Nat
    OBVIOUS
  <1> HIDE DEF line, lf, crlf
  <1>4. a = line
    BY <1>1, ConcatEmptySeq
  <1>5. b \in Seq(Tokens) /\ Len(b) = 3 /\ b[1] = "data" /\ b[2] = "done" /\ b[3] = "lf"
    <2>1. /\ b \in Seq(Tokens) /\ Len(b) = Len(line) + Len(lf)
          /\ \A i \in 1..(Len(line) + Len(lf)) :
                 b[i] = IF i <= Len(line) THEN line[i] ELSE lf[i - Len(line)]
      BY <1>1, ConcatProperties
    <2> HIDE DEF b
    <2>2. \A i \in 1..3 : b[i] = IF i <= 2 THEN line[i] ELSE lf[i - 2]
      BY <1>1, <2>1
    <2>3. QED
      BY <1>1, <2>1, <2>2
  <1>6. /\ c \in Seq(Tokens) /\ Len(c) = 4
        /\ c[1] = "data" /\ c[2] = "done" /\ c[3] = "cr" /\ c[4] = "lf"
    <2>1. /\ c \in Seq(Tokens) /\ Len(c) = Len(line) + Len(crlf)
          /\ \A i \in 1..(Len(line) + Len(crlf)) :
                 c[i] = IF i <= Len(line) THEN line[i] ELSE crlf[i - Len(line)]
      BY <1>1, ConcatProperties
    <2> HIDE DEF c
    <2>2. \A i \in 1..4 : c[i] = IF i <= 2 THEN line[i] ELSE crlf[i - 2]
      BY <1>1, <2>1
    <2>3. QED
      BY <1>1, <2>1, <2>2
  <1> HIDE DEF a, b, c
  <1>7. ASSUME n = 2, bytes[1] = "data", bytes[2] = "done" PROVE bytes = a
    <2>1. \A i \in 1..Len(bytes) : bytes[i] = line[i]
      BY <1>1, <1>7
    <2>2. QED
      BY <1>1, <1>4, <1>7, <2>1, SeqEqual
  <1>8. ASSUME n = 3, bytes[1] = "data", bytes[2] = "done", bytes[3] = "lf" PROVE bytes = b
    <2>1. \A i \in 1..Len(bytes) : bytes[i] = b[i]
      BY <1>5, <1>8
    <2>2. QED
      BY <1>5, <1>8, <2>1, SeqEqual
  <1>9. ASSUME n = 4, bytes[1] = "data", bytes[2] = "done", bytes[3] = "cr", bytes[4] = "lf"
        PROVE  bytes = c
    <2>1. \A i \in 1..Len(bytes) : bytes[i] = c[i]
      BY <1>6, <1>9
    <2>2. QED
      BY <1>6, <1>9, <2>1, SeqEqual
  <1>10. bytes \in {a, b, c} <=>
             \/ n = 2 /\ bytes[1] = "data" /\ bytes[2] = "done"
             \/ n = 3 /\ bytes[1] = "data" /\ bytes[2] = "done" /\ bytes[3] = "lf"
             \/ n = 4 /\ bytes[1] = "data" /\ bytes[2] = "done" /\ bytes[3] = "cr" /\ bytes[4] = "lf"
    BY <1>1, <1>4, <1>5, <1>6, <1>7, <1>8, <1>9
  <1>11. n \in 2..4 <=> n = 2 \/ n = 3 \/ n = 4
    BY <1>3
  <1>12. QED
    BY <1>2, <1>10, <1>11

\* Without its line end, such a buffer is a data line of [DONE], and no other is.
LEMMA FinalLineIsDone ==
    ASSUME NEW bytes \in Seq(Tokens)
    PROVE  SingleDataLine(FinalLine(bytes)) = "done" <=> bytes \in FinalDone
  <1> DEFINE n == Len(bytes)
             CrLf == n >= 2 /\ bytes[n - 1] = "cr" /\ bytes[n] = "lf"
             Lf == n >= 1 /\ bytes[n] = "lf"
             d == IF CrLf THEN 2 ELSE IF Lf THEN 1 ELSE 0
             body == SubSeq(bytes, 1, n - d)
  <1>1. n \in Nat
    OBVIOUS
  <1>2. IsSuffix(<<"cr", "lf">>, bytes) <=> CrLf
    <2> DEFINE crlf == <<"cr", "lf">>
    <2>1. crlf \in Seq(Tokens) /\ Len(crlf) = 2 /\ crlf[1] = "cr" /\ crlf[2] = "lf"
      BY DEF Tokens
    <2> HIDE DEF crlf
    <2>2. IsSuffix(crlf, bytes) <=>
              /\ Len(crlf) <= n
              /\ \A i \in 1..Len(crlf) : bytes[n - Len(crlf) + i] = crlf[i]
      BY <2>1, SuffixIs
    <2>3. \A i : i \in 1..2 <=> i = 1 \/ i = 2
      OBVIOUS
    <2>4. n - 2 + 1 = n - 1 /\ n - 2 + 2 = n
      BY <1>1
    <2>5. (\A i \in 1..2 : bytes[n - 2 + i] = crlf[i]) <=> bytes[n - 1] = "cr" /\ bytes[n] = "lf"
      BY <2>1, <2>3, <2>4
    <2>6. IsSuffix(crlf, bytes) <=> CrLf
      BY <1>1, <2>1, <2>2, <2>5
    <2>7. QED
      BY <2>6 DEF crlf
  <1>3. IsSuffix(<<"lf">>, bytes) <=> Lf
    <2> DEFINE lf == <<"lf">>
    <2>1. lf \in Seq(Tokens) /\ Len(lf) = 1 /\ lf[1] = "lf"
      BY DEF Tokens
    <2> HIDE DEF lf
    <2>2. IsSuffix(lf, bytes) <=>
              /\ Len(lf) <= n
              /\ \A i \in 1..Len(lf) : bytes[n - Len(lf) + i] = lf[i]
      BY <2>1, SuffixIs
    <2>3. \A i : i \in 1..1 <=> i = 1
      OBVIOUS
    <2>4. n - 1 + 1 = n
      BY <1>1
    <2>5. (\A i \in 1..1 : bytes[n - 1 + i] = lf[i]) <=> bytes[n] = "lf"
      BY <2>1, <2>3, <2>4
    <2>6. IsSuffix(lf, bytes) <=> Lf
      BY <1>1, <2>1, <2>2, <2>5
    <2>7. QED
      BY <2>6 DEF lf
  <1>4. FinalLine(bytes) = body
    <2>1. CASE CrLf
      BY <1>2, <2>1 DEF FinalLine
    <2>2. CASE ~CrLf /\ Lf
      BY <1>2, <1>3, <2>2 DEF FinalLine
    <2>3. CASE ~CrLf /\ ~Lf
      <3>1. FinalLine(bytes) = bytes
        BY <1>2, <1>3, <2>3 DEF FinalLine
      <3>2. d = 0 /\ n - 0 = n
        BY <1>1, <2>3
      <3>3. SubSeq(bytes, 1, n) = bytes
        BY SubSeqFull
      <3> HIDE DEF d
      <3>4. QED
        BY <3>1, <3>2, <3>3
    <2>4. QED
      BY <2>1, <2>2, <2>3
  <1>5. d \in 0..2 /\ d <= n
    BY <1>1
  <1>6. /\ body \in Seq(Tokens) /\ Len(body) = n - d /\ DOMAIN body = 1..(n - d)
        /\ \A i \in 1..(n - d) : body[i] = bytes[i]
    <2> HIDE DEF d
    <2>1. n - d \in 0..n
      BY <1>1, <1>5
    <2>2. QED
      BY <2>1
  <1>7. SingleDataLine(body) = "done" <=> n = d + 2 /\ bytes[1] = "data" /\ bytes[2] = "done"
    <2> HIDE DEF body, d
    <2>1. CASE n = d + 2
      <3>1. DOMAIN body = 1..2 /\ Len(body) = 2 /\ body[1] = bytes[1] /\ body[2] = bytes[2]
        BY <1>1, <1>5, <1>6, <2>1
      <3>2. (\A i \in DOMAIN body : body[i] \notin {"lf", "cr"}) <=>
                body[1] \notin {"lf", "cr"} /\ body[2] \notin {"lf", "cr"}
        BY <3>1
      <3>3. QED
        BY <2>1, <3>1, <3>2 DEF SingleDataLine
    <2>2. CASE n # d + 2
      <3>1. Len(body) # 2
        BY <1>1, <1>5, <1>6, <2>2
      <3>2. QED
        BY <2>2, <3>1 DEF SingleDataLine
    <2>3. QED
      BY <2>1, <2>2
  <1> HIDE DEF body
  <1>8. ASSUME n = d + 2, bytes[1] = "data", bytes[2] = "done"
        PROVE  bytes \in FinalDone
    <2>1. CASE CrLf
      <3>1. n = 4 /\ n - 1 = 3
        BY <1>8, <2>1
      <3>2. QED
        BY <1>8, <2>1, <3>1, FinalShapes
    <2>2. CASE ~CrLf /\ Lf
      <3>1. n = 3
        BY <1>8, <2>2
      <3>2. QED
        BY <1>8, <2>2, <3>1, FinalShapes
    <2>3. CASE ~CrLf /\ ~Lf
      <3>1. n = 2
        BY <1>8, <2>3
      <3>2. QED
        BY <1>8, <3>1, FinalShapes
    <2>4. QED
      BY <2>1, <2>2, <2>3
  <1>9. ASSUME bytes \in FinalDone
        PROVE  n = d + 2 /\ bytes[1] = "data" /\ bytes[2] = "done"
    <2>1. /\ n \in 2..4 /\ bytes[1] = "data" /\ bytes[2] = "done"
          /\ n = 3 => bytes[3] = "lf"
          /\ n = 4 => bytes[3] = "cr" /\ bytes[4] = "lf"
      BY <1>9, FinalShapes
    <2>2. CASE n = 2
      <3>1. ~CrLf /\ ~Lf
        BY <2>1, <2>2
      <3>2. QED
        BY <2>1, <2>2, <3>1
    <2>3. CASE n = 3
      <3>1. n - 1 = 2
        BY <2>3
      <3>2. ~CrLf /\ Lf
        BY <2>1, <2>3, <3>1
      <3>3. QED
        BY <2>1, <2>3, <3>2
    <2>4. CASE n = 4
      <3>1. n - 1 = 3
        BY <2>4
      <3>2. CrLf
        BY <2>1, <2>4, <3>1
      <3>3. QED
        BY <2>1, <2>4, <3>2
    <2>5. QED
      BY <2>1, <2>2, <2>3, <2>4
  <1>10. QED
    BY <1>4, <1>7, <1>8, <1>9

\* finish puts out what the reference puts out at the end of the input.
LEMMA FinishAgrees ==
    ASSUME NEW t \in Transformers, NEW sent \in Seq(Events),
           NEW s \in ReferenceState, s.event = t.pending, s.last = t.costed, s.out = sent,
           ~s.over, s.billed = Nothing
    PROVE  LET r == Finish(t)
               e == ReferenceEnd(s)
           IN  /\ r.left = Nothing /\ r.completed \in MaybeUsage /\ r.items = Ending(r.completed)
               /\ e.out = sent \o r.items /\ e.billed = r.completed
  <1> DEFINE r == Finish(t)
             e == ReferenceEnd(s)
             Whole == t.pending \in FinalDone
  <1>1. t.pending \in Seq(Tokens) /\ t.costed \in MaybeUsage
    BY DEF Transformers, MaybeUsage
  <1>2. SingleDataLine(FinalLine(t.pending)) = "done" <=> Whole
    BY <1>1, FinalLineIsDone
  <1>3. e = IF Whole THEN ReferenceEvent(s, "done") ELSE ReferenceEvent(s, "junk")
    BY DEF ReferenceEnd, FinalDone
  <1> HIDE DEF Whole
  <1>4. CASE Whole /\ t.costed # Nothing
    <2>1. r = Result(Nothing, <<"done">>, t.costed)
      BY <1>2, <1>4 DEF Finish
    <2>2. ReferenceEvent(s, "done").out = Append(s.out, "done") /\ ReferenceEvent(s, "done").billed = s.last
      BY <1>4, ReferenceEventIs
    <2>3. Append(sent, "done") = sent \o <<"done">>
      <3>1. "done" \in Events
        BY DEF Events
      <3>2. QED
        BY <3>1, AppendIsConcat
    <2>4. Ending(t.costed) = <<"done">>
      BY <1>4 DEF Ending
    <2>5. r.left = Nothing /\ r.items = <<"done">> /\ r.completed = t.costed
      BY <2>1 DEF Result
    <2>6. e = ReferenceEvent(s, "done")
      BY <1>3, <1>4
    <2> HIDE DEF r, e
    <2>7. QED
      BY <1>1, <2>2, <2>3, <2>4, <2>5, <2>6 DEF r, e
  <1>5. CASE ~(Whole /\ t.costed # Nothing)
    <2>1. r = Result(Nothing, ErrorItems, Nothing)
      BY <1>2, <1>5 DEF Finish, ErrorItems, ErrorEvent
    <2>2. e.out = s.out \o ErrorItems /\ e.billed = s.billed
      <3>1. "junk" \notin Usages \cup {"content"} /\ "done" \notin Usages \cup {"content"}
        BY SseAssumption
      <3>2. CASE Whole
        <4>1. e = ReferenceEvent(s, "done") /\ s.last = Nothing
          BY <1>3, <1>5, <3>2
        <4>2. ReferenceEvent(s, "done").out = s.out \o ErrorItems /\ ReferenceEvent(s, "done").billed = s.billed
          BY <3>1, <4>1, ReferenceEventIs
        <4>3. QED
          BY <4>1, <4>2
      <3>3. CASE ~Whole
        <4>1. e = ReferenceEvent(s, "junk")
          BY <1>3, <3>3
        <4>2. ReferenceEvent(s, "junk").out = s.out \o ErrorItems /\ ReferenceEvent(s, "junk").billed = s.billed
          BY <3>1, ReferenceEventIs
        <4>3. QED
          BY <4>1, <4>2
      <3>4. QED
        BY <3>2, <3>3
    <2>3. Ending(Nothing) = ErrorItems /\ Nothing \in MaybeUsage
      BY DEF Ending, MaybeUsage
    <2>4. r.left = Nothing /\ r.items = ErrorItems /\ r.completed = Nothing
      BY <2>1 DEF Result
    <2> HIDE DEF r, e
    <2>5. QED
      BY <2>2, <2>3, <2>4 DEF r, e
  <1>6. QED
    BY <1>4, <1>5

-----------------------------------------------------------------------------
(* The inductive invariant.                                                *)

\* A transformer is kept while its stream is open: the generation is held, the
\* buffer is what followed the last complete event, and everything before has
\* been put out.
Underway ==
    transformer # Nothing =>
        /\ phase \in {"idle", "pulling", "dropped"}
        /\ generation = "held"
        /\ eof = FALSE
        /\ out \in Seq(Ongoing)
        /\ NextEventEnd(transformer.pending) = 0
        /\ Abreast(consumed, out, Result(transformer, <<>>, Nothing))

\* Without one the closure never pulls again and the generation is used up.
Spent ==
    transformer = Nothing =>
        /\ phase \in {"idle", "ended", "failed", "dropped"}
        /\ generation # "held"

IInv == TypeOK /\ Underway /\ Spent /\ ChunkingIsInvisible /\ EveryEndIsAccounted

\* What the reference holds for an open stream.
LEMMA UnderwayIs ==
    ASSUME NEW bytes \in Seq(Tokens), NEW sent \in Seq(Events), NEW t \in Transformers,
           NextEventEnd(t.pending) = 0, Abreast(bytes, sent, Result(t, <<>>, Nothing))
    PROVE  /\ Reference(bytes) \in ReferenceState
           /\ Reference(bytes) = [event |-> t.pending, last |-> t.costed, out |-> sent,
                                  over |-> FALSE, billed |-> Nothing]
  <1> DEFINE r == Result(t, <<>>, Nothing)
             R == ReferenceStates(bytes)
  <1>1. r.left = t /\ r.items = <<>>
    BY DEF Result
  <1>2. PICK c \in 0..Len(bytes) : BufferFrom(bytes, sent, r, c)
    BY DEF Abreast
  <1>3. sent \o <<>> = sent
    BY ConcatEmptySeq
  <1>4. t.pending = Rest(bytes, c) /\ R[c] = Fresh(t.costed, sent)
    BY <1>1, <1>2, <1>3 DEF BufferFrom
  <1>5. PICK m \in 0..(Len(bytes) - c) : m = Len(bytes) - c
    OBVIOUS
  <1>6. c + m = Len(bytes) /\ Len(bytes) \in Nat
    BY <1>5
  <1>7. t.pending \in Seq(Tokens) /\ Len(t.pending) = m
    BY <1>4, <1>5, RestIs
  <1>8. NoSeparator(t.pending, m)
    BY <1>7, EventEnd DEF NoSeparator
  <1>9. Between(R[c])
    BY <1>4 DEF Between, Fresh
  <1>10. R[c + m] = Collected(R[c], t.pending, m)
    BY <1>4, <1>8, <1>9, Collects
  <1>11. SubSeq(t.pending, 1, m) = t.pending
    BY <1>7, SubSeqFull
  <1>12. Collected(R[c], t.pending, m) =
             [event |-> t.pending, last |-> t.costed, out |-> sent, over |-> FALSE, billed |-> Nothing]
    <2>1. Collected(Fresh(t.costed, sent), t.pending, m) =
              [event |-> t.pending, last |-> t.costed, out |-> sent, over |-> FALSE, billed |-> Nothing]
      <3>1. PICK f \in ReferenceState : f = Fresh(t.costed, sent)
        BY <1>4, ReferenceRun
      <3>2. Collected(f, t.pending, m) =
                [event |-> t.pending, last |-> f.last, out |-> f.out, over |-> f.over, billed |-> f.billed]
        <4>1. Collected(f, t.pending, m) = [f EXCEPT !.event = t.pending]
          BY <1>11 DEF Collected
        <4> DEFINE g == [f EXCEPT !.event = t.pending]
        <4>2. /\ g \in ReferenceState /\ g.event = t.pending /\ g.last = f.last /\ g.out = f.out
              /\ g.over = f.over /\ g.billed = f.billed
          BY <1>7 DEF ReferenceState
        <4> HIDE DEF g
        <4>3. g = [event |-> g.event, last |-> g.last, out |-> g.out, over |-> g.over, billed |-> g.billed]
          BY <4>2 DEF ReferenceState
        <4>4. QED
          BY <4>1, <4>2, <4>3 DEF g
      <3>3. f.last = t.costed /\ f.out = sent /\ f.over = FALSE /\ f.billed = Nothing
        BY <3>1 DEF Fresh
      <3>4. QED
        BY <3>1, <3>2, <3>3
    <2>2. QED
      BY <1>4, <2>1
  <1>13. Reference(bytes) \in ReferenceState
    BY <1>6, ReferenceRun DEF Reference
  <1>14. QED
    BY <1>6, <1>10, <1>12, <1>13 DEF Reference

\* The buffer grows with the bytes.
LEMMA RestGrows ==
    ASSUME NEW bytes \in Seq(Tokens), NEW more \in Seq(Tokens), NEW c \in 0..Len(bytes)
    PROVE  /\ Rest(bytes, c) \o more = Rest(bytes \o more, c)
           /\ c \in 0..Len(bytes \o more)
  <1> DEFINE all == bytes \o more
             p == Rest(bytes, c)
             a == p \o more
             b == Rest(all, c)
             k == Len(bytes) - c
             m == Len(more)
  <1>1. k \in Nat /\ m \in Nat /\ c \in Nat /\ Len(bytes) = c + k
    OBVIOUS
  <1>2. /\ all \in Seq(Tokens) /\ Len(all) = Len(bytes) + m
        /\ \A i \in 1..(Len(bytes) + m) :
               all[i] = IF i <= Len(bytes) THEN bytes[i] ELSE more[i - Len(bytes)]
    BY ConcatProperties
  <1>3. p \in Seq(Tokens) /\ Len(p) = k /\ \A i \in 1..k : p[i] = bytes[c + i]
    BY RestIs
  <1> HIDE DEF all, p
  <1>4. /\ a \in Seq(Tokens) /\ Len(a) = k + m
        /\ \A i \in 1..(k + m) : a[i] = IF i <= k THEN p[i] ELSE more[i - k]
    <2>1. /\ a \in Seq(Tokens) /\ Len(a) = Len(p) + Len(more)
          /\ \A i \in 1..(Len(p) + Len(more)) :
                 a[i] = IF i <= Len(p) THEN p[i] ELSE more[i - Len(p)]
      BY <1>3, ConcatProperties
    <2> HIDE DEF a
    <2>2. QED
      BY <1>3, <2>1
  <1>5. c \in 0..Len(all) /\ Len(all) - c = k + m
    BY <1>1, <1>2
  <1>6. /\ b \in Seq(Tokens) /\ Len(b) = k + m
        /\ \A i \in 1..(k + m) : b[i] = all[c + i]
    BY <1>2, <1>5, RestIs
  <1> HIDE DEF a, b, k, m
  <1>7. ASSUME NEW i \in 1..(k + m)
        PROVE  a[i] = b[i]
    <2>1. CASE i <= k
      <3>1. i \in 1..k /\ c + i \in 1..(Len(bytes) + m) /\ c + i <= Len(bytes)
        BY <1>1, <2>1
      <3>2. b[i] = bytes[c + i]
        BY <1>2, <1>6, <3>1
      <3>3. a[i] = bytes[c + i]
        BY <1>3, <1>4, <2>1, <3>1
      <3>4. QED
        BY <3>2, <3>3
    <2>2. CASE ~(i <= k)
      <3>1. /\ c + i \in 1..(Len(bytes) + m) /\ ~(c + i <= Len(bytes))
            /\ (c + i) - Len(bytes) = i - k
        BY <1>1, <2>2
      <3>2. b[i] = more[i - k]
        BY <1>2, <1>6, <3>1
      <3>3. a[i] = more[i - k]
        BY <1>4, <2>2
      <3>4. QED
        BY <3>2, <3>3
    <2>3. QED
      BY <2>1, <2>2
  <1>8. a = b
    BY <1>4, <1>6, <1>7, SeqEqual
  <1>9. QED
    BY <1>5, <1>8 DEF a, b, all, p

\* How what was sent ends.
LEMMA SentEnds ==
    ASSUME NEW sent \in Seq(Ongoing)
    PROVE  /\ sent \in Seq(Events)
           /\ "done" \notin ToSet(sent)
           /\ Last(sent \o <<"done">>) = "done"
           /\ "error" \notin ToSet(sent \o <<"done">>)
  <1> DEFINE all == sent \o <<"done">>
  <1>1. "done" \notin Ongoing /\ "error" \notin Ongoing
    BY SseAssumption DEF Ongoing
  <1>2. sent \in Seq(Events)
    BY DEF Ongoing, Events
  <1>3. "done" \notin ToSet(sent)
    BY <1>1 DEF ToSet
  <1>4. /\ all \in Seq(Events) /\ Len(all) = Len(sent) + 1
        /\ \A i \in 1..(Len(sent) + 1) : all[i] = IF i <= Len(sent) THEN sent[i] ELSE "done"
    <2> DEFINE end == <<"done">>
    <2>1. end \in Seq(Events) /\ Len(end) = 1 /\ end[1] = "done"
      BY DEF Events
    <2> HIDE DEF end
    <2>2. /\ sent \o end \in Seq(Events) /\ Len(sent \o end) = Len(sent) + Len(end)
          /\ \A i \in 1..(Len(sent) + Len(end)) :
                 (sent \o end)[i] = IF i <= Len(sent) THEN sent[i] ELSE end[i - Len(sent)]
      BY <1>2, <2>1, ConcatProperties
    <2>3. \A i \in 1..(Len(sent) + 1) : ~(i <= Len(sent)) => i - Len(sent) = 1
      BY <1>2
    <2>4. QED
      BY <2>1, <2>2, <2>3 DEF end
  <1> HIDE DEF all
  <1>5. Last(all) = "done"
    <2>1. Len(all) \in 1..(Len(sent) + 1) /\ ~(Len(all) <= Len(sent))
      BY <1>2, <1>4
    <2>2. QED
      BY <1>4, <2>1 DEF Last
  <1>6. \A i \in 1..(Len(sent) + 1) : all[i] # "error"
    BY <1>1, <1>2, <1>4
  <1>7. "error" \notin ToSet(all)
    BY <1>4, <1>6 DEF ToSet
  <1>8. QED
    BY <1>2, <1>3, <1>5, <1>7 DEF all

LEMMA SpecInitIInv == Init => IInv
  <1> SUFFICES ASSUME Init PROVE IInv
    OBVIOUS
  <1> USE DEF Init
  <1>1. NewTransformer \in Transformers
    BY DEF NewTransformer, Transformers
  <1>2. transformer # Nothing
    BY <1>1, NothingAssumption
  <1>3. TypeOK
    <2>1. source \in Seq(Tokens)
      BY SseAssumption
    <2>2. transformer \in Transformers \cup {Nothing} /\ eof \in BOOLEAN
      BY <1>1
    <2>3. phase \in Phases /\ generation \in {"held", "recorded", "warned"}
      BY DEF Phases
    <2>4. out \in Seq(Usages \cup {"content", "done", "error"}) /\ consumed \in Seq(Tokens)
      OBVIOUS
    <2>5. QED
      BY <2>1, <2>2, <2>3, <2>4 DEF TypeOK
  <1>4. <<>> \in Seq(Tokens) /\ Len(<<>>) = 0 /\ <<>> \in Seq(Events) /\ <<>> \in Seq(Ongoing)
    OBVIOUS
  <1>5. NextEventEnd(<<>>) = 0 /\ Rest(<<>>, 0) = <<>>
    <2>1. PICK none \in Seq(Tokens) : none = <<>> /\ Len(none) = 0
      BY <1>4
    <2>2. NextEventEnd(none) = 0 \/ NextEventEnd(none) \in 2..Len(none)
      BY EventEnd
    <2>3. NextEventEnd(none) = 0
      BY <2>1, <2>2
    <2>4. 0 \in 0..Len(none) /\ Len(none) - 0 = 0
      BY <2>1
    <2>5. Rest(none, 0) \in Seq(Tokens) /\ Len(Rest(none, 0)) = 0
      BY <2>4, RestIs
    <2>6. Rest(none, 0) = <<>>
      BY <2>5, EmptySeq
    <2>7. QED
      BY <2>1, <2>3, <2>6
  <1> DEFINE r == Result(transformer, <<>>, Nothing)
  <1>6. /\ r.left = transformer /\ r.items = <<>> /\ r.completed = Nothing
        /\ transformer.pending = <<>> /\ transformer.costed = Nothing /\ transformer.closed = FALSE
    BY DEF Result, NewTransformer
  <1>7. BufferFrom(consumed, out, r, 0)
    <2>1. Rest(<<>>, 0) = <<>>
      BY <1>5
    <2>2. ReferenceStates(<<>>)[0] = Fresh(Nothing, <<>>)
      BY <1>4, ReferenceRun DEF ReferenceInit, Fresh
    <2>3. <<>> \o <<>> = <<>>
      BY <1>4, ConcatEmptySeq
    <2> HIDE DEF r
    <2>4. QED
      BY <1>6, <2>1, <2>2, <2>3 DEF BufferFrom
  <1> HIDE DEF r
  <1>8. Abreast(consumed, out, r)
    <2>1. 0 \in 0..Len(consumed)
      BY <1>4
    <2>2. ~r.left.closed
      BY <1>6
    <2>3. QED
      BY <1>4, <1>6, <1>7, <2>1, <2>2 DEF Abreast
  <1>9. Underway
    BY <1>4, <1>5, <1>6, <1>8 DEF Underway, r
  <1>10. Spent
    BY <1>2 DEF Spent
  <1>11. Reference(consumed) = [event |-> transformer.pending, last |-> transformer.costed,
                                out |-> out, over |-> FALSE, billed |-> Nothing]
    BY <1>1, <1>4, <1>5, <1>6, <1>8, UnderwayIs DEF r
  <1>12. ChunkingIsInvisible
    BY <1>11 DEF ChunkingIsInvisible, Expected
  <1>13. EveryEndIsAccounted
    BY <1>4, SentEnds DEF EveryEndIsAccounted
  <1>14. QED
    BY <1>3, <1>9, <1>10, <1>12, <1>13 DEF IInv

\* An open stream has the properties.
LEMMA OpenStream ==
    TypeOK /\ Underway /\ transformer # Nothing =>
        Spent /\ ChunkingIsInvisible /\ EveryEndIsAccounted
  <1> SUFFICES ASSUME TypeOK, Underway, transformer # Nothing
               PROVE  Spent /\ ChunkingIsInvisible /\ EveryEndIsAccounted
    OBVIOUS
  <1>1. transformer \in Transformers /\ consumed \in Seq(Tokens)
    BY DEF TypeOK
  <1>2. /\ phase \in {"idle", "pulling", "dropped"} /\ generation = "held" /\ eof = FALSE
        /\ out \in Seq(Ongoing) /\ NextEventEnd(transformer.pending) = 0
        /\ Abreast(consumed, out, Result(transformer, <<>>, Nothing))
    BY DEF Underway
  <1>3. out \in Seq(Events) /\ "done" \notin ToSet(out)
    BY <1>2, SentEnds
  <1>4. Reference(consumed) = [event |-> transformer.pending, last |-> transformer.costed,
                               out |-> out, over |-> FALSE, billed |-> Nothing]
    BY <1>1, <1>2, <1>3, UnderwayIs
  <1>5. ChunkingIsInvisible
    BY <1>2, <1>4 DEF ChunkingIsInvisible, Expected
  <1>6. EveryEndIsAccounted
    BY <1>2, <1>3 DEF EveryEndIsAccounted
  <1>7. Spent
    BY DEF Spent
  <1>8. QED
    BY <1>5, <1>6, <1>7

\* A chunk is transformed as the reference takes its bytes.
LEMMA ChunkAgrees ==
    ASSUME NEW bytes \in Seq(Tokens), NEW chunk \in Seq(Tokens), NEW sent \in Seq(Events),
           NEW t \in Transformers, Abreast(bytes, sent, Result(t, <<>>, Nothing))
    PROVE  LET r == TransformChunk(t, chunk)
           IN  /\ r \in Results
               /\ \/ Abreast(bytes \o chunk, sent, r) /\ NextEventEnd(r.left.pending) = 0
                  \/ Finished(bytes \o chunk, sent, r)
  <1> DEFINE all == bytes \o chunk
             full == [t EXCEPT !.pending = @ \o chunk]
             r == Result(t, <<>>, Nothing)
             q == Result(full, <<>>, Nothing)
  <1>1. all \in Seq(Tokens)
    BY ConcatProperties
  <1>2. t.pending \in Seq(Tokens) /\ t.pending \o chunk \in Seq(Tokens)
    BY ConcatProperties DEF Transformers
  <1>3. /\ full \in Transformers /\ full.pending = t.pending \o chunk
        /\ full.costed = t.costed /\ full.closed = t.closed
    BY <1>2 DEF Transformers
  <1> HIDE DEF full
  <1>4. /\ r.left = t /\ r.items = <<>> /\ q.left = full /\ q.items = <<>> /\ q.completed = Nothing
    BY DEF Result
  <1>5. ~r.left.closed /\ \E c \in 0..Len(bytes) : BufferFrom(bytes, sent, r, c)
    BY DEF Abreast
  <1> HIDE DEF r, q
  <1>6. PICK c \in 0..Len(bytes) : BufferFrom(bytes, sent, r, c)
    BY <1>5
  <1>7. t.pending = Rest(bytes, c) /\ ReferenceStates(bytes)[c] = Fresh(t.costed, sent \o <<>>)
    BY <1>4, <1>6 DEF BufferFrom
  <1>8. Rest(bytes, c) \o chunk = Rest(all, c) /\ c \in 0..Len(all)
    BY RestGrows
  <1>9. ReferenceStates(all)[c] = ReferenceStates(bytes)[c]
    BY ReferencePrefix
  <1> HIDE DEF all
  <1>10. BufferFrom(all, sent, q, c)
    BY <1>3, <1>4, <1>7, <1>8, <1>9 DEF BufferFrom
  <1>11. ~q.left.closed
    BY <1>3, <1>4, <1>5
  <1>12. <<>> \in Seq(Ongoing)
    OBVIOUS
  <1>13. Abreast(all, sent, q)
    BY <1>4, <1>8, <1>10, <1>11, <1>12 DEF Abreast
  <1>14. TransformChunk(t, chunk) = DrainEvents(full)
    BY DEF TransformChunk, full
  <1>15. QED
    BY <1>1, <1>3, <1>13, <1>14, LoopAgrees DEF q, all

\* An open stream stays abreast once its events are handed over.
LEMMA HandedOver ==
    ASSUME NEW bytes \in Seq(Tokens), NEW sent \in Seq(Ongoing), NEW r \in Results,
           Abreast(bytes, sent, r)
    PROVE  /\ sent \o r.items \in Seq(Ongoing)
           /\ Abreast(bytes, sent \o r.items, Result(r.left, <<>>, Nothing))
  <1> DEFINE q == Result(r.left, <<>>, Nothing)
  <1>1. r.items \in Seq(Ongoing) /\ ~r.left.closed
    BY DEF Abreast
  <1>2. sent \o r.items \in Seq(Ongoing)
    BY <1>1, ConcatProperties
  <1>3. (sent \o r.items) \o <<>> = sent \o r.items
    BY <1>2, ConcatEmptySeq
  <1>4. PICK c \in 0..Len(bytes) : BufferFrom(bytes, sent, r, c)
    BY DEF Abreast
  <1>5. q.left = r.left /\ q.items = <<>> /\ q.completed = Nothing
    BY DEF Result
  <1> HIDE DEF q
  <1>6. BufferFrom(bytes, sent \o r.items, q, c)
    BY <1>3, <1>4, <1>5 DEF BufferFrom
  <1>7. ~q.left.closed /\ q.items \in Seq(Ongoing)
    BY <1>1, <1>5
  <1>8. Abreast(bytes, sent \o r.items, q)
    BY <1>5, <1>6, <1>7 DEF Abreast
  <1>9. QED
    BY <1>2, <1>8 DEF q

\* What a stream that closes has sent.
LEMMA EndingIs ==
    ASSUME NEW sent \in Seq(Ongoing), NEW before \in Seq(Ongoing), NEW completed
    PROVE  LET items == before \o Ending(completed)
           IN  /\ items # <<>>
               /\ sent \o items \in Seq(Events)
               /\ completed # Nothing =>
                      Last(sent \o items) = "done" /\ "error" \notin ToSet(sent \o items)
  <1> DEFINE items == before \o Ending(completed)
             end == Ending(completed)
  <1>1. end \in Seq(Events) /\ end # <<>>
    <2>1. CASE completed = Nothing
      BY <2>1, EventItems DEF Ending, ErrorItems
    <2>2. CASE completed # Nothing
      BY <2>2, EventItems DEF Ending, Events
    <2>3. QED
      BY <2>1, <2>2
  <1>2. before \in Seq(Events) /\ sent \in Seq(Events)
    BY SentEnds
  <1> HIDE DEF end
  <1>3. before \o end \in Seq(Events) /\ before \o end # <<>>
    BY <1>1, <1>2, ConcatProperties, ConcatEqualIffEmpty
  <1>4. sent \o (before \o end) \in Seq(Events)
    BY <1>2, <1>3, ConcatProperties
  <1>5. ASSUME completed # Nothing
        PROVE  Last(sent \o (before \o end)) = "done" /\ "error" \notin ToSet(sent \o (before \o end))
    <2>1. end = <<"done">>
      BY <1>5 DEF end, Ending
    <2>2. sent \o before \in Seq(Ongoing)
      BY ConcatProperties
    <2>3. (sent \o before) \o end = sent \o (before \o end)
      BY <1>1, <1>2, ConcatAssociative
    <2>4. Last((sent \o before) \o <<"done">>) = "done" /\ "error" \notin ToSet((sent \o before) \o <<"done">>)
      BY <2>2, SentEnds
    <2>5. QED
      BY <2>1, <2>3, <2>4
  <1>6. QED
    BY <1>3, <1>4, <1>5 DEF end

\* A chunk: FeedChunk keeps the invariant.
LEMMA FeedChunkKeeps ==
    ASSUME IInv, phase = "pulling", transformer # Nothing, NEW n \in 1..Len(source), FeedChunk(n)
    PROVE  IInv'
  <1> DEFINE chunk == SubSeq(source, 1, n)
             r == TransformChunk(transformer, chunk)
             all == consumed \o chunk
  <1>1. /\ transformer \in Transformers /\ consumed \in Seq(Tokens) /\ source \in Seq(Tokens)
        /\ out \in Seq(Ongoing) /\ generation = "held" /\ eof = FALSE
        /\ Abreast(consumed, out, Result(transformer, <<>>, Nothing))
    BY DEF IInv, TypeOK, Underway
  <1>2. out \in Seq(Events)
    BY <1>1, SentEnds
  <1>3. chunk \in Seq(Tokens) /\ SubSeq(source, n + 1, Len(source)) \in Seq(Tokens)
    BY <1>1
  <1>4. /\ transformer' = IF r.left.closed THEN Nothing ELSE r.left
        /\ out' = out \o r.items
        /\ generation' = Fate(r)
        /\ phase' = IF r.items = <<>> THEN "pulling" ELSE "idle"
        /\ consumed' = all
        /\ source' = SubSeq(source, n + 1, Len(source))
        /\ eof' = eof
    BY DEF FeedChunk
  <1>5. all \in Seq(Tokens)
    BY <1>1, <1>3, ConcatProperties
  <1> HIDE DEF chunk
  <1>6. /\ r \in Results
        /\ \/ Abreast(all, out, r) /\ NextEventEnd(r.left.pending) = 0
           \/ Finished(all, out, r)
    BY <1>1, <1>2, <1>3, ChunkAgrees
  <1> HIDE DEF r, all
  <1>7. r.left \in Transformers /\ r.items \in Seq(Events) /\ r.completed \in MaybeUsage
    BY <1>6 DEF Results
  <1>8. r.left # Nothing
    BY <1>7, NothingAssumption
  <1>9. out' \in Seq(Events)
    BY <1>2, <1>4, <1>7, ConcatProperties
  <1>10. phase' \in {"idle", "pulling"} /\ eof' = FALSE
    BY <1>1, <1>4
  <1>11. CASE Abreast(all, out, r) /\ NextEventEnd(r.left.pending) = 0
    <2>1. ~r.left.closed /\ r.completed = Nothing
      BY <1>11 DEF Abreast
    <2>2. transformer' = r.left
      BY <1>4, <2>1
    <2>3. generation' = "held"
      BY <1>1, <1>4, <1>8, <2>1 DEF Fate
    <2>4. out' \in Seq(Ongoing) /\ Abreast(all, out', Result(r.left, <<>>, Nothing))
      BY <1>1, <1>4, <1>5, <1>6, <1>11, HandedOver
    <2>5. TypeOK'
      <3>1. phase' \in Phases /\ generation' \in {"held", "recorded", "warned"} /\ eof' \in BOOLEAN
        BY <1>10, <2>3 DEF Phases
      <3>2. source' \in Seq(Tokens) /\ consumed' \in Seq(Tokens)
        BY <1>3, <1>4, <1>5
      <3>3. transformer' \in Transformers \cup {Nothing}
        BY <1>7, <2>2
      <3>4. QED
        BY <1>9, <3>1, <3>2, <3>3 DEF TypeOK, Events
    <2>6. Underway'
      BY <1>4, <1>10, <1>11, <2>2, <2>3, <2>4 DEF Underway
    <2>7. transformer' # Nothing
      BY <1>8, <2>2
    <2>8. (TypeOK /\ Underway /\ transformer # Nothing)' =>
              (Spent /\ ChunkingIsInvisible /\ EveryEndIsAccounted)'
      BY OpenStream, PTL
    <2>9. QED
      BY <2>5, <2>6, <2>7, <2>8 DEF IInv
  <1>12. CASE Finished(all, out, r)
    <2>1. r.left.closed
      BY <1>12 DEF Finished
    <2>2. Reference(all).out = out \o r.items /\ Reference(all).billed = r.completed
      BY <1>12 DEF Finished, Reference
    <2>3. PICK before \in Seq(Ongoing) : r.items = before \o Ending(r.completed)
      BY <1>12 DEF Finished
    <2>4. /\ r.items # <<>>
          /\ r.completed # Nothing => Last(out') = "done" /\ "error" \notin ToSet(out')
      BY <1>1, <1>4, <2>3, EndingIs
    <2>5. transformer' = Nothing /\ phase' = "idle"
      BY <1>4, <2>1, <2>4
    <2>6. generation' = IF r.completed # Nothing THEN "recorded" ELSE "warned"
      BY <1>1, <1>4, <2>1 DEF Fate
    <2>7. Expected' = Reference(all)
      BY <1>4, <1>10 DEF Expected
    <2>8. TypeOK'
      <3>1. phase' \in Phases /\ generation' \in {"held", "recorded", "warned"} /\ eof' \in BOOLEAN
        BY <1>10, <2>6 DEF Phases
      <3>2. source' \in Seq(Tokens) /\ consumed' \in Seq(Tokens)
        BY <1>3, <1>4, <1>5
      <3>3. transformer' \in Transformers \cup {Nothing}
        BY <2>5
      <3>4. QED
        BY <1>9, <3>1, <3>2, <3>3 DEF TypeOK, Events
    <2>9. /\ generation' # "held"
          /\ out' = Expected'.out
          /\ generation' = "recorded" <=> Expected'.billed # Nothing
          /\ generation' = "recorded" => Last(out') = "done" /\ "error" \notin ToSet(out')
      BY <1>4, <2>2, <2>4, <2>6, <2>7
    <2>10. QED
      BY <2>5, <2>8, <2>9 DEF IInv, Underway, Spent, ChunkingIsInvisible, EveryEndIsAccounted
  <1>13. QED
    BY <1>6, <1>11, <1>12

\* The end of the input: FeedEnd keeps the invariant.
LEMMA FeedEndKeeps ==
    ASSUME IInv, phase = "pulling", transformer # Nothing, FeedEnd
    PROVE  IInv'
  <1> DEFINE r == Finish(transformer)
             s == Reference(consumed)
  <1>1. /\ transformer \in Transformers /\ consumed \in Seq(Tokens) /\ source \in Seq(Tokens)
        /\ out \in Seq(Ongoing) /\ generation = "held"
        /\ NextEventEnd(transformer.pending) = 0
        /\ Abreast(consumed, out, Result(transformer, <<>>, Nothing))
    BY DEF IInv, TypeOK, Underway
  <1>2. out \in Seq(Events)
    BY <1>1, SentEnds
  <1>3. /\ out' = out \o r.items
        /\ generation' = Fate(r)
        /\ phase' = IF r.items = <<>> THEN "ended" ELSE "idle"
        /\ transformer' = Nothing
        /\ eof' = TRUE
        /\ source' = source /\ consumed' = consumed
    BY DEF FeedEnd
  <1>4. /\ s \in ReferenceState
        /\ s = [event |-> transformer.pending, last |-> transformer.costed, out |-> out,
                over |-> FALSE, billed |-> Nothing]
    BY <1>1, <1>2, UnderwayIs
  <1> HIDE DEF s
  <1>5. /\ s.event = transformer.pending /\ s.last = transformer.costed /\ s.out = out
        /\ ~s.over /\ s.billed = Nothing
    BY <1>4
  <1>6. /\ r.left = Nothing /\ r.completed \in MaybeUsage /\ r.items = Ending(r.completed)
        /\ ReferenceEnd(s).out = out \o r.items /\ ReferenceEnd(s).billed = r.completed
    BY <1>1, <1>2, <1>4, <1>5, FinishAgrees
  <1> HIDE DEF r
  <1>7. /\ r.items # <<>>
        /\ out \o r.items \in Seq(Events)
        /\ r.completed # Nothing => Last(out \o r.items) = "done" /\ "error" \notin ToSet(out \o r.items)
    <2>1. <<>> \in Seq(Ongoing)
      OBVIOUS
    <2>2. Ending(r.completed) \in Seq(Events)
      <3>1. CASE r.completed = Nothing
        BY <3>1, EventItems DEF Ending
      <3>2. CASE r.completed # Nothing
        BY <3>2, EventItems DEF Ending, Events
      <3>3. QED
        BY <3>1, <3>2
    <2>3. <<>> \o Ending(r.completed) = r.items
      BY <1>6, <2>2, ConcatEmptySeq
    <2>4. PICK none \in Seq(Ongoing) : none \o Ending(r.completed) = r.items
      BY <2>1, <2>3
    <2>5. QED
      BY <1>1, <2>4, EndingIs
  <1>8. phase' = "idle"
    BY <1>3, <1>7
  <1>9. generation' = IF r.completed # Nothing THEN "recorded" ELSE "warned"
    BY <1>1, <1>3, <1>6 DEF Fate
  <1>10. Expected' = ReferenceEnd(s)
    BY <1>3 DEF Expected, s
  <1>11. TypeOK'
    <2>1. phase' \in Phases /\ generation' \in {"held", "recorded", "warned"} /\ eof' \in BOOLEAN
      BY <1>3, <1>8, <1>9 DEF Phases
    <2>2. out' \in Seq(Events)
      BY <1>3, <1>7
    <2>3. QED
      BY <1>1, <1>3, <2>1, <2>2 DEF TypeOK, Events
  <1>12. /\ generation' # "held"
         /\ out' = Expected'.out
         /\ generation' = "recorded" <=> Expected'.billed # Nothing
         /\ generation' = "recorded" => Last(out') = "done" /\ "error" \notin ToSet(out')
    BY <1>3, <1>6, <1>7, <1>9, <1>10
  <1>13. QED
    BY <1>3, <1>8, <1>11, <1>12 DEF IInv, Underway, Spent, ChunkingIsInvisible, EveryEndIsAccounted

\* Every step keeps the invariant.
LEMMA NextKeepsIInv == IInv /\ [Next]_vars => IInv'
  <1> SUFFICES ASSUME IInv, [Next]_vars PROVE IInv'
    OBVIOUS
  <1>1. TypeOK /\ Underway /\ Spent /\ ChunkingIsInvisible /\ EveryEndIsAccounted
    BY DEF IInv
  <1>2. ASSUME UNCHANGED <<transformer, out, generation, consumed, eof>>
        PROVE  ChunkingIsInvisible'
    <2>1. Expected' = Expected
      BY <1>2 DEF Expected
    <2>2. QED
      BY <1>1, <1>2, <2>1 DEF ChunkingIsInvisible
  <1>3. CASE ClientPolls
    <2>1. TypeOK'
      BY <1>1, <1>3 DEF ClientPolls, TypeOK, Phases
    <2>2. Underway'
      BY <1>1, <1>3 DEF ClientPolls, Underway
    <2>3. Spent'
      BY <1>1, <1>3 DEF ClientPolls, Spent
    <2>4. ChunkingIsInvisible'
      BY <1>2, <1>3 DEF ClientPolls
    <2>5. EveryEndIsAccounted'
      BY <1>1, <1>3 DEF ClientPolls, Spent, EveryEndIsAccounted
    <2>6. QED
      BY <2>1, <2>2, <2>3, <2>4, <2>5 DEF IInv
  <1>4. ASSUME NEW n \in 1..Len(source), ChunkArrives(n) PROVE IInv'
    <2>1. phase = "pulling" /\ transformer # Nothing
      BY <1>1, <1>4 DEF ChunkArrives, Spent
    <2>2. FeedChunk(n)
      BY <1>4, <2>1 DEF ChunkArrives
    <2>3. QED
      BY <2>1, <2>2, FeedChunkKeeps
  <1>5. CASE SourceEnds
    <2>1. phase = "pulling" /\ transformer # Nothing
      BY <1>1, <1>5 DEF SourceEnds, Spent
    <2>2. FeedEnd
      BY <1>5, <2>1 DEF SourceEnds
    <2>3. QED
      BY <2>1, <2>2, FeedEndKeeps
  <1>6. CASE SourceFails
    <2>1. phase = "pulling" /\ transformer # Nothing
      BY <1>1, <1>6 DEF SourceFails, Spent
    <2>2. generation = "held" /\ generation' = "warned" /\ phase' = "failed" /\ transformer' = Nothing
      BY <1>1, <1>6, <2>1 DEF SourceFails, Underway
    <2>3. out' = out /\ consumed' = consumed /\ eof' = eof /\ source' = source
      BY <1>6 DEF SourceFails
    <2>4. TypeOK'
      BY <1>1, <2>2, <2>3 DEF TypeOK, Phases
    <2>5. Underway' /\ Spent'
      BY <2>2 DEF Underway, Spent
    <2>6. Expected' = Expected
      BY <2>3 DEF Expected
    <2>7. ChunkingIsInvisible'
      BY <1>1, <2>2, <2>3, <2>6 DEF ChunkingIsInvisible
    <2>8. EveryEndIsAccounted'
      BY <2>2 DEF EveryEndIsAccounted
    <2>9. QED
      BY <2>4, <2>5, <2>7, <2>8 DEF IInv
  <1>7. CASE ClientDrops
    <2>1. TypeOK'
      BY <1>1, <1>7 DEF ClientDrops, TypeOK, Phases
    <2>2. Underway'
      BY <1>1, <1>7 DEF ClientDrops, Underway
    <2>3. Spent'
      BY <1>1, <1>7 DEF ClientDrops, Spent
    <2>4. ChunkingIsInvisible'
      BY <1>2, <1>7 DEF ClientDrops
    <2>5. EveryEndIsAccounted'
      BY <1>1, <1>7 DEF ClientDrops, EveryEndIsAccounted
    <2>6. QED
      BY <2>1, <2>2, <2>3, <2>4, <2>5 DEF IInv
  <1>8. CASE UNCHANGED vars
    <2>1. TypeOK'
      BY <1>1, <1>8 DEF vars, TypeOK
    <2>2. Underway'
      BY <1>1, <1>8 DEF vars, Underway
    <2>3. Spent'
      BY <1>1, <1>8 DEF vars, Spent
    <2>4. ChunkingIsInvisible'
      BY <1>2, <1>8 DEF vars
    <2>5. EveryEndIsAccounted'
      BY <1>1, <1>8 DEF vars, EveryEndIsAccounted
    <2>6. QED
      BY <2>1, <2>2, <2>3, <2>4, <2>5 DEF IInv
  <1>9. QED
    BY <1>3, <1>4, <1>5, <1>6, <1>7, <1>8 DEF Next, Over

-----------------------------------------------------------------------------
(* The theorems.                                                           *)

\* The inductive invariant holds for every source and every chunking of it.
LEMMA AlwaysIInv == Spec => []IInv
  BY SpecInitIInv, NextKeepsIInv, PTL DEF Spec

\* Every variable keeps its type, for sources of any length.
THEOREM TypeCorrect == Spec => []TypeOK
  <1>1. IInv => TypeOK
    BY DEF IInv
  <1>2. QED
    BY <1>1, AlwaysIInv, PTL

\* Where the network cuts the bytes never shows, however long the stream and
\* however it is cut (UsageCostTransformer::transform and finish).
THEOREM ChunkingCorrect == Spec => []ChunkingIsInvisible
  <1>1. IInv => ChunkingIsInvisible
    BY DEF IInv
  <1>2. QED
    BY <1>1, AlwaysIInv, PTL

\* Every body that ends has had its generation recorded or warned of
\* (stream_with_response_transformer).
THEOREM EndsCorrect == Spec => []EveryEndIsAccounted
  <1>1. IInv => EveryEndIsAccounted
    BY DEF IInv
  <1>2. QED
    BY <1>1, AlwaysIInv, PTL

\* The expect calls of stream_with_response_transformer never fail: whenever
\* the closure pulls, a transformer is there to take.
NeverPanics == phase # "panicked" /\ (phase = "pulling" => transformer # Nothing)

\* The closure never panics: a transformer that closes has put something out,
\* which is handed over before the next pull.
THEOREM NoPanic == Spec => []NeverPanics
  <1>1. IInv => NeverPanics
    <2> SUFFICES ASSUME IInv PROVE NeverPanics
      OBVIOUS
    <2>1. CASE transformer # Nothing
      BY <2>1 DEF IInv, Underway, NeverPanics
    <2>2. CASE transformer = Nothing
      BY <2>2 DEF IInv, Spent, NeverPanics
    <2>3. QED
      BY <2>1, <2>2
  <1>2. QED
    BY <1>1, AlwaysIInv, PTL

=============================================================================
