--------------------------- MODULE UsageCostProofs ---------------------------
(***************************************************************************)
(* The properties of UsageCost, for every denominator, every price table   *)
(* and every set of documents.                                             *)
(***************************************************************************)
EXTENDS UsageCost, TLAPS

-----------------------------------------------------------------------------
(* Rounding.                                                               *)

\* What integer division returns for a divisor above zero.
LEMMA Division ==
    ASSUME NEW n \in Nat, NEW d \in Nat, d > 0
    PROVE  /\ n \div d \in Nat
           /\ d * (n \div d) <= n
           /\ n < d * (n \div d) + d
  <1>1. n \div d \in Int /\ n \div d >= 0
    BY SMT
  <1>2. d * (n \div d) <= n
    BY SMT
  <1>3. n < d * (n \div d) + d
    BY SMT
  <1>4. QED
    BY <1>1, <1>2, <1>3

\* Rounded (round_dp_with_strategy) returns the nearest unit, the midpoint
\* going up.
LEMMA RoundedIsNearest ==
    ASSUME NEW a \in Nat
    PROVE  Rounded(a) \in Nat /\ Nearest(Rounded(a), a)
  <1> DEFINE q == Rounded(a)
             D == Denominator
  <1>1. D \in Nat /\ D > 0
    BY UsageCostAssumption
  <1>2. q \in Nat /\ (2 * D) * q <= 2 * a + D /\ 2 * a + D < (2 * D) * q + 2 * D
    <2>1. 2 * a + D \in Nat /\ 2 * D \in Nat /\ 2 * D > 0
      BY <1>1
    <2>2. QED
      BY <2>1, Division DEF Rounded
  <1>3. D * q \in Int /\ (2 * D) * q = 2 * (D * q)
    BY <1>1, <1>2, SMT
  <1>4. (2 * q - 1) * D = 2 * (D * q) - D /\ (2 * q + 1) * D = 2 * (D * q) + D
    BY <1>1, <1>2, SMT
  <1>5. QED
    BY <1>1, <1>2, <1>3, <1>4 DEF Nearest

\* A whole number of units is its own rounding.
LEMMA RoundedIsIdempotent ==
    ASSUME NEW c \in Nat
    PROVE  c * Denominator \in Nat /\ Rounded(c * Denominator) = c
  <1> DEFINE D == Denominator
             q == Rounded(c * D)
  <1>1. D \in Nat /\ D > 0 /\ c * D \in Nat
    BY UsageCostAssumption
  <1>2. q \in Nat /\ (2 * q - 1) * D <= 2 * (c * D) /\ 2 * (c * D) < (2 * q + 1) * D
    BY <1>1, RoundedIsNearest DEF Nearest
  <1>3. ~(q < c)
    <2> SUFFICES ASSUME q < c PROVE FALSE
      OBVIOUS
    <2>1. (2 * q + 1) * D <= (2 * c) * D
      BY <1>1, <1>2, SMT
    <2>2. QED
      BY <1>1, <1>2, <2>1, SMT
  <1>4. ~(c < q)
    <2> SUFFICES ASSUME c < q PROVE FALSE
      OBVIOUS
    <2>1. (2 * c + 1) * D <= (2 * q - 1) * D
      BY <1>1, <1>2, SMT
    <2>2. (2 * c + 1) * D = 2 * (c * D) + D
      BY <1>1, SMT
    <2>3. QED
      BY <1>1, <1>2, <2>1, <2>2, SMT
  <1>5. QED
    BY <1>1, <1>2, <1>3, <1>4

-----------------------------------------------------------------------------
(* The cost of a usage object.                                             *)

\* reported_cost: none, a valid amount rounded once, or an invalid one.
LEMMA ReportedCostCases ==
    ASSUME NEW value \in Amount
    PROVE  /\ value = Nothing => ReportedCost(value) = Nothing
           /\ value \in Nat => ReportedCost(value) = Rounded(value)
           /\ value # Nothing /\ value \notin Nat => ReportedCost(value) = Junk
  <1>1. CASE value = Nothing
    BY <1>1, UsageCostAssumption DEF ReportedCost
  <1>2. CASE value \in Nat
    BY <1>2, UsageCostAssumption DEF ReportedCost
  <1>3. CASE value # Nothing /\ value \notin Nat
    <2>1. ~(value \in Int /\ value >= 0)
      BY <1>3
    <2>2. QED
      BY <1>3, <2>1 DEF ReportedCost
  <1>4. QED
    BY <1>1, <1>2, <1>3

\* A natural number is neither absent nor junk.
LEMMA NumbersAreGiven ==
    ASSUME NEW c \in Nat
    PROVE  c # Nothing /\ c # Junk
  BY UsageCostAssumption

\* The published formula over p, a natural number where it applies.
Formula(p, usage) ==
    usage.completion * p.output
    + (IF p.cached = Nothing THEN usage.prompt * p.input
       ELSE (usage.prompt - usage.cached) * p.input + usage.cached * p.cached)

\* The formula has all it needs.
Computable(p, usage) ==
    /\ usage.prompt \in Nat /\ usage.completion \in Nat
    /\ p.cached # Nothing => usage.cached \in 0..usage.prompt

\* cost_usd and cached_cost_usd return the rounded formula, or nothing.
LEMMA ComputedCost ==
    ASSUME NEW p \in Prices, NEW usage \in Usage,
           usage.prompt \in Nat, usage.completion \in Nat
    PROVE  /\ Computable(p, usage) =>
                  /\ Formula(p, usage) \in Nat
                  /\ ProviderCostUsd(p, usage) = Rounded(Formula(p, usage))
           /\ ~Computable(p, usage) => ProviderCostUsd(p, usage) = Nothing
  <1> DEFINE prompt == usage.prompt
             completion == usage.completion
             cached == usage.cached
             input == p.input
             output == p.output
  <1>0. /\ prompt \in Nat /\ completion \in Nat /\ input \in Nat /\ output \in Nat
        /\ p.cached # Nothing => p.cached \in Nat
    BY DEF Prices
  <1>1. CASE p.cached = Nothing
    <2>1. prompt * input + completion * output \in Nat
      <3>1. prompt * input \in Nat /\ completion * output \in Nat
        BY <1>0, SMT
      <3>2. QED
        BY <3>1, SMT
    <2>2. completion * output + prompt * input = prompt * input + completion * output
      BY <1>0, SMT
    <2>3. Formula(p, usage) = prompt * input + completion * output
      BY <1>1, <2>2 DEF Formula
    <2>4. ProviderCostUsd(p, usage) = Rounded(prompt * input + completion * output)
      BY <1>1 DEF ProviderCostUsd, CostUsd
    <2>5. QED
      BY <1>1, <2>1, <2>3, <2>4 DEF Computable
  <1>2. CASE p.cached # Nothing /\ cached \in 0..prompt
    <2> DEFINE rate == p.cached
    <2>0. cached \in Nat /\ prompt - cached \in Nat /\ rate \in Nat
      BY <1>0, <1>2
    <2>1. (prompt - cached) * input \in Nat /\ cached * rate \in Nat /\ completion * output \in Nat
      BY <1>0, <2>0, SMT
    <2>2. Formula(p, usage) = completion * output + ((prompt - cached) * input + cached * rate)
      BY <1>2 DEF Formula
    <2>3. ProviderCostUsd(p, usage)
              = Rounded((prompt - cached) * input + cached * rate + completion * output)
      BY <1>2 DEF ProviderCostUsd
    <2>4. \A x, y, z \in Nat : z + (x + y) = x + y + z /\ z + (x + y) \in Nat
      BY SMT
    <2>5. /\ completion * output + ((prompt - cached) * input + cached * rate)
                 = (prompt - cached) * input + cached * rate + completion * output
          /\ completion * output + ((prompt - cached) * input + cached * rate) \in Nat
      <3> HIDE DEF prompt, completion, cached, input, output, rate
      <3>1. QED
        BY <2>1, <2>4
    <2>6. QED
      BY <1>2, <2>2, <2>3, <2>5 DEF Computable
  <1>3. CASE p.cached # Nothing /\ cached \notin 0..prompt
    BY <1>3 DEF Computable, ProviderCostUsd
  <1>4. QED
    BY <1>1, <1>2, <1>3

\* The estimate counts: a DeepInfra route that sent no cost but an estimate.
UsesEstimate(pol, usage) ==
    ~Given(usage.cost) /\ pol = "DeepInfraEstimatedCost" /\ Given(usage.estimated)

\* Everything that counts is valid.
Billable(pol, p, usage) ==
    /\ usage.prompt \in Nat /\ usage.completion \in Nat
    /\ Given(usage.cost) => usage.cost \in Nat
    /\ UsesEstimate(pol, usage) => usage.estimated \in Nat
    /\ ~Given(usage.cost) /\ ~UsesEstimate(pol, usage) => Computable(p, usage)

\* The amount that counts, before it is rounded.
BilledAmount(pol, p, usage) ==
    IF Given(usage.cost) THEN usage.cost
    ELSE IF UsesEstimate(pol, usage) THEN usage.estimated
    ELSE Formula(p, usage)

\* inject_usage_cost_value_with_policy bills the amount that counts, rounded
\* once, exactly when everything that counts is valid.
LEMMA Resolution ==
    ASSUME NEW pol \in Policies, NEW p \in Prices, NEW usage \in Usage
    PROVE  /\ Billable(pol, p, usage) =>
                  /\ BilledAmount(pol, p, usage) \in Nat
                  /\ ResolveCost(pol, p, usage) = Costed(Rounded(BilledAmount(pol, p, usage)))
           /\ ~Billable(pol, p, usage) =>
                  \E why \in Refusals : ResolveCost(pol, p, usage) = Omitted(why)
  <1> DEFINE reported == ReportedCost(usage.cost)
             estimated == EstimatedCost(pol, usage)
             computed == ProviderCostUsd(p, usage)
             result == ResolveCost(pol, p, usage)
  <1>0. usage.cost \in Amount /\ usage.estimated \in Amount
    BY DEF Usage
  <1>1. CASE usage.prompt \notin Nat \/ usage.completion \notin Nat
    <2>1. result = Omitted("InvalidUsage")
      BY <1>1 DEF ResolveCost
    <2>2. QED
      BY <1>1, <2>1 DEF Billable, Refusals
  <1>2. CASE usage.prompt \in Nat /\ usage.completion \in Nat
    <2>1. CASE Given(usage.cost) /\ usage.cost \notin Nat
      <3>1. reported = Junk
        BY <1>0, <2>1, ReportedCostCases DEF Given
      <3>2. result = Omitted("InvalidProviderCost")
        BY <1>2, <3>1 DEF ResolveCost
      <3>3. QED
        BY <2>1, <3>2 DEF Billable, Refusals
    <2>2. CASE Given(usage.cost) /\ usage.cost \in Nat
      <3>1. reported = Rounded(usage.cost)
        BY <1>0, <2>2, ReportedCostCases
      <3>2. reported # Nothing /\ reported # Junk
        BY <2>2, <3>1, RoundedIsNearest, NumbersAreGiven
      <3>3. result = Costed(Rounded(usage.cost))
        BY <1>2, <3>1, <3>2 DEF ResolveCost
      <3>4. Billable(pol, p, usage) /\ BilledAmount(pol, p, usage) = usage.cost
        BY <1>2, <2>2 DEF Billable, BilledAmount, UsesEstimate
      <3>5. QED
        BY <2>2, <3>3, <3>4
    <2>3. CASE ~Given(usage.cost)
      <3>0. reported = Nothing /\ reported # Junk
        BY <1>0, <2>3, ReportedCostCases, UsageCostAssumption DEF Given
      <3>1. CASE UsesEstimate(pol, usage) /\ usage.estimated \notin Nat
        <4>1. estimated = Junk
          BY <1>0, <3>1, ReportedCostCases DEF UsesEstimate, EstimatedCost, Given
        <4>2. result = Omitted("InvalidProviderCost")
          BY <1>2, <3>0, <4>1 DEF ResolveCost
        <4>3. QED
          BY <3>1, <4>2 DEF Billable, Refusals
      <3>2. CASE UsesEstimate(pol, usage) /\ usage.estimated \in Nat
        <4>1. estimated = Rounded(usage.estimated)
          BY <1>0, <3>2, ReportedCostCases DEF UsesEstimate, EstimatedCost
        <4>2. estimated # Nothing /\ estimated # Junk
          BY <3>2, <4>1, RoundedIsNearest, NumbersAreGiven
        <4>3. result = Costed(Rounded(usage.estimated))
          BY <1>2, <3>0, <4>1, <4>2 DEF ResolveCost
        <4>4. Billable(pol, p, usage) /\ BilledAmount(pol, p, usage) = usage.estimated
          BY <1>2, <2>3, <3>2 DEF Billable, BilledAmount
        <4>5. QED
          BY <3>2, <4>3, <4>4
      <3>3. CASE ~UsesEstimate(pol, usage)
        <4>1. estimated = Nothing /\ estimated # Junk
          BY <1>0, <2>3, <3>3, ReportedCostCases, UsageCostAssumption
          DEF UsesEstimate, EstimatedCost, Given
        <4>2. CASE Computable(p, usage)
          <5>1. computed = Rounded(Formula(p, usage)) /\ Formula(p, usage) \in Nat
            BY <1>2, <4>2, ComputedCost
          <5>2. computed # Nothing
            BY <5>1, RoundedIsNearest, NumbersAreGiven
          <5>3. result = Costed(Rounded(Formula(p, usage)))
            BY <1>2, <3>0, <4>1, <5>1, <5>2 DEF ResolveCost
          <5>4. Billable(pol, p, usage) /\ BilledAmount(pol, p, usage) = Formula(p, usage)
            BY <1>2, <2>3, <3>3, <4>2 DEF Billable, BilledAmount
          <5>5. QED
            BY <5>1, <5>3, <5>4
        <4>3. CASE ~Computable(p, usage)
          <5>1. computed = Nothing
            BY <1>2, <4>3, ComputedCost
          <5>2. result = Omitted("UnresolvedProviderCost")
            BY <1>2, <3>0, <4>1, <5>1 DEF ResolveCost
          <5>3. QED
            BY <2>3, <3>3, <4>3, <5>2 DEF Billable, Refusals
        <4>4. QED
          BY <4>2, <4>3
      <3>4. QED
        BY <3>1, <3>2, <3>3
    <2>4. QED
      BY <2>1, <2>2, <2>3
  <1>3. QED
    BY <1>1, <1>2

-----------------------------------------------------------------------------
(* The inductive invariant.                                                *)

\* Until it is decided, and if it is refused, the object is as received and
\* nothing is charged for it.
UntouchedInv == outcome # "costed" => document = received /\ cost = Nothing

\* What a costed object is charged and shows is a function of the object
\* received.
CostedInv ==
    outcome = "costed" =>
        /\ prices \in Prices
        /\ Billable(policy, prices, received.usage)
        /\ cost = Rounded(BilledAmount(policy, prices, received.usage))
        /\ document.usage = WithCost(policy, received.usage, cost)

IInv == TypeOK /\ UntouchedInv /\ CostedInv /\ NoTraceIsLeft

\* The parts of a document that the two rewritings touch.
LEMMA PresentedFields ==
    ASSUME TypeOK
    PROVE  /\ Presented \in Document
           /\ Presented.usage = document.usage
           /\ Presented.tainted = {}
           /\ "provider_specific_fields" \notin Presented.fields
           /\ aliased => Presented.fields \subseteq PublicFields /\ Presented.model = "canonical"
  <1> DEFINE source == IF aliased THEN Sanitized(document) ELSE document
  <1>1. \A doc \in Document :
            /\ Sanitized(doc) \in Document
            /\ Sanitized(doc).usage = doc.usage
            /\ Sanitized(doc).fields \subseteq PublicFields
            /\ Sanitized(doc).model = "canonical"
    BY DEF Document, Sanitized, PublicFields, Fields
  <1>2. \A doc \in Document :
            /\ Stripped(doc) \in Document
            /\ Stripped(doc).usage = doc.usage
            /\ Stripped(doc).model = doc.model
            /\ Stripped(doc).tainted = {}
            /\ Stripped(doc).fields = doc.fields \ {"provider_specific_fields"}
    BY DEF Document, Stripped
  <1>3. document \in Document /\ aliased \in BOOLEAN
    BY DEF TypeOK
  <1>4. source \in Document /\ source.usage = document.usage
    BY <1>1, <1>3
  <1>5. aliased => source.fields \subseteq PublicFields /\ source.model = "canonical"
    BY <1>1, <1>3
  <1>6. Presented = Stripped(source)
    BY DEF Presented
  <1> HIDE DEF source
  <1>7. QED
    BY <1>2, <1>4, <1>5, <1>6

\* A cost put into a usage object keeps its type and everything else the
\* bill depends on.
LEMMA CostPutIn ==
    ASSUME NEW pol \in Policies, NEW usage \in Usage, NEW c \in Nat
    PROVE  /\ WithCost(pol, usage, c) \in Usage
           /\ WithCost(pol, usage, c).prompt = usage.prompt
           /\ WithCost(pol, usage, c).completion = usage.completion
           /\ WithCost(pol, usage, c).cost = c * Denominator
           /\ pol = "DeepInfraEstimatedCost" => WithCost(pol, usage, c).estimated = Nothing
  <1>1. c * Denominator \in Nat
    BY RoundedIsIdempotent
  <1>2. c * Denominator \in Amount /\ Nothing \in Amount
    BY <1>1 DEF Amount
  <1>3. QED
    BY <1>2 DEF Usage, WithCost

LEMMA InitIInv == Init => IInv
  BY UsageCostAssumption
  DEF Init, IInv, TypeOK, UntouchedInv, CostedInv, NoTraceIsLeft, Refusals

\* A refusal charges nothing and changes nothing.
LEMMA RefuseIInv ==
    ASSUME IInv, outcome = "pending", NEW why \in Refusals, Refuse(why)
    PROVE  IInv'
  BY DEF IInv, TypeOK, UntouchedInv, CostedInv, NoTraceIsLeft, Refusals, Refuse

\* The cost, the document and the bill after the one step that costs.
LEMMA InjectIInv ==
    ASSUME IInv, InjectUsageCost
    PROVE  IInv'
  <1> DEFINE result == ResolveCost(policy, prices, Presented.usage)
             usage == received.usage
  <1>1. /\ outcome = "pending" /\ document = received /\ cost = Nothing
        /\ TypeOK /\ prices \in Prices /\ policy \in Policies
        /\ aliased => Rejection(document) = "ok"
    BY DEF IInv, TypeOK, UntouchedInv, InjectUsageCost, Passes
  <1>2. /\ Presented \in Document /\ Presented.usage = usage
        /\ Presented.tainted = {}
        /\ "provider_specific_fields" \notin Presented.fields
        /\ aliased => Presented.fields \subseteq PublicFields /\ Presented.model = "canonical"
    BY <1>1, PresentedFields
  <1>3. usage \in Usage /\ received \in Document /\ aliased \in BOOLEAN
    BY <1>1 DEF TypeOK, Document
  <1>4. /\ received' = received /\ aliased' = aliased /\ policy' = policy /\ prices' = prices
        /\ outcome' = result.outcome /\ cost' = result.cost
        /\ document' = IF result.outcome = "costed"
                       THEN [Presented EXCEPT !.usage = WithCost(policy, @, result.cost)]
                       ELSE document
    BY DEF InjectUsageCost
  <1>5. result = ResolveCost(policy, prices, usage)
    BY <1>2
  <1>6. CASE ~Billable(policy, prices, usage)
    <2>1. PICK why \in Refusals : result = Omitted(why)
      BY <1>1, <1>3, <1>5, <1>6, Resolution
    <2>2. result.outcome = why /\ result.cost = Nothing /\ why # "costed"
      BY <2>1 DEF Omitted, Refusals
    <2>3. outcome' = why /\ cost' = Nothing /\ document' = document
      BY <1>4, <2>2
    <2>4. TypeOK'
      BY <1>1, <1>4, <2>3 DEF TypeOK
    <2>5. QED
      BY <1>1, <1>4, <2>2, <2>3, <2>4 DEF IInv, UntouchedInv, CostedInv, NoTraceIsLeft
  <1>7. CASE Billable(policy, prices, usage)
    <2> DEFINE c == Rounded(BilledAmount(policy, prices, usage))
               shown == WithCost(policy, usage, c)
    <2>1. result = Costed(c) /\ c \in Nat
      BY <1>1, <1>3, <1>5, <1>7, Resolution, RoundedIsNearest
    <2>2. outcome' = "costed" /\ cost' = c
      BY <1>4, <2>1 DEF Costed
    <2>3. document' = [Presented EXCEPT !.usage = shown]
      BY <1>2, <1>4, <2>1 DEF Costed
    <2>4. shown \in Usage /\ (policy = "DeepInfraEstimatedCost" => shown.estimated = Nothing)
      BY <1>1, <1>3, <2>1, CostPutIn
    <2> HIDE DEF c, shown
    <2>5. /\ document' \in Document /\ document'.usage = shown
          /\ document'.tainted = {}
          /\ document'.fields = Presented.fields
          /\ document'.model = Presented.model
      BY <1>2, <2>3, <2>4 DEF Document
    <2>6. TypeOK'
      BY <1>1, <1>4, <2>1, <2>2, <2>5 DEF TypeOK
    <2>7. CostedInv'
      BY <1>1, <1>4, <1>7, <2>2, <2>5 DEF CostedInv, c, shown
    <2>8. aliased => received.recognized /\ "error" \notin received.fields
      BY <1>1, <1>3 DEF Rejection, Document
    <2>9. NoTraceIsLeft'
      BY <1>2, <1>4, <2>4, <2>5, <2>8 DEF NoTraceIsLeft
    <2>10. QED
      BY <2>2, <2>6, <2>7, <2>9 DEF IInv, UntouchedInv
  <1>8. QED
    BY <1>6, <1>7

LEMMA NextIInv == IInv /\ [Next]_vars => IInv'
  <1> SUFFICES ASSUME IInv, [Next]_vars PROVE IInv'
    OBVIOUS
  <1>1. CASE RejectShape
    <2>1. Rejection(document) \in Refusals
      BY <1>1 DEF RejectShape, Rejection, Refusals
    <2>2. QED
      BY <1>1, <2>1, RefuseIInv DEF RejectShape
  <1>2. CASE RejectUnpriced
    BY <1>2, RefuseIInv DEF RejectUnpriced, Passes, Refusals
  <1>3. CASE RejectMissingUsage
    BY <1>3, RefuseIInv DEF RejectMissingUsage, Passes, Refusals
  <1>4. CASE InjectUsageCost
    BY <1>4, InjectIInv
  <1>5. CASE UNCHANGED vars
    BY <1>5 DEF IInv, TypeOK, UntouchedInv, CostedInv, NoTraceIsLeft, vars
  <1>6. CASE Answered
    BY <1>5, <1>6 DEF Answered
  <1>7. QED
    BY <1>1, <1>2, <1>3, <1>4, <1>5, <1>6 DEF Next

LEMMA InductiveInvariant == Spec => []IInv
  BY InitIInv, NextIInv, PTL DEF Spec

-----------------------------------------------------------------------------
(* The properties.                                                         *)

\* Every variable keeps its type, and no cost is negative, whatever counts and
\* amounts an upstream reports.
THEOREM TypeCorrect == Spec => []TypeOK
  <1>1. IInv => TypeOK
    BY DEF IInv
  <1>2. QED
    BY <1>1, InductiveInvariant, PTL

\* inject_usage_cost bills nothing when a count or an amount that matters is
\* missing or invalid.
THEOREM DoubtCorrect == Spec => []DoubtIsNotBilled
  <1>1. IInv => DoubtIsNotBilled
    <2> SUFFICES ASSUME IInv, outcome = "costed"
                 PROVE  DoubtIsNotBilled
      BY DEF DoubtIsNotBilled
    <2>1. Billable(policy, prices, received.usage)
      BY DEF IInv, CostedInv
    <2>2. \A n \in Nat : n \in Int /\ n >= 0
      OBVIOUS
    <2>3. QED
      BY <2>1, <2>2 DEF Billable, UsesEstimate, Computable, DoubtIsNotBilled
  <1>2. QED
    BY <1>1, InductiveInvariant, PTL

\* The cost is the amount the documentation names, rounded once to the nearest
\* unit of the ledger's last decimal place.
THEOREM CostCorrect == Spec => []CostIsAsPublished
  <1>1. IInv => CostIsAsPublished
    <2> SUFFICES ASSUME IInv, outcome = "costed"
                 PROVE  CostIsAsPublished
      BY DEF CostIsAsPublished
    <2> DEFINE usage == received.usage
               amount == BilledAmount(policy, prices, usage)
    <2>1. /\ prices \in Prices /\ policy \in Policies /\ usage \in Usage
          /\ Billable(policy, prices, usage)
          /\ cost = Rounded(amount)
      BY DEF IInv, TypeOK, Document, CostedInv
    <2>2. Nearest(cost, amount)
      BY <2>1, Resolution, RoundedIsNearest
    <2>3. Formula(prices, usage) = Published(usage)
      BY DEF Formula, Published
    <2>4. CASE Given(usage.cost)
      BY <2>2, <2>4 DEF BilledAmount, CostIsAsPublished
    <2>5. CASE UsesEstimate(policy, usage)
      BY <2>2, <2>5 DEF BilledAmount, UsesEstimate, CostIsAsPublished
    <2>6. CASE ~Given(usage.cost) /\ ~UsesEstimate(policy, usage)
      <3>1. Nearest(cost, Published(usage))
        BY <2>2, <2>3, <2>6 DEF BilledAmount
      <3>2. QED
        BY <2>6, <3>1 DEF UsesEstimate, CostIsAsPublished
    <2>7. QED
      BY <2>4, <2>5, <2>6
  <1>2. QED
    BY <1>1, InductiveInvariant, PTL

\* The cost shown to the client, read back by any router of this kind, is the
\* cost recorded: nothing is rounded twice and no other amount takes over.
THEOREM StabilityCorrect == Spec => []ShownCostIsStable
  <1>1. IInv => ShownCostIsStable
    <2> SUFFICES ASSUME IInv, outcome = "costed",
                        NEW pol \in Policies, NEW p \in PriceSets
                 PROVE  ResolveCost(pol, p, document.usage) = Costed(cost)
      BY DEF ShownCostIsStable
    <2> DEFINE usage == document.usage
    <2>1. /\ policy \in Policies /\ prices \in Prices /\ received.usage \in Usage
          /\ Billable(policy, prices, received.usage)
          /\ cost = Rounded(BilledAmount(policy, prices, received.usage))
          /\ usage = WithCost(policy, received.usage, cost)
      BY DEF IInv, TypeOK, Document, CostedInv
    <2>2. cost \in Nat
      BY <2>1, Resolution, RoundedIsNearest
    <2>3. /\ usage \in Usage /\ usage.cost = cost * Denominator
          /\ usage.prompt = received.usage.prompt
          /\ usage.completion = received.usage.completion
      <3> DEFINE old == received.usage
                 new == WithCost(policy, old, cost)
      <3>1. /\ new \in Usage /\ new.cost = cost * Denominator
            /\ new.prompt = old.prompt /\ new.completion = old.completion
        BY <2>1, <2>2, CostPutIn
      <3> HIDE DEF new, usage
      <3>2. usage = new
        BY <2>1 DEF new, usage
      <3>3. QED
        BY <3>1, <3>2
    <2>4. usage.cost \in Nat /\ Given(usage.cost) /\ Rounded(usage.cost) = cost
      BY <2>2, <2>3, RoundedIsIdempotent, NumbersAreGiven DEF Given
    <2>5. Billable(pol, p, usage) /\ BilledAmount(pol, p, usage) = usage.cost
      BY <2>1, <2>3, <2>4 DEF Billable, BilledAmount, UsesEstimate
    <2>6. p \in Prices
      BY UsageCostAssumption
    <2>7. QED
      BY <2>3, <2>4, <2>5, <2>6, Resolution
  <1>2. QED
    BY <1>1, InductiveInvariant, PTL

\* A costed answer carries no trace of the provider that served it.
THEOREM TraceCorrect == Spec => []NoTraceIsLeft
  <1>1. IInv => NoTraceIsLeft
    BY DEF IInv
  <1>2. QED
    BY <1>1, InductiveInvariant, PTL

=============================================================================
