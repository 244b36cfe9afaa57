------------------------------ MODULE UsageCost ------------------------------
(***************************************************************************)
(* How a completion object is cleaned of provider traces and given its     *)
(* cost (src/src/usage_cost.rs, src/src/pricing.rs).  CompletionProxy and  *)
(* SseFraming take the result as a value; here it is computed.             *)
(*                                                                         *)
(* Decimal amounts are integers.  A cost is counted in units of the        *)
(* ledger's last decimal place; tokens times a per-million rate, and an    *)
(* amount a provider reports, in the finer unit of which Denominator make  *)
(* one ledger unit.                                                        *)
(***************************************************************************)
EXTENDS Integers

CONSTANTS
    Denominator,  \* fine units in a ledger unit
    PriceSets,    \* ProviderPrices the registry may hold
    Documents,    \* completion objects an upstream may send
    Nothing,      \* an absent or null field, an absent price
    Junk          \* a field of the wrong type

\* usage_cost.rs reads these fields of an object and sanitising keeps the rest
\* of the public ones.
PublicFields ==
    {"id", "object", "created", "model", "choices", "usage", "service_tier", "system_fingerprint"}

Fields == PublicFields \cup {"error", "provider", "provider_specific_fields"}

Count == Nat \cup {Nothing, Junk}

Amount == Int \cup {Nothing, Junk}

Usage == [prompt : Count, completion : Count, cached : Count, cost : Amount, estimated : Amount]

Prices == [input : Nat, output : Nat, cached : Nat \cup {Nothing}]

\* fields: the non-null fields at the top level.  tainted: those with
\* provider_specific_fields somewhere inside.  recognized: the id is a
\* non-empty string, the object type is known, choices is an array.
Document ==
    [fields : SUBSET Fields, tainted : SUBSET Fields, recognized : BOOLEAN,
     model : {"canonical", "upstream"}, usage : Usage]

Policies == {"UsageCostOnly", "DeepInfraEstimatedCost"}

ASSUME UsageCostAssumption ==
    /\ Denominator \in Nat \ {0}
    /\ PriceSets \subseteq Prices
    /\ Documents \subseteq Document
    /\ Nothing \notin Int /\ Junk \notin Int /\ Nothing # Junk

VARIABLES
    received,  \* ghost: the object as the upstream sent it
    document,  \* the object as it goes to the client
    aliased,   \* the response has to be sanitised
    policy,    \* provider_reported_cost_policy of the served provider
    prices,    \* its entry in the price table, Nothing without one
    outcome,   \* "pending", "costed", or why the response is refused
    cost       \* CostedUsage::cost_usd

vars == <<received, document, aliased, policy, prices, outcome, cost>>

Init ==
    /\ received \in Documents
    /\ document = received
    /\ aliased \in BOOLEAN
    /\ policy \in Policies
    /\ prices \in PriceSets \cup {Nothing}
    /\ outcome = "pending"
    /\ cost = Nothing

-----------------------------------------------------------------------------
(* pricing.rs                                                              *)

\* Mutant: the last decimal is cut off.
RoundedDown(amount) == amount \div Denominator

\* round_dp_with_strategy(COST_SCALE, MidpointAwayFromZero) of an amount >= 0.
Rounded(amount) == (2 * amount + Denominator) \div (2 * Denominator)

CostUsd(p, usage) == Rounded(usage.prompt * p.input + usage.completion * p.output)

\* Mutant: a missing count of cached tokens is taken for zero.
ProviderCostLenient(p, usage) ==
    CASE p.cached = Nothing -> CostUsd(p, usage)
      [] p.cached # Nothing /\ usage.cached \notin 0..usage.prompt -> CostUsd(p, usage)
      [] p.cached # Nothing /\ usage.cached \in 0..usage.prompt ->
             Rounded((usage.prompt - usage.cached) * p.input + usage.cached * p.cached
                     + usage.completion * p.output)

\* A mapping with a cached price needs the count of cached tokens.
ProviderCostUsd(p, usage) ==
    CASE p.cached = Nothing -> CostUsd(p, usage)
      [] p.cached # Nothing /\ usage.cached \in 0..usage.prompt ->
             Rounded((usage.prompt - usage.cached) * p.input + usage.cached * p.cached
                     + usage.completion * p.output)
      [] OTHER -> Nothing

-----------------------------------------------------------------------------
(* inject_usage_cost_value_with_policy                                     *)

\* The cost reported in a field: Nothing without one, Junk for an invalid one.
ReportedCost(value) ==
    CASE value = Nothing                 -> Nothing
      [] value \in Int /\ value >= 0     -> Rounded(value)
      [] OTHER                           -> Junk

\* The estimate counts for the DeepInfra routes only.
EstimatedCost(pol, usage) ==
    IF pol = "DeepInfraEstimatedCost" THEN ReportedCost(usage.estimated) ELSE Nothing

Costed(c) == [outcome |-> "costed", cost |-> c]

Omitted(why) == [outcome |-> why, cost |-> Nothing]

ResolveCost(pol, p, usage) ==
    LET reported == ReportedCost(usage.cost)
        estimated == EstimatedCost(pol, usage)
        computed == ProviderCostUsd(p, usage)
    IN  IF usage.prompt \notin Nat \/ usage.completion \notin Nat THEN Omitted("InvalidUsage")
        ELSE IF reported = Junk THEN Omitted("InvalidProviderCost")
        ELSE IF reported # Nothing THEN Costed(reported)
        ELSE IF estimated = Junk THEN Omitted("InvalidProviderCost")
        ELSE IF estimated # Nothing THEN Costed(estimated)
        ELSE IF computed # Nothing THEN Costed(computed)
        ELSE Omitted("UnresolvedProviderCost")

\* Mutant: an estimate stays where it is.
WithEstimate(pol, usage, c) ==
    IF pol = "DeepInfraEstimatedCost" /\ usage.cost = Nothing /\ usage.estimated # Nothing THEN usage
    ELSE [usage EXCEPT !.cost = c * Denominator]

\* The cost goes into usage.cost as a number, and the estimate goes.
WithCost(pol, usage, c) ==
    [usage EXCEPT !.cost = c * Denominator,
                  !.estimated = IF pol = "DeepInfraEstimatedCost" THEN Nothing ELSE @]

\* strip_provider_specific_fields, all the way down.
Stripped(doc) ==
    [doc EXCEPT !.fields = @ \ {"provider_specific_fields"}, !.tainted = {}]

\* Mutant: a successful object with an error in it is passed on.
RejectUnrecognized(doc) ==
    IF ~doc.recognized THEN "UnrecognizedShape" ELSE "ok"

\* sanitize_public_completion_value, the checks in their order.
Rejection(doc) ==
    CASE "error" \in doc.fields                         -> "EmbeddedError"
      [] "error" \notin doc.fields /\ ~doc.recognized   -> "UnrecognizedShape"
      [] OTHER                                          -> "ok"

\* sanitize_public_completion_value, the rewriting.
Sanitized(doc) ==
    [doc EXCEPT !.fields = (@ \cap PublicFields) \cup {"model"},
                !.tainted = {},
                !.model = "canonical"]

-----------------------------------------------------------------------------

Refuse(why) ==
    /\ outcome' = why
    /\ UNCHANGED <<received, document, aliased, policy, prices, cost>>

\* sanitize_aliased_json_response
RejectShape ==
    /\ outcome = "pending"
    /\ aliased
    /\ Rejection(document) # "ok"
    /\ Refuse(Rejection(document))

\* What inject_usage_cost works on.
Presented == Stripped(IF aliased THEN Sanitized(document) ELSE document)

Passes == outcome = "pending" /\ (aliased => Rejection(document) = "ok")

\* prices_for_request
RejectUnpriced ==
    /\ Passes
    /\ prices = Nothing
    /\ Refuse("UnknownPrice")

RejectMissingUsage ==
    /\ Passes
    /\ prices # Nothing
    /\ "usage" \notin Presented.fields
    /\ Refuse("MissingUsage")

\* inject_usage_cost, once the object has a usage to be costed.
InjectUsageCost ==
    /\ Passes
    /\ prices # Nothing
    /\ "usage" \in Presented.fields
    /\ LET result == ResolveCost(policy, prices, Presented.usage)
       IN  /\ outcome' = result.outcome
           /\ cost' = result.cost
           /\ document' = IF result.outcome = "costed"
                          THEN [Presented EXCEPT !.usage = WithCost(policy, @, result.cost)]
                          ELSE document
    /\ UNCHANGED <<received, aliased, policy, prices>>

Answered == outcome # "pending" /\ UNCHANGED vars

Next ==
    \/ RejectShape
    \/ RejectUnpriced
    \/ RejectMissingUsage
    \/ InjectUsageCost
    \/ Answered

Spec == Init /\ [][Next]_vars

-----------------------------------------------------------------------------
(* Properties.                                                             *)

Refusals ==
    {"EmbeddedError", "UnrecognizedShape", "UnknownPrice", "MissingUsage", "InvalidUsage",
     "InvalidProviderCost", "UnresolvedProviderCost"}

\* Every variable has its type; a cost is never negative.
TypeOK ==
    /\ received \in Document
    /\ document \in Document
    /\ aliased \in BOOLEAN
    /\ policy \in Policies
    /\ prices \in Prices \cup {Nothing}
    /\ outcome \in Refusals \cup {"pending", "costed"}
    /\ cost \in Nat \cup {Nothing}

\* c is amount to the nearest ledger unit, the midpoint away from zero.
Nearest(c, amount) ==
    /\ (2 * c - 1) * Denominator <= 2 * amount
    /\ 2 * amount < (2 * c + 1) * Denominator

\* The published formulas, each token at exactly one rate.
Published(usage) ==
    usage.completion * prices.output
    + (IF prices.cached = Nothing THEN usage.prompt * prices.input
       ELSE (usage.prompt - usage.cached) * prices.input + usage.cached * prices.cached)

Given(value) == value # Nothing

\* The cost is the provider's own number if it sent a valid one, a DeepInfra
\* route's estimate otherwise, and the published formula last, each rounded
\* once to the nearest unit (docs/04-billing.md "Exact formulas" and
\* "Provider-reported cost fields"; inject_usage_cost_value_with_policy).
CostIsAsPublished ==
    outcome = "costed" =>
        LET usage == received.usage
        IN  CASE Given(usage.cost) -> Nearest(cost, usage.cost)
              [] ~Given(usage.cost) /\ policy = "DeepInfraEstimatedCost" /\ Given(usage.estimated)
                     -> Nearest(cost, usage.estimated)
              [] OTHER -> Nearest(cost, Published(usage))

\* Nothing doubtful is billed: an object is costed only if no amount that
\* counts is invalid and, where the formula has to do, both token counts and
\* the cached count it needs are there (docs/04-billing.md "fails closed").
DoubtIsNotBilled ==
    outcome = "costed" =>
        LET usage == received.usage
        IN  /\ ~Given(usage.cost) \/ (usage.cost \in Int /\ usage.cost >= 0)
            /\ usage.prompt \in Nat /\ usage.completion \in Nat
            /\ (~Given(usage.cost) /\ policy = "DeepInfraEstimatedCost" /\ Given(usage.estimated))
                   => (usage.estimated \in Int /\ usage.estimated >= 0)
            /\ (~Given(usage.cost) /\ prices.cached # Nothing
                    /\ ~(policy = "DeepInfraEstimatedCost" /\ Given(usage.estimated)))
                   => usage.cached \in 0..usage.prompt

\* The number shown is the number recorded, and stays it: read back from the
\* response under any policy and any prices, the cost comes out unchanged, so
\* a router behind this one, or a second pass, bills the same amount
\* (WithCost, reported_cost).
ShownCostIsStable ==
    outcome = "costed" =>
        \A pol \in Policies, p \in PriceSets :
            ResolveCost(pol, p, document.usage) = Costed(cost)

\* A costed answer carries no provider trace: none of the nested provider
\* fields, no DeepInfra estimate, and under an alias nothing but the public
\* fields of a completion object of the canonical model
\* (strip_provider_specific_fields, sanitize_public_completion_value).
NoTraceIsLeft ==
    outcome = "costed" =>
        /\ document.tainted = {}
        /\ "provider_specific_fields" \notin document.fields
        /\ policy = "DeepInfraEstimatedCost" => document.usage.estimated = Nothing
        /\ aliased => /\ document.fields \subseteq PublicFields
                      /\ document.model = "canonical"
                      /\ received.recognized /\ "error" \notin received.fields

=============================================================================
