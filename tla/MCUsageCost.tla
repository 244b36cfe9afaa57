------------------------------ MODULE MCUsageCost ------------------------------
(***************************************************************************)
(* Every usage object over small counts and amounts on a plain document,   *)
(* and every document of interest with a few usage objects.                *)
(***************************************************************************)
EXTENDS UsageCost

CONSTANT MaxTokens

MCPriceSets ==
    {[input |-> 1, output |-> 3, cached |-> Nothing],
     [input |-> 3, output |-> 1, cached |-> 1],
     [input |-> 0, output |-> 2, cached |-> 0]}

SomeAmounts == {-6, 0, 1, 2, 6}

Counts == 0..MaxTokens \cup {Nothing, Junk}

Amounts == SomeAmounts \cup {Nothing, Junk}

Usages == [prompt : Counts, completion : 0..MaxTokens \cup {Junk}, cached : Counts,
           cost : Amounts, estimated : Amounts]

Plain == {"id", "object", "choices", "usage", "model"}

Doc(fields, tainted, recognized, usage) ==
    [fields |-> fields, tainted |-> tainted, recognized |-> recognized,
     model |-> "upstream", usage |-> usage]

NoUsage == [prompt |-> Nothing, completion |-> Nothing, cached |-> Nothing,
            cost |-> Nothing, estimated |-> Nothing]

Simple == [NoUsage EXCEPT !.prompt = 2, !.completion = 1, !.cached = 1]

\* An object without usage has the usage NoUsage.
Shapes ==
    {Doc(fields, tainted, recognized, IF "usage" \in fields THEN Simple ELSE NoUsage) :
        fields \in {Plain \cup more : more \in SUBSET {"error", "provider", "provider_specific_fields"}}
                   \cup {Plain \ {"usage"}},
        tainted \in SUBSET {"choices", "usage"},
        recognized \in BOOLEAN}

MCDocuments == {Doc(Plain, {}, TRUE, usage) : usage \in Usages} \cup Shapes

===============================================================================
