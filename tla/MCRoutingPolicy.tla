--------------------------- MODULE MCRoutingPolicy ---------------------------
(* Instances of RoutingPolicy.  "direct" is preferred and cheap, "reseller" *)
(* costs the same but cannot stream or take a high top_p, "fallback" is the *)
(* lowest priority; "costly" is above the price ceiling.                    *)
EXTENDS RoutingPolicy

NoLimit == [endpoints |-> {"chat", "legacy"}, streaming |-> TRUE, topP |-> TopPs]

Limited == [endpoints |-> {"chat"}, streaming |-> FALSE, topP |-> {"low"}]

MCRank ==
    [p \in Providers |->
        CASE p = "direct" -> 1 [] p = "reseller" -> 2 [] p = "costly" -> 3 [] OTHER -> 4]

MCPrice ==
    [x \in Providers \X Models |->
        CASE x[1] = "direct" -> 2 [] x[1] = "costly" -> 9 [] OTHER -> 1]

MCConstraints ==
    [x \in Providers \X Models |-> IF x[1] = "reseller" THEN Limited ELSE NoLimit]

\* Every provider carries the model in production, one of them in beta.
MCRoutes ==
    [k \in Keys |-> IF k[1] = "production" THEN Providers ELSE {"reseller"}]

Ask(profile, sort) ==
    [profile |-> profile, endpoint |-> "chat", model |-> "m", suffix |-> "none",
     sort |-> sort, overrides |-> FALSE, topP |-> "absent", stream |-> "absent"]

\* One request per way of being parsed, filtered or refused.
MixedRequests ==
    LET base == Ask("production", "absent") IN
    {base,
     Ask("production", "price"), Ask("production", "throughput"),
     Ask("production", "latency"), Ask("production", "invalid"),
     [base EXCEPT !.suffix = ":nitro"],
     [base EXCEPT !.suffix = ":floor"],
     [base EXCEPT !.suffix = ":floor", !.sort = "latency"],
     [base EXCEPT !.overrides = TRUE],
     [base EXCEPT !.topP = "high"],
     [base EXCEPT !.stream = "true"],
     [base EXCEPT !.endpoint = "legacy"],
     [base EXCEPT !.profile = "beta", !.endpoint = "legacy"],
     [base EXCEPT !.model = "unlisted"]}

MixedSamples == {[throughput |-> 2, ttft |-> 1]}

\* Default traffic of every profile.
DefaultRequests == {Ask(f, "absent") : f \in Profiles}

\* 4 is inside the hysteresis band of 3, both are above that of 1.
SpeedSamples == {[throughput |-> t, ttft |-> 0] : t \in {1, 3, 4}}

=============================================================================
