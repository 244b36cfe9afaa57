---------------------------- MODULE RoutingPolicy ----------------------------
(***************************************************************************)
(* The routing policy (src/src/policy): request parsing and compatibility  *)
(* filtering, the selection rules, the rolling share window that caps each *)
(* provider, the fallback plan, and the measurements fed back by served    *)
(* requests.                                                               *)
(*                                                                         *)
(* RoutingPolicy::route_for_endpoint runs on many threads.  It filters the *)
(* candidates and reads their measurements WITHOUT the routing lock, then  *)
(* selects, plans and records under the lock.  A worker is one such call;  *)
(* its two halves are separate actions.                                    *)
(***************************************************************************)
EXTENDS Integers, Sequences, FiniteSets

CONSTANTS
    Workers,        \* concurrent completion requests
    Profiles,       \* routing profiles
    Models,         \* canonical slugs in the registry
    Providers,      \* enabled providers
    Routes,         \* providers carrying a model, by <<profile, model>>
    Price,          \* combined price per million tokens, by <<provider, model>>
    Constraints,    \* request_constraints, by <<provider, model>>
    Rank,           \* position of a provider in (priority, id) order
    PriceCeiling,   \* combined_price_ceiling_per_mtok
    ShareNum,       \* max_share = ShareNum / ShareDen
    ShareDen,
    ShareWindow,    \* capacity of a ShareTracker
    HysteresisNum,  \* hysteresis_fraction = HysteresisNum / HysteresisDen
    HysteresisDen,
    Requests,       \* the requests clients send
    Samples,        \* the observations a served request can yield
    MaxLevel,       \* bound on throughput and time to first token
    NotMeasured     \* no measurement yet

Keys == Profiles \X Models

Endpoints == {"chat", "legacy"}

TopPs == {"low", "high"}   \* top_p values the constraint intervals tell apart

Sorts == {"price", "throughput", "latency"}

Preferences == Sorts \cup {"default"}

Levels == 0..MaxLevel

Measurements == [throughput : Levels, ttft : Levels]

AllRequests ==
    [profile : Profiles, endpoint : Endpoints,
     model : Models \cup {"unlisted", "notAString"},
     suffix : {"none", ":nitro", ":floor"},
     sort : Sorts \cup {"absent", "invalid"},
     overrides : BOOLEAN,
     topP : TopPs \cup {"absent", "invalid"},
     stream : {"absent", "false", "true", "invalid"}]

ASSUME ShareAssumption ==
    /\ ShareDen \in Nat \ {0}
    /\ ShareNum \in 1..ShareDen
    /\ ShareWindow \in Nat \ {0}

ASSUME RegistryAssumption ==
    /\ IsFiniteSet(Providers)
    /\ Routes \in [Keys -> SUBSET Providers]
    /\ Price \in [Providers \X Models -> Nat]
    /\ Constraints \in [Providers \X Models ->
           [endpoints : SUBSET Endpoints, streaming : BOOLEAN, topP : SUBSET TopPs]]
    /\ Rank \in [Providers -> Nat]
    /\ \A p, q \in Providers : p # q => Rank[p] # Rank[q]

ASSUME InputAssumption ==
    /\ Requests \subseteq AllRequests
    /\ Samples \subseteq Measurements
    /\ PriceCeiling \in Nat
    /\ HysteresisNum \in Nat
    /\ HysteresisDen \in Nat \ {0}
    /\ MaxLevel \in Nat
    /\ NotMeasured \notin Measurements

VARIABLES
    history,    \* ShareTracker::history, by route key; a missing tracker is empty
    counts,     \* ShareTracker::counts, by route key; a missing entry is 0
    measured,   \* the MeasurementStore, by profile, provider and model
    worker,     \* where each call of route_for_endpoint stands
    origin      \* ghost: the preference each history entry was selected under

vars == <<history, counts, measured, worker, origin>>

Idle == [phase |-> "idle"]

Refused(code) == [phase |-> "refused", code |-> code]

\* After the filter: the candidates are the domain of the measurement snapshot.
Filtered(key, pref, snapshot) ==
    [phase |-> "filtered", key |-> key, pref |-> pref, snapshot |-> snapshot]

\* A RouteDecision: selected_provider, then fallback_models.
Routed(key, chain) == [phase |-> "routed", key |-> key, chain |-> chain]

Init ==
    /\ history = [k \in Keys |-> <<>>]
    /\ counts = [k \in Keys |-> [p \in Providers |-> 0]]
    /\ measured = [x \in Profiles \X Providers \X Models |-> NotMeasured]
    /\ worker = [w \in Workers |-> Idle]
    /\ origin = [k \in Keys |-> <<>>]

-----------------------------------------------------------------------------
(* Request parsing: reject_provider_overrides, parse_top_p, parse_stream   *)
(* and parse_request, each of which answers 400.                           *)

Malformed(r) ==
    \/ r.overrides
    \/ r.topP = "invalid"
    \/ r.stream = "invalid"
    \/ r.model = "notAString"
    \/ r.sort = "invalid"

\* An explicit provider.sort wins over a slug suffix.
PreferenceOf(r) ==
    CASE r.sort # "absent"     -> r.sort
      [] r.suffix = ":nitro"   -> "throughput"
      [] r.suffix = ":floor"   -> "price"
      [] OTHER                 -> "default"

KeyOf(r) == <<r.profile, r.model>>

\* supports_endpoint, permits_streaming and permits_top_p
Permits(c, r) ==
    /\ r.endpoint \in c.endpoints
    /\ r.stream = "true" => c.streaming
    /\ r.topP # "absent" => r.topP \in c.topP

\* The route table holds an entry for the profile and the canonical slug.
Known(r) == KeyOf(r) \in Keys /\ Routes[KeyOf(r)] # {}

Compatible(r) ==
    {p \in Routes[KeyOf(r)] : Permits(Constraints[<<p, r.model>>], r)}

-----------------------------------------------------------------------------
(* ShareTracker.                                                           *)

Min2(a, b) == IF a < b THEN a ELSE b

\* Mutant: rounded down.
QuotaFloor(len) == (ShareNum * len) \div ShareDen

\* ceil(max_share * len)
Quota(len) == (ShareNum * len + ShareDen - 1) \div ShareDen

Full(key) == Len(history[key]) = ShareWindow

NextLen(key) == Min2(Len(history[key]) + 1, ShareWindow)

\* Mutant: the oldest entry expires before the window is full.
ExpiresEarly(key, p) == IF history[key] # <<>> /\ Head(history[key]) = p THEN 1 ELSE 0

ExpiredMatches(key, p) == IF Full(key) /\ Head(history[key]) = p THEN 1 ELSE 0

\* Mutant: the route about to be recorded is not counted.
AllowsOneMore(key, p) ==
    counts[key][p] - ExpiredMatches(key, p) <= Quota(NextLen(key))

AllowsNext(key, p) ==
    counts[key][p] + 1 - ExpiredMatches(key, p) <= Quota(NextLen(key))

\* record: expire the oldest entry of a full window, then count and append.
Kept(key, s) == IF Full(key) THEN Tail(s) ELSE s

\* Mutant: the expired entry keeps its count.
CountWithoutExpiry(key, p) ==
    [q \in Providers |-> counts[key][q] + (IF q = p THEN 1 ELSE 0)]

CountAfter(key, p) ==
    [q \in Providers |->
        counts[key][q] - ExpiredMatches(key, q) + (IF q = p THEN 1 ELSE 0)]

\* Mutant: one window per model, shared by the profiles.
RecordByModel(key, p, pref) ==
    LET Add(f, x) == [k \in Keys |-> IF k[2] = key[2] THEN Append(Kept(k, f[k]), x) ELSE f[k]]
    IN  /\ history' = Add(history, p)
        /\ counts' = [k \in Keys |-> IF k[2] = key[2] THEN CountAfter(k, p) ELSE counts[k]]
        /\ origin' = Add(origin, pref)

Record(key, p, pref) ==
    /\ history' = [history EXCEPT ![key] = Append(Kept(key, @), p)]
    /\ counts' = [counts EXCEPT ![key] = CountAfter(key, p)]
    /\ origin' = [origin EXCEPT ![key] = Append(Kept(key, @), pref)]

\* incumbent_provider_id: the highest count, a tie to the most recent entry.
\* At most one provider; none while the window is empty.
Incumbents(key) ==
    LET h == history[key]
        Top(p) == \A q \in Providers : counts[key][q] <= counts[key][p]
    IN  {h[i] : i \in {j \in DOMAIN h :
            Top(h[j]) /\ \A l \in DOMAIN h : l > j => ~Top(h[l])}}

-----------------------------------------------------------------------------
(* Selection.  m is the measurement snapshot of the candidates.            *)

\* throughput(): unmeasured and zero count as nothing.
Throughput(m, p) == IF m[p] = NotMeasured THEN 0 ELSE m[p].throughput

Eligible(C, key) ==
    {p \in C : Price[<<p, key[2]>>] <= PriceCeiling /\ AllowsNext(key, p)}

\* Inside the hysteresis band a challenger weighs as much as the incumbent.
InBand(t, incumbent) ==
    /\ t > incumbent
    /\ t * HysteresisDen <= incumbent * (HysteresisDen + HysteresisNum)

\* Mutant: inside the band a challenger is left out.
WeightWithoutChallengers(E, key, m, p) ==
    IF \E q \in Incumbents(key) \cap E : q # p /\ InBand(Throughput(m, p), Throughput(m, q))
    THEN 0 ELSE Throughput(m, p)

Weight(E, key, m, p) ==
    LET rivals == {q \in Incumbents(key) \cap E : q # p /\ Throughput(m, q) > 0}
    IN  IF \E q \in rivals : InBand(Throughput(m, p), Throughput(m, q))
        THEN Throughput(m, CHOOSE q \in rivals : TRUE)
        ELSE Throughput(m, p)

\* weighted_pick: the draw can return any candidate of positive weight.
WeightedPick(E, key, m) == {p \in E : Weight(E, key, m, p) > 0}

StrictPriority(E) == {p \in E : \A q \in E : Rank[p] <= Rank[q]}

\* Without a measured candidate the best priority is taken.
SelectDefault(C, key, m) ==
    LET E == Eligible(C, key)
    IN  IF WeightedPick(E, key, m) # {} THEN WeightedPick(E, key, m)
                                        ELSE StrictPriority(E)

\* compare_price, compare_throughput and compare_latency as sort keys, lower
\* first: an unmeasured provider comes after every measured one.
SortKey(pref, key, m, p) ==
    CASE pref = "price"      -> Price[<<p, key[2]>>]
      [] pref = "throughput" -> IF m[p] = NotMeasured THEN 1 ELSE -m[p].throughput
      [] pref = "latency"    -> IF m[p] = NotMeasured THEN MaxLevel + 1 ELSE m[p].ttft

Before(pref, key, m, p, q) ==
    LET a == SortKey(pref, key, m, p)
        b == SortKey(pref, key, m, q)
    IN  a < b \/ (a = b /\ Rank[p] < Rank[q])

SelectSorted(C, pref, key, m) ==
    {p \in C : \A q \in C \ {p} : Before(pref, key, m, p, q)}

\* The providers select_route can return; {} is None.
SelectRoute(C, pref, key, m) ==
    IF pref = "default" THEN SelectDefault(C, key, m)
                        ELSE SelectSorted(C, pref, key, m)

SeqRange(s) == {s[i] : i \in DOMAIN s}

\* Mutant: a plan of one fallback.
OneFallback(C, pref, key, m) ==
    IF SelectRoute(C, pref, key, m) = {} THEN {<<>>}
    ELSE {<<p>> : p \in SelectRoute(C, pref, key, m)}

\* The fallback loop: select from what remains until nothing is selected.  It
\* reads the share window as it was before the selected route is recorded.
FallbackPlans(C, pref, key, m) ==
    {s \in UNION {[1..n -> C] : n \in 0..Cardinality(C)} :
        /\ \A i \in DOMAIN s :
               s[i] \in SelectRoute(C \ {s[j] : j \in 1..(i - 1)}, pref, key, m)
        /\ SelectRoute(C \ SeqRange(s), pref, key, m) = {}}

-----------------------------------------------------------------------------
(* route_for_endpoint up to the lock.                                      *)

MayReceive(w) == worker[w].phase \in {"idle", "refused"}

Refuse(w, code) ==
    /\ worker' = [worker EXCEPT ![w] = Refused(code)]
    /\ UNCHANGED <<history, counts, measured, origin>>

RejectMalformed(w, r) ==
    /\ MayReceive(w)
    /\ Malformed(r)
    /\ Refuse(w, 400)

RejectUnknownModel(w, r) ==
    /\ MayReceive(w)
    /\ ~Malformed(r)
    /\ ~Known(r)
    /\ Refuse(w, 404)

RejectIncompatible(w, r) ==
    /\ MayReceive(w)
    /\ ~Malformed(r)
    /\ Known(r)
    /\ Compatible(r) = {}
    /\ Refuse(w, 503)

GetFor(profile, p, model) == measured[<<profile, p, model>>]

FilterCandidates(w, r) ==
    /\ MayReceive(w)
    /\ ~Malformed(r)
    /\ Known(r)
    /\ Compatible(r) # {}
    /\ worker' = [worker EXCEPT ![w] =
           Filtered(KeyOf(r), PreferenceOf(r),
                    [p \in Compatible(r) |-> GetFor(r.profile, p, r.model)])]
    /\ UNCHANGED <<history, counts, measured, origin>>

-----------------------------------------------------------------------------
(* route_for_endpoint under the routing lock.                              *)

SelectAndRecord(w) ==
    /\ worker[w].phase = "filtered"
    /\ LET key == worker[w].key
           pref == worker[w].pref
           m == worker[w].snapshot
           C == DOMAIN m
       IN  \E selected \in SelectRoute(C, pref, key, m) :
           \E fallbacks \in FallbackPlans(C \ {selected}, pref, key, m) :
               /\ Record(key, selected, pref)
               /\ worker' = [worker EXCEPT ![w] = Routed(key, <<selected>> \o fallbacks)]
    /\ UNCHANGED measured

\* select_route returned None: the tracker is put back as it was.
RefuseNoEligible(w) ==
    /\ worker[w].phase = "filtered"
    /\ SelectRoute(DOMAIN worker[w].snapshot, worker[w].pref, worker[w].key,
                   worker[w].snapshot) = {}
    /\ Refuse(w, 503)

-----------------------------------------------------------------------------
(* The proxy serves the decision.  observe_for smooths the sample of the   *)
(* provider that served, which failover may have moved down the chain.     *)

Smoothed(old, sample) ==
    {v \in Levels : (old <= v /\ v <= sample) \/ (sample <= v /\ v <= old)}

\* The first observation is stored as it is; a later one moves the average
\* somewhere between its old value and the sample (EWMA_ALPHA = 0.2).
Observed(old, sample) ==
    IF old = NotMeasured THEN {sample}
    ELSE [throughput : Smoothed(old.throughput, sample.throughput),
          ttft : Smoothed(old.ttft, sample.ttft)]

ServeMeasured(w) ==
    /\ worker[w].phase = "routed"
    /\ \E i \in DOMAIN worker[w].chain, sample \in Samples :
           LET x == <<worker[w].key[1], worker[w].chain[i], worker[w].key[2]>>
           IN  \E value \in Observed(measured[x], sample) :
                   measured' = [measured EXCEPT ![x] = value]
    /\ worker' = [worker EXCEPT ![w] = Idle]
    /\ UNCHANGED <<history, counts, origin>>

\* The request failed, or its output lasted no measurable time.
ServeUnmeasured(w) ==
    /\ worker[w].phase = "routed"
    /\ worker' = [worker EXCEPT ![w] = Idle]
    /\ UNCHANGED <<history, counts, measured, origin>>

Next ==
    \E w \in Workers :
        \/ \E r \in Requests :
               \/ RejectMalformed(w, r)
               \/ RejectUnknownModel(w, r)
               \/ RejectIncompatible(w, r)
               \/ FilterCandidates(w, r)
        \/ SelectAndRecord(w)
        \/ RefuseNoEligible(w)
        \/ ServeMeasured(w)
        \/ ServeUnmeasured(w)

Spec == Init /\ [][Next]_vars

-----------------------------------------------------------------------------
(* Properties.                                                             *)

Snapshots ==
    UNION {[C -> Measurements \cup {NotMeasured}] : C \in SUBSET Providers}

WorkerStates ==
    {Idle} \cup {Refused(code) : code \in {400, 404, 503}}
    \cup [phase : {"filtered"}, key : Keys, pref : Preferences, snapshot : Snapshots]
    \cup [phase : {"routed"}, key : Keys, chain : Seq(Providers)]

TypeOK ==
    /\ history \in [Keys -> Seq(Providers)]
    /\ counts \in [Keys -> [Providers -> Nat]]
    /\ origin \in [Keys -> Seq(Preferences)]
    /\ measured \in [Profiles \X Providers \X Models -> Measurements \cup {NotMeasured}]
    /\ worker \in [Workers -> WorkerStates]

Positions(key, p) == {i \in 1..Len(history[key]) : history[key][i] = p}

DefaultPositions(key, p) == {i \in Positions(key, p) : origin[key][i] = "default"}

\* The incremental counts never drift from the window they summarise, so that
\* record finds a count for the entry it expires and allows_next does not
\* underflow (ShareTracker::record).
CountsMatchHistory ==
    \A key \in Keys :
        /\ Len(history[key]) <= ShareWindow
        /\ \A p \in Providers : counts[key][p] = Cardinality(Positions(key, p))

\* However explicit sorts and default requests mix, the default traffic sent
\* to one provider never exceeds ceil(max_share * window length)
\* (ShareTracker::allows_next against record).
DefaultTrafficIsCapped ==
    \A key \in Keys, p \in Providers :
        Cardinality(DefaultPositions(key, p)) <= Quota(Len(history[key]))

\* The cap never leaves default traffic without a route while enough providers
\* are affordable: with n of them and n * max_share >= 1, one is allowed next,
\* whatever filled the window (select_default).
EnoughProvidersNeverWedge ==
    \A key \in Keys :
        \A C \in SUBSET {p \in Routes[key] : Price[<<p, key[2]>>] <= PriceCeiling} :
            Cardinality(C) * ShareNum >= ShareDen
                => \E p \in C : AllowsNext(key, p)

\* A decision names each provider at most once and only compatible ones.  An
\* explicit sort tries all of them in ranked order; default traffic tries every
\* affordable provider below its cap, the measured ones first and the
\* unmeasured ones by priority (the fallback loop of route_for_endpoint).
ChainIsRanked ==
    [][\A w \in Workers :
        (worker[w].phase = "filtered" /\ worker'[w].phase = "routed") =>
            LET key == worker[w].key
                pref == worker[w].pref
                m == worker[w].snapshot
                chain == worker'[w].chain
                Precedes(p, q) ==
                    IF pref = "default"
                    THEN \/ Throughput(m, p) > 0
                         \/ Throughput(m, q) = 0 /\ Rank[p] < Rank[q]
                    ELSE Before(pref, key, m, p, q)
            IN  /\ \A i, j \in DOMAIN chain : i < j => chain[i] # chain[j]
                /\ SeqRange(chain) = IF pref = "default"
                                     THEN Eligible(DOMAIN m, key) ELSE DOMAIN m
                /\ \A i, j \in DOMAIN chain : i < j => Precedes(chain[i], chain[j])
      ]_vars

\* Hysteresis reorders nothing: of two eligible providers the faster one never
\* weighs less, and a challenger inside the band weighs exactly as much as the
\* incumbent (select_default's weights).
WeightsAreMonotone ==
    \A key \in Keys :
        LET m == [p \in Providers |-> GetFor(key[1], p, key[2])]
            E == Eligible(Routes[key], key)
        IN  \A p, q \in E :
                /\ Throughput(m, p) <= Throughput(m, q)
                       => Weight(E, key, m, p) <= Weight(E, key, m, q)
                /\ (q \in Incumbents(key) /\ InBand(Throughput(m, p), Throughput(m, q)))
                       => Weight(E, key, m, p) = Weight(E, key, m, q)

\* A request changes the share window and the measurements of its own profile
\* only: beta traffic cannot steer production selection
\* (RoutingState::shares and MeasurementStore keys).
ProfilesAreIsolated ==
    [][\A w \in Workers : (worker'[w] # worker[w] /\ "key" \in DOMAIN worker[w]) =>
           /\ \A key \in Keys :
                  key[1] # worker[w].key[1] => history'[key] = history[key]
           /\ \A x \in DOMAIN measured :
                  x[1] # worker[w].key[1] => measured'[x] = measured[x]
      ]_vars

=============================================================================
