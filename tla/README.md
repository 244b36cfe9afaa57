# Seren Router: TLA+ models, checks and proofs

This directory holds TLA+ modules translated from the router's Rust source, TLC
configurations that model-check them on small instances, and theorems checked by
TLAPS. `PROJECT.json` is the index: components, runs, the definition-to-source map,
hazards, findings and theorems.

## The system

The router is an HTTP service in front of LLM providers. A completion request is
authenticated (which fixes its *routing profile*), validated, routed to one provider out
of those that carry the model, sent to an AgentGateway *sidecar* that holds one concrete
route per provider and model, failed over before anything was answered, transformed on
its way back (cost injected, provider traces removed), recorded in a PostgreSQL ledger
and measured for later routing decisions.

| Component | State it keeps | Operations | What is hard | What makes it correct |
|---|---|---|---|---|
| Database health, supervisor (`db.rs`) | atomic status, one `Notify`, backoff | report ready / failure, migrate, wait, sleep | tasks racing the supervisor, stale permits | no lost wakeup, no needless migration, ready again |
| Ledger (`ledger.rs`, migrations) | table keyed by response id | insert, fetch, each with a two-second limit | a timed-out insert that commits later, repeated ids | rows final, answers scoped to the profile |
| Routing policy (`policy/`) | share window and counts per (profile, model), measurements | route, record, observe | unlocked reads before the lock, expiry at the window's edge, mixed preferences | counts exact, share cap, complete and ranked plans, isolated profiles |
| Completion proxy (`proxy.rs`) | per request: plan, attempts, response, generation context | send, fail over, answer, read or stream, record | upstream failing at any point, client leaving, time limit | one provider per response, row agrees with what was shown |
| SSE transformer (`sse.rs`) | buffer, last costed usage, closed flag | transform, finish | streams cut off, malformed after usage, several usage events | one `[DONE]`, last, and billed |
| Usage cost, prices (`usage_cost.rs`, `pricing.rs`) | price table, constant | inject, sanitise, price | precision, cached tokens, provider estimates, one invalid field among valid ones | published formulas, nothing doubtful billed, no provider trace |
| Registry, catalog, hydration (`registry.rs`, `catalog.rs`, `upstream_catalog.rs`, `main.rs`) | registry, derived tables | validate, hydrate, build tables, list | two processes hydrate from an upstream that changes or fails in between | reviewed coverage served as reviewed, the tables agree, the service comes up |
| Sidecar renderer, deployment (`sidecar_config.rs`, `deployment.rs`) | a file | compile, create, write, rename, clean up | errors and crashes between any two file operations | whole files only |
| Server (`server.rs`, `routes.rs`, `gateway_auth.rs`, `config.rs`, `routing_profile.rs`, `compatibility.rs`) | the process, its keys, its connections | configure, authenticate, limit, probe, drain, force | timers racing each other, hung dependencies, detached tasks at shutdown | key decides access, nobody cut short, every shutdown ends |

Interactions: `forward` calls `route_for_endpoint` (shared, under a mutex), then the
sidecar; the finished completion updates the shared measurements and spawns a detached
`Ledger::insert`; every ledger operation reports to `DatabaseHealth`; `DatabaseHealth`
wakes the supervisor; `/ready` and metrics read the status.

## Modules

### `DatabaseHealth`

`status` is the atomic of `DatabaseHealthInner`, `permit` the stored permit of its
`Notify`, `supervisor` the program point of `supervise_with`, `backoff` the backoff as a
number of doublings, `task[t]` the program point of a ledger operation. Every atomic
access is an action of its own: `report_failure` is the swap (`TaskReportsFailure`) and
then the notification (`TaskNotifies`); `wait_for_recovery_request` is the load
(`CheckStatus`), the first poll of `notified()` (`ConsumePermit` or `StartWaiting`) and
being woken by `NotifyOne`. An operation is dropped at its only await (`OperationIsDropped`)
when its caller is, and then reports nothing.
`reachable` is the environment: it stands for a PostgreSQL that answers and accepts the
migrations. An operation may fail on a reachable database as well. `failures` and
`reported` are ghosts used by properties only.

### `Ledger` (extends `DatabaseHealth`)

Composes the ledger operations with the health protocol: `InsertCommits(t)` is
`OperationSucceeds(t)` together with the new row, and so on. `rows` is the table by
primary key. `inDoubt` holds inserts whose future was dropped by the time limit while
the server had the statement; `AbandonedInsertEnds` lets them commit or vanish at any
later time. `get_generation` awaits its lookup, which is dropped with a client that leaves
(`FetchIsDropped`) and reports neither arm of its match; an insert runs in a task of its own
(`record_at`) and returns. `LossIsReported` is what depends on that difference: an insert
ends with its row in the table or with a wakeup the supervisor has still to look at. A lookup
with a blank id is answered 400 without an operation and is no action.

### `RoutingPolicy`

A worker is one call of `route_for_endpoint`. Filtering and reading the measurements
(`FilterCandidates`) happen without the lock, selection, planning and recording
(`SelectAndRecord`) under it. A weighted draw may return any candidate of positive
weight, so `SelectRoute` is the set of possible results. Shares and the hysteresis
fraction are rationals given by numerator and denominator; `max_share * len` is rounded
up exactly, as with `Decimal`. The served request feeds an observation back
(`ServeMeasured`); the moving average is any value between the old one and the sample.
`origin` is a ghost that remembers the preference behind each window entry.

Abstractions: the snapshot of the candidates' measurements is one read, where the code
locks the store once per provider (a later measurement of one provider may be seen with
an earlier one of another, which is a snapshot some other run of the model produces, as
values are independent per provider). Candidates are always healthy because
`route_for_endpoint` passes `true`. `Preference::Balanced` is not modelled:
`parse_request` never returns it.

### `CompletionProxy`

One request: `phase` is the await the handler stands at, `chain` the `RouteDecision`,
`attempts` the providers contacted with what came of each, `response` the upstream
response in hand, `costed` the transformer's `costed_usage`, `reply` the head of the
answer, `out` the stream events sent on, `row` the `GenerationWrite` handed to the
ledger. The code between two awaits is one action. The transformer is fed complete
events; that chunks may be taken for events is what `SseFraming` shows. The sidecar is
external: its rendered configuration marks every provider response with the
served-provider header, so an unmarked body is assumed to be the sidecar's own.
`UsesPublicAlias` and the alias property rest on that.

A usage object is abstracted to its resolved cost (or `Unresolved`), whether its token
counts fit a BIGINT, and the two facts the DeepInfra rule looks at (`choices`,
`reported`).

`CompletionContract` is the abstract specification of a request: an answer is open,
under way or closed; it comes from one provider at most, its last cost told is the cost
billed, a bill is written only by the step that ends the answer, and nothing happens
after that. `ImplementsContract` is the refinement: `Stage` maps the phase to
open, answering and closed, the provider is the one the reply names, the cost told is
read off the body or the last usage event, and the bill is the row.

### `SseFraming`

The bytes below the events. A byte is a token: the two line-end bytes, the `data:` prefix
and one token per kind of payload, so that separators can be cut in two while a payload is
one unit. `transformer` is the `UsageCostTransformer`, `phase` the state of the `unfold`
closure of `stream_with_response_transformer` between two polls of the client's connection,
`generation` what became of the `GenerationContext`. `ChunkArrives(n)` takes the next n
bytes, for every n, so the network cuts the stream at every place. The reference
(`Reference`) reads one byte at a time and spells out the events it accepts;
`ChunkingIsInvisible` compares after every step. `NextTurn` is one turn of `transform`'s
loop; `Turns`, a recursive function, has the loop's state after every turn, and
`DrainEvents` is the last of them. A turn on a buffer without a complete event changes
nothing, and an event has at least two bytes, so as many turns as there are bytes are
enough. `forward` gives every transformer the prices of its provider, so a `[DONE]` needs a
costed usage. `NothingAssumption` says that the `None` of the closure's option is no
transformer.

### `UsageCost`

One pass of a completion object through sanitising and cost injection. Amounts are
integers: `Denominator` fine units make one unit of the ledger's tenth decimal, which
makes the midpoint of the rounding a value TLC meets. A document is the set of its
non-null fields, the set of fields with nested `provider_specific_fields`, whether its
shape is recognised, and its usage, in which every count and amount may be absent or of
the wrong type. An error return discards the object, so `document` is not changed on it.

### `Registry` and `Startup`

`Registry` has operators only: `Registry::validate`, `mappings_from_catalog`,
`hydrate_provider`, and the four things derived from a registry (price table, route
table, public catalog, sidecar configuration). Slugs are sequences of segments because
`canonical_slug` and the concrete route names take them apart and put them together at
the slash. A list from which the code drops elements (`mappings_from_catalog`, the merge of
`hydrate_provider`) is a function on the places that remain: nothing looks at the places
themselves, only at their order. `Provider`, `ModelMapping` and `CatalogModel` are the sets of
records the files are parsed into.

`Startup` runs them in the pod: the init container `renderer` and the `service` load the
registry each on its own (`FetchSucceeds`, `FetchFails`, one per source and process), the
renderer writes its file in the steps of `write_sidecar_config`, the sidecar loads what
is there. `upstream` is the environment: another catalog, a defective one, or none, at
any moment. `FileOperationFails` and the crash actions strike between any two steps;
`MaxFaults` and `MaxChanges` bound them. `temps` are the temporary files by render run.

### `Server`

The process from its environment variables to its exit, with the `production` features.
A connection (`conn[r]`) receives a request head (`HeadBegins`, then `Accept` when it is
complete), which goes through the layers in the order in which `serve` stacks them (key, then
declared length, then the handler) and ends answered, left by its client, or cut by the forced
exit. After the signal no head begins, but one that was half received may be completed and its
handler run: such a request is marked `late`. `/metrics` is outside the layers and answered at
once (`Verdict`). An inference handler answers 400, 404 or 503 before it asks the sidecar
(`RefuseCompletion`), and afterwards 200, 502 or whatever an upstream failed with
(`UpstreamErrors`), a 401 of the provider included: `AccessIsByKey` is therefore about the
layers, not the status alone. Without a key there is 401, no profile and no handler; with
one, no layer but the size limit refuses and the profile is the key's own. Handlers are reduced to what they wait for: nothing, the
sidecar's health, the database, or a model; what the latter two do inside is the matter of
`Ledger` and `CompletionProxy`. Time is counted in ticks that pass only when no timer is
due, so timers are exact and their order is that of the constants (2 s, 30 s, 30 s and
10 min in the source; only their order is assumed). `writes` are the detached inserts
still running; a drain does not wait for them. `seen` is a ghost: the sidecar states
during a probe.

### Mutants

An operator preceded by a comment `Mutant:` is a faulty variant of the definition after
it. No specification uses one; replacing the definition by its mutant must break the
property listed with it in `PROJECT.json`, which shows that the property depends on the
code it is about.

## Runs

| Run | Expect | Shows |
|---|---|---|
| `health` | pass | two tasks and the supervisor, the real seven doublings (250 ms to 30 s): safety and liveness of recovery |
| `ledger` | pass | three generations of one id in two profiles, two tasks, late commits, lookups dropped with their clients; no row is lost in silence |
| `routing` | pass | all request kinds, four providers (one limited, one above the ceiling), window 3, share 1/3 |
| `routing_concurrent` | pass | two concurrent calls in two profiles, throughputs below, inside and above the hysteresis band of 1/2 |
| `proxy` | pass | plain, aliased, estimating and unpriced providers; chains of 1 to 3; up to four stream events; refinement of `CompletionContract` |
| `sse_framing` | pass | every sequence of up to five bytes (line ends, prefix, usage, `[DONE]`) and every stream of up to three events with either line end, cut everywhere, dropped and broken off; every body ends |
| `usage_cost` | pass | every mix of absent, ill-typed, negative and valid fields, amounts around the rounding midpoint |
| `startup` | pass | two upstream changes and two faults anywhere in bringing up a pod, over seven states of the upstream |
| `startup_routes` | violation | a model published between the two fetches is listed and routed and has no sidecar route |
| `startup_pricing` | violation | a slug that begins with its provider's id is routed and has no price |
| `server` | pass | two requests of nine kinds, half-received heads, nineteen environments, upstream failures passed on, panics, timeouts, a hung sidecar, stalled streams, shutdown |
| `server_drain` | violation | a graceful stop cancels the insert of the last response's row |

The three violations are listed under `findings` with the sentence they disagree with.
Five smaller disagreements between the documents and the modelled code have no run:

* `docs/02-routing.md:91` speaks of "one retry"; `send_selected_then_fallback` goes through
  every fallback of the plan (`CompletionProxy` has chains of three).
* `docs/04-billing.md:13` wants injected cost and row to agree; a stream that is closed by
  the router after its usage event has shown a cost and has no row (`RowAgreesWithResponse`
  and `CleanEndIsBilled` say what does hold).
* `docs/10-deployment.md:154`: a failure that a concurrent success overwrites before the
  supervisor looks starts no recovery (`NoLostWakeup`, `DegradedIsAttended`).
* `docs/03-provider-registry.md:105` calls generation rows profile-scoped; the primary key
  is the response id alone, so a row of one profile can refuse another profile's.
* `docs/03-provider-registry.md:84`: a gateway key with a trailing newline passes the
  configuration's checks, which neither trim it nor look into it, and no header carries it.

The type invariants of `Ledger`, `CompletionProxy`, `SseFraming`, `UsageCost`, `Startup`
and `Server` hold on the same instances and are stated for proofs; the runs are spent on
the properties above.

Bounds. Two tasks are enough for a failure to be overtaken by a success and by another
failure. The ledger needs three generations: two colliding in one profile and one in the
other; `MaxDoublings = 0` there because the backoff is the `health` run's matter. A
window of three fills, expires and refills; `MaxLevel` bounds throughput and time to
first token. `MaxEvents = 4` lets a stream hold content, two usage events and an ending
in every order. A share of 1/3 with three affordable providers is the boundary case of
`EnoughProvidersNeverWedge`. Five bytes hold the longest separator and a byte before it,
and three events hold content, usage and an end in every order, with a separator of either
kind between them. `Denominator = 4` has a midpoint and a value on either side of it.
`MaxFaults = 2` allows a crash over the output of an earlier render run and one more
after it. In `Server` the four timeouts are 1, 2, 2 and 3 ticks, which keeps the order and
the equality of the source's; `UpstreamErrors = {401}` is the status that a layer also uses; two requests let one be cut while the other is answered.

Fairness. `DatabaseHealth!Fairness` is weak fairness of the supervisor and of every running
ledger operation: tokio polls ready tasks, a statement is bounded by the two-second limit, a
migration by the pool's acquire timeout, a sleep by the maximal backoff. Nothing makes a new
operation start or the database return; `ReadyAgain` assumes a database that stays
reachable. `CompletionProxy!FairSpec` assumes that the synchronous start of the handler runs
and that the `TimeoutLayer`'s timer fires. No fairness is assumed of upstreams there: a
stream may stall for ever, and no property claims otherwise. `SseFraming!FairSpec` is about
the other case, a client that keeps reading and a source that does not stall (stated as: it
is not awaited for ever, which for a finite source is the same as weak fairness of its
deliveries). `Startup!Fairness` is what the kubelet and the timeouts of a fetch guarantee:
containers are started and restarted, a fetch returns, the process goes on.
`Server!FairSpec` is fairness of timers (tick, request timeout, forced exit), of the probe's
answer once its own timeout is due, and of a drain with nothing left to wait for; clients,
sidecar and database owe nothing.

Deadlock is checked in every run but those of `Server`, whose process really stops;
`CompletionProxy`, `SseFraming`, `UsageCost` and `Startup` end in a stuttering action
(`Finished`, `Over`, `Answered`, `Up`).

## Proofs

Every theorem holds for all values of the constants that satisfy the named `ASSUME`s of
the module it is about; the instances that TLC checks are a few of them. Each proof
follows one pattern: an inductive invariant `IInv` (or a chain of them), established by
`Init`, preserved by every action, and strong enough for the properties. The strengthened
invariants of `UsageCost`, `Startup` and `SseFraming` were checked with TLC on the runs'
instances before they were proved.

`LedgerProofs` holds the proofs about `DatabaseHealth` and about `Ledger`. The health protocol,
for every set `Tasks` and every natural `MaxDoublings`:

* `TypeCorrect`: `TypeOK` is inductive.
* `WakeupsAreNotLost`: `NoLostWakeup` is inductive relative to `TypeOK`, because it also
  covers the supervisor that has loaded Ready and is not yet registered: there a
  notification has to survive as a permit, and registration needs its absence.
* `BackoffIsCapped`: ties `backoff` to `failures` at every program point, not only while
  sleeping.
* `RecoveryIsEventDriven`: an action property. Its invariant says that outside a
  recovery the status can be other than Ready only if a failure was reported since.

The ledger, for any number of tasks, generations, profiles and ids, collisions included:

* `LedgerWakeups`: each step of the composition is a step of the health protocol with the
  table beside it, so `WakeupsAreNotLost` is cited and not proved a second time.
* `LossReported` is an action property. `IdleInv` says that an idle task has no operation
  left, so an insert leaves its task only in `ReportSuccess` or `ReportErrorNotifies`
  (`InsertEnd`): the first follows an acknowledgement, whose row `Durability` keeps, and the
  second has called `notify_one`, which stores a permit or wakes the waiter.
* `RowsFinality` is an action property; it rests on the guard of an insert and of a late
  commit alone. It is what makes `Durability` and `Scoping` stable: an acknowledgement
  or an answer that was true of the table stays true of it while its task holds it, whatever the
  other tasks do.

`RoutingPolicyProofs`, for every set of workers, profiles and models, every finite set of
providers, every share in (0, 1], every window and all prices, constraints and
measurements:

* `TypeCorrect`, `CountsAreExact` and `ShareCapHolds` follow from `RoutingInv`, the
  conjunction of `WindowInv` (counts are cardinalities of positions, the ghost is as long
  as the window, and the cap) and `WorkerInv` (what a worker between filter and lock
  carries). The cap needs the exact counts, since `allows_next` decides by them; the
  exact counts need a lemma on how positions move when the oldest entry expires. A step
  that does not select by default preserves the cap because the quota grows with the
  length of the window and expiry at full length only removes.
* `CapNeverWedges`: if none of n affordable providers were allowed next, each would hold
  at least the quota of the window with the oldest entry taken away; n quotas are more
  than the window holds when n * max_share >= 1. Adding up over a set is a pigeonhole
  lemma (`Pigeonhole`), proved by a least counterexample because induction over sets is
  out of the provers' reach.
* `ChainsAreRanked`: the selected provider and its fallbacks are one loop, each taken from
  what the earlier ones leave until nothing can be (`ChainOfPlan`); that a provider taken
  earlier goes before a later one follows from what each selection rule picks, and that
  none is left out from the loop's end.
* `WeightsHold`: at most one provider is the incumbent (the last of the top entries), so two
  challengers are lifted to the same weight, and the band is convex: whoever is faster than
  the incumbent and no faster than a challenger inside the band is inside it too.
* `IsolationHolds`: an action property; each step writes under the key its worker was
  filtered with.

`CompletionProxyProofs`, for all providers, chains, costs and lengths of stream. `IInv` is
`TypeOK`, one invariant per phase (`ReceivedInv`, `SendingInv`, `ReadingInv`,
`StreamingInv`) and the four safety properties. The phases are needed because the safety
properties speak of replies and rows, and what makes them right is what the handler knew
before it wrote them: while streaming, the response in hand belongs to the provider asked
last, nothing was recorded, and the transformer remembers exactly the cost shown last
(`CostedIsShown`). `TypeCorrect`, `FailoverCorrect`, `AttributionCorrect`, `BillingCorrect`
and `AliasingCorrect` are read off `IInv`; `CleanEndCorrect` is an action property over it.
`ContractRefinement` shows that the request implements `CompletionContract`: one lemma per
action says which step of the contract it maps to. `AbsenceAssumption` says that `Nothing`,
the `None` of the options, is no response, usage, reply or row.

`UsageCostProofs`, for every document, every set of prices and every denominator. `IInv`
says that an object is untouched until it is costed and that what a costed one is charged
and shows is a function of the object received (`CostedInv`); `DoubtCorrect`,
`CostCorrect`, `StabilityCorrect` and `TraceCorrect` then are facts about operators. The
lemmas are `Resolution` (what `resolve_cost` returns, and when), `RoundedIsNearest` and
`RoundedIsIdempotent` (rounding through the integer division of the model).

`ServerProofs`, for any number of requests, any inputs and environments, and any timeouts in
the order of the source's. `IInv` is a conjunction over requests: a handler has answered
nothing, is within its limit and, unless its head was completed after the signal, is at least
as old as the drain (`HandlingInv`, the strengthening that `ShutdownCorrect` needs: a timer
that is due stops the clock, so who is cut has had the whole drain); a protected request
without a key has its 401 and nothing else, and one with a key has that key's profile in every
phase, whatever its handler answers (`AccessInv`, which needs distinct keys, `KeysInv`, which
the configuration establishes); a probe has seen the sidecar as it is now (for
`ReadinessCorrect`).

`StartupProofs`, for every reviewed registry from which the service can start and every
catalog, junk and duplicates included. `IInv` says that the registry of either process
extends the reviewed one position by position, adding only slugs that were not reviewed, and
that a provider whose catalog is still to be fetched is as it was reviewed (`LoadInv`:
without it a second hydration could not be told from a first); that a serving process got
through every table (`ServiceInv`); and that the file and what the sidecar loaded cover the
reviewed registry (`FilesInv`). `OutputCorrect` and `ReviewedCorrect` follow;
`TablesCorrect` is about the tables of one registry, and needs that the cheapest row exists,
a least element of a non-empty set of prices. `TypeCorrect` needs `RunInv`: the number of
render runs, which names the temporary files, is at most the number of faults, or one more
while a run is past its create, because a run that is begun ends in success or in a fault
and only a fault starts another one.

`SseFramingProofs`, for every set of sources, of any length, and every way of cutting them into
chunks. The code looks for a separator in a buffer; the reference recognises it by the last
bytes it took. The argument that they agree has four parts:

* Separators by position. `EventEnd` says that `next_event_end` is the first position at
  which a separator ends; `SuffixIsSeparator` says the same of the reference's suffix;
  `SameMeaning` says that `split_separator` and `single_data_line` accept exactly the events
  that the reference spells out, and `FinalLineIsDone` says it of `finish`'s last line.
* The reference as a run. `ReferenceRun` shows that the recursive function is defined on
  every sequence of bytes, `ReferencePrefix` that later bytes do not change what earlier
  ones gave, `OverStays` that nothing follows an end, and `Collects` and `CollectsAnEvent`
  that the bytes up to the first separator are one event.
* The loop. `Abreast` says that the reference, after the bytes that have left the buffer,
  stands between two events with the output so far and the usage kept; `TurnKeepsAbreast`
  shows that a turn keeps it or closes the stream as the reference does (`Finished`);
  `LoopAgrees` is the induction over the turns, in which every turn with an event makes the
  buffer shorter, so that none is left at the end.
* The closure. `IInv` says that while there is a transformer the generation is held, the
  buffer has no complete event and the stream is abreast (`Underway`), and that without one
  the closure never pulls and the generation is used up (`Spent`). `ChunkingCorrect`,
  `EndsCorrect` and `TypeCorrect` are read off it. So is `NoPanic`, the safety half of what
  `EveryBodyEnds` checks: the `expect` calls always find a transformer. It rests on a fact
  of the loop that is easily lost in a change: a transformer that closes has put something
  out (`EndingIs`).

`WellOrdering` holds what the others share: least elements of sets of natural numbers, from
the library's well-foundedness of the natural numbers, and from them induction up to a bound
and the existence and uniqueness of the states of a loop. Induction is stated over a set
instead of a predicate, since the provers cannot instantiate a theorem that takes an
operator.

Only model-checked:

* Liveness (`DegradedIsAttended`, `ReadyAgain`, `EveryRequestIsAnswered`, `EveryBodyEnds`,
  `ComesUpWithoutUpstream`, `HandlersEnd`, `ShutdownEnds`): fairness and ENABLED are outside
  the prover's reach.
* The three properties that runs show to be violated.

## Not modelled

* Logging, tracing and the metrics' values: no behaviour depends on them.
* `auth.rs`: a template for user authentication that no route uses.
* `transform_internal_event` of `sse.rs`: reached only by transformers that tests build.
* In `server.rs`, what keeps no state and decides nothing here (request ids, headers, CORS,
  compression) and the features that `production` leaves off (rate and concurrency
  limits).
* The retry and eviction policies written into the sidecar's configuration: constants that
  another program interprets. `render_sidecar_config`, which renders without hydration, is
  the same code without its first step.
* Base URLs, secret names and display names of the registry; error texts; constant-time
  comparison of keys, which is a matter of timing.
* Exact floating-point weights: only which candidates can be drawn, and their order.
* A bound on the SSE transformer's buffer: the code has none.

## Plan

1. Done: all components modelled and checked; every safety invariant, action property and
   refinement that a passing run checks is proved, and the type invariant of every module
   that has one. Liveness stays with TLC.
2. `RouterSystem`: several clients over `RoutingPolicy`, `CompletionProxy` and `Ledger`
   together, if a property needs more than one of them at a time.
