-------------------------------- MODULE Server --------------------------------
(***************************************************************************)
(* The service process around its handlers: configuration from the         *)
(* environment (config.rs), gateway authentication (gateway_auth.rs), the  *)
(* route classes with their time and body limits (routes.rs, server.rs),   *)
(* the health probes, and graceful shutdown with its forced exit, while    *)
(* clients, sidecar and database do as they please.  Built with the        *)
(* `production` features.  Time is counted in ticks: a tick passes only    *)
(* when no timer is due.                                                   *)
(***************************************************************************)
EXTENDS Integers

CONSTANTS
    Requests,      \* the requests of a run
    Inputs,        \* what they may ask: [route, credential, size, declared]
    UpstreamErrors,  \* the statuses other than success an upstream may answer
    Environments,  \* environments the process may be started in
    HttpUrls,      \* texts that are a plain http(s) URL with a host
    DatabaseUrls,  \* texts that are PostgreSQL connection options
    Nothing,       \* an absent variable, header or profile
    Blank,         \* a text of white space
    Undecodable,   \* a variable that is not Unicode
    DEFAULT_SIDECAR_URL,
    DEFAULT_SIDECAR_READINESS_URL,
    DEFAULT_REGISTRY_PATH,
    ShareOne,      \* the share 1 in the unit the environment counts in
    READINESS_DEPENDENCY_TIMEOUT,
    STANDARD_REQUEST_TIMEOUT,
    INFERENCE_REQUEST_TIMEOUT,
    SHUTDOWN_TIMEOUT,
    STANDARD_PAYLOAD_SIZE,
    INFERENCE_PAYLOAD_SIZE

\* 2 s, 30 s, 30 s and 10 min in the source.
ASSUME TimeoutAssumption ==
    /\ READINESS_DEPENDENCY_TIMEOUT \in Nat \ {0}
    /\ STANDARD_REQUEST_TIMEOUT \in Nat
    /\ SHUTDOWN_TIMEOUT \in Nat
    /\ INFERENCE_REQUEST_TIMEOUT \in Nat
    /\ READINESS_DEPENDENCY_TIMEOUT < STANDARD_REQUEST_TIMEOUT
    /\ STANDARD_REQUEST_TIMEOUT <= SHUTDOWN_TIMEOUT
    /\ SHUTDOWN_TIMEOUT < INFERENCE_REQUEST_TIMEOUT

\* 1 MiB and 20 MiB in the source.
ASSUME PayloadAssumption ==
    /\ STANDARD_PAYLOAD_SIZE \in Nat
    /\ INFERENCE_PAYLOAD_SIZE \in Nat
    /\ STANDARD_PAYLOAD_SIZE < INFERENCE_PAYLOAD_SIZE

\* The routes, by what their handlers wait for: nothing ("hello" and "livez",
\* public; "metadata", the catalog and compatibility answers), the sidecar's
\* health ("readyz", public), the database ("generation"), an upstream model.
\* "metrics" is added outside the route classes, without key and limits.
Routes == {"hello", "livez", "metrics", "readyz", "metadata", "generation", "inference"}

Protected == {"metadata", "generation", "inference"}

Profiles == {"production", "beta"}

ASSUME InputAssumption ==
    /\ \A i \in Inputs : i.route \in Routes /\ i.size \in Nat /\ i.declared \in BOOLEAN
    /\ Nothing \notin Profiles

\* 0 stands for no status yet, 200 for every success.
ASSUME UpstreamAssumption == UpstreamErrors \subseteq Nat \ (200..299 \cup {0})

VARIABLES
    process,   \* where the service process stands
    keys,      \* the GatewayAuth of this process
    conn,      \* per request: its handler and the response sent so far
    drain,     \* ticks since the shutdown signal
    sidecar,   \* how the sidecar answers
    database,  \* the status the health cell holds
    writes     \* requests whose detached ledger insert is still running

vars == <<process, keys, conn, drain, sidecar, database, writes>>

Alive == process \in {"serving", "draining"}

---------------------------------------------------------------------------
(* Configuration *)

Decoded(text) == text # Undecodable

Required(text) == text \notin {Nothing, Undecodable}

\* optional_env: the variable or its default
OptionalEnv(text, default) == IF text = Nothing THEN default ELSE text

\* Mutant: the two keys may be equal.
KeysMayAgree(production, beta) == production # Blank /\ beta # Blank

\* validate_gateway_keys: the keys are neither trimmed nor looked into further.
KeysAreValid(production, beta) ==
    /\ production # Blank
    /\ beta # Blank
    /\ beta # production

\* RoutingConfig::new with required_parsed_env: Nothing also stands for a
\* text that is no number.
RoutingConfig(env) ==
    /\ env.ceiling \in Int /\ env.ceiling >= 0
    /\ env.hysteresis \in Int /\ env.hysteresis >= 0
    /\ env.maxShare \in Int /\ env.maxShare > 0 /\ env.maxShare <= ShareOne
    /\ env.window \in Int /\ env.window > 0

\* parse_http_url
ParseHttpUrl(text) == text \in HttpUrls

\* RouterConfig::from_env succeeds.
FromEnv(env) ==
    /\ Required(env.gatewayKey)
    /\ Decoded(env.betaKey)
    /\ OptionalEnv(env.sidecarUrl, DEFAULT_SIDECAR_URL) \notin {Undecodable, Blank}
    /\ ParseHttpUrl(OptionalEnv(env.readinessUrl, DEFAULT_SIDECAR_READINESS_URL))
    /\ OptionalEnv(env.registryPath, DEFAULT_REGISTRY_PATH) \notin {Undecodable, Blank}
    /\ RoutingConfig(env)
    /\ KeysAreValid(env.gatewayKey, env.betaKey)

\* ProxyState::new: the sidecar's base URL is usable.
ProxyBuilds(env) == OptionalEnv(env.sidecarUrl, DEFAULT_SIDECAR_URL) \in HttpUrls

\* run_service up to serve, without the registry (module Startup).
RunService(env) == FromEnv(env) /\ env.databaseUrl \in DatabaseUrls /\ ProxyBuilds(env)

---------------------------------------------------------------------------
(* Authentication and route policies *)

\* profile_for: exactly one of the two keys matches.
ProfileFor(credential) ==
    LET productionMatch == credential = keys.production
        betaMatch == keys.beta # Nothing /\ credential = keys.beta
    IN  CASE productionMatch /\ ~betaMatch -> "production"
          [] betaMatch /\ ~productionMatch -> "beta"
          [] OTHER -> Nothing

Unauthorized(i) ==
    /\ i.route \in Protected
    /\ i.credential = Nothing \/ ProfileFor(i.credential) = Nothing

PayloadLimit(route) ==
    IF route = "inference" THEN INFERENCE_PAYLOAD_SIZE ELSE STANDARD_PAYLOAD_SIZE

\* The limit layer refuses a declared length; an undeclared one it only
\* counts while the handler reads.
TooLarge(i) == i.size > PayloadLimit(i.route)

Timeout(route) ==
    IF route = "inference" THEN INFERENCE_REQUEST_TIMEOUT ELSE STANDARD_REQUEST_TIMEOUT

\* A connection that has no request yet, or no longer.
Bare(phase) ==
    [phase |-> phase, input |-> Nothing, profile |-> Nothing, age |-> 0, status |-> 0,
     reported |-> Nothing, seen |-> {}, late |-> FALSE]

Idle == Bare("none")

\* Mutant: the size is checked before the key.
RefusalSizeFirst(i) ==
    IF i.declared /\ TooLarge(i) THEN 413 ELSE IF Unauthorized(i) THEN 401 ELSE 0

\* authorize around the limits around the handler: the status the layers answer
\* with themselves, 0 when the handler runs.
Refusal(i) ==
    IF Unauthorized(i) THEN 401 ELSE IF i.declared /\ TooLarge(i) THEN 413 ELSE 0

\* The same for every route: the metrics are rendered at once, behind no layer
\* that refuses.
Verdict(i) == IF i.route = "metrics" THEN 200 ELSE Refusal(i)

\* late: the handler runs for a head that was completed after the signal.
Admitted(i) ==
    [Idle EXCEPT !.phase = IF Verdict(i) = 0 THEN "handling" ELSE "sending",
                 !.input = i,
                 !.profile = IF i.route \in Protected /\ Verdict(i) = 0
                             THEN ProfileFor(i.credential) ELSE Nothing,
                 !.status = Verdict(i),
                 !.reported = IF i.route = "readyz" /\ Verdict(i) = 0
                              THEN database ELSE Nothing,
                 !.seen = IF i.route = "readyz" THEN {sidecar} ELSE {},
                 !.late = Verdict(i) = 0 /\ process = "draining"]

Handling(r) == conn[r].phase = "handling"

\* Connections a drain waits for.
Active(r) == conn[r].phase \in {"reading", "handling", "sending", "streaming"}

\* A probe ends when its own client gives up on the sidecar.
Deadline(r) ==
    IF conn[r].input.route = "readyz" THEN READINESS_DEPENDENCY_TIMEOUT
                                      ELSE Timeout(conn[r].input.route)

---------------------------------------------------------------------------
Statuses == {0, 200, 400, 401, 404, 408, 413, 500, 502, 503} \cup UpstreamErrors

Phases == {"none", "reading", "handling", "sending", "streaming", "done", "gone", "cut"}

SidecarStates == {"ready", "unhealthy", "hung"}

DatabaseStates == {"starting", "ok", "degraded"}

\* Every variable has its type and no timer is overrun.
TypeOK ==
    /\ process \in {"starting", "refused", "serving", "draining", "stopped", "forced"}
    /\ drain \in 0..SHUTDOWN_TIMEOUT
    /\ conn \in [Requests ->
                    [phase : Phases, input : Inputs \cup {Nothing},
                     profile : Profiles \cup {Nothing}, age : 0..INFERENCE_REQUEST_TIMEOUT,
                     status : Statuses, reported : DatabaseStates \cup {Nothing},
                     seen : SUBSET SidecarStates, late : BOOLEAN]]
    /\ \A r \in Requests : Handling(r) => conn[r].age <= Deadline(r)
    /\ sidecar \in SidecarStates
    /\ database \in DatabaseStates
    /\ writes \subseteq Requests

Init ==
    /\ process = "starting"
    /\ keys = [production |-> Nothing, beta |-> Nothing]
    /\ conn = [r \in Requests |-> Idle]
    /\ drain = 0
    /\ sidecar \in SidecarStates
    /\ database = "starting"
    /\ writes = {}

\* The process serves with the configuration it has read, or exits.
LoadConfig(env) ==
    /\ process = "starting"
    /\ IF RunService(env)
       THEN /\ process' = "serving"
            /\ keys' = [production |-> env.gatewayKey, beta |-> env.betaKey]
       ELSE /\ process' = "refused"
            /\ UNCHANGED keys
    /\ UNCHANGED <<conn, drain, sidecar, database, writes>>

\* The first bytes of a request head.  Once the signal is received the listener
\* is closed and connections without any are closed too.
HeadBegins(r) ==
    /\ process = "serving"
    /\ conn[r].phase = "none"
    /\ conn' = [conn EXCEPT ![r] = Bare("reading")]
    /\ UNCHANGED <<process, keys, drain, sidecar, database, writes>>

\* The head is complete and the request enters the middleware stack, also
\* during a drain when the signal came in the middle of the head.
Accept(r, i) ==
    /\ Alive
    /\ conn[r].phase = "reading"
    /\ conn' = [conn EXCEPT ![r] = Admitted(i)]
    /\ UNCHANGED <<process, keys, drain, sidecar, database, writes>>

---------------------------------------------------------------------------
(* Handlers *)

\* The head of the answer goes out; what only the handler holds is dropped.
WithHead(c, phase, status) ==
    [c EXCEPT !.phase = phase, !.status = status, !.age = 0, !.reported = Nothing,
              !.late = FALSE]

Respond(r, status) ==
    /\ Alive
    /\ Handling(r)
    /\ conn' = [conn EXCEPT ![r] = WithHead(@, "sending", status)]

HandlerUnchanged == UNCHANGED <<process, keys, drain, sidecar, database>>

\* hello, livez, get_models and get_model_endpoints, get_auth_key, get_credits
FixedAnswer(r) ==
    /\ conn[r].phase = "handling" /\ conn[r].input.route \in {"hello", "livez", "metadata"}
    /\ \/ Respond(r, 200)
       \/ conn[r].input.route = "metadata" /\ Respond(r, 404)
    /\ HandlerUnchanged
    /\ UNCHANGED writes

\* get_generation: found, no id given, not found, or the ledger failed (module
\* Ledger)
GenerationAnswer(r) ==
    /\ conn[r].phase = "handling" /\ conn[r].input.route = "generation"
    /\ \E status \in {200, 400, 404, 503} : Respond(r, status)
    /\ HandlerUnchanged
    /\ UNCHANGED writes

\* Mutant: readiness needs the database too.
ReadyzNeedsDatabase(r) ==
    /\ conn[r].phase = "handling" /\ conn[r].input.route = "readyz"
    /\ \/ sidecar = "ready" /\ Respond(r, IF conn[r].reported = "ok" THEN 200 ELSE 503)
       \/ sidecar = "unhealthy" /\ Respond(r, 503)
       \/ /\ conn[r].age = READINESS_DEPENDENCY_TIMEOUT
          /\ "hung" \in conn[r].seen
          /\ Respond(r, 503)
    /\ HandlerUnchanged
    /\ UNCHANGED writes

\* readyz, which has read the database status before it asked the sidecar.
Readyz(r) ==
    /\ conn[r].phase = "handling" /\ conn[r].input.route = "readyz"
    /\ \/ sidecar = "ready" /\ Respond(r, 200)
       \/ sidecar = "unhealthy" /\ Respond(r, 503)
       \/ /\ conn[r].age = READINESS_DEPENDENCY_TIMEOUT
          /\ "hung" \in conn[r].seen
          /\ Respond(r, 503)
    /\ HandlerUnchanged
    /\ UNCHANGED writes

\* The Bytes extractor of the inference handlers, on an undeclared length.
BodyTooLarge(r) ==
    /\ conn[r].phase = "handling" /\ conn[r].input.route = "inference"
    /\ TooLarge(conn[r].input)
    /\ Respond(r, 413)
    /\ HandlerUnchanged
    /\ UNCHANGED writes

\* forward before it asks the sidecar: a body that is no JSON, and what
\* route_for_endpoint refuses (an unusable preference, an unknown model, no
\* eligible route).
RefuseCompletion(r) ==
    /\ conn[r].phase = "handling" /\ conn[r].input.route = "inference"
    /\ ~TooLarge(conn[r].input)
    /\ \E status \in {400, 404, 503} : Respond(r, status)
    /\ HandlerUnchanged
    /\ UNCHANGED writes

\* forward without a stream: the whole answer, whose row, if it has an id and
\* its counts fit, is handed to a detached task (GenerationContext::record_at);
\* an upstream's failure under its own status; or no usable answer.
Complete(r) ==
    /\ conn[r].phase = "handling" /\ conn[r].input.route = "inference"
    /\ ~TooLarge(conn[r].input)
    /\ \/ /\ sidecar = "ready"
          /\ Respond(r, 200)
          /\ writes' \in {writes, writes \cup {r}}
       \/ /\ sidecar # "hung"
          /\ \E status \in UpstreamErrors \cup {502} : Respond(r, status)
          /\ UNCHANGED writes
    /\ HandlerUnchanged

\* forward with a stream: the head is answered, the body has no time limit.
StartStream(r) ==
    /\ Alive
    /\ conn[r].phase = "handling" /\ conn[r].input.route = "inference"
    /\ ~TooLarge(conn[r].input)
    /\ sidecar = "ready"
    /\ conn' = [conn EXCEPT ![r] = WithHead(@, "streaming", 200)]
    /\ HandlerUnchanged
    /\ UNCHANGED writes

\* The stream ends, with a row to write when it ended with a costed [DONE].
EndStream(r) ==
    /\ Alive
    /\ conn[r].phase = "streaming"
    /\ conn' = [conn EXCEPT ![r] = Bare("done")]
    /\ writes' \in {writes, writes \cup {r}}
    /\ HandlerUnchanged

\* Mutant: inference has no timeout.
TimeoutOnStandardOnly(r) ==
    /\ conn[r].phase = "handling" /\ conn[r].input.route \notin {"readyz", "inference"}
    /\ conn[r].age = Timeout(conn[r].input.route)
    /\ Respond(r, 408)
    /\ HandlerUnchanged
    /\ UNCHANGED writes

\* TimeoutLayer drops the handler.
TimeoutFires(r) ==
    /\ conn[r].phase = "handling" /\ conn[r].input.route # "readyz"
    /\ conn[r].age = Timeout(conn[r].input.route)
    /\ Respond(r, 408)
    /\ HandlerUnchanged
    /\ UNCHANGED writes

\* CatchPanicLayer with handle_panic; the handlers that await may panic.
HandlerPanics(r) ==
    /\ conn[r].phase = "handling" /\ conn[r].input.route \in {"generation", "inference"}
    /\ Respond(r, 500)
    /\ HandlerUnchanged
    /\ UNCHANGED writes

---------------------------------------------------------------------------
(* Connections and the detached inserts *)

\* hyper has written the response.
Sent(r) ==
    /\ Alive
    /\ conn[r].phase = "sending"
    /\ conn' = [conn EXCEPT ![r] = Bare("done")]
    /\ HandlerUnchanged
    /\ UNCHANGED writes

\* The client disconnects; hyper drops the handler or the stream.
ClientLeaves(r) ==
    /\ Alive
    /\ Active(r)
    /\ conn' = [conn EXCEPT ![r] = Bare("gone")]
    /\ HandlerUnchanged
    /\ UNCHANGED writes

\* Ledger::insert returns: stored, or failed and logged.
InsertEnds(r) ==
    /\ Alive
    /\ r \in writes
    /\ writes' = writes \ {r}
    /\ UNCHANGED <<process, keys, conn, drain, sidecar, database>>

---------------------------------------------------------------------------
(* Shutdown *)

\* SIGTERM or ctrl-c: the drain begins and the forced exit is armed.
ShutdownSignal ==
    /\ process = "serving"
    /\ process' = "draining"
    /\ drain' = 0
    /\ UNCHANGED <<keys, conn, sidecar, database, writes>>

\* Every connection is closed: serve returns, main returns, and dropping the
\* runtime cancels what is still running in it.
DrainCompletes ==
    /\ process = "draining"
    /\ \A r \in Requests : ~Active(r)
    /\ process' = "stopped"
    /\ UNCHANGED <<keys, conn, drain, sidecar, database, writes>>

\* Mutant: the timer is never armed.
NeverForced ==
    /\ FALSE
    /\ UNCHANGED vars

\* Mutant: the timer is armed with another constant.
ForceExitEarly ==
    /\ process = "draining"
    /\ drain = READINESS_DEPENDENCY_TIMEOUT
    /\ process' = "forced"
    /\ conn' = [r \in Requests |->
                   IF Active(r) THEN [conn[r] EXCEPT !.phase = "cut"] ELSE conn[r]]
    /\ UNCHANGED <<keys, drain, sidecar, database, writes>>

\* std::process::exit(1)
ForceExit ==
    /\ process = "draining"
    /\ drain = SHUTDOWN_TIMEOUT
    /\ process' = "forced"
    /\ conn' = [r \in Requests |->
                   IF Active(r) THEN [conn[r] EXCEPT !.phase = "cut"] ELSE conn[r]]
    /\ UNCHANGED <<keys, drain, sidecar, database, writes>>

---------------------------------------------------------------------------
(* The world *)

\* Time passes unless a timer is due.
Tick ==
    /\ Alive
    /\ process = "draining" \/ \E r \in Requests : Handling(r)
    /\ process = "draining" => drain < SHUTDOWN_TIMEOUT
    /\ \A r \in Requests : Handling(r) => conn[r].age < Deadline(r)
    /\ drain' = IF process = "draining" THEN drain + 1 ELSE drain
    /\ conn' = [r \in Requests |->
                   IF Handling(r) THEN [conn[r] EXCEPT !.age = @ + 1] ELSE conn[r]]
    /\ UNCHANGED <<process, keys, sidecar, database, writes>>

SidecarChanges ==
    /\ Alive
    /\ sidecar' \in SidecarStates \ {sidecar}
    /\ conn' = [r \in Requests |->
                   IF conn[r].seen # {} /\ Handling(r)
                   THEN [conn[r] EXCEPT !.seen = @ \cup {sidecar'}] ELSE conn[r]]
    /\ UNCHANGED <<process, keys, drain, database, writes>>

\* DatabaseHealth's supervisor and the ledger's operations.
DatabaseChanges ==
    /\ Alive
    /\ database' \in {"ok", "degraded"} \ {database}
    /\ UNCHANGED <<process, keys, conn, drain, sidecar, writes>>

Next ==
    \/ \E env \in Environments : LoadConfig(env)
    \/ \E r \in Requests :
          \/ HeadBegins(r)
          \/ \E i \in Inputs : Accept(r, i)
          \/ FixedAnswer(r)
          \/ GenerationAnswer(r)
          \/ Readyz(r)
          \/ BodyTooLarge(r)
          \/ RefuseCompletion(r)
          \/ Complete(r)
          \/ StartStream(r)
          \/ EndStream(r)
          \/ TimeoutFires(r)
          \/ HandlerPanics(r)
          \/ Sent(r)
          \/ ClientLeaves(r)
          \/ InsertEnds(r)
    \/ ShutdownSignal
    \/ DrainCompletes
    \/ ForceExit
    \/ Tick
    \/ SidecarChanges
    \/ DatabaseChanges

Spec == Init /\ [][Next]_vars

\* Timers fire and a drained server stops.  Nothing is asked of clients, of
\* the sidecar or of the database.
FairSpec ==
    /\ Spec
    /\ WF_vars(Tick)
    /\ WF_vars(ForceExit)
    /\ WF_vars(DrainCompletes)
    /\ \A r \in Requests : WF_vars(TimeoutFires(r)) /\ WF_vars(Readyz(r))

---------------------------------------------------------------------------
(* Properties *)

\* Configuration and authentication together.  Behind the protected routes a
\* request without one of the configured keys learns only that: 401, whatever
\* its size and route, and no handler runs for it.  With one of them it is
\* refused by no layer but the size limit and acts for the key's own profile,
\* whatever status the upstream then answers, 401 included.
AccessIsByKey ==
    \A r \in Requests :
        LET c == conn[r]
            known == c.input.credential \in {keys.production, keys.beta} \ {Nothing}
        IN  c.input # Nothing /\ c.input.route \in Protected =>
              /\ ~known => /\ c.status = 401
                           /\ c.profile = Nothing
                           /\ c.phase \notin {"handling", "streaming"}
              /\ known /\ c.status # 413 =>
                    c.profile = IF c.input.credential = keys.beta THEN "beta" ELSE "production"

\* A graceful stop leaves no request behind, and a forced exit takes the answer
\* of a request that was there at the signal only from a handler that had the
\* whole shutdown timeout, and never from a probe.
NobodyIsCutShort ==
    /\ process = "stopped" => \A r \in Requests : ~Active(r)
    /\ \A r \in Requests :
          LET c == conn[r]
          IN  c.phase = "cut" /\ c.status = 0 /\ c.input # Nothing /\ ~c.late =>
                 c.age >= SHUTDOWN_TIMEOUT /\ c.input.route # "readyz"

\* Readiness is the sidecar's alone: 200 only if the sidecar was ready at some
\* time during the probe, 503 only if it was not at some time, and the
\* dependency's timeout comes before the route's, whatever the database does.
ReadinessFollowsSidecar ==
    \A r \in Requests :
        LET c == conn[r]
        IN  c.input # Nothing /\ c.input.route = "readyz" /\ c.status \notin {0, 413} =>
              \/ c.status = 200 /\ "ready" \in c.seen
              \/ c.status = 503 /\ c.seen # {"ready"}

\* Every request gets its head, is left by its client or loses its process,
\* also when the sidecar hangs and the database is away.
HandlersEnd == \A r \in Requests : Handling(r) ~> ~Handling(r)

\* A shutdown ends, also with a stream that never does.
ShutdownEnds == process = "draining" ~> process \in {"stopped", "forced"}

\* docs/04-billing.md, "Both paths write": a service that was stopped
\* gracefully has no generation row left to write.
GracefulStopKeepsRows == process = "stopped" => writes = {}

==============================================================================
