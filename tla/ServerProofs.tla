----------------------------- MODULE ServerProofs -----------------------------
(***************************************************************************)
(* Proofs about Server for any number of requests, any keys and any        *)
(* time-outs and limits in the order TimeoutAssumption states.             *)
(***************************************************************************)
EXTENDS Server, TLAPS

-----------------------------------------------------------------------------
(* The inductive invariant: the configured keys, and what is known of one  *)
(* request c.                                                              *)

Connections ==
    [phase : Phases, input : Inputs \cup {Nothing}, profile : Profiles \cup {Nothing},
     age : 0..INFERENCE_REQUEST_TIMEOUT, status : Statuses,
     reported : DatabaseStates \cup {Nothing}, seen : SUBSET SidecarStates, late : BOOLEAN]

\* A process that serves has a production key, and another beta key or none.
KeysInv == Alive => keys.production # Nothing /\ keys.production # keys.beta

DeadlineOf(c) ==
    IF c.input.route = "readyz" THEN READINESS_DEPENDENCY_TIMEOUT ELSE Timeout(c.input.route)

\* A handler has answered nothing and is within its time limit; once the drain
\* began it has lived at least as long, unless it was late; a probe has seen the
\* sidecar as it is.
HandlingInv(c) ==
    c.phase = "handling" =>
        /\ c.status = 0
        /\ c.age <= DeadlineOf(c)
        /\ process = "draining" /\ ~c.late => c.age >= drain
        /\ c.input.route = "readyz" => sidecar \in c.seen

AnsweredInv(c) == c.phase \in {"sending", "streaming"} => c.status # 0

ProcessInv(c) ==
    /\ process = "starting" => c.input = Nothing
    /\ process = "stopped" => c.phase \notin {"reading", "handling", "sending", "streaming"}
    /\ c.phase = "reading" => c.input = Nothing

Known(i) == i.credential \in {keys.production, keys.beta} \ {Nothing}

OwnProfile(i) == IF i.credential = keys.beta THEN "beta" ELSE "production"

AccessInv(c) ==
    c.input # Nothing /\ c.input.route \in Protected =>
        /\ ~Known(c.input) => /\ c.status = 401
                              /\ c.profile = Nothing
                              /\ c.phase \notin {"handling", "streaming"}
        /\ Known(c.input) /\ c.status # 413 => c.profile = OwnProfile(c.input)

CutInv(c) ==
    c.phase = "cut" /\ c.status = 0 /\ c.input # Nothing /\ ~c.late =>
        c.age >= SHUTDOWN_TIMEOUT /\ c.input.route # "readyz"

ReadyInv(c) ==
    c.input # Nothing /\ c.input.route = "readyz" /\ c.status \notin {0, 413} =>
        \/ c.status = 200 /\ "ready" \in c.seen
        \/ c.status = 503 /\ c.seen # {"ready"}

RequestInv(c) ==
    /\ c \in Connections
    /\ HandlingInv(c)
    /\ AnsweredInv(c)
    /\ ProcessInv(c)
    /\ AccessInv(c)
    /\ CutInv(c)
    /\ ReadyInv(c)

GlobalType ==
    /\ process \in {"starting", "refused", "serving", "draining", "stopped", "forced"}
    /\ drain \in 0..SHUTDOWN_TIMEOUT
    /\ sidecar \in SidecarStates
    /\ database \in DatabaseStates
    /\ writes \subseteq Requests

IInv ==
    /\ GlobalType
    /\ KeysInv
    /\ conn \in [Requests -> Connections]
    /\ \A r \in Requests : RequestInv(conn[r])

-----------------------------------------------------------------------------
(* Requests.                                                               *)

\* A request that is not there, or no longer there, meets every condition.
LEMMA BareIsFine ==
    ASSUME NEW ph \in {"none", "reading", "done", "gone"}, ph = "reading" => Alive
    PROVE  RequestInv(Bare(ph))
<1> DEFINE c == Bare(ph)
<1>1. c = [phase |-> ph, input |-> Nothing, profile |-> Nothing, age |-> 0, status |-> 0,
           reported |-> Nothing, seen |-> {}, late |-> FALSE]
  BY DEF Bare
<1> HIDE DEF c
<1>2. /\ c.phase = ph /\ c.input = Nothing /\ c.status = 0
  BY <1>1
<1>3. c \in Connections
  BY <1>1, TimeoutAssumption DEF Connections, Phases, Statuses
<1>4. QED
  BY <1>2, <1>3 DEF c, RequestInv, HandlingInv, AnsweredInv, ProcessInv, AccessInv, CutInv, ReadyInv,
     Alive

\* A step that replaces one request's record and leaves process, keys, drain
\* and sidecar alone only has to establish the conditions on that record.
LEMMA OneRequestStep ==
    ASSUME IInv, NEW r \in Requests, NEW c,
           conn' = [conn EXCEPT ![r] = c],
           UNCHANGED <<process, keys, drain, sidecar, database>>,
           writes' \subseteq Requests,
           RequestInv(c)
    PROVE  IInv'
<1>1. GlobalType' /\ KeysInv'
  BY DEF IInv, GlobalType, KeysInv, Alive
<1>2. conn' \in [Requests -> Connections]
  BY DEF IInv, RequestInv
<1>3. ASSUME NEW u \in Requests PROVE RequestInv(conn[u])'
  <2>1. conn'[u] = conn[u] \/ conn'[u] = c
    BY DEF IInv
  <2>2. RequestInv(conn'[u])
    BY <2>1 DEF IInv
  <2>3. QED
    BY <2>2 DEF RequestInv, HandlingInv, AnsweredInv, ProcessInv, AccessInv, CutInv, ReadyInv,
       Known, OwnProfile
<1>4. QED
  BY <1>1, <1>2, <1>3 DEF IInv

\* The key check: only the two configured keys pass, each to its own profile.
LEMMA KeyCheck ==
    ASSUME KeysInv, Alive, NEW i \in Inputs
    PROVE  /\ ProfileFor(i.credential) \in Profiles \cup {Nothing}
           /\ i.route \in Protected => (Unauthorized(i) <=> ~Known(i))
           /\ Known(i) => ProfileFor(i.credential) = OwnProfile(i)
<1>1. keys.production # Nothing /\ keys.production # keys.beta
  BY DEF KeysInv
<1>2. "production" # Nothing /\ "beta" # Nothing
  BY InputAssumption DEF Profiles
<1>3. CASE i.credential = keys.production
  <2>1. ProfileFor(i.credential) = "production"
    BY <1>1, <1>3 DEF ProfileFor
  <2>2. QED
    BY <1>1, <1>2, <1>3, <2>1 DEF Unauthorized, Profiles, Known, OwnProfile
<1>4. CASE keys.beta # Nothing /\ i.credential = keys.beta
  <2>1. ProfileFor(i.credential) = "beta"
    BY <1>1, <1>4 DEF ProfileFor
  <2>2. QED
    BY <1>1, <1>2, <1>4, <2>1 DEF Unauthorized, Profiles, Known, OwnProfile
<1>5. CASE i.credential # keys.production /\ ~(keys.beta # Nothing /\ i.credential = keys.beta)
  <2>1. ProfileFor(i.credential) = Nothing
    BY <1>5 DEF ProfileFor
  <2>2. QED
    BY <1>1, <1>5, <2>1 DEF Unauthorized, Known
<1>6. QED
  BY <1>3, <1>4, <1>5

\* The middleware's verdict on a request.
LEMMA AdmittedIsFine ==
    ASSUME IInv, Alive, NEW i \in Inputs
    PROVE  RequestInv(Admitted(i))
<1> DEFINE c == Admitted(i)
           ph == IF Verdict(i) = 0 THEN "handling" ELSE "sending"
           prof == IF i.route \in Protected /\ Verdict(i) = 0
                   THEN ProfileFor(i.credential) ELSE Nothing
           rep == IF i.route = "readyz" /\ Verdict(i) = 0 THEN database ELSE Nothing
           se == IF i.route = "readyz" THEN {sidecar} ELSE {}
           la == Verdict(i) = 0 /\ process = "draining"
<1>1. /\ Verdict(i) \in {0, 200, 401, 413}
      /\ Verdict(i) = 401 <=> Unauthorized(i)
      /\ Verdict(i) = 200 <=> i.route = "metrics"
  BY DEF Verdict, Refusal, Unauthorized, Protected
<1>2. KeysInv /\ GlobalType
  BY DEF IInv
<1>3. /\ ProfileFor(i.credential) \in Profiles \cup {Nothing}
      /\ i.route \in Protected => (Unauthorized(i) <=> ~Known(i))
      /\ Known(i) => ProfileFor(i.credential) = OwnProfile(i)
  BY <1>2, KeyCheck
<1>4. c = [Idle EXCEPT !.phase = ph, !.input = i, !.profile = prof, !.status = Verdict(i),
                       !.reported = rep, !.seen = se, !.late = la]
  BY DEF Admitted
<1> HIDE DEF c
<1>5. /\ c.phase = ph /\ c.input = i /\ c.status = Verdict(i) /\ c.age = 0
      /\ c.profile = prof /\ c.seen = se /\ c.late = la
  BY <1>4 DEF Idle, Bare
<1>6. c \in Connections
  <2>1. 0 \in 0..INFERENCE_REQUEST_TIMEOUT /\ Verdict(i) \in Statuses
    BY <1>1, TimeoutAssumption DEF Statuses
  <2>2. ph \in Phases /\ prof \in Profiles \cup {Nothing}
    BY <1>3 DEF Phases
  <2>3. se \in SUBSET SidecarStates /\ rep \in DatabaseStates \cup {Nothing} /\ la \in BOOLEAN
    BY <1>2 DEF GlobalType
  <2> HIDE DEF ph, prof, rep, se, la
  <2>4. QED
    BY <1>4, <2>1, <2>2, <2>3 DEF Connections, Idle, Bare
<1>7. HandlingInv(c)
  <2>1. DeadlineOf(c) \in Nat
    BY <1>5, TimeoutAssumption DEF DeadlineOf, Timeout
  <2>2. c.phase = "handling" => c.status = 0 /\ (process = "draining" => c.late)
    BY <1>5, Zenon
  <2>3. c.input.route = "readyz" => sidecar \in c.seen
    BY <1>5
  <2>4. QED
    BY <1>5, <2>1, <2>2, <2>3 DEF HandlingInv
<1>8. AccessInv(c)
  BY <1>1, <1>3, <1>5 DEF AccessInv, Protected
<1>9. ReadyInv(c)
  BY <1>1, <1>5 DEF ReadyInv, Unauthorized, Protected
<1>10. AnsweredInv(c) /\ ProcessInv(c) /\ CutInv(c)
  BY <1>1, <1>5 DEF AnsweredInv, ProcessInv, CutInv, Alive
<1>11. QED
  BY <1>6, <1>7, <1>8, <1>9, <1>10 DEF c, RequestInv

\* What an answer st to a probe needs to have seen.
ProbeIsHonest(c, st) ==
    c.input.route = "readyz" => \/ st = 200 /\ "ready" \in c.seen
                                \/ st = 503 /\ c.seen # {"ready"}

\* What a handler may answer, an upstream's own status included.
Answers == Statuses \ {0}

LEMMA WithHeadFacts ==
    ASSUME NEW d \in Connections, NEW ph \in {"sending", "streaming"}, NEW st \in Answers
    PROVE  /\ WithHead(d, ph, st) \in Connections
           /\ WithHead(d, ph, st).phase = ph
           /\ WithHead(d, ph, st).status = st
           /\ WithHead(d, ph, st).input = d.input
           /\ WithHead(d, ph, st).profile = d.profile
           /\ WithHead(d, ph, st).seen = d.seen
<1>1. ph \in Phases /\ st \in Statuses /\ 0 \in 0..INFERENCE_REQUEST_TIMEOUT /\ FALSE \in BOOLEAN
  BY TimeoutAssumption DEF Phases, Answers
<1>2. QED
  BY <1>1 DEF Connections, WithHead

\* A handler only runs for a key, so its answer gives nothing away.
LEMMA AnswerIsFine ==
    ASSUME IInv, Alive, NEW r \in Requests, Handling(r),
           NEW ph \in {"sending", "streaming"}, NEW st \in Answers,
           ProbeIsHonest(conn[r], st)
    PROVE  RequestInv(WithHead(conn[r], ph, st))
<1>1. conn[r] \in Connections /\ RequestInv(conn[r]) /\ conn[r].phase = "handling"
  BY DEF IInv, Handling
<1>2. PICK c : c = WithHead(conn[r], ph, st)
  OBVIOUS
<1>3. /\ c \in Connections
      /\ c.phase = ph /\ c.status = st /\ c.input = conn[r].input
      /\ c.profile = conn[r].profile /\ c.seen = conn[r].seen
  BY <1>1, <1>2, WithHeadFacts
<1>4. conn[r].status = 0 /\ AccessInv(conn[r])
  BY <1>1 DEF RequestInv, HandlingInv
<1>5. AccessInv(c)
  BY <1>1, <1>3, <1>4 DEF AccessInv
<1>6. HandlingInv(c) /\ AnsweredInv(c) /\ ProcessInv(c) /\ CutInv(c)
  BY <1>3 DEF HandlingInv, AnsweredInv, ProcessInv, CutInv, Alive, Answers
<1>7. ReadyInv(c)
  BY <1>3 DEF ReadyInv, ProbeIsHonest
<1>8. RequestInv(c)
  BY <1>3, <1>5, <1>6, <1>7 DEF RequestInv
<1>9. QED
  BY <1>2, <1>8

\* Respond, with the reason an answer to a probe needs.
LEMMA RespondKeeps ==
    ASSUME IInv, NEW r \in Requests, NEW st \in Answers,
           Respond(r, st), HandlerUnchanged, writes' \subseteq Requests,
           ProbeIsHonest(conn[r], st)
    PROVE  IInv'
<1>1. Alive /\ Handling(r)
  BY DEF Respond
<1>2. conn' = [conn EXCEPT ![r] = WithHead(conn[r], "sending", st)]
  BY DEF Respond
<1>3. RequestInv(WithHead(conn[r], "sending", st))
  BY <1>1, AnswerIsFine
<1>4. UNCHANGED <<process, keys, drain, sidecar, database>>
  BY DEF HandlerUnchanged
<1>5. QED
  BY <1>2, <1>3, <1>4, OneRequestStep

\* Everything that may happen to a single request.
RequestStep(r) ==
    \/ HeadBegins(r)
    \/ \E i \in Inputs : Accept(r, i)
    \/ FixedAnswer(r)
    \/ GenerationAnswer(r)
    \/ Readyz(r)
    \/ BodyTooLarge(r)
    \/ RefuseCompletion(r)
    \/ Complete(r)
    \/ StartStream(r)
    \/ EndStream(r)
    \/ TimeoutFires(r)
    \/ HandlerPanics(r)
    \/ Sent(r)
    \/ ClientLeaves(r)
    \/ InsertEnds(r)

LEMMA RequestStepKeeps ==
    ASSUME IInv, NEW r \in Requests, RequestStep(r)
    PROVE  IInv'
<1>1. writes \subseteq Requests /\ RequestInv(conn[r])
  BY DEF IInv, GlobalType
<1>2. ASSUME NEW i \in Inputs, Accept(r, i) PROVE IInv'
  <2>1. RequestInv(Admitted(i))
    BY <1>2, AdmittedIsFine DEF Accept
  <2>2. QED
    BY <1>1, <1>2, <2>1, OneRequestStep DEF Accept
<1>3. {200, 400, 404, 408, 413, 500, 502, 503} \cup UpstreamErrors \subseteq Answers
  BY UpstreamAssumption DEF Answers, Statuses
<1>4. ASSUME NEW st \in Answers, Respond(r, st), HandlerUnchanged,
             writes' \subseteq Requests, conn[r].input.route # "readyz"
      PROVE  IInv'
  <2>1. ProbeIsHonest(conn[r], st)
    BY <1>4 DEF ProbeIsHonest
  <2>2. QED
    BY <1>4, <2>1, RespondKeeps
<1>5. CASE FixedAnswer(r)
  BY <1>3, <1>1, <1>4, <1>5 DEF FixedAnswer
<1>6. CASE GenerationAnswer(r)
  BY <1>3, <1>1, <1>4, <1>6 DEF GenerationAnswer
<1>7. CASE Readyz(r)
  <2>1. sidecar \in conn[r].seen
    BY <1>1, <1>7 DEF Readyz, RequestInv, HandlingInv
  <2>2. PICK st \in {200, 503} :
          /\ Respond(r, st)
          /\ \/ st = 200 /\ "ready" \in conn[r].seen
             \/ st = 503 /\ ("unhealthy" \in conn[r].seen \/ "hung" \in conn[r].seen)
    BY <1>7, <2>1 DEF Readyz
  <2>3. ProbeIsHonest(conn[r], st)
    BY <2>2 DEF ProbeIsHonest
  <2>4. HandlerUnchanged /\ writes' \subseteq Requests
    BY <1>1, <1>7 DEF Readyz
  <2>5. QED
    BY <1>3, <2>2, <2>3, <2>4, RespondKeeps
<1>8. CASE BodyTooLarge(r)
  BY <1>3, <1>1, <1>4, <1>8 DEF BodyTooLarge
<1>9. CASE RefuseCompletion(r)
  BY <1>3, <1>1, <1>4, <1>9 DEF RefuseCompletion
<1>10. CASE Complete(r)
  BY <1>3, <1>1, <1>4, <1>10 DEF Complete
<1>11. CASE StartStream(r)
  <2>1. /\ Alive /\ Handling(r) /\ HandlerUnchanged /\ writes' = writes
        /\ conn' = [conn EXCEPT ![r] = WithHead(conn[r], "streaming", 200)]
    BY <1>11 DEF StartStream, Handling
  <2>2. ProbeIsHonest(conn[r], 200)
    BY <1>11 DEF StartStream, ProbeIsHonest
  <2>3. RequestInv(WithHead(conn[r], "streaming", 200))
    BY <1>3, <2>1, <2>2, AnswerIsFine
  <2>4. QED
    BY <1>1, <2>1, <2>3, OneRequestStep DEF HandlerUnchanged
<1>12. CASE TimeoutFires(r)
  BY <1>3, <1>1, <1>4, <1>12 DEF TimeoutFires
<1>13. CASE HandlerPanics(r)
  BY <1>3, <1>1, <1>4, <1>13 DEF HandlerPanics
<1>14. CASE EndStream(r) \/ Sent(r) \/ ClientLeaves(r)
  <2>1. PICK ph \in {"done", "gone"} :
          /\ conn' = [conn EXCEPT ![r] = Bare(ph)]
          /\ HandlerUnchanged
          /\ writes' \in {writes, writes \cup {r}}
    BY <1>14 DEF EndStream, Sent, ClientLeaves
  <2>2. RequestInv(Bare(ph))
    BY BareIsFine
  <2>3. QED
    BY <1>1, <2>1, <2>2, OneRequestStep DEF HandlerUnchanged
<1>15. CASE InsertEnds(r)
  <2>1. /\ UNCHANGED <<process, keys, conn, drain, sidecar, database>>
        /\ writes' \subseteq Requests
    BY <1>1, <1>15 DEF InsertEnds
  <2>2. conn' = [conn EXCEPT ![r] = conn[r]]
    BY <2>1 DEF IInv
  <2>3. QED
    BY <1>1, <2>1, <2>2, OneRequestStep
<1>16. CASE HeadBegins(r)
  <2>1. RequestInv(Bare("reading"))
    BY <1>16, BareIsFine DEF HeadBegins, Alive
  <2>2. QED
    BY <1>1, <1>16, <2>1, OneRequestStep DEF HeadBegins
<1>17. QED
  BY <1>2, <1>5, <1>6, <1>7, <1>8, <1>9, <1>10, <1>11, <1>12, <1>13, <1>14, <1>15, <1>16 DEF RequestStep

-----------------------------------------------------------------------------
(* The process and the world.                                              *)

\* A served configuration has distinct keys.
LEMMA LoadConfigKeeps ==
    ASSUME IInv, NEW env \in Environments, LoadConfig(env)
    PROVE  IInv'
<1>1. /\ process = "starting" /\ process' \in {"serving", "refused"}
      /\ UNCHANGED <<conn, drain, sidecar, database, writes>>
  BY DEF LoadConfig
<1>2. GlobalType'
  BY <1>1 DEF IInv, GlobalType
<1>3. KeysInv'
  <2>1. CASE RunService(env)
    <3>1. keys'.production = env.gatewayKey /\ keys'.beta = env.betaKey
      BY <2>1 DEF LoadConfig
    <3>2. env.gatewayKey # Nothing /\ env.gatewayKey # env.betaKey
      BY <2>1 DEF RunService, FromEnv, Required, KeysAreValid
    <3>3. QED
      BY <3>1, <3>2 DEF KeysInv
  <2>2. CASE ~RunService(env)
    BY <2>2 DEF LoadConfig, KeysInv, Alive
  <2>3. QED
    BY <2>1, <2>2
<1>4. ASSUME NEW u \in Requests PROVE RequestInv(conn[u])'
  <2>1. RequestInv(conn[u]) /\ conn'[u] = conn[u]
    BY <1>1 DEF IInv
  <2>2. conn[u].input = Nothing
    BY <1>1, <2>1 DEF RequestInv, ProcessInv
  <2>3. HandlingInv(conn[u])' /\ AnsweredInv(conn[u])' /\ ProcessInv(conn[u])' /\ CutInv(conn[u])'
    BY <1>1, <2>1 DEF RequestInv, HandlingInv, AnsweredInv, ProcessInv, CutInv, DeadlineOf
  <2>4. AccessInv(conn[u])' /\ ReadyInv(conn[u])'
    BY <2>1, <2>2 DEF AccessInv, ReadyInv
  <2>5. QED
    BY <2>1, <2>3, <2>4 DEF RequestInv
<1>5. QED
  BY <1>1, <1>2, <1>3, <1>4 DEF IInv

\* The signal, and the end of a drain without connections.
LEMMA DrainKeeps ==
    ASSUME IInv, ShutdownSignal \/ DrainCompletes
    PROVE  IInv'
<1>1. /\ UNCHANGED <<keys, conn, sidecar, database, writes>>
      /\ \/ process = "serving" /\ process' = "draining" /\ drain' = 0
         \/ process = "draining" /\ process' = "stopped" /\ drain' = drain
  BY DEF ShutdownSignal, DrainCompletes
<1>2. GlobalType' /\ KeysInv'
  BY <1>1, TimeoutAssumption DEF IInv, GlobalType, KeysInv, Alive
<1>3. ASSUME NEW u \in Requests PROVE RequestInv(conn[u])'
  <2>1. RequestInv(conn[u]) /\ conn'[u] = conn[u] /\ conn[u].age >= 0
    BY <1>1 DEF IInv, RequestInv, Connections
  <2>2. process' = "stopped" => conn[u].phase \notin {"reading", "handling", "sending", "streaming"}
    BY <1>1 DEF ShutdownSignal, DrainCompletes, Active
  <2>3. HandlingInv(conn[u])'
    BY <1>1, <2>1 DEF RequestInv, HandlingInv, DeadlineOf
  <2>4. ProcessInv(conn[u])'
    BY <1>1, <2>1, <2>2 DEF RequestInv, ProcessInv
  <2>5. AnsweredInv(conn[u])' /\ AccessInv(conn[u])' /\ CutInv(conn[u])' /\ ReadyInv(conn[u])'
    BY <1>1, <2>1 DEF RequestInv, AnsweredInv, AccessInv, Known, OwnProfile, CutInv, ReadyInv
  <2>6. QED
    BY <2>1, <2>3, <2>4, <2>5 DEF RequestInv
<1>4. QED
  BY <1>1, <1>2, <1>3 DEF IInv

\* The forced exit: whoever is still without an answer has had the whole
\* shutdown timeout, which is longer than a probe may last.
LEMMA ForceExitKeeps ==
    ASSUME IInv, ForceExit
    PROVE  IInv'
<1>1. /\ process = "draining" /\ process' = "forced" /\ drain = SHUTDOWN_TIMEOUT
      /\ UNCHANGED <<keys, drain, sidecar, database, writes>>
  BY DEF ForceExit
<1>2. GlobalType' /\ KeysInv'
  BY <1>1 DEF IInv, GlobalType, KeysInv, Alive
<1>3. ASSUME NEW u \in Requests PROVE RequestInv(conn[u])'
  <2> DEFINE d == conn[u]
  <2>1. RequestInv(d) /\ d \in Connections
    BY DEF IInv, RequestInv
  <2>2. conn'[u] = IF Active(u) THEN [d EXCEPT !.phase = "cut"] ELSE d
    BY DEF ForceExit
  <2>3. CASE Active(u)
    <3>1. PICK c : c = conn'[u] /\ c = [d EXCEPT !.phase = "cut"]
      BY <2>2, <2>3
    <3>2. /\ c \in Connections /\ c.phase = "cut" /\ c.input = d.input /\ c.profile = d.profile
          /\ c.age = d.age /\ c.status = d.status /\ c.seen = d.seen /\ c.late = d.late
      BY <2>1, <3>1 DEF Connections, Phases
    <3>3. d.status = 0 /\ d.input # Nothing => d.phase = "handling"
      BY <2>1, <2>3 DEF RequestInv, AnsweredInv, ProcessInv, Active
    <3>4. d.status = 0 /\ d.input # Nothing /\ ~d.late => d.age >= SHUTDOWN_TIMEOUT /\ d.age <= DeadlineOf(d)
      BY <1>1, <2>1, <3>3 DEF RequestInv, HandlingInv
    <3>5. d.age \in Nat
      BY <2>1 DEF Connections
    <3>6. CutInv(c)
      BY <3>2, <3>4, <3>5, TimeoutAssumption DEF CutInv, DeadlineOf
    <3>7. AccessInv(c) /\ ReadyInv(c)
      BY <2>1, <3>2 DEF RequestInv, AccessInv, ReadyInv
    <3>8. QED
      BY <1>1, <3>1, <3>2, <3>6, <3>7 DEF RequestInv, HandlingInv, AnsweredInv, ProcessInv,
         AccessInv, Known, OwnProfile, ReadyInv, CutInv
  <2>4. CASE ~Active(u)
    <3>1. conn'[u] = d /\ d.phase \notin {"reading", "handling", "sending", "streaming"}
      BY <2>2, <2>4 DEF Active
    <3>2. QED
      BY <1>1, <2>1, <3>1 DEF RequestInv, HandlingInv, AnsweredInv, ProcessInv, AccessInv, Known,
         OwnProfile, ReadyInv, CutInv
  <2>5. QED
    BY <2>3, <2>4
<1>4. conn' \in [Requests -> Connections]
  <2>1. \A u \in Requests : conn'[u] \in Connections
    BY <1>3 DEF RequestInv, Connections
  <2>2. QED
    BY <2>1 DEF ForceExit
<1>5. QED
  BY <1>2, <1>3, <1>4 DEF IInv

\* A tick makes handlers and drain older by the same amount.
LEMMA TickKeeps ==
    ASSUME IInv, Tick
    PROVE  IInv'
<1>1. /\ UNCHANGED <<process, keys, sidecar, database, writes>>
      /\ Alive
      /\ process = "draining" => drain < SHUTDOWN_TIMEOUT
      /\ drain' = IF process = "draining" THEN drain + 1 ELSE drain
  BY DEF Tick
<1>2. GlobalType' /\ KeysInv'
  BY <1>1, TimeoutAssumption DEF IInv, GlobalType, KeysInv, Alive
<1>3. ASSUME NEW u \in Requests PROVE RequestInv(conn[u])'
  <2> DEFINE d == conn[u]
  <2>1. RequestInv(d) /\ d \in Connections
    BY DEF IInv, RequestInv
  <2>2. conn'[u] = IF Handling(u) THEN [d EXCEPT !.age = d.age + 1] ELSE d
    BY DEF Tick
  <2>3. CASE Handling(u)
    <3>1. PICK c : c = conn'[u] /\ c = [d EXCEPT !.age = d.age + 1]
      BY <2>2, <2>3
    <3>2. d.phase = "handling" /\ d.age < DeadlineOf(d) /\ d.age \in Nat /\ drain \in Nat
      BY <2>1, <2>3, TimeoutAssumption DEF Tick, Handling, Deadline, DeadlineOf, Connections,
         IInv, GlobalType
    <3>3. d.age + 1 \in 0..INFERENCE_REQUEST_TIMEOUT
      BY <3>2, TimeoutAssumption DEF DeadlineOf, Timeout
    <3>4. /\ c \in Connections /\ c.phase = d.phase /\ c.input = d.input /\ c.profile = d.profile
          /\ c.age = d.age + 1 /\ c.status = d.status /\ c.seen = d.seen /\ c.late = d.late
      BY <2>1, <3>1, <3>3 DEF Connections
    <3>5. DeadlineOf(d) \in Nat /\ DeadlineOf(c) = DeadlineOf(d)
      BY <3>4, TimeoutAssumption DEF DeadlineOf, Timeout
    <3>6. HandlingInv(conn[u])'
      <4>1. /\ d.status = 0
            /\ process = "draining" /\ ~d.late => d.age >= drain
            /\ d.input.route = "readyz" => sidecar \in d.seen
        BY <2>1, <3>2 DEF RequestInv, HandlingInv
      <4>2. c.age <= DeadlineOf(c) /\ (process' = "draining" /\ ~c.late => c.age >= drain')
        BY <1>1, <3>2, <3>4, <3>5, <4>1
      <4>3. QED
        BY <1>1, <3>1, <3>4, <4>1, <4>2 DEF HandlingInv, DeadlineOf
    <3>7. AnsweredInv(conn[u])' /\ ProcessInv(conn[u])' /\ CutInv(conn[u])'
      BY <1>1, <3>1, <3>2, <3>4 DEF AnsweredInv, ProcessInv, CutInv, Alive
    <3>8. AccessInv(conn[u])' /\ ReadyInv(conn[u])'
      BY <1>1, <2>1, <3>1, <3>4 DEF RequestInv, AccessInv, Known, OwnProfile, ReadyInv
    <3>9. QED
      BY <3>1, <3>4, <3>6, <3>7, <3>8 DEF RequestInv, Connections
  <2>4. CASE ~Handling(u)
    <3>1. conn'[u] = d /\ d.phase # "handling"
      BY <2>2, <2>4 DEF Handling
    <3>2. QED
      BY <1>1, <2>1, <3>1 DEF RequestInv, HandlingInv, AnsweredInv, ProcessInv, AccessInv, Known,
         OwnProfile, ReadyInv, CutInv
  <2>5. QED
    BY <2>3, <2>4
<1>4. conn' \in [Requests -> Connections]
  <2>1. \A u \in Requests : conn'[u] \in Connections
    BY <1>3 DEF RequestInv, Connections
  <2>2. QED
    BY <2>1 DEF Tick
<1>5. QED
  BY <1>2, <1>3, <1>4 DEF IInv

\* A probe under way sees the sidecar change.
LEMMA SidecarKeeps ==
    ASSUME IInv, SidecarChanges
    PROVE  IInv'
<1>1. /\ UNCHANGED <<process, keys, drain, database, writes>>
      /\ Alive /\ sidecar' \in SidecarStates
  BY DEF SidecarChanges
<1>2. GlobalType' /\ KeysInv'
  BY <1>1 DEF IInv, GlobalType, KeysInv, Alive
<1>3. ASSUME NEW u \in Requests PROVE RequestInv(conn[u])'
  <2> DEFINE d == conn[u]
  <2>1. RequestInv(d) /\ d \in Connections
    BY DEF IInv, RequestInv
  <2>2. conn'[u] = IF d.seen # {} /\ Handling(u)
                   THEN [d EXCEPT !.seen = d.seen \cup {sidecar'}] ELSE d
    BY DEF SidecarChanges
  <2>3. CASE d.seen # {} /\ Handling(u)
    <3>1. PICK c : c = conn'[u] /\ c = [d EXCEPT !.seen = d.seen \cup {sidecar'}]
      BY <2>2, <2>3
    <3>2. d.seen \cup {sidecar'} \in SUBSET SidecarStates
      BY <1>1, <2>1 DEF Connections
    <3>3. /\ c \in Connections /\ c.phase = d.phase /\ c.input = d.input /\ c.profile = d.profile
          /\ c.age = d.age /\ c.status = d.status /\ c.seen = d.seen \cup {sidecar'} /\ c.late = d.late
      BY <2>1, <3>1, <3>2 DEF Connections
    <3>4. d.phase = "handling" /\ d.status = 0
      BY <2>1, <2>3 DEF Handling, RequestInv, HandlingInv
    <3>5. HandlingInv(conn[u])'
      BY <1>1, <2>1, <3>1, <3>3, <3>4 DEF RequestInv, HandlingInv, DeadlineOf
    <3>6. /\ AnsweredInv(conn[u])' /\ ProcessInv(conn[u])' /\ CutInv(conn[u])'
          /\ ReadyInv(conn[u])'
      BY <1>1, <3>1, <3>3, <3>4 DEF AnsweredInv, ProcessInv, CutInv, ReadyInv, Alive
    <3>7. AccessInv(conn[u])'
      BY <1>1, <2>1, <3>1, <3>3 DEF RequestInv, AccessInv, Known, OwnProfile
    <3>8. QED
      BY <3>1, <3>3, <3>5, <3>6, <3>7 DEF RequestInv, Connections
  <2>4. CASE ~(d.seen # {} /\ Handling(u))
    <3>1. conn'[u] = d
      BY <2>2, <2>4
    <3>2. HandlingInv(conn[u])'
      BY <1>1, <2>1, <2>4, <3>1 DEF RequestInv, HandlingInv, DeadlineOf, Handling
    <3>3. QED
      BY <1>1, <2>1, <3>1, <3>2 DEF RequestInv, AnsweredInv, ProcessInv, AccessInv, Known,
         OwnProfile, ReadyInv, CutInv
  <2>5. QED
    BY <2>3, <2>4
<1>4. conn' \in [Requests -> Connections]
  <2>1. \A u \in Requests : conn'[u] \in Connections
    BY <1>3 DEF RequestInv, Connections
  <2>2. QED
    BY <2>1 DEF SidecarChanges
<1>5. QED
  BY <1>2, <1>3, <1>4 DEF IInv

\* Nothing of a request depends on the database's status.
LEMMA UntouchedKeeps ==
    ASSUME IInv, DatabaseChanges \/ UNCHANGED vars
    PROVE  IInv'
<1>1. UNCHANGED <<process, keys, conn, drain, sidecar, writes>> /\ database' \in DatabaseStates
  BY DEF DatabaseChanges, vars, DatabaseStates, IInv, GlobalType
<1>2. GlobalType' /\ KeysInv'
  BY <1>1 DEF IInv, GlobalType, KeysInv, Alive
<1>3. ASSUME NEW u \in Requests PROVE RequestInv(conn[u])'
  <2>1. RequestInv(conn[u])
    BY DEF IInv
  <2>2. QED
    BY <1>1, <2>1 DEF RequestInv, HandlingInv, AnsweredInv, ProcessInv, AccessInv, Known,
       OwnProfile, CutInv, ReadyInv, DeadlineOf
<1>4. QED
  BY <1>1, <1>2, <1>3 DEF IInv

-----------------------------------------------------------------------------
(* The invariants.                                                         *)

LEMMA InitEstablishes == Init => IInv
<1> SUFFICES ASSUME Init PROVE IInv
  OBVIOUS
<1>1. GlobalType /\ KeysInv
  BY TimeoutAssumption DEF Init, GlobalType, KeysInv, Alive, DatabaseStates
<1>2. RequestInv(Idle)
  BY BareIsFine DEF Idle
<1>3. conn \in [Requests -> Connections] /\ \A r \in Requests : conn[r] = Idle
  BY <1>2 DEF Init, RequestInv
<1>4. QED
  BY <1>1, <1>2, <1>3 DEF IInv

LEMMA NextKeeps ==
    ASSUME IInv, [Next]_vars
    PROVE  IInv'
  BY RequestStepKeeps, LoadConfigKeeps, DrainKeeps, ForceExitKeeps, TickKeeps, SidecarKeeps,
     UntouchedKeeps DEF Next, RequestStep

LEMMA Invariance == Spec => []IInv
  BY InitEstablishes, NextKeeps, PTL DEF Spec

\* Every variable has its type and no timer is overrun.
THEOREM TypeCorrect == Spec => []TypeOK
<1>1. IInv => TypeOK
  BY DEF IInv, GlobalType, TypeOK, RequestInv, HandlingInv, Connections, Handling, Deadline,
     DeadlineOf
<1>2. QED
  BY <1>1, Invariance, PTL

\* Behind the protected routes no handler runs without a configured key, and
\* each key acts for its own profile, whatever the upstream answers.
THEOREM AccessCorrect == Spec => []AccessIsByKey
<1>1. IInv => AccessIsByKey
  BY DEF IInv, RequestInv, AccessInv, Known, OwnProfile, AccessIsByKey
<1>2. QED
  BY <1>1, Invariance, PTL

\* A graceful stop leaves nobody behind, a forced exit only late requests and
\* handlers that had the whole shutdown timeout.
THEOREM ShutdownCorrect == Spec => []NobodyIsCutShort
<1>1. IInv => NobodyIsCutShort
  BY DEF IInv, RequestInv, ProcessInv, CutInv, NobodyIsCutShort, Active
<1>2. QED
  BY <1>1, Invariance, PTL

\* A probe's answer is the sidecar's state at some time during the probe.
THEOREM ReadinessCorrect == Spec => []ReadinessFollowsSidecar
<1>1. IInv => ReadinessFollowsSidecar
  BY DEF IInv, RequestInv, ReadyInv, ReadinessFollowsSidecar
<1>2. QED
  BY <1>1, Invariance, PTL

=============================================================================
