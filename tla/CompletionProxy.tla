--------------------------- MODULE CompletionProxy ---------------------------
(***************************************************************************)
(* One completion request through the proxy (src/src/proxy.rs): the        *)
(* attempts along the route decision, the answer to the client, the        *)
(* event-by-event transformation of a stream (src/src/sse.rs), and the     *)
(* generation row and measurement a costed completion leaves behind.       *)
(*                                                                         *)
(* The code between two awaits is one action.  A stream is fed one         *)
(* complete event at a time: a chunk of several events behaves like the    *)
(* events one after the other, a chunk that completes none changes         *)
(* nothing, and what is left in the buffer matters only at the end.        *)
(***************************************************************************)
EXTENDS Integers, Sequences

CONSTANTS
    Providers,
    Chains,       \* route decisions: selected provider, then fallback_models
    Aliased,      \* providers with a public alias (public_provider_aliases)
    Priced,       \* providers the price table knows for the requested model
    Estimated,    \* providers under DeepInfraEstimatedCost
    Costs,        \* resolved costs of a usage object
    MaxEvents,    \* bound on the events a stream delivers
    Unresolved,   \* usage whose cost cannot be resolved
    Nothing       \* absent: no response, no usage, no reply, no row

ASSUME ProxyAssumption ==
    /\ Chains \subseteq Seq(Providers) \ {<<>>}
    /\ \A chain \in Chains : \A i, j \in DOMAIN chain : i # j => chain[i] # chain[j]
    /\ Aliased \subseteq Providers
    /\ Priced \subseteq Providers
    /\ Estimated \subseteq Providers
    /\ Unresolved \notin Costs
    /\ MaxEvents \in Nat
    /\ Nothing \notin Providers
    /\ Nothing \notin Costs

VARIABLES
    phase,      \* where the request stands
    stream,     \* the request's "stream" flag
    chain,      \* the RouteDecision
    attempts,   \* providers sent the request so far, with what came of each
    response,   \* the upstream response the handler holds
    costed,     \* UsageCostTransformer::costed_usage
    reply,      \* the head of the answer to the client
    out,        \* stream events the client has been sent
    row,        \* the GenerationWrite handed to Ledger::insert
    measured    \* provider whose measurement was updated

vars == <<phase, stream, chain, attempts, response, costed, reply, out, row, measured>>

\* Before routing; awaiting send_attempt; awaiting response.bytes(); feeding
\* the response transformer; answered or abandoned.
Phases == {"received", "sending", "reading", "streaming", "over"}

\* 2xx; 429 or 5xx; every other status.
StatusClasses == {"success", "retryable", "other"}

\* What the sidecar answers.  It marks every provider's response with the
\* served-provider header; an unmarked body is the sidecar's own.
Responses == [status : StatusClasses, served : Providers \cup {Nothing},
              eventStream : BOOLEAN]

\* CostedUsage: fits says that both token counts fit the ledger's BIGINT.
Usages == [cost : Costs, fits : BOOLEAN]

\* Upstream stream events.  "malformed" stands for whatever is not a single
\* data line holding a recognised completion object without an error.
\* reported: usage.cost or usage.estimated_cost is there.
Events ==
    [kind : {"content", "malformed", "done"}]
    \cup [kind : {"usage"}, cost : Costs \cup {Unresolved}, fits : BOOLEAN,
          choices : BOOLEAN, reported : BOOLEAN]

\* Non-streaming bodies.  recognized: a completion object with an id.
Bodies ==
    {b \in [recognized : BOOLEAN, hasId : BOOLEAN, fits : BOOLEAN,
            cost : Costs \cup {Unresolved}] : b.recognized => b.hasId}

\* What the client is sent in a stream, each item with the provider it is from.
Items ==
    [kind : {"content", "error", "done"}, from : Providers]
    \cup [kind : {"usage"}, from : Providers, cost : Costs]

\* status: passed on, or the proxy's own.  body: "raw" is the upstream's,
\* "costed" the upstream's with usage.cost injected, "sanitized" that with
\* every provider trace removed, "generic" and "local" are error texts of ours.
Reply(status, body, served, cost) ==
    [status |-> status, body |-> body, served |-> served, cost |-> cost]

Replies ==
    [status : StatusClasses \cup {"badRequest", "refused", "badGateway", "timeout"},
     body : {"raw", "costed", "sanitized", "generic", "local"},
     served : Providers \cup {Nothing},
     cost : Costs \cup {Nothing}]

Attempts ==
    [provider : Providers, result : StatusClasses \cup {"pending", "transportError"}]

Rows == [provider : Providers, cost : Costs]

\* Nothing is the None of an Option: no value that Some could hold.
ASSUME AbsenceAssumption ==
    Nothing \notin Responses \cup Usages \cup Replies \cup Rows

Init ==
    /\ phase = "received"
    /\ stream \in BOOLEAN
    /\ chain = <<>>
    /\ attempts = <<>>
    /\ response = Nothing
    /\ costed = Nothing
    /\ reply = Nothing
    /\ out = <<>>
    /\ row = Nothing
    /\ measured = Nothing

-----------------------------------------------------------------------------
(* Answers.                                                                *)

\* The handler returns r and nothing is left to do.
Answer(r) ==
    /\ reply' = r
    /\ phase' = "over"

UpstreamUnavailable == Answer(Reply("badGateway", "local", Nothing, Nothing))

AliasedUpstreamError(status, served) == Answer(Reply(status, "generic", served, Nothing))

Selected == chain[1]

\* Mutant: failover to an aliased provider is not noticed.
SelectedIsAliased(resp) == Selected \in Aliased

\* response_uses_public_alias
UsesPublicAlias(resp) ==
    Selected \in Aliased \/ resp.served \in Aliased

-----------------------------------------------------------------------------
(* forward, up to the first attempt.                                       *)

RejectInvalidJson ==
    /\ phase = "received"
    /\ Answer(Reply("badRequest", "local", Nothing, Nothing))
    /\ UNCHANGED <<stream, chain, attempts, response, costed, out, row, measured>>

\* route_for_endpoint returned an error (400, 404 or 503).
RouteRefused ==
    /\ phase = "received"
    /\ Answer(Reply("refused", "local", Nothing, Nothing))
    /\ UNCHANGED <<stream, chain, attempts, response, costed, out, row, measured>>

Route(decision) ==
    /\ phase = "received"
    /\ chain' = decision
    /\ attempts' = <<[provider |-> decision[1], result |-> "pending"]>>
    /\ phase' = "sending"
    /\ UNCHANGED <<stream, response, costed, reply, out, row, measured>>

-----------------------------------------------------------------------------
(* send_selected_then_fallback.                                            *)

Current == attempts[Len(attempts)].provider

FallbackRemains == Len(attempts) < Len(chain)

\* Mutant: every failure is retried.
RetryEveryFailure(status) == status # "success"

RetryableStatus(status) == status = "retryable"

WithResult(result) == [attempts EXCEPT ![Len(attempts)].result = result]

\* The response is dropped, the request goes to the next fallback model.
SendToNext(result) ==
    attempts' = Append(WithResult(result),
                       [provider |-> chain[Len(attempts) + 1], result |-> "pending"])

RetryAfterTransportError ==
    /\ phase = "sending"
    /\ FallbackRemains
    /\ SendToNext("transportError")
    /\ UNCHANGED <<phase, stream, chain, response, costed, reply, out, row, measured>>

RetryAfterStatus ==
    /\ phase = "sending"
    /\ FallbackRemains
    /\ \E status \in StatusClasses :
           /\ RetryableStatus(status)
           /\ SendToNext(status)
    /\ UNCHANGED <<phase, stream, chain, response, costed, reply, out, row, measured>>

EveryAttemptFailed ==
    /\ phase = "sending"
    /\ ~FallbackRemains
    /\ attempts' = WithResult("transportError")
    /\ UpstreamUnavailable
    /\ UNCHANGED <<stream, chain, response, costed, out, row, measured>>

-----------------------------------------------------------------------------
(* forward, once send_selected_then_fallback returned a response.          *)

\* resp is the response to the current attempt and is not retried.
Accept(resp) ==
    /\ phase = "sending"
    /\ resp.served \in {Current, Nothing}
    /\ ~(RetryableStatus(resp.status) /\ FallbackRemains)
    /\ attempts' = WithResult(resp.status)
    /\ response' = resp

RejectUnattributed(resp) ==
    /\ Accept(resp)
    /\ resp.status = "success"
    /\ resp.served = Nothing
    /\ AliasedUpstreamError("badGateway", Nothing)
    /\ UNCHANGED <<stream, chain, costed, out, row, measured>>

\* A failure's body reaches the client unless an alias is involved.
PassOnFailure(resp) ==
    /\ Accept(resp)
    /\ resp.status # "success"
    /\ IF UsesPublicAlias(resp)
       THEN AliasedUpstreamError(resp.status, resp.served)
       ELSE Answer(Reply(resp.status, "raw", resp.served, Nothing))
    /\ UNCHANGED <<stream, chain, costed, out, row, measured>>

AttributedSuccess(resp) == resp.status = "success" /\ resp.served # Nothing

\* prices_for_request
RejectUnpricedStream(resp) ==
    /\ Accept(resp)
    /\ AttributedSuccess(resp)
    /\ stream /\ resp.eventStream
    /\ resp.served \notin Priced
    /\ AliasedUpstreamError("badGateway", resp.served)
    /\ UNCHANGED <<stream, chain, costed, out, row, measured>>

\* The head goes out now; the body follows event by event.
StartStream(resp) ==
    /\ Accept(resp)
    /\ AttributedSuccess(resp)
    /\ stream /\ resp.eventStream
    /\ resp.served \in Priced
    /\ reply' = Reply("success", "sanitized", resp.served, Nothing)
    /\ phase' = "streaming"
    /\ UNCHANGED <<stream, chain, costed, out, row, measured>>

StartReading(resp) ==
    /\ Accept(resp)
    /\ AttributedSuccess(resp)
    /\ ~(stream /\ resp.eventStream)
    /\ phase' = "reading"
    /\ UNCHANGED <<stream, chain, costed, reply, out, row, measured>>

-----------------------------------------------------------------------------
(* GenerationContext::record_at for a completion served by response.served. *)

\* Mutant: the row names the provider that was selected.
InsertForSelected(hasId, usage) ==
    row' = IF hasId /\ usage.fits
           THEN [provider |-> Selected, cost |-> usage.cost] ELSE Nothing

\* Without an id, or with a token count beyond i64, no row is written.
Insert(hasId, usage) ==
    row' = IF hasId /\ usage.fits
           THEN [provider |-> response.served, cost |-> usage.cost] ELSE Nothing

\* An output that lasted no measurable time is not observed.
Measure == measured' \in {response.served, Nothing}

RecordAt(hasId, usage) == Insert(hasId, usage) /\ Measure

-----------------------------------------------------------------------------
(* The non-streaming body.                                                 *)

BodyFails ==
    /\ phase = "reading"
    /\ UpstreamUnavailable
    /\ UNCHANGED <<stream, chain, attempts, response, costed, out, row, measured>>

\* sanitize_aliased_json_response and inject_usage_cost both have to succeed,
\* whatever the content type says.  The cost of a body that is no JSON is
\* Unresolved.
BodyIsBillable(b) ==
    /\ UsesPublicAlias(response) => b.recognized
    /\ response.served \in Priced
    /\ b.cost # Unresolved

RejectBody(b) ==
    /\ phase = "reading"
    /\ ~BodyIsBillable(b)
    /\ AliasedUpstreamError("badGateway", response.served)
    /\ UNCHANGED <<stream, chain, attempts, response, costed, out, row, measured>>

CompleteBody(b) ==
    /\ phase = "reading"
    /\ BodyIsBillable(b)
    /\ RecordAt(b.hasId, [cost |-> b.cost, fits |-> b.fits])
    /\ Answer(Reply("success",
                    IF UsesPublicAlias(response) THEN "sanitized" ELSE "costed",
                    response.served, b.cost))
    /\ UNCHANGED <<stream, chain, attempts, response, costed, out>>

-----------------------------------------------------------------------------
(* stream_with_response_transformer and UsageCostTransformer.              *)

Item(kind) == [kind |-> kind, from |-> response.served]

CostedItem(cost) == [kind |-> "usage", from |-> response.served, cost |-> cost]

\* is_deepinfra_preliminary_usage: token counts attached to the final choice
\* with the estimate still to come; the usage is blanked, the choice stays.
Preliminary(e) ==
    response.served \in Estimated /\ e.choices /\ ~e.reported

\* generic_upstream_error_event
EmitError == out' = out \o <<Item("error"), Item("done")>>

\* Mutant: the usage seen before is recorded although the stream failed.
CloseAndRecord ==
    /\ EmitError
    /\ IF costed = Nothing THEN UNCHANGED <<row, measured>> ELSE RecordAt(TRUE, costed)
    /\ costed' = Nothing
    /\ phase' = "over"

\* close_with_generic_error: a usage seen before is forgotten.
CloseWithError ==
    /\ EmitError
    /\ costed' = Nothing
    /\ phase' = "over"
    /\ UNCHANGED <<row, measured>>

\* Mutant: a costed usage is recorded at once, not at the [DONE].
TransformRecordsEarly(e) ==
    CASE e.kind = "content" \/ (e.kind = "usage" /\ Preliminary(e)) ->
           /\ out' = Append(out, Item("content"))
           /\ UNCHANGED <<phase, costed, row, measured>>
      [] e.kind = "usage" /\ ~Preliminary(e) /\ e.cost # Unresolved ->
           /\ out' = Append(out, CostedItem(e.cost))
           /\ costed' = [cost |-> e.cost, fits |-> e.fits]
           /\ RecordAt(TRUE, costed')
           /\ UNCHANGED phase
      [] e.kind = "done" /\ costed # Nothing ->
           /\ out' = Append(out, Item("done"))
           /\ costed' = Nothing
           /\ phase' = "over"
           /\ UNCHANGED <<row, measured>>
      [] OTHER -> CloseWithError

\* transform_public_event
Transform(e) ==
    CASE e.kind = "content" \/ (e.kind = "usage" /\ Preliminary(e)) ->
           /\ out' = Append(out, Item("content"))
           /\ UNCHANGED <<phase, costed, row, measured>>
      [] e.kind = "usage" /\ ~Preliminary(e) /\ e.cost # Unresolved ->
           /\ out' = Append(out, CostedItem(e.cost))
           /\ costed' = [cost |-> e.cost, fits |-> e.fits]
           /\ UNCHANGED <<phase, row, measured>>
      [] e.kind = "done" /\ costed # Nothing ->
           /\ out' = Append(out, Item("done"))
           /\ RecordAt(TRUE, costed)
           /\ costed' = Nothing
           /\ phase' = "over"
      [] OTHER -> CloseWithError

StreamEvent(e) ==
    /\ phase = "streaming"
    /\ Len(out) < MaxEvents
    /\ Transform(e)
    /\ UNCHANGED <<stream, chain, attempts, response, reply>>

\* The upstream connection breaks: the client's body is cut off as well.
StreamFails ==
    /\ phase = "streaming"
    /\ phase' = "over"
    /\ UNCHANGED <<stream, chain, attempts, response, costed, reply, out, row, measured>>

\* Mutant: a [DONE] without its blank line is passed on but not recorded.
FinishWithoutRecord(rest) ==
    IF rest = "doneLine" /\ costed # Nothing
    THEN /\ out' = Append(out, Item("done"))
         /\ costed' = Nothing
         /\ phase' = "over"
         /\ UNCHANGED <<row, measured>>
    ELSE CloseWithError

\* UsageCostTransformer::finish: the source ended with rest in the buffer.
Finish(rest) ==
    IF rest = "doneLine" /\ costed # Nothing
    THEN /\ out' = Append(out, Item("done"))
         /\ RecordAt(TRUE, costed)
         /\ costed' = Nothing
         /\ phase' = "over"
    ELSE CloseWithError

Rests == {"empty", "doneLine", "partial"}

StreamEnds(rest) ==
    /\ phase = "streaming"
    /\ Finish(rest)
    /\ UNCHANGED <<stream, chain, attempts, response, reply>>

-----------------------------------------------------------------------------
(* The server around the handler.                                          *)

\* Hyper drops the handler's future, or the body it returned.
ClientLeaves ==
    /\ phase \in {"sending", "reading", "streaming"}
    /\ phase' = "over"
    /\ UNCHANGED <<stream, chain, attempts, response, costed, reply, out, row, measured>>

\* Mutant: the time limit ends with the response head.
HeadTimesOut ==
    /\ phase = "sending"
    /\ Answer(Reply("timeout", "local", Nothing, Nothing))
    /\ UNCHANGED <<stream, chain, attempts, response, costed, out, row, measured>>

\* TimeoutLayer drops a handler that has not returned; a streaming body is
\* past it.
RequestTimesOut ==
    /\ phase \in {"sending", "reading"}
    /\ Answer(Reply("timeout", "local", Nothing, Nothing))
    /\ UNCHANGED <<stream, chain, attempts, response, costed, out, row, measured>>

\* The request is done; the process serves others.
Finished == phase = "over" /\ UNCHANGED vars

Forward ==
    \/ RejectInvalidJson
    \/ RouteRefused
    \/ \E decision \in Chains : Route(decision)

Respond(resp) ==
    \/ RejectUnattributed(resp)
    \/ PassOnFailure(resp)
    \/ RejectUnpricedStream(resp)
    \/ StartStream(resp)
    \/ StartReading(resp)

Next ==
    \/ Forward
    \/ RetryAfterTransportError
    \/ RetryAfterStatus
    \/ EveryAttemptFailed
    \/ \E resp \in Responses : Respond(resp)
    \/ BodyFails
    \/ \E b \in Bodies : RejectBody(b) \/ CompleteBody(b)
    \/ \E e \in Events : StreamEvent(e)
    \/ \E rest \in Rests : StreamEnds(rest)
    \/ StreamFails
    \/ ClientLeaves
    \/ RequestTimesOut
    \/ Finished

Spec == Init /\ [][Next]_vars

\* The code before the first attempt does not wait, and the timer of the
\* TimeoutLayer fires.  Nothing bounds a stream.
FairSpec == Spec /\ WF_vars(Forward) /\ WF_vars(RequestTimesOut)

-----------------------------------------------------------------------------
(* Properties.                                                             *)

TypeOK ==
    /\ phase \in Phases
    /\ stream \in BOOLEAN
    /\ chain \in Chains \cup {<<>>}
    /\ attempts \in Seq(Attempts)
    /\ response \in Responses \cup {Nothing}
    /\ costed \in Usages \cup {Nothing}
    /\ reply \in Replies \cup {Nothing}
    /\ out \in Seq(Items)
    /\ row \in Rows \cup {Nothing}
    /\ measured \in Providers \cup {Nothing}

\* The events that told the client a cost, and the cost told last, in such an
\* event or in the body.
UsageShown == {i \in DOMAIN out : out[i].kind = "usage"}

CostShown ==
    CASE UsageShown # {} ->
           out[CHOOSE i \in UsageShown : \A j \in UsageShown : j <= i].cost
      [] UsageShown = {} /\ reply # Nothing -> reply.cost
      [] OTHER -> Nothing

EndsClean ==
    /\ out # <<>>
    /\ out[Len(out)].kind = "done"
    /\ \A i \in DOMAIN out : out[i].kind # "error"

\* The decision is followed in order, a provider is left for the next one only
\* after a transport error, 429 or 5xx, and never once anything was answered
\* to the client (send_selected_then_fallback; docs/02-routing.md "Failover").
FailoverIsSafe ==
    /\ Len(attempts) <= Len(chain)
    /\ \A i \in DOMAIN attempts :
           /\ attempts[i].provider = chain[i]
           /\ i < Len(attempts) => attempts[i].result \in {"transportError", "retryable"}
    /\ (attempts # <<>> /\ attempts[Len(attempts)].result = "pending")
           => reply \in {Nothing, Reply("timeout", "local", Nothing, Nothing)}

\* One provider's output per response: events, attribution, row and
\* measurement all name the provider of the last attempt (forward,
\* GenerationContext).
OneProviderPerResponse ==
    /\ \A i \in DOMAIN out : out[i].from = Current
    /\ (reply # Nothing /\ reply.served # Nothing) => reply.served = Current
    /\ row # Nothing => row.provider = Current
    /\ measured # Nothing => measured = Current

\* The row states the cost the client was told last, however many usage events
\* came before, and only of a response that ended cleanly (record_at,
\* transform_public_event).
RowAgreesWithResponse ==
    row # Nothing =>
        /\ row.cost = CostShown
        /\ out # <<>> => EndsClean

\* No completion without its cost: a stream that ended cleanly showed one, and
\* unless a token count exceeds the ledger's BIGINT, its row was written
\* (transform_public_event's [DONE] arm, record_at).
CleanEndIsBilled ==
    [][(~EndsClean /\ EndsClean') =>
           /\ UsageShown' # {}
           /\ costed.fits => (row' # Nothing /\ row'.cost = costed.cost)]_vars

\* No provider body reaches the client as it is when the provider that wrote
\* it, or the one selected, has a public alias (response_uses_public_alias).
AliasesAreHidden ==
    (reply # Nothing /\ reply.body \in {"raw", "costed"}) =>
        reply.served \notin Aliased /\ Selected \notin Aliased

\* The completion as CompletionContract sees it.
Stage ==
    CASE phase = "over"      -> "closed"
      [] phase = "streaming" -> "answering"
      [] OTHER               -> "open"

Contract ==
    INSTANCE CompletionContract
        WITH stage <- Stage,
             provider <- IF reply = Nothing THEN Nothing ELSE reply.served,
             told <- CostShown,
             bill <- row

\* The proxy implements the contract: a row is written by the step that ends
\* the answer and by no other, names the provider the client was told of and
\* the cost it was told last, and an answer begun from one provider is never
\* continued from another (forward, stream_with_response_transformer,
\* GenerationContext::record_at).
ImplementsContract == Contract!ContractSpec

\* Every request is answered or abandoned by its client, however the upstream
\* stalls and however long the chain is (TimeoutLayer around forward).
EveryRequestIsAnswered ==
    phase = "received" ~> (reply # Nothing \/ phase = "over")

=============================================================================
