------------------------ MODULE CompletionProxyProofs ------------------------
(***************************************************************************)
(* Proofs about CompletionProxy for any providers, aliases, prices and     *)
(* route decisions, and for streams of any length.                         *)
(***************************************************************************)
EXTENDS CompletionProxy, TLAPS

-----------------------------------------------------------------------------
(* The inductive invariant: what the handler knows at each of its awaits.  *)

LastResult == attempts[Len(attempts)].result

\* The chain is followed and left only after a failure that may be retried.
ChainIsFollowed ==
    /\ Len(attempts) <= Len(chain)
    /\ \A i \in DOMAIN attempts :
           /\ attempts[i].provider = chain[i]
           /\ i < Len(attempts) => attempts[i].result \in {"transportError", "retryable"}

\* Nothing was told the client, recorded or measured.
Untouched ==
    reply = Nothing /\ out = <<>> /\ costed = Nothing /\ row = Nothing /\ measured = Nothing

ReceivedInv ==
    phase = "received" => chain = <<>> /\ attempts = <<>> /\ Untouched

SendingInv ==
    phase = "sending" => attempts # <<>> /\ LastResult = "pending" /\ Untouched

\* The handler holds a success of the provider asked last.
Attributed ==
    /\ attempts # <<>>
    /\ LastResult = "success"
    /\ response \in Responses
    /\ response.served = Current

ReadingInv == phase = "reading" => Attributed /\ Untouched

\* Event i is the last to tell a cost.
IsLastUsage(i) == i \in UsageShown /\ \A j \in UsageShown : j <= i

\* The transformer remembers the cost shown last and nothing else.
CostedIsShown ==
    IF UsageShown = {} THEN costed = Nothing
    ELSE costed \in Usages /\ \E i \in UsageShown : IsLastUsage(i) /\ out[i].cost = costed.cost

StreamingInv ==
    phase = "streaming" =>
        /\ Attributed
        /\ reply = Reply("success", "sanitized", Current, Nothing)
        /\ row = Nothing
        /\ measured = Nothing
        /\ \A i \in DOMAIN out : out[i].kind \in {"content", "usage"}
        /\ CostedIsShown

PhaseInv == ReceivedInv /\ SendingInv /\ ReadingInv /\ StreamingInv

Safety ==
    /\ FailoverIsSafe
    /\ OneProviderPerResponse
    /\ RowAgreesWithResponse
    /\ AliasesAreHidden

IInv == TypeOK /\ PhaseInv /\ Safety

-----------------------------------------------------------------------------
(* Attempts.                                                               *)

\* Noting the result of the last attempt changes nothing else.
LEMMA WithResultFacts ==
    ASSUME attempts \in Seq(Attempts), attempts # <<>>,
           NEW r \in StatusClasses \cup {"transportError"}
    PROVE  /\ WithResult(r) \in Seq(Attempts)
           /\ Len(WithResult(r)) = Len(attempts)
           /\ \A i \in 1..Len(attempts) :
                  /\ WithResult(r)[i].provider = attempts[i].provider
                  /\ i < Len(attempts) => WithResult(r)[i] = attempts[i]
           /\ WithResult(r)[Len(attempts)].result = r
<1> DEFINE n == Len(attempts)
<1>1. n \in 1..Len(attempts) /\ DOMAIN attempts = 1..n /\ attempts[n] \in Attempts
  OBVIOUS
<1>2. WithResult(r) = [attempts EXCEPT ![n] = [attempts[n] EXCEPT !.result = r]]
  BY DEF WithResult
<1>3. /\ [attempts[n] EXCEPT !.result = r] \in Attempts
      /\ [attempts[n] EXCEPT !.result = r].provider = attempts[n].provider
      /\ [attempts[n] EXCEPT !.result = r].result = r
  BY <1>1 DEF Attempts
<1>4. QED
  BY <1>1, <1>2, <1>3

\* The provider asked last is the one the chain has at that place.
LEMMA CurrentIsInChain ==
    ASSUME TypeOK, ChainIsFollowed, attempts # <<>>
    PROVE  /\ chain \in Chains
           /\ Current \in Providers
           /\ Current = chain[Len(attempts)]
           /\ Selected \in Providers
  BY ProxyAssumption DEF TypeOK, ChainIsFollowed, Current, Selected, Attempts

\* Moving on to the next fallback model keeps to the chain.
LEMMA SendToNextFacts ==
    ASSUME TypeOK, ChainIsFollowed, attempts # <<>>, chain' = chain, FallbackRemains,
           NEW r \in {"transportError", "retryable"}, SendToNext(r)
    PROVE  /\ attempts' \in Seq(Attempts)
           /\ attempts' # <<>>
           /\ LastResult' = "pending"
           /\ ChainIsFollowed'
<1> DEFINE n == Len(attempts)
           w == WithResult(r)
           new == [provider |-> chain[n + 1], result |-> "pending"]
<1>1. /\ w \in Seq(Attempts) /\ Len(w) = n
      /\ \A i \in 1..n : /\ w[i].provider = attempts[i].provider
                         /\ i < n => w[i] = attempts[i]
      /\ w[n].result = r
  BY WithResultFacts DEF TypeOK, StatusClasses
<1>2. new \in Attempts
  BY ProxyAssumption DEF TypeOK, FallbackRemains, Attempts
<1>3. attempts' = Append(w, new)
  BY DEF SendToNext
<1> HIDE DEF w, new
<1>4. /\ attempts' \in Seq(Attempts)
      /\ Len(attempts') = n + 1
      /\ attempts'[n + 1] = new
      /\ \A i \in 1..n : attempts'[i] = w[i]
  BY <1>1, <1>2, <1>3
<1>5. LastResult' = "pending" /\ attempts' # <<>>
  BY <1>4 DEF LastResult, new
<1>6. ChainIsFollowed'
  <2>1. Len(attempts') <= Len(chain')
    BY <1>4, ProxyAssumption DEF FallbackRemains, TypeOK
  <2>2. ASSUME NEW i \in 1..(n + 1)
        PROVE  /\ attempts'[i].provider = chain'[i]
               /\ i < n + 1 => attempts'[i].result \in {"transportError", "retryable"}
    <3>1. CASE i = n + 1
      BY <3>1, <1>4 DEF new, TypeOK
    <3>2. CASE i = n
      BY <3>2, <1>1, <1>4 DEF ChainIsFollowed, TypeOK
    <3>3. CASE i \in 1..n /\ i < n
      BY <3>3, <1>1, <1>4 DEF ChainIsFollowed, TypeOK
    <3>4. QED
      BY <3>1, <3>2, <3>3, <1>1 DEF TypeOK
  <2>3. QED
    BY <2>1, <2>2, <1>4 DEF ChainIsFollowed
<1>7. QED
  BY <1>4, <1>5, <1>6

\* Noting how the last attempt ended keeps to the chain and to the provider.
LEMMA EndAttemptFacts ==
    ASSUME TypeOK, ChainIsFollowed, attempts # <<>>, chain' = chain,
           NEW r \in StatusClasses \cup {"transportError"}, attempts' = WithResult(r)
    PROVE  /\ attempts' \in Seq(Attempts)
           /\ attempts' # <<>>
           /\ LastResult' = r
           /\ Current' = Current
           /\ ChainIsFollowed'
<1>1. /\ attempts' \in Seq(Attempts) /\ Len(attempts') = Len(attempts)
      /\ \A i \in 1..Len(attempts) :
             /\ attempts'[i].provider = attempts[i].provider
             /\ i < Len(attempts) => attempts'[i] = attempts[i]
      /\ attempts'[Len(attempts)].result = r
  BY WithResultFacts DEF TypeOK
<1>2. QED
  BY <1>1 DEF TypeOK, LastResult, Current, ChainIsFollowed

-----------------------------------------------------------------------------
(* What a client is told.                                                  *)

\* Until an event is sent, the cost told is the one of the answer's head.
LEMMA CostOfHead ==
    ASSUME UsageShown = {}
    PROVE  /\ reply = Nothing => CostShown = Nothing
           /\ reply # Nothing => CostShown = reply.cost
  BY DEF CostShown

LEMMA NoUsageYet == out = <<>> => UsageShown = {}
  BY DEF UsageShown

\* The cost told is the one of the last usage event.
LEMMA CostOfLastUsage ==
    ASSUME out \in Seq(Items), NEW i, IsLastUsage(i)
    PROVE  CostShown = out[i].cost
<1> DEFINE last == CHOOSE k \in UsageShown : \A j \in UsageShown : j <= k
<1>1. last \in UsageShown /\ \A j \in UsageShown : j <= last
  BY DEF IsLastUsage
<1>2. last = i
  BY <1>1 DEF IsLastUsage, UsageShown
<1>3. UsageShown # {}
  BY DEF IsLastUsage
<1>4. QED
  BY <1>2, <1>3 DEF CostShown

\* The same of the next state.
LEMMA CostOfLastUsageNext ==
    ASSUME out' \in Seq(Items), NEW i, i \in UsageShown', \A j \in UsageShown' : j <= i
    PROVE  CostShown' = out'[i].cost
<1> DEFINE last == CHOOSE k \in UsageShown' : \A j \in UsageShown' : j <= k
<1>1. last \in UsageShown' /\ \A j \in UsageShown' : j <= last
  OBVIOUS
<1>2. last = i
  BY <1>1 DEF UsageShown
<1>3. QED
  BY <1>2 DEF CostShown

\* While streaming, the cost told is the cost remembered.
LEMMA CostWhileStreaming ==
    ASSUME TypeOK, CostedIsShown, reply = Reply("success", "sanitized", Current, Nothing)
    PROVE  /\ costed = Nothing => UsageShown = {} /\ CostShown = Nothing
           /\ costed # Nothing => /\ UsageShown # {}
                                  /\ costed \in Usages
                                  /\ CostShown = costed.cost
<1>1. CASE UsageShown = {}
  <2>1. reply.cost = Nothing /\ costed = Nothing
    BY <1>1 DEF Reply, CostedIsShown
  <2>2. QED
    BY <1>1, <2>1, CostOfHead
<1>2. CASE UsageShown # {}
  <2>1. PICK i \in UsageShown : IsLastUsage(i) /\ out[i].cost = costed.cost
    BY <1>2 DEF CostedIsShown
  <2>2. CostShown = costed.cost
    BY <2>1, CostOfLastUsage DEF TypeOK
  <2>3. QED
    BY <1>2, <2>2, AbsenceAssumption DEF CostedIsShown
<1>3. QED
  BY <1>1, <1>2

\* One event more: a usage event is the new last one, any other leaves the
\* last one as it was.
LEMMA OneMoreEvent ==
    ASSUME out \in Seq(Items), NEW item \in Items, out' = Append(out, item)
    PROVE  /\ item.kind # "usage" => /\ UsageShown' = UsageShown
                                     /\ \A i \in UsageShown : out'[i] = out[i]
           /\ item.kind = "usage" => /\ UsageShown' = UsageShown \cup {Len(out')}
                                     /\ IsLastUsage(Len(out))'
                                     /\ out'[Len(out')] = item
<1>1. /\ Len(out') = Len(out) + 1
      /\ DOMAIN out' = 1..(Len(out) + 1)
      /\ DOMAIN out = 1..Len(out)
      /\ Len(out) \in Nat
      /\ \A i \in 1..Len(out) : out'[i] = out[i]
      /\ out'[Len(out) + 1] = item
  OBVIOUS
<1>2. CASE item.kind # "usage"
  BY <1>1, <1>2 DEF UsageShown
<1>3. CASE item.kind = "usage"
  <2>1. UsageShown' = UsageShown \cup {Len(out')}
    BY <1>1, <1>3 DEF UsageShown
  <2>2. \A j \in UsageShown : j <= Len(out')
    BY <1>1 DEF UsageShown
  <2>3. QED
    BY <1>1, <1>3, <2>1, <2>2 DEF IsLastUsage
<1>4. QED
  BY <1>2, <1>3

-----------------------------------------------------------------------------
(* One lemma per group of actions.                                         *)

\* An error of the router's own: nothing was streamed, recorded or measured.
LEMMA OwnErrorIsSafe ==
    ASSUME TypeOK', ChainIsFollowed', phase' = "over",
           NEW status \in {"badRequest", "refused", "badGateway", "timeout"},
           reply' = Reply(status, "local", Nothing, Nothing),
           attempts' # <<>> /\ LastResult' = "pending" => status = "timeout",
           out' = <<>>, row' = Nothing, measured' = Nothing
    PROVE  IInv'
<1>1. PhaseInv'
  BY DEF PhaseInv, ReceivedInv, SendingInv, ReadingInv, StreamingInv
<1>2. FailoverIsSafe'
  BY DEF FailoverIsSafe, ChainIsFollowed, LastResult
<1>3. OneProviderPerResponse'
  BY DEF OneProviderPerResponse, Reply
<1>4. RowAgreesWithResponse' /\ AliasesAreHidden'
  BY DEF RowAgreesWithResponse, AliasesAreHidden, Reply
<1>5. QED
  BY <1>1, <1>2, <1>3, <1>4 DEF IInv, Safety

\* What is answered is an answer.
LEMMA ReplyType ==
    ASSUME NEW status \in StatusClasses \cup {"badRequest", "refused", "badGateway", "timeout"},
           NEW body \in {"raw", "costed", "sanitized", "generic", "local"},
           NEW served \in Providers \cup {Nothing}, NEW cost \in Costs \cup {Nothing}
    PROVE  Reply(status, body, served, cost) \in Replies /\ Reply(status, body, served, cost) # Nothing
<1>1. Reply(status, body, served, cost) \in Replies
  BY DEF Reply, Replies
<1>2. QED
  BY <1>1, AbsenceAssumption

\* An attempt is under way: nothing was streamed, recorded or measured.
LEMMA WaitingIsSafe ==
    ASSUME TypeOK', ChainIsFollowed', attempts' # <<>>,
           \/ phase' = "sending" /\ LastResult' = "pending"
           \/ phase' = "reading" /\ Attributed',
           Untouched'
    PROVE  IInv'
<1>1. PhaseInv'
  BY DEF PhaseInv, ReceivedInv, SendingInv, ReadingInv, StreamingInv
<1>2. Safety'
  BY DEF Safety, FailoverIsSafe, ChainIsFollowed, OneProviderPerResponse,
         RowAgreesWithResponse, AliasesAreHidden, Untouched
<1>3. QED
  BY <1>1, <1>2 DEF IInv

LEMMA ForwardKeeps ==
    ASSUME IInv, Forward
    PROVE  IInv'
<1> USE DEF IInv
<1>1. ChainIsFollowed
  BY DEF Safety, FailoverIsSafe, ChainIsFollowed
<1>2. CASE RejectInvalidJson \/ RouteRefused
  <2>1. PICK status \in {"badRequest", "refused"} :
            reply' = Reply(status, "local", Nothing, Nothing) /\ phase' = "over"
    BY <1>2 DEF RejectInvalidJson, RouteRefused, Answer
  <2>2. /\ attempts = <<>> /\ Untouched
        /\ UNCHANGED <<stream, chain, attempts, response, costed, out, row, measured>>
    BY <1>2 DEF RejectInvalidJson, RouteRefused, PhaseInv, ReceivedInv
  <2>3. TypeOK'
    BY <2>1, <2>2, ReplyType DEF TypeOK, Phases
  <2>4. ChainIsFollowed'
    BY <1>1, <2>2 DEF ChainIsFollowed
  <2>5. QED
    BY <2>1, <2>2, <2>3, <2>4, OwnErrorIsSafe DEF Untouched
<1>3. ASSUME NEW decision \in Chains, Route(decision)
      PROVE  IInv'
  <2>1. decision \in Seq(Providers) /\ decision # <<>> /\ decision[1] \in Providers
    BY ProxyAssumption
  <2>2. /\ attempts' = <<[provider |-> decision[1], result |-> "pending"]>>
        /\ phase' = "sending" /\ chain' = decision
        /\ UNCHANGED <<stream, response, costed, reply, out, row, measured>>
        /\ Untouched
    BY <1>3 DEF Route, PhaseInv, ReceivedInv
  <2>3. /\ attempts' \in Seq(Attempts) /\ attempts' # <<>>
        /\ LastResult' = "pending" /\ ChainIsFollowed'
    BY <2>1, <2>2 DEF Attempts, LastResult, ChainIsFollowed
  <2>4. TypeOK'
    BY <2>2, <2>3 DEF TypeOK, Phases
  <2>5. QED
    BY <2>2, <2>3, <2>4, WaitingIsSafe DEF Untouched
<1>4. QED
  BY <1>2, <1>3 DEF Forward

\* send_selected_then_fallback: retries, and its giving up.
LEMMA AttemptsKeep ==
    ASSUME IInv, RetryAfterTransportError \/ RetryAfterStatus \/ EveryAttemptFailed
    PROVE  IInv'
<1>1. TypeOK /\ ChainIsFollowed /\ attempts # <<>> /\ Untouched /\ chain' = chain
  BY DEF IInv, Safety, FailoverIsSafe, ChainIsFollowed, PhaseInv, SendingInv,
         RetryAfterTransportError, RetryAfterStatus, EveryAttemptFailed
<1>2. CASE RetryAfterTransportError \/ RetryAfterStatus
  <2>1. PICK r \in {"transportError", "retryable"} : SendToNext(r)
    BY <1>2 DEF RetryAfterTransportError, RetryAfterStatus, RetryableStatus
  <2>2. /\ FallbackRemains
        /\ phase = "sending"
        /\ UNCHANGED <<phase, stream, chain, response, costed, reply, out, row, measured>>
    BY <1>2 DEF RetryAfterTransportError, RetryAfterStatus
  <2>3. /\ attempts' \in Seq(Attempts) /\ attempts' # <<>>
        /\ LastResult' = "pending" /\ ChainIsFollowed'
    BY <1>1, <2>1, <2>2, SendToNextFacts
  <2>4. TypeOK' /\ Untouched'
    BY <1>1, <2>2, <2>3 DEF TypeOK, Untouched
  <2>5. QED
    BY <2>2, <2>3, <2>4, WaitingIsSafe
<1>3. CASE EveryAttemptFailed
  <2>1. /\ attempts' = WithResult("transportError")
        /\ reply' = Reply("badGateway", "local", Nothing, Nothing)
        /\ phase' = "over"
        /\ UNCHANGED <<stream, chain, response, costed, out, row, measured>>
    BY <1>3 DEF EveryAttemptFailed, UpstreamUnavailable, Answer
  <2>2. attempts' \in Seq(Attempts) /\ LastResult' = "transportError" /\ ChainIsFollowed'
    BY <1>1, <2>1, EndAttemptFacts
  <2>3. TypeOK'
    BY <1>1, <2>1, <2>2, ReplyType DEF TypeOK, Phases
  <2>4. QED
    BY <1>1, <2>1, <2>2, <2>3, OwnErrorIsSafe DEF Untouched
<1>4. QED
  BY <1>2, <1>3

\* An answer from the provider asked last, or from none, without a stream:
\* its body is the upstream's own only if no alias is involved.
LEMMA AnswerIsSafe ==
    ASSUME TypeOK', ChainIsFollowed', attempts' # <<>>, LastResult' # "pending",
           phase' = "over",
           NEW status \in StatusClasses \cup {"badGateway"},
           NEW body \in {"raw", "costed", "sanitized", "generic"},
           NEW served, served \in {Current', Nothing},
           NEW cost \in Costs \cup {Nothing},
           reply' = Reply(status, body, served, cost),
           body \in {"raw", "costed"} => served \notin Aliased /\ Selected' \notin Aliased,
           out' = <<>>,
           row' \in {Nothing, [provider |-> Current', cost |-> cost]},
           measured' \in {Current', Nothing}
    PROVE  IInv'
<1>1. PhaseInv'
  BY DEF PhaseInv, ReceivedInv, SendingInv, ReadingInv, StreamingInv
<1>2. FailoverIsSafe'
  BY DEF FailoverIsSafe, ChainIsFollowed, LastResult
<1>3. OneProviderPerResponse'
  BY DEF OneProviderPerResponse, Reply
<1>4. RowAgreesWithResponse'
  <2>1. UsageShown' = {}
    BY DEF UsageShown
  <2>2. reply' # Nothing /\ reply'.cost = cost
    <3>1. attempts' \in Seq(Attempts) /\ Len(attempts') \in DOMAIN attempts'
      BY DEF TypeOK
    <3>2. attempts'[Len(attempts')] \in Attempts
      BY <3>1
    <3>3. attempts'[Len(attempts')].provider \in Providers
      BY <3>2 DEF Attempts
    <3>4. Current' \in Providers
      BY <3>3 DEF Current
    <3>5. QED
      BY <3>4, ReplyType DEF Reply
  <2>3. CostShown' = cost
    BY <2>1, <2>2 DEF CostShown
  <2>4. QED
    BY <2>3 DEF RowAgreesWithResponse
<1>5. AliasesAreHidden'
  BY DEF AliasesAreHidden, Reply
<1>6. QED
  BY <1>1, <1>2, <1>3, <1>4, <1>5 DEF IInv, Safety

\* What Accept leaves behind, whatever is answered then.
LEMMA AcceptFacts ==
    ASSUME IInv, NEW resp \in Responses, Accept(resp), UNCHANGED chain
    PROVE  /\ Untouched /\ attempts # <<>>
           /\ attempts' \in Seq(Attempts) /\ attempts' # <<>>
           /\ LastResult' = resp.status /\ LastResult' # "pending"
           /\ Current' = Current /\ Current \in Providers
           /\ Selected' = Selected
           /\ ChainIsFollowed'
           /\ response' = resp
           /\ resp.served \in {Current', Nothing}
<1>1. TypeOK /\ ChainIsFollowed /\ attempts # <<>> /\ Untouched
  BY DEF IInv, Safety, FailoverIsSafe, ChainIsFollowed, PhaseInv, SendingInv, Accept
<1>2. resp.status \in StatusClasses
  BY DEF Responses
<1>3. attempts' = WithResult(resp.status) /\ response' = resp /\ resp.served \in {Current, Nothing}
  BY DEF Accept
<1>4. /\ attempts' \in Seq(Attempts) /\ attempts' # <<>> /\ LastResult' = resp.status
      /\ Current' = Current /\ ChainIsFollowed'
  BY <1>1, <1>2, <1>3, EndAttemptFacts
<1>5. Current \in Providers
  BY <1>1, CurrentIsInChain
<1>6. QED
  BY <1>1, <1>2, <1>3, <1>4, <1>5 DEF Selected, StatusClasses

\* forward, once an attempt returned a response.
LEMMA RespondKeeps ==
    ASSUME IInv, NEW resp \in Responses, Respond(resp)
    PROVE  IInv'
<1>1. Accept(resp) /\ UNCHANGED <<stream, chain, costed, out, row, measured>>
  BY DEF Respond, RejectUnattributed, PassOnFailure, RejectUnpricedStream, StartStream, StartReading
<1>2. /\ Untouched /\ attempts # <<>>
      /\ attempts' \in Seq(Attempts) /\ attempts' # <<>>
      /\ LastResult' = resp.status /\ LastResult' # "pending"
      /\ Current' = Current /\ Current \in Providers
      /\ Selected' = Selected
      /\ ChainIsFollowed'
      /\ response' = resp
      /\ resp.served \in {Current', Nothing}
  BY <1>1, AcceptFacts
<1>3. ASSUME NEW r \in Replies \cup {Nothing}, reply' = r, phase' \in Phases
      PROVE  TypeOK'
  BY <1>1, <1>2, <1>3 DEF IInv, TypeOK
<1>4. ASSUME NEW status \in StatusClasses \cup {"badGateway"}, NEW body \in {"raw", "generic"},
             reply' = Reply(status, body, resp.served, Nothing), phase' = "over",
             body = "raw" => ~UsesPublicAlias(resp)
      PROVE  IInv'
  <2>1. TypeOK'
    BY <1>2, <1>3, <1>4, ReplyType DEF Phases
  <2>2. body = "raw" => resp.served \notin Aliased /\ Selected' \notin Aliased
    BY <1>2, <1>4 DEF UsesPublicAlias
  <2>3. QED
    BY <1>1, <1>2, <1>4, <2>1, <2>2, AnswerIsSafe DEF Untouched
<1>5. CASE RejectUnattributed(resp)
  BY <1>5, <1>4 DEF RejectUnattributed, AliasedUpstreamError, Answer
<1>6. CASE PassOnFailure(resp)
  <2>1. resp.status \in StatusClasses
    BY DEF Responses
  <2>2. QED
    BY <1>6, <1>4, <2>1 DEF PassOnFailure, AliasedUpstreamError, Answer
<1>7. CASE RejectUnpricedStream(resp)
  BY <1>7, <1>4 DEF RejectUnpricedStream, AliasedUpstreamError, Answer
<1>8. CASE StartStream(resp)
  <2>1. /\ resp.status = "success" /\ resp.served = Current' /\ phase' = "streaming"
        /\ reply' = Reply("success", "sanitized", Current', Nothing)
    BY <1>8, <1>2 DEF StartStream, AttributedSuccess
  <2>2. TypeOK' /\ reply' # Nothing
    BY <1>2, <1>3, <2>1, ReplyType DEF Phases, StatusClasses
  <2>3. PhaseInv'
    <3>1. CostedIsShown'
      BY <1>1, <1>2 DEF CostedIsShown, UsageShown, Untouched
    <3>2. StreamingInv'
      BY <1>1, <1>2, <2>1, <3>1 DEF StreamingInv, Attributed, Untouched
    <3>3. QED
      BY <2>1, <3>2 DEF PhaseInv, ReceivedInv, SendingInv, ReadingInv
  <2>4. Safety'
    BY <1>1, <1>2, <2>1 DEF Safety, FailoverIsSafe, ChainIsFollowed, LastResult,
       OneProviderPerResponse, RowAgreesWithResponse, AliasesAreHidden, Untouched, Reply
  <2>5. QED
    BY <2>2, <2>3, <2>4 DEF IInv
<1>9. CASE StartReading(resp)
  <2>1. resp.status = "success" /\ resp.served = Current' /\ phase' = "reading" /\ reply' = reply
    BY <1>9, <1>2 DEF StartReading, AttributedSuccess
  <2>2. TypeOK' /\ Untouched' /\ Attributed'
    BY <1>1, <1>2, <1>3, <2>1 DEF Untouched, Attributed, Phases
  <2>3. QED
    BY <1>2, <2>1, <2>2, WaitingIsSafe
<1>10. QED
  BY <1>5, <1>6, <1>7, <1>8, <1>9 DEF Respond

\* What the handler knows while it reads a body or transforms a stream.
LEMMA AttributedFacts ==
    ASSUME IInv, phase \in {"reading", "streaming"}
    PROVE  /\ TypeOK /\ ChainIsFollowed /\ attempts # <<>>
           /\ LastResult = "success"
           /\ response.served = Current /\ Current \in Providers
<1>1. /\ TypeOK /\ ChainIsFollowed /\ attempts # <<>>
      /\ LastResult = "success" /\ response.served = Current
  BY DEF IInv, Safety, FailoverIsSafe, ChainIsFollowed, PhaseInv, ReadingInv, StreamingInv, Attributed
<1>2. QED
  BY <1>1, CurrentIsInChain

\* Written or not, the row and the measurement are the answering provider's.
LEMMA RecordFacts ==
    ASSUME NEW p \in Providers, response.served = p,
           NEW hasId, NEW usage, usage.cost \in Costs, RecordAt(hasId, usage)
    PROVE  /\ row' \in {Nothing, [provider |-> p, cost |-> usage.cost]}
           /\ row' \in Rows \cup {Nothing}
           /\ measured' \in {p, Nothing}
           /\ hasId /\ usage.fits => row' = [provider |-> p, cost |-> usage.cost]
<1>1. row' \in {Nothing, [provider |-> p, cost |-> usage.cost]} /\ measured' \in {p, Nothing}
  BY DEF RecordAt, Insert, Measure
<1>2. [provider |-> p, cost |-> usage.cost] \in Rows
  BY DEF Rows
<1>3. QED
  BY <1>1, <1>2 DEF RecordAt, Insert

\* The non-streaming body.
LEMMA BodyKeeps ==
    ASSUME IInv, BodyFails \/ \E b \in Bodies : RejectBody(b) \/ CompleteBody(b)
    PROVE  IInv'
<1>1. phase = "reading" /\ UNCHANGED <<stream, chain, attempts, response, costed, out>>
  BY DEF BodyFails, RejectBody, CompleteBody
<1>2. /\ TypeOK /\ ChainIsFollowed /\ attempts # <<>>
      /\ LastResult = "success"
      /\ response.served = Current /\ Current \in Providers
  BY <1>1, AttributedFacts
<1>3. Untouched
  BY <1>1 DEF IInv, PhaseInv, ReadingInv
<1>4. /\ ChainIsFollowed' /\ attempts' # <<>> /\ LastResult' = "success"
      /\ Current' = Current /\ Selected' = Selected /\ out' = <<>>
  BY <1>1, <1>2, <1>3 DEF ChainIsFollowed, LastResult, Current, Selected, Untouched
<1>5. CASE BodyFails
  <2>1. /\ reply' = Reply("badGateway", "local", Nothing, Nothing) /\ phase' = "over"
        /\ UNCHANGED <<row, measured>>
    BY <1>5 DEF BodyFails, UpstreamUnavailable, Answer
  <2>2. TypeOK'
    BY <1>1, <1>2, <2>1, ReplyType DEF TypeOK, Phases
  <2>3. QED
    BY <1>3, <1>4, <2>1, <2>2, OwnErrorIsSafe DEF Untouched
<1>6. ASSUME NEW b \in Bodies, RejectBody(b)
      PROVE  IInv'
  <2>1. /\ reply' = Reply("badGateway", "generic", Current', Nothing) /\ phase' = "over"
        /\ UNCHANGED <<row, measured>>
    BY <1>2, <1>4, <1>6 DEF RejectBody, AliasedUpstreamError, Answer
  <2>2. TypeOK'
    BY <1>1, <1>2, <1>4, <2>1, ReplyType DEF TypeOK, Phases
  <2>3. QED
    BY <1>3, <1>4, <2>1, <2>2, AnswerIsSafe DEF Untouched
<1>7. ASSUME NEW b \in Bodies, CompleteBody(b)
      PROVE  IInv'
  <2> DEFINE body == IF UsesPublicAlias(response) THEN "sanitized" ELSE "costed"
  <2>1. /\ reply' = Reply("success", body, Current', b.cost) /\ phase' = "over"
        /\ RecordAt(b.hasId, [cost |-> b.cost, fits |-> b.fits])
    BY <1>2, <1>4, <1>7 DEF CompleteBody, Answer
  <2>2. b.cost \in Costs
    BY <1>7 DEF CompleteBody, BodyIsBillable, Bodies
  <2>3. /\ row' \in {Nothing, [provider |-> Current', cost |-> b.cost]}
        /\ row' \in Rows \cup {Nothing} /\ measured' \in {Current', Nothing}
    BY <1>2, <1>4, <2>1, <2>2, RecordFacts
  <2>4. body \in {"raw", "costed"} => Current' \notin Aliased /\ Selected' \notin Aliased
    BY <1>2, <1>4 DEF UsesPublicAlias
  <2>5. body \in {"raw", "costed", "sanitized", "generic", "local"}
    OBVIOUS
  <2> HIDE DEF body
  <2>6. Reply("success", body, Current', b.cost) \in Replies
    BY <1>2, <1>4, <2>2, <2>5, ReplyType DEF StatusClasses
  <2>7. TypeOK'
    BY <1>1, <1>2, <1>4, <2>1, <2>3, <2>6 DEF TypeOK, Phases
  <2>8. body \in {"raw", "costed", "sanitized", "generic"}
    BY DEF body
  <2>9. QED
    BY <1>4, <2>1, <2>2, <2>3, <2>4, <2>7, <2>8, AnswerIsSafe DEF StatusClasses
<1>8. QED
  BY <1>5, <1>6, <1>7

\* The client leaves, the time limit passes, the upstream connection breaks.
LEMMA AbandonKeeps ==
    ASSUME IInv, ClientLeaves \/ RequestTimesOut \/ StreamFails
    PROVE  IInv'
<1>1. /\ phase \in {"sending", "reading", "streaming"} /\ phase' = "over"
      /\ UNCHANGED <<stream, chain, attempts, response, costed, out, row, measured>>
  BY DEF ClientLeaves, RequestTimesOut, StreamFails, Answer
<1>2. TypeOK /\ ChainIsFollowed
  BY DEF IInv, Safety, FailoverIsSafe, ChainIsFollowed
<1>3. CASE ClientLeaves \/ StreamFails
  <2>1. reply' = reply
    BY <1>3 DEF ClientLeaves, StreamFails
  <2>2. TypeOK' /\ PhaseInv'
    BY <1>1, <1>2, <2>1 DEF TypeOK, Phases, PhaseInv, ReceivedInv, SendingInv, ReadingInv, StreamingInv
  <2>3. FailoverIsSafe' /\ AliasesAreHidden'
    BY <1>1, <2>1 DEF IInv, Safety, FailoverIsSafe, AliasesAreHidden, Selected
  <2>4. OneProviderPerResponse'
    BY <1>1, <2>1 DEF IInv, Safety, OneProviderPerResponse, Current
  <2>5. RowAgreesWithResponse'
    BY <1>1, <2>1 DEF IInv, Safety, RowAgreesWithResponse, CostShown, UsageShown, EndsClean
  <2>6. QED
    BY <2>2, <2>3, <2>4, <2>5 DEF IInv, Safety
<1>4. CASE RequestTimesOut
  <2>1. reply' = Reply("timeout", "local", Nothing, Nothing)
    BY <1>4 DEF RequestTimesOut, Answer
  <2>2. Untouched
    BY <1>4 DEF RequestTimesOut, IInv, PhaseInv, SendingInv, ReadingInv
  <2>3. TypeOK' /\ ChainIsFollowed'
    BY <1>1, <1>2, <2>1, ReplyType DEF TypeOK, Phases, ChainIsFollowed
  <2>4. QED
    BY <1>1, <2>1, <2>2, <2>3, OwnErrorIsSafe DEF Untouched
<1>5. QED
  BY <1>3, <1>4

-----------------------------------------------------------------------------
(* The stream.  Whatever the upstream sends, the transformer takes one of  *)
(* four steps.                                                             *)

PassContent ==
    out' = Append(out, Item("content")) /\ UNCHANGED <<phase, costed, row, measured>>

ShowCost(usage) ==
    /\ out' = Append(out, CostedItem(usage.cost))
    /\ costed' = usage
    /\ UNCHANGED <<phase, row, measured>>

EndCleanly ==
    /\ costed # Nothing
    /\ out' = Append(out, Item("done"))
    /\ RecordAt(TRUE, costed)
    /\ costed' = Nothing
    /\ phase' = "over"

StreamStep == (\E e \in Events : StreamEvent(e)) \/ (\E rest \in Rests : StreamEnds(rest))

LEMMA StreamStepCases ==
    ASSUME StreamStep
    PROVE  /\ phase = "streaming"
           /\ UNCHANGED <<stream, chain, attempts, response, reply>>
           /\ \/ PassContent
              \/ \E usage \in Usages : ShowCost(usage)
              \/ EndCleanly
              \/ CloseWithError
<1>1. ASSUME NEW e \in Events, StreamEvent(e)
      PROVE  \/ PassContent
             \/ \E usage \in Usages : ShowCost(usage)
             \/ EndCleanly
             \/ CloseWithError
  <2>1. Transform(e)
    BY <1>1 DEF StreamEvent
  <2>2. CASE e.kind = "content" \/ (e.kind = "usage" /\ Preliminary(e))
    BY <2>1, <2>2 DEF Transform, PassContent
  <2>3. CASE e.kind = "usage" /\ ~Preliminary(e) /\ e.cost # Unresolved
    <3>1. e \in [kind : {"usage"}, cost : Costs \cup {Unresolved}, fits : BOOLEAN,
                 choices : BOOLEAN, reported : BOOLEAN]
      BY <2>3 DEF Events
    <3>2. e.cost \in Costs
      BY <2>3, <3>1
    <3>3. e.fits \in BOOLEAN
      BY <3>1, Zenon
    <3>4. [cost |-> e.cost, fits |-> e.fits] \in Usages
      BY <3>2, <3>3 DEF Usages
    <3>5. ShowCost([cost |-> e.cost, fits |-> e.fits])
      BY <2>1, <2>3 DEF Transform, ShowCost
    <3>6. QED
      BY <3>4, <3>5
  <2>4. CASE e.kind = "done" /\ costed # Nothing
    BY <2>1, <2>4 DEF Transform, EndCleanly
  <2>5. CASE /\ ~(e.kind = "content" \/ (e.kind = "usage" /\ Preliminary(e)))
             /\ ~(e.kind = "usage" /\ ~Preliminary(e) /\ e.cost # Unresolved)
             /\ ~(e.kind = "done" /\ costed # Nothing)
    BY <2>1, <2>5 DEF Transform
  <2>6. QED
    BY <2>2, <2>3, <2>4, <2>5
<1>2. ASSUME NEW rest \in Rests, StreamEnds(rest)
      PROVE  EndCleanly \/ CloseWithError
  BY <1>2 DEF StreamEnds, Finish, EndCleanly
<1>3. QED
  BY <1>1, <1>2 DEF StreamStep, StreamEvent, StreamEnds

\* What holds of the stream in every step of the transformer.
LEMMA StreamFacts ==
    ASSUME IInv, StreamStep
    PROVE  /\ Current \in Providers /\ response.served = Current /\ Current' = Current
           /\ ChainIsFollowed' /\ attempts' # <<>> /\ LastResult' = "success"
           /\ reply = Reply("success", "sanitized", Current, Nothing) /\ reply # Nothing
           /\ row = Nothing /\ measured = Nothing /\ CostedIsShown
           /\ \A i \in DOMAIN out : out[i].kind \in {"content", "usage"}
           /\ \A i \in DOMAIN out : out[i].from = Current
           /\ FailoverIsSafe' /\ AliasesAreHidden'
<1>1. phase = "streaming" /\ UNCHANGED <<stream, chain, attempts, response, reply>>
  BY StreamStepCases
<1>2. /\ TypeOK /\ ChainIsFollowed /\ attempts # <<>>
      /\ LastResult = "success"
      /\ response.served = Current /\ Current \in Providers
  BY <1>1, AttributedFacts
<1>3. Current' = Current /\ ChainIsFollowed' /\ attempts' # <<>> /\ LastResult' = "success"
  BY <1>1, <1>2 DEF Current, ChainIsFollowed, LastResult
<1>4. /\ reply = Reply("success", "sanitized", Current, Nothing)
      /\ row = Nothing /\ measured = Nothing /\ CostedIsShown
      /\ \A i \in DOMAIN out : out[i].kind \in {"content", "usage"}
  BY <1>1 DEF IInv, PhaseInv, StreamingInv
<1>5. reply # Nothing
  BY <1>2, <1>4, ReplyType DEF StatusClasses
<1>6. \A i \in DOMAIN out : out[i].from = Current
  BY DEF IInv, Safety, OneProviderPerResponse
<1>7. FailoverIsSafe' /\ AliasesAreHidden'
  BY <1>1 DEF IInv, Safety, FailoverIsSafe, AliasesAreHidden, Selected
<1>8. QED
  BY <1>2, <1>3, <1>4, <1>5, <1>6, <1>7

\* One item more, from the provider that answers.
LEMMA OneMoreItem ==
    ASSUME TypeOK, NEW p \in Providers, response.served = p,
           \A i \in DOMAIN out : out[i].from = p,
           NEW item \in {Item("content"), Item("done"), Item("error")}
                        \cup {CostedItem(c) : c \in Costs},
           out' = Append(out, item)
    PROVE  /\ item \in Items
           /\ out' \in Seq(Items) /\ out' # <<>> /\ out'[Len(out')] = item
           /\ \A i \in DOMAIN out' : out'[i].from = p
           /\ \A i \in DOMAIN out' : out'[i] = item \/ (i \in DOMAIN out /\ out'[i] = out[i])
<1>1. item \in Items /\ item.from = p
  BY DEF Item, CostedItem, Items
<1>2. /\ out' \in Seq(Items) /\ Len(out') = Len(out) + 1 /\ out'[Len(out')] = item
      /\ DOMAIN out' = 1..Len(out') /\ DOMAIN out = 1..Len(out) /\ Len(out) \in Nat
      /\ \A i \in 1..Len(out) : out'[i] = out[i]
  BY <1>1 DEF TypeOK
<1>3. \A i \in DOMAIN out' : out'[i] = item \/ (i \in DOMAIN out /\ out'[i] = out[i])
  BY <1>2
<1>4. QED
  BY <1>1, <1>2, <1>3

\* After generic_upstream_error_event the last items are the error and [DONE].
LEMMA ErrorItems ==
    ASSUME TypeOK, NEW p \in Providers, response.served = p,
           \A i \in DOMAIN out : out[i].from = p, EmitError
    PROVE  /\ out' \in Seq(Items)
           /\ \A i \in DOMAIN out' : out'[i].from = p
           /\ \E i \in DOMAIN out' : out'[i].kind = "error"
           /\ UsageShown' = UsageShown
           /\ \A i \in UsageShown : out'[i] = out[i]
<1> DEFINE n == Len(out)
<1>1. /\ Item("error") \in Items /\ Item("error").from = p /\ Item("error").kind = "error"
      /\ Item("done") \in Items /\ Item("done").from = p /\ Item("done").kind = "done"
  BY DEF Item, Items
<1>2. /\ out \in Seq(Items) /\ n \in Nat /\ DOMAIN out = 1..n
      /\ out' = out \o <<Item("error"), Item("done")>>
  BY DEF TypeOK, EmitError
<1>3. /\ out' \in Seq(Items) /\ DOMAIN out' = 1..(n + 2)
      /\ \A i \in 1..n : out'[i] = out[i]
      /\ out'[n + 1] = Item("error") /\ out'[n + 2] = Item("done")
  BY <1>1, <1>2
<1>4. \A i \in 1..(n + 2) : i \in 1..n \/ i = n + 1 \/ i = n + 2
  BY <1>2
<1>5. \A i \in DOMAIN out' : out'[i].from = p
  BY <1>1, <1>2, <1>3, <1>4
<1>6. n + 1 \in DOMAIN out' /\ out'[n + 1].kind = "error"
  BY <1>1, <1>2, <1>3
<1>7. UsageShown' = UsageShown /\ \A i \in UsageShown : out'[i] = out[i]
  BY <1>1, <1>2, <1>3, <1>4 DEF UsageShown
<1>8. QED
  BY <1>3, <1>5, <1>6, <1>7

\* stream_with_response_transformer, on an event and at the end.
LEMMA StreamKeeps ==
    ASSUME IInv, StreamStep
    PROVE  IInv'
<1> DEFINE p == Current
<1>1. /\ phase = "streaming"
      /\ UNCHANGED <<stream, chain, attempts, response, reply>>
      /\ \/ PassContent
         \/ \E usage \in Usages : ShowCost(usage)
         \/ EndCleanly
         \/ CloseWithError
  BY StreamStepCases
<1>2. /\ p \in Providers /\ response.served = p /\ Current' = p
      /\ ChainIsFollowed' /\ attempts' # <<>> /\ LastResult' = "success"
      /\ reply = Reply("success", "sanitized", p, Nothing) /\ reply # Nothing
      /\ row = Nothing /\ measured = Nothing /\ CostedIsShown
      /\ \A i \in DOMAIN out : out[i].kind \in {"content", "usage"}
      /\ \A i \in DOMAIN out : out[i].from = p
      /\ FailoverIsSafe' /\ AliasesAreHidden'
  BY StreamFacts
<1>3. TypeOK
  BY DEF IInv
<1> HIDE DEF p
<1>4. ASSUME out' \in Seq(Items), \A i \in DOMAIN out' : out'[i].from = p,
             row' \in Rows \cup {Nothing}, row' # Nothing => row'.provider = p,
             measured' \in {p, Nothing},
             costed' \in Usages \cup {Nothing}, phase' \in Phases
      PROVE  TypeOK' /\ OneProviderPerResponse'
  <2>1. TypeOK'
    BY <1>1, <1>2, <1>3, <1>4 DEF TypeOK
  <2>2. reply'.served = p
    BY <1>1, <1>2 DEF Reply
  <2>3. QED
    BY <1>2, <1>4, <2>1, <2>2 DEF OneProviderPerResponse
<1>5. ASSUME phase' = "streaming", TypeOK', OneProviderPerResponse', CostedIsShown',
             row' = Nothing, measured' = Nothing,
             \A i \in DOMAIN out' : out'[i].kind \in {"content", "usage"}
      PROVE  IInv'
  <2>1. Attributed'
    BY <1>1, <1>2 DEF IInv, PhaseInv, StreamingInv, Attributed
  <2>2. PhaseInv'
    BY <1>1, <1>2, <1>5, <2>1 DEF PhaseInv, ReceivedInv, SendingInv, ReadingInv, StreamingInv
  <2>3. RowAgreesWithResponse'
    BY <1>5 DEF RowAgreesWithResponse
  <2>4. QED
    BY <1>2, <1>5, <2>2, <2>3 DEF IInv, Safety
<1>6. ASSUME phase' = "over", TypeOK', OneProviderPerResponse', RowAgreesWithResponse'
      PROVE  IInv'
  <2>1. PhaseInv'
    BY <1>6 DEF PhaseInv, ReceivedInv, SendingInv, ReadingInv, StreamingInv
  <2>2. QED
    BY <1>2, <1>6, <2>1 DEF IInv, Safety
<1>7. CASE PassContent
  <2>1. Item("content").kind = "content"
    BY DEF Item
  <2>2. /\ Item("content") \in Items /\ out' \in Seq(Items)
        /\ \A i \in DOMAIN out' : out'[i].from = p
        /\ \A i \in DOMAIN out' :
               out'[i] = Item("content") \/ (i \in DOMAIN out /\ out'[i] = out[i])
    BY <1>2, <1>3, <1>7, OneMoreItem DEF PassContent
  <2>3. TypeOK' /\ OneProviderPerResponse'
    BY <1>2, <1>3, <1>4, <1>7, <2>2 DEF PassContent, TypeOK
  <2>4. UsageShown' = UsageShown /\ \A i \in UsageShown : out'[i] = out[i]
    BY <1>3, <1>7, <2>1, <2>2, OneMoreEvent DEF PassContent, TypeOK
  <2>5. CostedIsShown'
    BY <1>2, <1>7, <2>4 DEF CostedIsShown, IsLastUsage, PassContent
  <2>6. QED
    BY <1>1, <1>2, <1>5, <1>7, <2>1, <2>2, <2>3, <2>5 DEF PassContent
<1>8. ASSUME NEW usage \in Usages, ShowCost(usage)
      PROVE  IInv'
  <2> DEFINE item == CostedItem(usage.cost)
  <2>1. usage.cost \in Costs /\ item.kind = "usage" /\ item.cost = usage.cost
    BY DEF Usages, CostedItem
  <2>2. item \in {CostedItem(c) : c \in Costs} /\ out' = Append(out, item)
    BY <1>8, <2>1 DEF ShowCost
  <2> HIDE DEF item
  <2>3. /\ item \in Items /\ out' \in Seq(Items)
        /\ \A i \in DOMAIN out' : out'[i].from = p
        /\ \A i \in DOMAIN out' :
               out'[i] = item \/ (i \in DOMAIN out /\ out'[i] = out[i])
    BY <1>2, <1>3, <2>2, OneMoreItem
  <2>4. TypeOK' /\ OneProviderPerResponse'
    BY <1>2, <1>3, <1>4, <1>8, <2>3 DEF ShowCost, TypeOK
  <2>5. /\ UsageShown' = UsageShown \cup {Len(out')}
        /\ IsLastUsage(Len(out))'
        /\ out'[Len(out')] = item
    BY <1>3, <2>1, <2>2, <2>3, OneMoreEvent DEF TypeOK
  <2>6. CostedIsShown'
    BY <1>8, <2>1, <2>5 DEF CostedIsShown, ShowCost
  <2>7. QED
    BY <1>1, <1>2, <1>5, <1>8, <2>1, <2>3, <2>4, <2>6 DEF ShowCost
<1>9. CASE EndCleanly
  <2>1. Item("done").kind = "done"
    BY DEF Item
  <2>2. /\ Item("done") \in Items /\ out' \in Seq(Items) /\ out' # <<>>
        /\ out'[Len(out')] = Item("done")
        /\ \A i \in DOMAIN out' : out'[i].from = p
        /\ \A i \in DOMAIN out' :
               out'[i] = Item("done") \/ (i \in DOMAIN out /\ out'[i] = out[i])
    BY <1>2, <1>3, <1>9, OneMoreItem DEF EndCleanly
  <2>3. costed \in Usages /\ costed.cost \in Costs
    BY <1>3, <1>9 DEF EndCleanly, TypeOK, Usages
  <2>4. /\ row' \in {Nothing, [provider |-> p, cost |-> costed.cost]}
        /\ row' \in Rows \cup {Nothing} /\ measured' \in {p, Nothing}
    BY <1>2, <1>9, <2>3, RecordFacts DEF EndCleanly
  <2>5. TypeOK' /\ OneProviderPerResponse'
    BY <1>4, <1>9, <2>2, <2>4 DEF EndCleanly, Phases
  <2>6. UsageShown' = UsageShown /\ \A i \in UsageShown : out'[i] = out[i]
    BY <1>3, <1>9, <2>1, <2>2, OneMoreEvent DEF EndCleanly, TypeOK
  <2>7. EndsClean'
    BY <1>2, <2>1, <2>2 DEF EndsClean
  <2>8. CostShown' = costed.cost
    <3>1. PICK i \in UsageShown : IsLastUsage(i) /\ out[i].cost = costed.cost
      BY <1>2, <1>9 DEF CostedIsShown, EndCleanly
    <3>2. /\ i \in UsageShown' /\ \A j \in UsageShown' : j <= i
          /\ out'[i].cost = costed.cost
      BY <2>2, <2>6, <3>1 DEF IsLastUsage
    <3>3. QED
      BY <2>2, <3>2, CostOfLastUsageNext
  <2>9. RowAgreesWithResponse'
    BY <2>4, <2>7, <2>8 DEF RowAgreesWithResponse
  <2>10. QED
    BY <1>6, <1>9, <2>5, <2>9 DEF EndCleanly
<1>10. CASE CloseWithError
  <2>1. /\ out' \in Seq(Items) /\ \A i \in DOMAIN out' : out'[i].from = p
    BY <1>2, <1>3, <1>10, ErrorItems DEF CloseWithError
  <2>2. row' = Nothing /\ measured' = Nothing /\ costed' = Nothing /\ phase' = "over"
    BY <1>2, <1>10 DEF CloseWithError
  <2>3. TypeOK' /\ OneProviderPerResponse'
    BY <1>4, <2>1, <2>2 DEF Phases
  <2>4. QED
    BY <1>6, <2>2, <2>3 DEF RowAgreesWithResponse
<1>11. QED
  BY <1>1, <1>7, <1>8, <1>9, <1>10

-----------------------------------------------------------------------------
(* The invariants.                                                         *)

LEMMA InitEstablishes == Init => IInv
<1> SUFFICES ASSUME Init PROVE IInv
  OBVIOUS
<1>1. TypeOK
  <2>1. stream \in BOOLEAN
    BY Zenon DEF Init
  <2>2. QED
    BY <2>1 DEF Init, TypeOK, Phases
<1>2. PhaseInv
  BY DEF Init, PhaseInv, ReceivedInv, SendingInv, ReadingInv, StreamingInv, Untouched
<1>3. Safety
  BY DEF Init, Safety, FailoverIsSafe, OneProviderPerResponse, RowAgreesWithResponse,
         AliasesAreHidden
<1>4. QED
  BY <1>1, <1>2, <1>3 DEF IInv

LEMMA StutterKeeps ==
    ASSUME IInv, UNCHANGED vars
    PROVE  IInv'
<1>1. TypeOK' /\ PhaseInv'
  BY DEF IInv, vars, TypeOK, PhaseInv, ReceivedInv, SendingInv, ReadingInv, StreamingInv,
         Untouched, Attributed, LastResult, Current, CostedIsShown, IsLastUsage, UsageShown
<1>2. Safety'
  BY DEF IInv, vars, Safety, FailoverIsSafe, OneProviderPerResponse, RowAgreesWithResponse,
         AliasesAreHidden, Current, Selected, CostShown, UsageShown, EndsClean
<1>3. QED
  BY <1>1, <1>2 DEF IInv

\* Every step keeps the inductive invariant.
LEMMA NextKeeps ==
    ASSUME IInv, [Next]_vars
    PROVE  IInv'
<1>1. CASE Forward
  BY <1>1, ForwardKeeps
<1>2. CASE RetryAfterTransportError \/ RetryAfterStatus \/ EveryAttemptFailed
  BY <1>2, AttemptsKeep
<1>3. ASSUME NEW resp \in Responses, Respond(resp) PROVE IInv'
  BY <1>3, RespondKeeps
<1>4. CASE BodyFails \/ \E b \in Bodies : RejectBody(b) \/ CompleteBody(b)
  BY <1>4, BodyKeeps
<1>5. CASE StreamStep
  BY <1>5, StreamKeeps
<1>6. CASE ClientLeaves \/ RequestTimesOut \/ StreamFails
  BY <1>6, AbandonKeeps
<1>7. CASE UNCHANGED vars
  BY <1>7, StutterKeeps
<1>8. CASE Finished
  BY <1>8, StutterKeeps DEF Finished
<1>9. QED
  BY <1>1, <1>2, <1>3, <1>4, <1>5, <1>6, <1>7, <1>8 DEF Next, StreamStep

LEMMA Invariance == Spec => []IInv
  BY InitEstablishes, NextKeeps, PTL DEF Spec

\* Type correctness of the handler's state.
THEOREM TypeCorrect == Spec => []TypeOK
<1>1. IInv => TypeOK
  BY DEF IInv
<1>2. QED
  BY <1>1, Invariance, PTL

\* send_selected_then_fallback follows every route decision in order, moves on
\* only after a failure that may be retried, and never once it has answered.
THEOREM FailoverCorrect == Spec => []FailoverIsSafe
<1>1. IInv => FailoverIsSafe
  BY DEF IInv, Safety
<1>2. QED
  BY <1>1, Invariance, PTL

\* Events, attribution, row and measurement name one provider: the last asked.
THEOREM AttributionCorrect == Spec => []OneProviderPerResponse
<1>1. IInv => OneProviderPerResponse
  BY DEF IInv, Safety
<1>2. QED
  BY <1>1, Invariance, PTL

\* A row states the cost the client was told last, of a response that ended
\* cleanly, for streams with any number of usage events.
THEOREM BillingCorrect == Spec => []RowAgreesWithResponse
<1>1. IInv => RowAgreesWithResponse
  BY DEF IInv, Safety
<1>2. QED
  BY <1>1, Invariance, PTL

\* No body written by an aliased provider, and none answered for one, reaches
\* the client as it is.
THEOREM AliasingCorrect == Spec => []AliasesAreHidden
<1>1. IInv => AliasesAreHidden
  BY DEF IInv, Safety
<1>2. QED
  BY <1>1, Invariance, PTL

-----------------------------------------------------------------------------
(* Steps.                                                                  *)

\* The step that ends a stream cleanly.
LEMMA CleanEndStep ==
    ASSUME IInv, [Next]_vars, ~EndsClean, EndsClean'
    PROVE  /\ UsageShown' # {}
           /\ costed.fits => (row' # Nothing /\ row'.cost = costed.cost)
<1>1. StreamStep
  <2>1. CASE UNCHANGED out
    BY <2>1 DEF EndsClean
  <2>2. CASE ~UNCHANGED out
    BY <2>2 DEF Next, vars, StreamStep, Forward, RejectInvalidJson, RouteRefused, Route,
       RetryAfterTransportError, RetryAfterStatus, EveryAttemptFailed, Respond,
       RejectUnattributed, PassOnFailure, RejectUnpricedStream, StartStream, StartReading,
       BodyFails, RejectBody, CompleteBody, StreamFails, ClientLeaves, RequestTimesOut, Finished
  <2>3. QED
    BY <2>1, <2>2
<1> DEFINE p == Current
<1>2. /\ p \in Providers /\ response.served = p
      /\ reply = Reply("success", "sanitized", p, Nothing) /\ CostedIsShown
      /\ \A i \in DOMAIN out : out[i].from = p
  BY <1>1, StreamFacts
<1>3. TypeOK
  BY DEF IInv
<1> HIDE DEF p
<1>4. CASE PassContent
  <2>1. out' # <<>> /\ out'[Len(out')] = Item("content")
    BY <1>2, <1>3, <1>4, OneMoreItem DEF PassContent
  <2>2. QED
    BY <2>1 DEF EndsClean, Item
<1>5. ASSUME NEW usage \in Usages, ShowCost(usage) PROVE FALSE
  <2>1. usage.cost \in Costs
    BY DEF Usages
  <2>2. out' # <<>> /\ out'[Len(out')] = CostedItem(usage.cost)
    BY <1>2, <1>3, <1>5, <2>1, OneMoreItem DEF ShowCost
  <2>3. QED
    BY <2>2 DEF EndsClean, CostedItem
<1>6. CASE EndCleanly
  <2>1. Item("done") \in Items /\ Item("done").kind = "done"
    BY <1>2 DEF Item, Items
  <2>2. UsageShown' = UsageShown
    BY <1>3, <1>6, <2>1, OneMoreEvent DEF EndCleanly, TypeOK
  <2>3. UsageShown # {} /\ costed \in Usages /\ costed.cost \in Costs
    BY <1>2, <1>6 DEF CostedIsShown, EndCleanly, Usages
  <2>4. /\ row' \in Rows \cup {Nothing}
        /\ costed.fits => row' = [provider |-> p, cost |-> costed.cost]
    BY <1>2, <1>6, <2>3, RecordFacts DEF EndCleanly
  <2>5. [provider |-> p, cost |-> costed.cost] \in Rows
    BY <1>2, <2>3 DEF Rows
  <2>6. QED
    BY <2>2, <2>3, <2>4, <2>5, AbsenceAssumption
<1>7. CASE CloseWithError
  BY <1>2, <1>3, <1>7, ErrorItems DEF CloseWithError, EndsClean
<1>8. QED
  BY <1>1, <1>4, <1>5, <1>6, <1>7, StreamStepCases

\* A stream that ended cleanly showed a cost, and its row was written in the
\* same step unless the ledger cannot hold it.
THEOREM CleanEndCorrect == Spec => CleanEndIsBilled
<1>1. IInv /\ [Next]_vars =>
        [(~EndsClean /\ EndsClean') =>
            /\ UsageShown' # {}
            /\ costed.fits => (row' # Nothing /\ row'.cost = costed.cost)]_vars
  BY CleanEndStep
<1>2. QED
  BY <1>1, Invariance, PTL DEF Spec, CleanEndIsBilled

-----------------------------------------------------------------------------
(* The proxy implements CompletionContract.  Begin is StartStream,         *)
(* Complete is CompleteBody, Tell is a usage event, Settle a clean end,    *)
(* Abandon every other end of a stream, Refuse every other answer; the     *)
(* rest is invisible.                                                      *)

\* Whom the client is answered from.
AnsweredFrom == IF reply = Nothing THEN Nothing ELSE reply.served

ContractStep == Contract!ContractNext \/ UNCHANGED <<Stage, AnsweredFrom, CostShown, row>>

\* A step that tells nothing new and ends nothing is invisible.
LEMMA InvisibleStep ==
    ASSUME Stage' = Stage, reply' = reply, out' = out, row' = row
    PROVE  ContractStep
  BY DEF ContractStep, AnsweredFrom, CostShown, UsageShown

\* An answer without a stream and without a cost is a refusal.
LEMMA RefusalStep ==
    ASSUME phase \in {"received", "sending", "reading"}, phase' = "over", Untouched,
           out' = out, row' = row,
           \/ reply' = reply
           \/ /\ reply' # Nothing
              /\ reply'.cost = Nothing
              /\ reply'.served \in Providers \cup {Nothing}
    PROVE  ContractStep
<1>1. Stage = "open" /\ Stage' = "closed"
  BY DEF Stage
<1>2. CostShown = Nothing /\ CostShown' = Nothing
  BY DEF CostShown, UsageShown, Untouched
<1>3. AnsweredFrom' \in Providers \cup {Nothing}
  BY DEF AnsweredFrom, Untouched
<1>4. Contract!Refuse
  BY <1>1, <1>2, <1>3 DEF Contract!Refuse, AnsweredFrom
<1>5. QED
  BY <1>4 DEF ContractStep, Contract!ContractNext

\* A non-streaming completion.
LEMMA CompleteStep ==
    ASSUME IInv, NEW b \in Bodies, CompleteBody(b)
    PROVE  ContractStep
<1>1. phase = "reading" /\ phase' = "over" /\ out' = out
  BY DEF CompleteBody, Answer
<1>2. response.served = Current /\ Current \in Providers
  BY <1>1, AttributedFacts
<1>3. out = <<>>
  BY <1>1 DEF IInv, PhaseInv, ReadingInv, Untouched
<1>4. b.cost \in Costs
  BY DEF CompleteBody, BodyIsBillable, Bodies
<1>5. PICK body \in {"sanitized", "costed"} : reply' = Reply("success", body, Current, b.cost)
  BY <1>2 DEF CompleteBody, Answer
<1>6. reply' # Nothing /\ reply'.served = Current /\ reply'.cost = b.cost
  BY <1>2, <1>4, <1>5, ReplyType DEF Reply, StatusClasses
<1>7. row' \in {Nothing, [provider |-> Current, cost |-> b.cost]}
  BY <1>2, <1>4, RecordFacts DEF CompleteBody
<1>8. CostShown' = b.cost
  BY <1>1, <1>3, <1>6 DEF CostShown, UsageShown
<1>9. Stage = "open" /\ Stage' = "closed" /\ AnsweredFrom' = Current
  BY <1>1, <1>6 DEF Stage, AnsweredFrom
<1>10. Contract!Complete(Current, b.cost)
  BY <1>7, <1>8, <1>9 DEF Contract!Complete, Contract!MayBill, AnsweredFrom
<1>11. QED
  BY <1>2, <1>4, <1>10 DEF ContractStep, Contract!ContractNext

\* The head of a stream.
LEMMA BeginStep ==
    ASSUME IInv, NEW resp \in Responses, StartStream(resp)
    PROVE  ContractStep
<1>1. /\ phase = "sending" /\ phase' = "streaming" /\ out' = out /\ row' = row
      /\ reply' = Reply("success", "sanitized", resp.served, Nothing)
  BY DEF StartStream, Accept
<1>2. resp.served \in Providers
  BY DEF StartStream, AttributedSuccess, Responses
<1>3. Untouched
  BY <1>1 DEF IInv, PhaseInv, SendingInv
<1>4. reply' # Nothing /\ reply'.served = resp.served /\ reply'.cost = Nothing
  BY <1>1, <1>2, ReplyType DEF Reply, StatusClasses
<1>5. Stage = "open" /\ Stage' = "answering" /\ AnsweredFrom' = resp.served
  BY <1>1, <1>4 DEF Stage, AnsweredFrom
<1>6. CostShown = Nothing /\ CostShown' = Nothing
  BY <1>1, <1>3, <1>4 DEF CostShown, UsageShown, Untouched
<1>7. Contract!Begin(resp.served)
  BY <1>1, <1>5, <1>6 DEF Contract!Begin, AnsweredFrom
<1>8. QED
  BY <1>2, <1>7 DEF ContractStep, Contract!ContractNext

\* The steps of a stream.
LEMMA StreamContractStep ==
    ASSUME IInv, StreamStep
    PROVE  ContractStep
<1> DEFINE p == Current
<1>1. /\ phase = "streaming"
      /\ UNCHANGED <<stream, chain, attempts, response, reply>>
      /\ \/ PassContent
         \/ \E usage \in Usages : ShowCost(usage)
         \/ EndCleanly
         \/ CloseWithError
  BY StreamStepCases
<1>2. /\ p \in Providers /\ response.served = p
      /\ reply = Reply("success", "sanitized", p, Nothing) /\ reply # Nothing
      /\ row = Nothing /\ CostedIsShown
      /\ \A i \in DOMAIN out : out[i].from = p
  BY StreamFacts
<1>3. TypeOK
  BY DEF IInv
<1>4. /\ Stage = "answering" /\ AnsweredFrom = p /\ AnsweredFrom' = p
      /\ reply.cost = Nothing
  BY <1>1, <1>2 DEF Stage, AnsweredFrom, Reply
<1>5. /\ costed = Nothing => UsageShown = {} /\ CostShown = Nothing
      /\ costed # Nothing => UsageShown # {} /\ costed \in Usages /\ CostShown = costed.cost
  BY <1>2, <1>3, CostWhileStreaming DEF p
<1> HIDE DEF p
<1>6. ASSUME UsageShown' = UsageShown, \A i \in UsageShown : out'[i] = out[i],
             out' \in Seq(Items)
      PROVE  CostShown' = CostShown
  <2>1. CASE UsageShown = {}
    BY <1>1, <1>6, <2>1 DEF CostShown
  <2>2. CASE UsageShown # {}
    <3>1. PICK i \in UsageShown : IsLastUsage(i)
      BY <1>2, <2>2 DEF CostedIsShown
    <3>2. CostShown = out[i].cost
      BY <1>3, <3>1, CostOfLastUsage DEF TypeOK
    <3>3. CostShown' = out'[i].cost
      BY <1>6, <3>1, CostOfLastUsageNext DEF IsLastUsage
    <3>4. QED
      BY <1>6, <3>2, <3>3
  <2>3. QED
    BY <2>1, <2>2
<1>7. CASE PassContent
  <2>1. Item("content") \in Items /\ Item("content").kind = "content"
    BY <1>2 DEF Item, Items
  <2>2. out' \in Seq(Items)
    BY <1>3, <1>7, <2>1 DEF PassContent, TypeOK
  <2>3. CostShown' = CostShown
    BY <1>3, <1>6, <1>7, <2>1, <2>2, OneMoreEvent DEF PassContent, TypeOK
  <2>4. Stage' = Stage /\ row' = row
    BY <1>7 DEF PassContent, Stage
  <2>5. QED
    BY <1>4, <2>3, <2>4 DEF ContractStep
<1>8. ASSUME NEW usage \in Usages, ShowCost(usage) PROVE ContractStep
  <2> DEFINE item == CostedItem(usage.cost)
  <2>1. /\ usage.cost \in Costs /\ item \in Items
        /\ item.kind = "usage" /\ item.cost = usage.cost
    BY <1>2 DEF Usages, CostedItem, Items
  <2>2. out' = Append(out, item)
    BY <1>8 DEF ShowCost
  <2> HIDE DEF item
  <2>3. out' \in Seq(Items) /\ IsLastUsage(Len(out))' /\ out'[Len(out')] = item
    BY <1>3, <2>1, <2>2, OneMoreEvent DEF TypeOK
  <2>4. Len(out') \in UsageShown' /\ \A j \in UsageShown' : j <= Len(out')
    BY <2>3 DEF IsLastUsage
  <2>5. CostShown' = usage.cost
    BY <2>1, <2>3, <2>4, CostOfLastUsageNext
  <2>6. Stage' = "answering" /\ row' = row
    BY <1>1, <1>8 DEF ShowCost, Stage
  <2>7. Contract!Tell(usage.cost)
    BY <1>4, <2>5, <2>6 DEF Contract!Tell, AnsweredFrom
  <2>8. QED
    BY <2>1, <2>7 DEF ContractStep, Contract!ContractNext
<1>9. CASE EndCleanly
  <2>1. Item("done") \in Items /\ Item("done").kind = "done"
    BY <1>2 DEF Item, Items
  <2>2. out' \in Seq(Items)
    BY <1>3, <1>9, <2>1 DEF EndCleanly, TypeOK
  <2>3. CostShown' = CostShown
    BY <1>3, <1>6, <1>9, <2>1, <2>2, OneMoreEvent DEF EndCleanly, TypeOK
  <2>4. costed \in Usages /\ costed.cost \in Costs /\ CostShown = costed.cost
    BY <1>5, <1>9 DEF EndCleanly, Usages
  <2>5. row' \in {Nothing, [provider |-> p, cost |-> costed.cost]}
    BY <1>2, <1>9, <2>4, RecordFacts DEF EndCleanly
  <2>6. Stage' = "closed" /\ CostShown # Nothing
    BY <1>9, <2>4, ProxyAssumption DEF EndCleanly, Stage
  <2>7. Contract!Settle
    BY <1>4, <2>3, <2>4, <2>5, <2>6 DEF Contract!Settle, Contract!MayBill, AnsweredFrom
  <2>8. QED
    BY <2>7 DEF ContractStep, Contract!ContractNext
<1>10. CASE CloseWithError
  <2>1. CostShown' = CostShown
    BY <1>2, <1>3, <1>6, <1>10, ErrorItems DEF CloseWithError
  <2>2. Stage' = "closed" /\ row' = row
    BY <1>10 DEF CloseWithError, Stage
  <2>3. Contract!Abandon
    BY <1>4, <2>1, <2>2 DEF Contract!Abandon, AnsweredFrom
  <2>4. QED
    BY <2>3 DEF ContractStep, Contract!ContractNext
<1>11. QED
  BY <1>1, <1>7, <1>8, <1>9, <1>10

\* The client leaves a stream, or its upstream connection breaks.
LEMMA AbandonStep ==
    ASSUME IInv, phase = "streaming", ClientLeaves \/ StreamFails
    PROVE  ContractStep
<1>1. phase' = "over" /\ reply' = reply /\ out' = out /\ row' = row
  BY DEF ClientLeaves, StreamFails
<1>2. Stage = "answering" /\ Stage' = "closed"
  BY <1>1 DEF Stage
<1>3. AnsweredFrom' = AnsweredFrom /\ CostShown' = CostShown
  BY <1>1 DEF AnsweredFrom, CostShown, UsageShown
<1>4. Contract!Abandon
  BY <1>1, <1>2, <1>3 DEF Contract!Abandon, AnsweredFrom
<1>5. QED
  BY <1>4 DEF ContractStep, Contract!ContractNext

\* Every answer that neither starts a stream nor completes a body.
LEMMA RefusalActions ==
    ASSUME IInv,
           \/ RejectInvalidJson \/ RouteRefused \/ EveryAttemptFailed \/ BodyFails
           \/ RequestTimesOut
           \/ ClientLeaves /\ phase # "streaming"
           \/ \E resp \in Responses :
                  RejectUnattributed(resp) \/ PassOnFailure(resp) \/ RejectUnpricedStream(resp)
           \/ \E b \in Bodies : RejectBody(b)
    PROVE  ContractStep
<1>1. /\ phase \in {"received", "sending", "reading"} /\ phase' = "over"
      /\ out' = out /\ row' = row
  BY DEF RejectInvalidJson, RouteRefused, EveryAttemptFailed, BodyFails, RequestTimesOut,
         ClientLeaves, RejectUnattributed, PassOnFailure, RejectUnpricedStream, RejectBody,
         Accept, UpstreamUnavailable, AliasedUpstreamError, Answer
<1>2. Untouched
  BY <1>1 DEF IInv, PhaseInv, ReceivedInv, SendingInv, ReadingInv
<1>3. ASSUME NEW status \in StatusClasses \cup {"badRequest", "refused", "badGateway", "timeout"},
             NEW body \in {"raw", "generic", "local"}, NEW served \in Providers \cup {Nothing},
             reply' = Reply(status, body, served, Nothing)
      PROVE  ContractStep
  <2>1. reply' # Nothing
    BY <1>3, ReplyType
  <2>2. reply'.cost = Nothing /\ reply'.served \in Providers \cup {Nothing}
    BY <1>3 DEF Reply
  <2>3. QED
    BY <1>1, <1>2, <2>1, <2>2, RefusalStep
<1>4. CASE ClientLeaves
  BY <1>1, <1>2, <1>4, RefusalStep DEF ClientLeaves
<1>5. CASE RejectInvalidJson \/ RouteRefused \/ EveryAttemptFailed \/ BodyFails \/ RequestTimesOut
  BY <1>3, <1>5 DEF RejectInvalidJson, RouteRefused, EveryAttemptFailed, BodyFails,
     RequestTimesOut, UpstreamUnavailable, Answer
<1>6. ASSUME NEW resp \in Responses,
             RejectUnattributed(resp) \/ PassOnFailure(resp) \/ RejectUnpricedStream(resp)
      PROVE  ContractStep
  <2>1. resp.status \in StatusClasses /\ resp.served \in Providers \cup {Nothing}
    BY DEF Responses
  <2>2. QED
    BY <1>3, <1>6, <2>1 DEF RejectUnattributed, PassOnFailure, RejectUnpricedStream,
       AliasedUpstreamError, Answer
<1>7. ASSUME NEW b \in Bodies, RejectBody(b) PROVE ContractStep
  <2>1. response.served \in Providers
    BY <1>7, AttributedFacts DEF RejectBody
  <2>2. QED
    BY <1>3, <1>7, <2>1 DEF RejectBody, AliasedUpstreamError, Answer
<1>8. QED
  BY <1>4, <1>5, <1>6, <1>7

\* Every step of the proxy is a step of the contract, or invisible to it.
LEMMA NextIsContractStep ==
    ASSUME IInv, [Next]_vars
    PROVE  ContractStep
<1>1. ASSUME NEW decision \in Chains, Route(decision) PROVE ContractStep
  BY <1>1, InvisibleStep DEF Route, Stage
<1>2. CASE RetryAfterTransportError \/ RetryAfterStatus
  BY <1>2, InvisibleStep DEF RetryAfterTransportError, RetryAfterStatus, Stage
<1>3. ASSUME NEW resp \in Responses, StartReading(resp) PROVE ContractStep
  BY <1>3, InvisibleStep DEF StartReading, Accept, Stage
<1>4. CASE UNCHANGED vars
  BY <1>4, InvisibleStep DEF vars, Stage
<1>5. QED
  BY <1>1, <1>2, <1>3, <1>4, RefusalActions, CompleteStep, BeginStep, StreamContractStep, AbandonStep
     DEF Next, Forward, Respond, StreamStep, StreamFails, Finished

\* The proxy implements CompletionContract.
THEOREM ContractRefinement == Spec => ImplementsContract
<1>1. Init => Contract!ContractInit
  BY DEF Init, Contract!ContractInit, Stage, CostShown, UsageShown
<1>2. IInv /\ [Next]_vars => [Contract!ContractNext]_(Contract!contractVars)
  BY NextIsContractStep DEF ContractStep, AnsweredFrom, Contract!contractVars
<1>3. QED
  BY <1>1, <1>2, Invariance, PTL DEF Spec, ImplementsContract, Contract!ContractSpec

=============================================================================
