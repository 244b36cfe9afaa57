------------------------------ MODULE SseFraming ------------------------------
(***************************************************************************)
(* The byte level of a completion stream: UsageCostTransformer frames      *)
(* server-sent events across arbitrary HTTP chunks (src/src/sse.rs), and   *)
(* stream_with_response_transformer (src/src/proxy.rs) drives it from the  *)
(* polls of the client's connection, up to the fate of the generation      *)
(* context.  CompletionProxy starts where this module ends: at the events. *)
(*                                                                         *)
(* A byte is a token: "lf" and "cr", the "data:" prefix, and one token per *)
(* payload.  "content" is a completion object without usage (or with the   *)
(* preliminary one), a member of Usages an object whose usage is costed,   *)
(* "done" is [DONE], "junk" is everything else: a comment, another field,  *)
(* broken JSON, an error object, a usage that cannot be costed.            *)
(***************************************************************************)
EXTENDS Integers, Sequences, FiniteSetsExt, SequencesExt

CONSTANTS
    Usages,     \* usage payloads, named by their cost
    Sources,    \* the byte sequences an upstream sends before it ends
    Nothing     \* no usage seen, no transformer left

Tokens == {"lf", "cr", "data", "content", "done", "junk"} \cup Usages

ASSUME SseAssumption ==
    /\ Sources \subseteq Seq(Tokens)
    /\ Usages \cap {"lf", "cr", "data", "content", "done", "junk", "error"} = {}
    /\ Nothing \notin Usages

VARIABLES
    phase,        \* where the unfold closure stands
    source,       \* bytes the upstream has still to send
    transformer,  \* the UsageCostTransformer, Nothing once it is taken
    out,          \* events the client has been sent
    generation,   \* the GenerationContext: held, or how it was used up
    consumed,     \* ghost: the bytes taken so far
    eof           \* ghost: finish() has been called

vars == <<phase, source, transformer, out, generation, consumed, eof>>

\* Suspended between two polls; awaiting input.next(); the body ended, broke
\* off, was dropped by the connection, or its closure panicked.
Phases == {"idle", "pulling", "ended", "failed", "dropped", "panicked"}

Transformers ==
    [pending : Seq(Tokens), costed : Usages \cup {Nothing}, closed : BOOLEAN]

\* An Option<UsageCostTransformer> that is None holds none.
ASSUME NothingAssumption == Nothing \notin Transformers

NewTransformer == [pending |-> <<>>, costed |-> Nothing, closed |-> FALSE]

Init ==
    /\ phase = "idle"
    /\ source \in Sources
    /\ transformer = NewTransformer
    /\ out = <<>>
    /\ generation = "held"
    /\ consumed = <<>>
    /\ eof = FALSE

-----------------------------------------------------------------------------
(* Framing: next_event_end, split_separator and single_data_line.          *)

LfLf == <<"lf", "lf">>

CrLfCrLf == <<"cr", "lf", "cr", "lf">>

\* find_subslice: where the needle occurs, by the position after it.
EndsOf(bytes, needle) ==
    {i \in Len(needle)..Len(bytes) : SubSeq(bytes, i - Len(needle) + 1, i) = needle}

\* Mutant: LF LF is looked for first, an earlier CR LF CR LF is overlooked.
PreferLf(bytes) ==
    CASE EndsOf(bytes, LfLf) # {}     -> Min(EndsOf(bytes, LfLf))
      [] EndsOf(bytes, LfLf) = {} /\ EndsOf(bytes, CrLfCrLf) # {}
                                      -> Min(EndsOf(bytes, CrLfCrLf))
      [] OTHER                        -> 0

\* The end of the first complete event, 0 when there is none.
NextEventEnd(bytes) ==
    LET ends == EndsOf(bytes, LfLf) \cup EndsOf(bytes, CrLfCrLf)
    IN  IF ends = {} THEN 0 ELSE Min(ends)

\* split_separator, the part before it.
EventBody(event) ==
    SubSeq(event, 1, Len(event) - (IF IsSuffix(CrLfCrLf, event) THEN 4 ELSE 2))

\* The data of a single data line as a payload, "junk" when it is no such line
\* or its data is no completion object.
SingleDataLine(body) ==
    IF /\ \A i \in DOMAIN body : body[i] \notin {"lf", "cr"}
       /\ Len(body) = 2
       /\ body[1] = "data"
       /\ body[2] # "data"
    THEN body[2] ELSE "junk"

-----------------------------------------------------------------------------
(* UsageCostTransformer.  A result holds the transformer left, the events  *)
(* put out, and the usage completed by a [DONE].                           *)

Result(t, items, completed) == [left |-> t, items |-> items, completed |-> completed]

\* Mutant: nothing is sent when a stream is closed.
SilentError == <<>>

\* generic_upstream_error_event
ErrorEvent == <<"error", "done">>

CloseWithGenericError(t) ==
    Result([t EXCEPT !.closed = TRUE, !.costed = Nothing], ErrorEvent, Nothing)

\* transform_public_event
TransformEvent(t, payload) ==
    CASE payload = "done" /\ t.costed # Nothing ->
           Result([t EXCEPT !.closed = TRUE, !.costed = Nothing], <<"done">>, t.costed)
      [] payload = "content"  -> Result(t, <<payload>>, Nothing)
      [] payload \in Usages   -> Result([t EXCEPT !.costed = payload], <<payload>>, Nothing)
      [] OTHER                -> CloseWithGenericError(t)

\* A turn of transform's loop: the first complete event leaves the buffer.  A
\* transformer that it closes discards the rest.
NextTurn(r) ==
    LET t == r.left
        end == NextEventEnd(t.pending)
        rest == [t EXCEPT !.pending = SubSeq(@, end + 1, Len(@))]
        turn == TransformEvent(rest, SingleDataLine(EventBody(SubSeq(t.pending, 1, end))))
    IN  IF t.closed \/ end = 0 THEN r
        ELSE Result([turn.left EXCEPT !.pending = IF turn.left.closed THEN <<>> ELSE @],
                    r.items \o turn.items, turn.completed)

\* The loop: there are no more events than bytes.
Turns(t) ==
    LET after[n \in 0..Len(t.pending)] ==
            IF n = 0 THEN Result(t, <<>>, Nothing) ELSE NextTurn(after[n - 1])
    IN  after

DrainEvents(t) == Turns(t)[Len(t.pending)]

TransformChunk(t, chunk) == DrainEvents([t EXCEPT !.pending = @ \o chunk])

\* The buffer without one line end.
FinalLine(bytes) ==
    LET Cut(n) == SubSeq(bytes, 1, Len(bytes) - n)
    IN  CASE IsSuffix(<<"cr", "lf">>, bytes) -> Cut(2)
          [] ~IsSuffix(<<"cr", "lf">>, bytes) /\ IsSuffix(<<"lf">>, bytes) -> Cut(1)
          [] OTHER -> bytes

\* Mutant: a last [DONE] counts only with its line end.
FinishTerminated(t) ==
    IF FinalLine(t.pending) # t.pending /\ SingleDataLine(FinalLine(t.pending)) = "done"
          /\ t.costed # Nothing
    THEN Result(Nothing, <<"done">>, t.costed)
    ELSE Result(Nothing, ErrorEvent, Nothing)

Finish(t) ==
    IF SingleDataLine(FinalLine(t.pending)) = "done" /\ t.costed # Nothing
    THEN Result(Nothing, <<"done">>, t.costed)
    ELSE Result(Nothing, ErrorEvent, Nothing)

-----------------------------------------------------------------------------
(* stream_with_response_transformer.                                       *)

\* The body is polled: nothing follows once the transformer is gone.
ClientPolls ==
    /\ phase = "idle"
    /\ phase' = IF transformer = Nothing THEN "ended" ELSE "pulling"
    /\ UNCHANGED <<source, transformer, out, generation, consumed, eof>>

\* transformer.take().expect(...) finds nothing.
Panic ==
    /\ phase' = "panicked"
    /\ UNCHANGED <<source, transformer, out, generation, consumed, eof>>

\* Mutant: a stream that closes without a usage is not reported.
FateWithoutWarning(r) ==
    IF generation = "held" /\ r.completed # Nothing THEN "recorded" ELSE generation

\* generation.take(): recorded with a completed usage, else warned of.
Fate(r) ==
    CASE generation = "held" /\ r.completed # Nothing -> "recorded"
      [] generation = "held" /\ r.completed = Nothing
            /\ (r.left = Nothing \/ r.left.closed)    -> "warned"
      [] OTHER                                        -> generation

\* The next n bytes.  Without output the closure goes on to the next chunk.
FeedChunk(n) ==
    /\ \E r \in {TransformChunk(transformer, SubSeq(source, 1, n))} :
           /\ transformer' = IF r.left.closed THEN Nothing ELSE r.left
           /\ out' = out \o r.items
           /\ generation' = Fate(r)
           /\ phase' = IF r.items = <<>> THEN "pulling" ELSE "idle"
    /\ consumed' = consumed \o SubSeq(source, 1, n)
    /\ source' = SubSeq(source, n + 1, Len(source))
    /\ UNCHANGED eof

ChunkArrives(n) ==
    /\ phase = "pulling"
    /\ n \in 1..Len(source)
    /\ IF transformer = Nothing THEN Panic ELSE FeedChunk(n)

SourceFails ==
    /\ phase = "pulling"
    /\ phase' = "failed"
    /\ transformer' = Nothing
    /\ generation' = IF generation = "held" THEN "warned" ELSE generation
    /\ UNCHANGED <<source, out, consumed, eof>>

FeedEnd ==
    /\ \E r \in {Finish(transformer)} :
           /\ out' = out \o r.items
           /\ generation' = Fate(r)
           /\ phase' = IF r.items = <<>> THEN "ended" ELSE "idle"
    /\ transformer' = Nothing
    /\ eof' = TRUE
    /\ UNCHANGED <<source, consumed>>

SourceEnds ==
    /\ phase = "pulling"
    /\ source = <<>>
    /\ IF transformer = Nothing THEN Panic ELSE FeedEnd

\* The connection is gone and with it the closure's state.
ClientDrops ==
    /\ phase \in {"idle", "pulling"}
    /\ phase' = "dropped"
    /\ UNCHANGED <<source, transformer, out, generation, consumed, eof>>

Over ==
    /\ phase \in {"ended", "failed", "dropped", "panicked"}
    /\ UNCHANGED vars

Next ==
    \/ ClientPolls
    \/ \E n \in 1..Len(source) : ChunkArrives(n)
    \/ SourceEnds
    \/ SourceFails
    \/ ClientDrops
    \/ Over

Spec == Init /\ [][Next]_vars

\* A client that keeps reading, and an upstream that does not stall: it is not
\* awaited for ever.  (WF of ChunkArrives and SourceEnds comes to the same, as
\* a source is finite and one of the two is always possible.)
FairSpec ==
    /\ Spec
    /\ WF_vars(ClientPolls)
    /\ []<>(phase # "pulling")

-----------------------------------------------------------------------------
(* The reference: the stream as an automaton over single bytes, with the   *)
(* accepted events spelled out.                                            *)

Meaning(event) ==
    IF /\ event \in {<<"data", event[2]>> \o sep : sep \in {LfLf, CrLfCrLf}}
       /\ event[2] \notin {"lf", "cr", "data"}
    THEN event[2] ELSE "junk"

ReferenceEvent(s, payload) ==
    CASE payload \in Usages   -> [s EXCEPT !.last = payload, !.out = Append(@, payload)]
      [] payload = "content"  -> [s EXCEPT !.out = Append(@, payload)]
      [] payload = "done" /\ s.last # Nothing
                              -> [s EXCEPT !.out = Append(@, "done"), !.over = TRUE, !.billed = s.last]
      [] OTHER                -> [s EXCEPT !.out = @ \o <<"error", "done">>, !.over = TRUE]

ReferenceStep(s, byte) ==
    LET event == Append(s.event, byte)
    IN  CASE s.over -> s
          [] ~s.over /\ (IsSuffix(LfLf, event) \/ IsSuffix(CrLfCrLf, event)) ->
                 ReferenceEvent([s EXCEPT !.event = <<>>], Meaning(event))
          [] OTHER -> [s EXCEPT !.event = event]

ReferenceEnd(s) ==
    CASE s.over -> s
      [] ~s.over /\ s.event \in {<<"data", "done">> \o end : end \in {<<>>, <<"lf">>, <<"cr", "lf">>}} ->
             ReferenceEvent(s, "done")
      [] OTHER -> ReferenceEvent(s, "junk")

ReferenceInit == [event |-> <<>>, last |-> Nothing, out |-> <<>>, over |-> FALSE, billed |-> Nothing]

\* The automaton before the first and after every byte.
ReferenceStates(bytes) ==
    LET after[i \in 0..Len(bytes)] ==
            IF i = 0 THEN ReferenceInit ELSE ReferenceStep(after[i - 1], bytes[i])
    IN  after

Reference(bytes) == ReferenceStates(bytes)[Len(bytes)]

Expected == IF eof THEN ReferenceEnd(Reference(consumed)) ELSE Reference(consumed)

-----------------------------------------------------------------------------
(* Properties.                                                             *)

\* Every variable has its type; only costed usages are kept for billing.
TypeOK ==
    /\ phase \in Phases
    /\ source \in Seq(Tokens)
    /\ transformer \in Transformers \cup {Nothing}
    /\ out \in Seq(Usages \cup {"content", "done", "error"})
    /\ generation \in {"held", "recorded", "warned"}
    /\ consumed \in Seq(Tokens)
    /\ eof \in BOOLEAN

\* Where the network cuts the bytes never shows: what the client was sent,
\* the usage kept for billing and whether the stream is closed are what one
\* byte at a time would give (UsageCostTransformer::transform and finish).
ChunkingIsInvisible ==
    LET expected == Expected
    IN  /\ out = expected.out
        /\ transformer # Nothing => /\ transformer.costed = expected.last
                                    /\ transformer.pending = expected.event
                                    /\ ~expected.over
        /\ generation = "recorded" <=> expected.billed # Nothing

\* Unless the client leaves, a body ends with its generation either recorded,
\* in which case its last event is the provider's own [DONE], or warned of; a
\* client that leaves takes a generation with it unrecorded and unreported only
\* if it had not been sent the end (stream_with_response_transformer).
EveryEndIsAccounted ==
    /\ generation = "held" => phase \notin {"ended", "failed"} /\ "done" \notin ToSet(out)
    /\ generation = "recorded" => Last(out) = "done" /\ "error" \notin ToSet(out)

\* A body whose source keeps sending is brought to its end, breaks off or is
\* dropped.  It never ends in a panic: a transformer that closes always puts
\* something out, so the closure hands that over before it pulls again and
\* takes no transformer that is gone (the expect calls of
\* stream_with_response_transformer).
EveryBodyEnds == <>(phase \in {"ended", "failed", "dropped"})

=============================================================================
