----------------------------- MODULE MCSseFraming -----------------------------
(***************************************************************************)
(* Sources for TLC: every short byte sequence, and every stream of up to   *)
(* MaxEvents events out of a list of well and ill formed ones, with a tail.    *)
(***************************************************************************)
EXTENDS SseFraming

CONSTANTS
    MaxBytes,   \* length of the exhaustive byte sequences
    MaxEvents   \* events in a composed stream

MCUsages == {"cheap", "dear"}

Line(payload) == <<"data", payload>>

EventTexts ==
    {Line("content") \o LfLf, Line("cheap") \o CrLfCrLf, Line("dear") \o LfLf,
     Line("done") \o LfLf, Line("done") \o CrLfCrLf, <<"junk">> \o LfLf,
     Line("cheap") \o <<"lf">> \o Line("cheap") \o LfLf,
     Line("content") \o <<"cr", "lf", "lf">>}

Tails == {<<>>, Line("done"), Line("done") \o <<"cr", "lf">>, Line("cheap") \o <<"lf">>}

MCSources ==
    BoundedSeq({"lf", "cr", "data", "cheap", "done"}, MaxBytes)
    \cup {FlattenSeq(events) \o tail : events \in BoundedSeq(EventTexts, MaxEvents), tail \in Tails}

=============================================================================
