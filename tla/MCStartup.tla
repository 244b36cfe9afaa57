------------------------------- MODULE MCStartup -------------------------------
(***************************************************************************)
(* A direct provider, a fallback with a catalog and a disabled one; a      *)
(* catalog that adds, one that repeats and reprices reviewed slugs, and    *)
(* defective ones.                                                         *)
(***************************************************************************)
EXTENDS Startup

MCIdRank == [id \in {"direct", "fallback", "unused"} |->
                CASE id = "direct" -> 1 [] id = "fallback" -> 2 [] id = "unused" -> 3]

Offered(slug, input, output) ==
    [slug |-> slug, target |-> slug, named |-> TRUE, context |-> 8, input |-> input,
     output |-> output, cached |-> Nothing, endpoints |-> Endpoints, topP |-> Nothing]

Offering(id, enabled, priority, profiles, catalogUrl, models) ==
    [id |-> id, enabled |-> enabled, priority |-> priority, profiles |-> profiles,
     catalogUrl |-> catalogUrl, publicName |-> Nothing, publicTag |-> Nothing, models |-> models]

Glm == <<"z", "glm">>
Llama == <<"meta", "llama">>
New == <<"vendor", "new">>
Own == <<"fallback", "free">>
Odd == <<"odd">>

Direct == [Offering("direct", TRUE, 0, {"beta"}, FALSE,
                    <<[Offered(Glm, 2, 2) EXCEPT !.topP = [min |-> 1, max |-> 100]]>>)
           EXCEPT !.publicName = "name", !.publicTag = "tag"]

Fallback == Offering("fallback", TRUE, 255, {"production", "beta"}, TRUE,
                     <<Offered(Glm, 1, 4), Offered(Llama, 1, 1)>>)

Unused == Offering("unused", FALSE, 1, {"production"}, TRUE, <<Offered(Odd, 0, 0)>>)

MCReviewed == {<<Direct, Fallback, Unused>>}

Entry(id, prompt, completion) ==
    [id |-> id, named |-> TRUE, context |-> 4, prompt |-> prompt, completion |-> completion,
     cacheRead |-> Nothing]

\* Reprices a reviewed slug and adds one.
Growing == <<Entry(Glm, 0, 0), [Entry(New, 3, 3) EXCEPT !.cacheRead = Junk]>>

\* Names a model under the provider's own id.
OwnNamed == <<Entry(Own, 0, 0), Entry(Llama, 5, 5)>>

\* Nothing usable.
Unpriced == <<Entry(New, -1, -1), Entry(Odd, Junk, 1), [Entry(Own, 1, 1) EXCEPT !.context = 0]>>

Repeating == <<Entry(New, 1, 1), Entry(New, 2, 2)>>

Nameless == <<[Entry(<<>>, 1, 1) EXCEPT !.named = FALSE]>>

Overflowing == <<Entry(New, MaxPrice, MaxPrice)>>

SoundCatalogs == {Growing, OwnNamed, Unpriced}

MCCatalogs == SoundCatalogs \cup {Repeating, Nameless, Overflowing}

================================================================================
