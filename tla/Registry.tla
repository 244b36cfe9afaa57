------------------------------- MODULE Registry -------------------------------
(***************************************************************************)
(* The provider registry and everything the service and the sidecar        *)
(* renderer derive from it at start-up: validation (registry.rs), coverage *)
(* added from an upstream catalog (upstream_catalog.rs), the price table   *)
(* (pricing.rs), the route table (policy/routing.rs), the public catalog   *)
(* (catalog.rs) and the sidecar's routes (sidecar_config.rs).              *)
(*                                                                         *)
(* A slug is the sequence of its segments, <<"vendor", "model">>, because  *)
(* the code takes slugs and concrete route names apart at the slash.       *)
(***************************************************************************)
EXTENDS Integers, Sequences

CONSTANTS
    Profiles,   \* RoutingProfile::ALL
    IdRank,     \* provider ids, each with its place in their lexical order
    MaxPrice,   \* the largest Decimal
    Nothing,    \* absent
    Junk        \* a price that is no decimal number

ProviderIds == DOMAIN IdRank

ASSUME RegistryAssumption ==
    /\ \A id \in ProviderIds : IdRank[id] \in Nat
    /\ \A a, b \in ProviderIds : IdRank[a] = IdRank[b] => a = b
    /\ MaxPrice \in Nat
    /\ Nothing \notin Int /\ Junk \notin Int /\ Nothing \notin STRING

Endpoints == {"chat", "legacy"}

Elements(s) == {s[i] : i \in DOMAIN s}

Slug == Seq(STRING)

Amount == Int \cup {Nothing}

\* topP bounds are in hundredths.
ModelMapping ==
    [slug : Slug, target : Slug, named : BOOLEAN, context : Nat, input : Int, output : Int,
     cached : Amount, endpoints : SUBSET Endpoints,
     topP : [min : Int, max : Int] \cup {Nothing}]

Provider ==
    [id : ProviderIds, enabled : BOOLEAN, priority : Nat, profiles : SUBSET Profiles,
     catalogUrl : BOOLEAN, publicName : STRING \cup {Nothing},
     publicTag : STRING \cup {Nothing}, models : Seq(ModelMapping)]

\* A model of an upstream catalog.
CatalogModel ==
    [id : Slug, named : BOOLEAN, context : Nat \cup {Nothing}, prompt : Amount \cup {Junk},
     completion : Amount \cup {Junk}, cacheRead : Amount \cup {Junk}]

-----------------------------------------------------------------------------
(* Registry::validate, on a registry: a sequence of providers.             *)

Blank == "blank"

ValidAliases(p) ==
    /\ p.publicName = Nothing <=> p.publicTag = Nothing
    /\ p.publicName # Blank
    /\ p.publicTag # Blank

ValidMapping(m) ==
    /\ m.named
    /\ m.context # 0
    /\ m.endpoints # {}
    /\ m.topP # Nothing => 0 <= m.topP.min /\ m.topP.min <= m.topP.max /\ m.topP.max <= 100

Validate(registry) ==
    /\ \A i, j \in DOMAIN registry : registry[i].id = registry[j].id => i = j
    /\ \A p \in Elements(registry) :
           /\ ValidAliases(p)
           /\ p.profiles # {}
           /\ \A m \in Elements(p.models) : ValidMapping(m)

-----------------------------------------------------------------------------
(* upstream_catalog.rs, on a catalog: a sequence of models.                *)

\* Negative rates, text and overflow make a price unusable.
PricePerMtok(price) ==
    IF price \in Nat /\ price <= MaxPrice THEN price ELSE Nothing

Usable(model) ==
    /\ PricePerMtok(model.prompt) # Nothing
    /\ PricePerMtok(model.completion) # Nothing
    /\ model.context \notin {Nothing, 0}

\* The id stands in for a missing name; it may itself be empty.
MappingFromModel(model) ==
    [slug |-> model.id, target |-> model.id,
     named |-> model.named \/ model.id # <<>>,
     context |-> model.context,
     input |-> PricePerMtok(model.prompt),
     output |-> PricePerMtok(model.completion),
     cached |-> PricePerMtok(model.cacheRead),
     endpoints |-> Endpoints,
     topP |-> Nothing]

\* The usable models, each at its place in the catalog.
MappingsFromCatalog(catalog) ==
    LET usable == {i \in DOMAIN catalog : Usable(catalog[i])}
    IN  [i \in usable |-> MappingFromModel(catalog[i])]

Explicit(p) == {m.slug : m \in Elements(p.models)}

\* Mutant: what the upstream publishes replaces the reviewed mapping.
MergedPreferringUpstream(p, upstream) ==
    LET end == Len(p.models)
        kept == {k \in DOMAIN p.models : \A u \in Elements(upstream) : u.slug # p.models[k].slug}
    IN  [k \in kept \cup {end + i : i \in DOMAIN upstream} |->
            IF k <= end THEN p.models[k] ELSE upstream[k - end]]

\* Explicit mappings win; discovery only adds, behind them and in order.  The
\* places of what is not added stay empty.
Merged(p, upstream) ==
    LET end == Len(p.models)
        new == {i \in DOMAIN upstream : upstream[i].slug \notin Explicit(p)}
    IN  [k \in DOMAIN p.models \cup {end + i : i \in new} |->
            IF k <= end THEN p.models[k] ELSE upstream[k - end]]

\* The first provider of that id is extended.
HydrateProvider(registry, id, upstream) ==
    [i \in DOMAIN registry |->
        IF registry[i].id = id /\ \A j \in 1..(i - 1) : registry[j].id # id
        THEN [registry[i] EXCEPT !.models = Merged(registry[i], upstream)]
        ELSE registry[i]]

\* The places of the enabled providers that declare a catalog_url.
CatalogSources(registry) == {i \in DOMAIN registry : registry[i].enabled /\ registry[i].catalogUrl}

-----------------------------------------------------------------------------
(* What the service builds.                                                *)

\* Every mapping of an enabled provider, with its provider.
Offers(registry) ==
    UNION {{[provider |-> p, mapping |-> m] : m \in Elements(p.models)} :
           p \in {q \in Elements(registry) : q.enabled}}

NonNegative(m) ==
    m.input >= 0 /\ m.output >= 0 /\ (m.cached # Nothing => m.cached >= 0)

\* PriceTable::from_registry finds no duplicate and no negative price.
PriceTableBuilds(registry) ==
    \A p \in Elements(registry) :
        p.enabled => /\ \A i, j \in DOMAIN p.models : p.models[i].slug = p.models[j].slug => i = j
                     /\ \A m \in Elements(p.models) : NonNegative(m)

PriceOf(m) == [input |-> m.input, output |-> m.output, cached |-> m.cached]

\* PriceTable::get: the prices under that key, one at most once it builds.
PricesFor(registry, id, slug) ==
    {PriceOf(o.mapping) : o \in {o \in Offers(registry) : o.provider.id = id /\ o.mapping.slug = slug}}

\* A concrete route name loses its provider.
CanonicalSlug(model, id) ==
    IF Len(model) > 1 /\ model[1] = id THEN Tail(model) ELSE model

PricesForRequest(registry, model, id) == PricesFor(registry, id, CanonicalSlug(model, id))

\* Candidate::new accepts the mapping.
CandidateBuilds(m) == m.input >= 0 /\ m.output >= 0 /\ m.input + m.output <= MaxPrice

RoutesBuild(registry) == \A o \in Offers(registry) : CandidateBuilds(o.mapping)

\* RoutingPolicy::from_registry: one descriptor per profile.
RouteTable(registry) ==
    UNION {{[profile |-> profile, slug |-> o.mapping.slug, provider |-> o.provider.id,
             prices |-> PriceOf(o.mapping)] : profile \in o.provider.profiles} :
           o \in Offers(registry)}

-----------------------------------------------------------------------------
(* catalog.rs                                                              *)

Listed(registry, profile) == {o \in Offers(registry) : profile \in o.provider.profiles}

\* price_key, compared from left to right.
PriceKey(o) ==
    <<o.mapping.input + o.mapping.output, o.mapping.input, o.mapping.output, IdRank[o.provider.id]>>

Below(left, right) ==
    \E i \in DOMAIN left : left[i] < right[i] /\ \A j \in 1..(i - 1) : left[j] = right[j]

\* Mutant: candidates are compared by their input price.
CheapestByInput(offers) ==
    CHOOSE o \in offers : \A other \in offers : o.mapping.input <= other.mapping.input

Cheapest(offers) == CHOOSE o \in offers : \A other \in offers : ~Below(PriceKey(other), PriceKey(o))

\* The catalog row and the endpoints of every slug of a profile.
Snapshot(registry, profile) ==
    LET listed == Listed(registry, profile)
        Of(slug) == {o \in listed : o.mapping.slug = slug}
    IN  [slug \in {o.mapping.slug : o \in listed} |->
            [row |-> PriceOf(Cheapest(Of(slug)).mapping),
             endpoints |-> {[provider |-> o.provider.id, prices |-> PriceOf(o.mapping)] : o \in Of(slug)}]]

\* price_key adds without a check, but only to compare two candidates.
CatalogPanics(registry) ==
    \E profile \in Profiles :
        \E a, b \in Listed(registry, profile) :
            a # b /\ a.mapping.slug = b.mapping.slug /\ a.mapping.input + a.mapping.output > MaxPrice

-----------------------------------------------------------------------------
(* sidecar_config.rs                                                       *)

RouteName(id, slug) == <<id>> \o slug

\* ModelRoute::new: every route marks its responses with its provider.
ModelRoutes(registry) ==
    {[name |-> RouteName(o.provider.id, o.mapping.slug), target |-> o.mapping.target,
      served |-> o.provider.id] : o \in Offers(registry)}

\* The virtual model of every profile and slug, with its failover targets.
VirtualModels(registry) ==
    LET Targets(profile, slug) ==
            {[model |-> RouteName(o.provider.id, slug), priority |-> o.provider.priority] :
                o \in {o \in Offers(registry) : profile \in o.provider.profiles /\ o.mapping.slug = slug}}
    IN  {[profile |-> r.profile, slug |-> r.slug, targets |-> Targets(r.profile, r.slug)] :
            r \in RouteTable(registry)}

BuildConfig(registry) ==
    [models |-> ModelRoutes(registry), virtual |-> VirtualModels(registry)]

===============================================================================
