----------------------------- MODULE StartupProofs -----------------------------
(***************************************************************************)
(* The properties of Startup, for every reviewed registry the service      *)
(* starts with and every catalog the upstream may publish.                 *)
(***************************************************************************)
EXTENDS Startup, WellOrdering, TLAPS

-----------------------------------------------------------------------------
(* What hydration does to a registry.                                      *)

\* q is the provider o with mappings added behind its own, none of them for a
\* slug it had.
ProviderExtends(q, o) ==
    /\ q.id = o.id /\ q.enabled = o.enabled /\ q.profiles = o.profiles
    /\ \A k \in DOMAIN o.models : k \in DOMAIN q.models /\ q.models[k] = o.models[k]
    /\ \A k \in DOMAIN q.models :
           /\ q.models[k] \in ModelMapping
           /\ q.models[k].slug \in Explicit(o) => k \in DOMAIN o.models

RegistryExtends(r, s) ==
    /\ DOMAIN r = DOMAIN s
    /\ \A i \in DOMAIN s : ProviderExtends(r[i], s[i])

\* A provider as it was reviewed extends itself.
LEMMA ReviewedExtends ==
    ASSUME NEW r \in Seq(Provider)
    PROVE  RegistryExtends(r, r)
  <1> SUFFICES ASSUME NEW i \in DOMAIN r PROVE ProviderExtends(r[i], r[i])
    BY DEF RegistryExtends
  <1>1. r[i] \in Provider
    OBVIOUS
  <1>2. r[i].models \in Seq(ModelMapping)
    BY <1>1 DEF Provider
  <1>3. QED
    BY <1>2 DEF ProviderExtends

\* A usable model of a catalog becomes a mapping with prices of its own.
LEMMA CatalogMapping ==
    ASSUME NEW catalog \in Seq(CatalogModel), NEW i \in DOMAIN MappingsFromCatalog(catalog)
    PROVE  i \in Nat /\ i > 0 /\ MappingsFromCatalog(catalog)[i] \in ModelMapping
  <1> DEFINE model == catalog[i]
  <1>1. i \in DOMAIN catalog /\ Usable(model) /\ MappingsFromCatalog(catalog)[i] = MappingFromModel(model)
    BY DEF MappingsFromCatalog
  <1>2. i \in Nat /\ i > 0 /\ model \in CatalogModel
    BY <1>1
  <1> HIDE DEF model
  <1>3. \A price : PricePerMtok(price) # Nothing => PricePerMtok(price) \in Nat
    BY DEF PricePerMtok
  <1>4. MappingFromModel(model) \in ModelMapping
    <2>1. /\ PricePerMtok(model.prompt) \in Int
          /\ PricePerMtok(model.completion) \in Int
          /\ PricePerMtok(model.cacheRead) \in Amount
      BY <1>1, <1>3 DEF Usable, Amount
    <2>2. model.context \in Nat /\ model.id \in Slug
      BY <1>1, <1>2 DEF Usable, CatalogModel
    <2>3. (model.named \/ model.id # <<>>) \in BOOLEAN
      OBVIOUS
    <2>4. QED
      BY <2>1, <2>2, <2>3 DEF MappingFromModel, ModelMapping
  <1>5. QED
    BY <1>1, <1>2, <1>4

\* hydrate_provider: discovery only adds, and never a slug that was reviewed.
LEMMA MergedExtends ==
    ASSUME NEW o \in Provider, NEW catalog \in Seq(CatalogModel)
    PROVE  ProviderExtends([o EXCEPT !.models = Merged(o, MappingsFromCatalog(catalog))], o)
  <1> DEFINE upstreamed == MappingsFromCatalog(catalog)
             end == Len(o.models)
             new == {i \in DOMAIN upstreamed : upstreamed[i].slug \notin Explicit(o)}
             merged == Merged(o, upstreamed)
             q == [o EXCEPT !.models = merged]
  <1> SUFFICES ProviderExtends(q, o)
    OBVIOUS
  <1>1. o.models \in Seq(ModelMapping) /\ end \in Nat /\ DOMAIN o.models = 1..end
    BY DEF Provider
  <1>2. q.id = o.id /\ q.enabled = o.enabled /\ q.profiles = o.profiles /\ q.models = merged
    BY DEF Provider
  <1>3. \A i \in DOMAIN upstreamed : i \in Nat /\ i > 0 /\ upstreamed[i] \in ModelMapping
    BY CatalogMapping
  <1>4. merged = [k \in DOMAIN o.models \cup {end + i : i \in new} |->
                     IF k <= end THEN o.models[k] ELSE upstreamed[k - end]]
    BY DEF Merged
  <1> HIDE DEF merged, upstreamed, q
  <1>5. ASSUME NEW k \in DOMAIN o.models
        PROVE  k \in DOMAIN merged /\ merged[k] = o.models[k]
    BY <1>1, <1>4
  <1>6. ASSUME NEW k \in DOMAIN merged
        PROVE  /\ merged[k] \in ModelMapping
               /\ merged[k].slug \in Explicit(o) => k \in DOMAIN o.models
    <2>1. CASE k \in DOMAIN o.models
      BY <1>1, <1>5, <2>1
    <2>2. CASE k \notin DOMAIN o.models
      <3>1. PICK i \in new : k = end + i
        BY <1>4, <1>6, <2>2
      <3>2. i \in DOMAIN upstreamed /\ upstreamed[i].slug \notin Explicit(o)
        OBVIOUS
      <3>3. ~(k <= end) /\ k - end = i
        BY <1>1, <1>3, <3>1, <3>2
      <3>4. merged[k] = upstreamed[i]
        BY <1>4, <1>6, <3>3
      <3>5. QED
        BY <1>3, <3>2, <3>4
    <2>3. QED
      BY <2>1, <2>2
  <1>7. QED
    BY <1>2, <1>5, <1>6 DEF ProviderExtends

\* A reviewed registry is a sequence of providers with different ids.
LEMMA ReviewedIsValid ==
    ASSUME NEW s \in Reviewed
    PROVE  /\ s \in Seq(Provider)
           /\ \A i \in DOMAIN s : i \in Nat /\ s[i] \in Provider
           /\ \A i, j \in DOMAIN s : s[i].id = s[j].id => i = j
           /\ PriceTableBuilds(s)
  <1>1. s \in Seq(Provider) /\ Builds(s)
    BY StartupAssumption
  <1>2. QED
    BY <1>1 DEF Builds, Validate

\* load_registry hydrates the provider it fetched the catalog of, and no other.
LEMMA HydrateExtends ==
    ASSUME NEW s \in Reviewed, NEW r, RegistryExtends(r, s),
           NEW i \in DOMAIN s, r[i] = s[i],
           NEW catalog \in Seq(CatalogModel)
    PROVE  LET h == HydrateProvider(r, r[i].id, MappingsFromCatalog(catalog))
           IN  /\ RegistryExtends(h, s)
               /\ \A j \in DOMAIN s : j # i => h[j] = r[j]
  <1> DEFINE found == MappingsFromCatalog(catalog)
             h == HydrateProvider(r, r[i].id, found)
  <1>1. \A j \in DOMAIN s : j \in Nat /\ s[j] \in Provider
    BY ReviewedIsValid
  <1>2. /\ DOMAIN r = DOMAIN s
        /\ \A j \in DOMAIN s : r[j].id = s[j].id /\ ProviderExtends(r[j], s[j])
    BY DEF RegistryExtends, ProviderExtends
  <1>3. \A j \in DOMAIN s : r[j].id = r[i].id => j = i
    BY <1>2, ReviewedIsValid
  <1>4. /\ DOMAIN h = DOMAIN s
        /\ \A j \in DOMAIN s :
               h[j] = IF r[j].id = r[i].id /\ \A l \in 1..(j - 1) : r[l].id # r[i].id
                      THEN [r[j] EXCEPT !.models = Merged(r[j], found)]
                      ELSE r[j]
    BY <1>2 DEF HydrateProvider
  <1> HIDE DEF h, found
  <1>5. \A j \in DOMAIN s : j # i => h[j] = r[j]
    BY <1>3, <1>4
  <1>6. h[i] = [s[i] EXCEPT !.models = Merged(s[i], found)]
    <2>1. \A l \in 1..(i - 1) : l \in DOMAIN s /\ l # i
      BY ReviewedIsValid
    <2>2. \A l \in 1..(i - 1) : r[l].id # r[i].id
      BY <1>3, <2>1
    <2>3. QED
      BY <1>4, <2>2
  <1>7. ProviderExtends(h[i], s[i])
    BY <1>1, <1>6, MergedExtends DEF found
  <1>8. RegistryExtends(h, s)
    BY <1>2, <1>4, <1>5, <1>7 DEF RegistryExtends
  <1>9. QED
    BY <1>5, <1>8 DEF h, found

-----------------------------------------------------------------------------
(* Offers, and what is built from them.                                    *)

Offer(p, k) == [provider |-> p, mapping |-> p.models[k]]

\* The mappings of the enabled providers.
LEMMA OffersAre ==
    ASSUME NEW r
    PROVE  /\ \A i \in DOMAIN r : \A k \in DOMAIN r[i].models :
                  r[i].enabled => Offer(r[i], k) \in Offers(r)
           /\ \A o \in Offers(r) : \E i \in DOMAIN r : \E k \in DOMAIN r[i].models :
                  r[i].enabled /\ o = Offer(r[i], k)
  <1>1. ASSUME NEW i \in DOMAIN r, NEW k \in DOMAIN r[i].models, r[i].enabled
        PROVE  Offer(r[i], k) \in Offers(r)
    <2>1. r[i] \in {q \in Elements(r) : q.enabled}
      BY <1>1 DEF Elements
    <2>2. Offer(r[i], k) \in {[provider |-> r[i], mapping |-> m] : m \in Elements(r[i].models)}
      BY <1>1 DEF Elements, Offer
    <2>3. QED
      BY <2>1, <2>2 DEF Offers
  <1>2. ASSUME NEW o \in Offers(r)
        PROVE  \E i \in DOMAIN r : \E k \in DOMAIN r[i].models :
                   r[i].enabled /\ o = Offer(r[i], k)
    <2>1. PICK p \in {q \in Elements(r) : q.enabled} :
              o \in {[provider |-> p, mapping |-> m] : m \in Elements(p.models)}
      BY <1>2 DEF Offers
    <2>2. PICK i \in DOMAIN r : p = r[i] /\ r[i].enabled
      BY <2>1 DEF Elements
    <2>3. PICK k \in DOMAIN p.models : o = [provider |-> p, mapping |-> p.models[k]]
      BY <2>1 DEF Elements
    <2>4. QED
      BY <2>2, <2>3 DEF Offer
  <1>3. QED
    BY <1>1, <1>2

\* Every reviewed offer is still there after hydration.
LEMMA OffersRemain ==
    ASSUME NEW s \in Reviewed, NEW r, RegistryExtends(r, s), NEW o \in Offers(s)
    PROVE  \E q \in Offers(r) : /\ q.mapping = o.mapping
                                /\ q.provider.id = o.provider.id
                                /\ q.provider.profiles = o.provider.profiles
  <1>1. PICK i \in DOMAIN s : \E k \in DOMAIN s[i].models : s[i].enabled /\ o = Offer(s[i], k)
    BY OffersAre
  <1>2. PICK k \in DOMAIN s[i].models : s[i].enabled /\ o = Offer(s[i], k)
    BY <1>1
  <1>3. i \in DOMAIN r /\ ProviderExtends(r[i], s[i])
    BY DEF RegistryExtends
  <1>4. /\ k \in DOMAIN r[i].models /\ r[i].models[k] = s[i].models[k]
        /\ r[i].enabled /\ r[i].id = s[i].id /\ r[i].profiles = s[i].profiles
    BY <1>2, <1>3 DEF ProviderExtends
  <1>5. Offer(r[i], k) \in Offers(r)
    BY <1>3, <1>4, OffersAre
  <1>6. QED
    BY <1>2, <1>4, <1>5 DEF Offer

RouteNames(config) == {route.name : route \in config.models}

\* The route of offer o is in the configuration, to its target.
HasRoute(config, o) ==
    \E route \in config.models :
        /\ route.name = RouteName(o.provider.id, o.mapping.slug)
        /\ route.target = o.mapping.target
        /\ route.served = o.provider.id

\* The configuration is whole for registry s.
Covers(config, s) ==
    /\ \A o \in Offers(s) : HasRoute(config, o)
    /\ \A v \in config.virtual : \A t \in v.targets : t.model \in RouteNames(config)

\* build_config has a route for every offer.
LEMMA RoutesOfOffers ==
    ASSUME NEW r, NEW o \in Offers(r)
    PROVE  HasRoute(BuildConfig(r), o) /\ RouteName(o.provider.id, o.mapping.slug) \in RouteNames(BuildConfig(r))
  <1> DEFINE route == [name |-> RouteName(o.provider.id, o.mapping.slug),
                       target |-> o.mapping.target, served |-> o.provider.id]
  <1>1. route \in BuildConfig(r).models
    BY DEF BuildConfig, ModelRoutes
  <1>2. QED
    BY <1>1 DEF HasRoute, RouteNames

\* A configuration built from an extension of the reviewed registry is whole.
LEMMA ConfigCovers ==
    ASSUME NEW s \in Reviewed, NEW r, RegistryExtends(r, s)
    PROVE  Covers(BuildConfig(r), s)
  <1>1. ASSUME NEW o \in Offers(s)
        PROVE  HasRoute(BuildConfig(r), o)
    <2>1. PICK q \in Offers(r) : q.mapping = o.mapping /\ q.provider.id = o.provider.id
      BY <1>1, OffersRemain
    <2>2. HasRoute(BuildConfig(r), q)
      BY RoutesOfOffers
    <2>3. QED
      BY <2>1, <2>2 DEF HasRoute
  <1>2. ASSUME NEW v \in BuildConfig(r).virtual, NEW t \in v.targets
        PROVE  t.model \in RouteNames(BuildConfig(r))
    <2>1. PICK d \in RouteTable(r) :
              v.targets = {[model |-> RouteName(o.provider.id, d.slug), priority |-> o.provider.priority] :
                              o \in {o \in Offers(r) : d.profile \in o.provider.profiles
                                                       /\ o.mapping.slug = d.slug}}
      BY <1>2 DEF BuildConfig, VirtualModels
    <2>2. PICK o \in Offers(r) : o.mapping.slug = d.slug /\ t.model = RouteName(o.provider.id, d.slug)
      BY <1>2, <2>1
    <2>3. QED
      BY <2>2, RoutesOfOffers
  <1>3. QED
    BY <1>1, <1>2 DEF Covers

\* The price of a reviewed offer is found, and no other, in the price table
\* built from an extension of its registry.
LEMMA PriceIsReviewed ==
    ASSUME NEW s \in Reviewed, NEW r, RegistryExtends(r, s), NEW o \in Offers(s)
    PROVE  PricesFor(r, o.provider.id, o.mapping.slug) = {PriceOf(o.mapping)}
  <1>1. PICK i \in DOMAIN s : \E k \in DOMAIN s[i].models : s[i].enabled /\ o = Offer(s[i], k)
    BY OffersAre
  <1>2. PICK k \in DOMAIN s[i].models : s[i].enabled /\ o = Offer(s[i], k)
    BY <1>1
  <1>3. o.provider = s[i] /\ o.mapping = s[i].models[k]
    BY <1>2 DEF Offer
  <1>4. ASSUME NEW q \in Offers(r), q.provider.id = o.provider.id, q.mapping.slug = o.mapping.slug
        PROVE  q.mapping = o.mapping
    <2>1. PICK j \in DOMAIN r : \E l \in DOMAIN r[j].models : q = Offer(r[j], l)
      BY <1>4, OffersAre
    <2>2. PICK l \in DOMAIN r[j].models : q = Offer(r[j], l)
      BY <2>1
    <2>3. q.provider = r[j] /\ q.mapping = r[j].models[l]
      BY <2>2 DEF Offer
    <2>4. j \in DOMAIN s /\ ProviderExtends(r[j], s[j])
      BY DEF RegistryExtends
    <2>5. j = i
      <3>1. s[j].id = s[i].id
        BY <1>3, <1>4, <2>3, <2>4 DEF ProviderExtends
      <3>2. QED
        BY <2>4, <3>1, ReviewedIsValid
    <2>6. s[i].models[k].slug \in Explicit(s[i])
      BY DEF Explicit, Elements
    <2>7. l \in DOMAIN s[i].models /\ r[i].models[l] = s[i].models[l]
      <3>1. r[i].models[l].slug \in Explicit(s[i])
        BY <1>3, <1>4, <2>3, <2>5, <2>6
      <3>2. l \in DOMAIN s[i].models
        BY <2>4, <2>5, <3>1 DEF ProviderExtends
      <3>3. QED
        BY <2>4, <2>5, <3>2 DEF ProviderExtends
    <2>8. l = k
      <3>1. s[i] \in Elements(s) /\ PriceTableBuilds(s)
        BY ReviewedIsValid DEF Elements
      <3>2. \A a, b \in DOMAIN s[i].models : s[i].models[a].slug = s[i].models[b].slug => a = b
        BY <1>2, <3>1 DEF PriceTableBuilds
      <3>3. QED
        BY <1>3, <1>4, <2>3, <2>5, <2>7, <3>2
    <2>9. QED
      BY <1>3, <2>3, <2>5, <2>7, <2>8
  <1>5. \E q \in Offers(r) : q.mapping = o.mapping /\ q.provider.id = o.provider.id
    BY OffersRemain
  <1>6. QED
    BY <1>4, <1>5 DEF PricesFor

\* The routing descriptor of an offer in one of its profiles.
Route(profile, o) ==
    [profile |-> profile, slug |-> o.mapping.slug, provider |-> o.provider.id,
     prices |-> PriceOf(o.mapping)]

\* A reviewed offer is routed in every profile of its provider, at its price.
LEMMA OfferIsRouted ==
    ASSUME NEW s \in Reviewed, NEW r, RegistryExtends(r, s), NEW o \in Offers(s),
           NEW profile \in o.provider.profiles
    PROVE  Route(profile, o) \in RouteTable(r)
  <1>1. PICK q \in Offers(r) : /\ q.mapping = o.mapping
                               /\ q.provider.id = o.provider.id
                               /\ q.provider.profiles = o.provider.profiles
    BY OffersRemain
  <1>2. Route(profile, q) \in {Route(d, q) : d \in q.provider.profiles}
    BY <1>1
  <1>3. Route(profile, q) \in RouteTable(r)
    BY <1>2 DEF RouteTable, Route
  <1>4. QED
    BY <1>1, <1>3 DEF Route

\* A reviewed slug is listed in every profile of its provider.
LEMMA SlugIsListed ==
    ASSUME NEW s \in Reviewed, NEW r, RegistryExtends(r, s), NEW o \in Offers(s),
           NEW profile \in o.provider.profiles
    PROVE  o.mapping.slug \in DOMAIN Snapshot(r, profile)
  <1>1. PICK q \in Offers(r) : q.mapping = o.mapping /\ q.provider.profiles = o.provider.profiles
    BY OffersRemain
  <1>2. q \in Listed(r, profile)
    BY <1>1 DEF Listed
  <1>3. QED
    BY <1>1, <1>2 DEF Snapshot

-----------------------------------------------------------------------------
(* The inductive invariant.                                                *)

Points == RendererPoints \cup ServicePoints

ShapeInv ==
    /\ reviewed \in Reviewed
    /\ upstream \in Catalogs \cup {Nothing}
    /\ pc \in [Processes -> Points]
    /\ DOMAIN registry = Processes
    /\ DOMAIN sources = Processes

\* A provider whose catalog is still to be fetched is as it was reviewed.
LoadInv(p) ==
    /\ RegistryExtends(registry[p], reviewed)
    /\ sources[p] \subseteq DOMAIN reviewed
    /\ pc[p] = "loading" => \A i \in sources[p] : registry[p][i] = reviewed[i]

RegistryInv == \A p \in Processes : LoadInv(p)

ServiceInv == pc["service"] = "serving" => Builds(registry["service"])

FilesInv ==
    /\ file # Nothing => Covers(file, reviewed)
    /\ sidecar # Nothing => Covers(sidecar, reviewed)

IInv == ShapeInv /\ RegistryInv /\ ServiceInv /\ FilesInv

LEMMA InitIInv == Init => IInv
  <1> SUFFICES ASSUME Init PROVE IInv
    OBVIOUS
  <1>1. ShapeInv
    BY DEF Init, ShapeInv, Points, RendererPoints
  <1>2. RegistryInv
    <2>1. RegistryExtends(reviewed, reviewed)
      BY ReviewedIsValid, ReviewedExtends DEF Init
    <2>2. QED
      BY <2>1 DEF Init, RegistryInv, LoadInv
  <1>3. ServiceInv /\ FilesInv
    BY DEF Init, ServiceInv, FilesInv, Processes
  <1>4. QED
    BY <1>1, <1>2, <1>3 DEF IInv

\* Loading starts from the reviewed registry.
LEMMA BeginLoadingIInv ==
    ASSUME IInv, NEW p \in Processes, BeginLoading(p),
           UNCHANGED <<reviewed, files, sidecar, environment>>
    PROVE  IInv'
  <1>1. ShapeInv'
    BY DEF IInv, ShapeInv, BeginLoading, environment, Points, RendererPoints
  <1>2. LoadInv(p)'
    <2>1. RegistryExtends(reviewed, reviewed)
      BY ReviewedIsValid, ReviewedExtends DEF IInv, ShapeInv
    <2>2. registry'[p] = reviewed /\ sources'[p] = CatalogSources(reviewed) /\ reviewed' = reviewed
      BY DEF IInv, ShapeInv, BeginLoading
    <2>3. CatalogSources(reviewed) \subseteq DOMAIN reviewed
      BY DEF CatalogSources
    <2>4. QED
      BY <2>1, <2>2, <2>3 DEF LoadInv
  <1>3. ASSUME NEW q \in Processes, q # p
        PROVE  LoadInv(q)'
    <2>1. registry'[q] = registry[q] /\ sources'[q] = sources[q] /\ pc'[q] = pc[q] /\ reviewed' = reviewed
      BY <1>3 DEF IInv, ShapeInv, BeginLoading
    <2>2. QED
      BY <1>3, <2>1 DEF IInv, RegistryInv, LoadInv
  <1>4. ServiceInv'
    <2>1. CASE p = "service"
      <3>1. pc'["service"] = "loading"
        BY <2>1 DEF IInv, ShapeInv, BeginLoading
      <3>2. QED
        BY <3>1 DEF ServiceInv
    <2>2. CASE p # "service"
      <3>1. pc'["service"] = pc["service"] /\ registry'["service"] = registry["service"]
        BY <2>2 DEF IInv, ShapeInv, BeginLoading, Processes
      <3>2. QED
        BY <3>1 DEF IInv, ServiceInv
    <2>3. QED
      BY <2>1, <2>2
  <1>5. FilesInv'
    BY DEF IInv, FilesInv, files
  <1>6. QED
    BY <1>1, <1>2, <1>3, <1>4, <1>5 DEF IInv, RegistryInv

\* A fetched catalog extends the provider it belongs to.
LEMMA FetchSucceedsIInv ==
    ASSUME IInv, NEW p \in Processes, FetchSucceeds(p)
    PROVE  IInv'
  <1>1. PICK i \in sources[p] :
            /\ NextSource(p, i)
            /\ registry' = [registry EXCEPT ![p] =
                   HydrateProvider(registry[p], registry[p][i].id, MappingsFromCatalog(upstream))]
    BY DEF FetchSucceeds
  <1>2. /\ upstream # Nothing /\ pc[p] = "loading"
        /\ UNCHANGED <<reviewed, pc, files, sidecar, environment>>
    BY <1>1 DEF FetchSucceeds, NextSource
  <1>3. upstream \in Seq(CatalogModel) /\ reviewed \in Reviewed
    BY <1>2, StartupAssumption DEF IInv, ShapeInv
  <1>4. RegistryExtends(registry[p], reviewed) /\ i \in DOMAIN reviewed /\ registry[p][i] = reviewed[i]
    BY <1>2 DEF IInv, RegistryInv, LoadInv
  <1> DEFINE h == HydrateProvider(registry[p], registry[p][i].id, MappingsFromCatalog(upstream))
  <1>5. RegistryExtends(h, reviewed) /\ \A j \in DOMAIN reviewed : j # i => h[j] = registry[p][j]
    BY <1>3, <1>4, HydrateExtends
  <1>6. registry'[p] = h /\ \A q \in Processes : q # p => registry'[q] = registry[q]
    BY <1>1 DEF IInv, ShapeInv
  <1>7. sources'[p] = sources[p] \ {i} /\ \A q \in Processes : q # p => sources'[q] = sources[q]
    BY <1>1 DEF NextSource, IInv, ShapeInv
  <1> HIDE DEF h
  <1>8. ShapeInv'
    BY <1>1, <1>2 DEF IInv, ShapeInv, NextSource, environment
  <1>9. LoadInv(p)'
    BY <1>2, <1>5, <1>6, <1>7 DEF IInv, RegistryInv, LoadInv
  <1>10. ASSUME NEW q \in Processes, q # p
         PROVE  LoadInv(q)'
    BY <1>2, <1>6, <1>7, <1>10 DEF IInv, RegistryInv, LoadInv
  <1>11. ServiceInv'
    <2>1. CASE p = "service"
      BY <1>2, <2>1 DEF ServiceInv
    <2>2. CASE p # "service"
      BY <1>2, <1>6, <2>2 DEF IInv, ServiceInv, Processes
    <2>3. QED
      BY <2>1, <2>2
  <1>12. FilesInv'
    BY <1>2 DEF IInv, FilesInv, files
  <1>13. QED
    BY <1>8, <1>9, <1>10, <1>11, <1>12 DEF IInv, RegistryInv

\* A failed fetch leaves the reviewed coverage.
LEMMA FetchFailsIInv ==
    ASSUME IInv, NEW p \in Processes, FetchFails(p)
    PROVE  IInv'
  <1>1. PICK i \in sources[p] : sources' = [sources EXCEPT ![p] = sources[p] \ {i}]
    BY DEF FetchFails, NextSource
  <1>2. UNCHANGED <<reviewed, pc, registry, files, sidecar, environment>>
    BY DEF FetchFails
  <1>3. \A q \in Processes : sources'[q] \subseteq sources[q]
    BY <1>1 DEF IInv, ShapeInv
  <1>4. ShapeInv'
    BY <1>1, <1>2 DEF IInv, ShapeInv, environment
  <1>5. RegistryInv'
    BY <1>2, <1>3 DEF IInv, RegistryInv, LoadInv
  <1>6. ServiceInv' /\ FilesInv'
    BY <1>2 DEF IInv, ServiceInv, FilesInv, files
  <1>7. QED
    BY <1>4, <1>5, <1>6 DEF IInv

\* The steps that leave the registries alone: they start no loading, they serve
\* what builds, and what they put in a file or a sidecar is whole.
LEMMA PointStepIInv ==
    ASSUME IInv, UNCHANGED <<reviewed, registry, sources>>,
           upstream' \in Catalogs \cup {Nothing},
           pc' \in [Processes -> Points],
           \A p \in Processes : pc'[p] = "loading" => pc[p] = "loading",
           pc'["service"] = "serving" => pc["service"] = "serving" \/ Builds(registry["service"]),
           file' = file \/ Covers(file', reviewed),
           sidecar' \in {sidecar, file, Nothing}
    PROVE  IInv'
  <1>1. ShapeInv'
    BY DEF IInv, ShapeInv
  <1>2. RegistryInv'
    BY DEF IInv, RegistryInv, LoadInv
  <1>3. ServiceInv'
    BY DEF IInv, ServiceInv
  <1>4. FilesInv'
    BY DEF IInv, FilesInv
  <1>5. QED
    BY <1>1, <1>2, <1>3, <1>4 DEF IInv

\* Steps that move one process to another point.
LEMMA MoveIInv ==
    ASSUME IInv, UNCHANGED <<reviewed, registry, sources, file, upstream>>,
           sidecar' \in {sidecar, file, Nothing},
           NEW p \in Processes, NEW point \in Points,
           pc' = [pc EXCEPT ![p] = point],
           point # "loading", point = "serving" => Builds(registry["service"])
    PROVE  IInv'
  <1>1. pc' \in [Processes -> Points] /\ \A q \in Processes : pc'[q] = IF q = p THEN point ELSE pc[q]
    BY DEF IInv, ShapeInv
  <1>2. "service" \in Processes
    BY DEF Processes
  <1>3. upstream' \in Catalogs \cup {Nothing}
    BY DEF IInv, ShapeInv
  <1>4. QED
    BY <1>1, <1>2, <1>3, PointStepIInv

LEMMA NextIInv == IInv /\ [Next]_vars => IInv'
  <1> SUFFICES ASSUME IInv, [Next]_vars PROVE IInv'
    OBVIOUS
  <1>0. "renderer" \in Processes /\ "service" \in Processes
    BY DEF Processes
  <1>p. {"loading", "compiled", "created", "written", "done", "failed", "absent", "serving"} \subseteq Points
    BY DEF Points, RendererPoints, ServicePoints
  <1>1. CASE StartRenderer
    BY <1>0, <1>1, BeginLoadingIInv DEF StartRenderer
  <1>2. CASE StartService
    BY <1>0, <1>2, BeginLoadingIInv DEF StartService
  <1>3. CASE \E p \in Processes : FetchSucceeds(p)
    BY <1>3, FetchSucceedsIInv
  <1>4. CASE \E p \in Processes : FetchFails(p)
    BY <1>4, FetchFailsIInv
  <1>5. CASE \E p \in Processes : LoadFails(p)
    BY <1>p, <1>5, MoveIInv DEF LoadFails, files, environment
  <1>6. CASE CompileConfig
    BY <1>0, <1>p, <1>6, MoveIInv DEF CompileConfig, files, environment
  <1>7. CASE CreateTemporary
    BY <1>0, <1>p, <1>7, MoveIInv DEF CreateTemporary, environment
  <1>8. CASE WriteTemporary
    BY <1>0, <1>p, <1>8, MoveIInv DEF WriteTemporary, files, environment
  <1>9. CASE Persist
    <2>1. /\ UNCHANGED <<reviewed, registry, sources, sidecar, upstream>>
          /\ pc' = [pc EXCEPT !["renderer"] = "done"]
          /\ file' = BuildConfig(registry["renderer"])
      BY <1>9 DEF Persist, environment
    <2>2. RegistryExtends(registry["renderer"], reviewed) /\ reviewed \in Reviewed
      BY <1>0 DEF IInv, RegistryInv, LoadInv, ShapeInv
    <2>3. Covers(file', reviewed)
      BY <2>1, <2>2, ConfigCovers
    <2>4. /\ pc' \in [Processes -> Points]
          /\ \A p \in Processes : pc'[p] = "loading" => pc[p] = "loading"
          /\ pc'["service"] = pc["service"]
          /\ upstream' \in Catalogs \cup {Nothing}
      BY <1>0, <1>p, <2>1 DEF IInv, ShapeInv
    <2>5. QED
      BY <2>1, <2>3, <2>4, PointStepIInv
  <1>10. CASE FileOperationFails
    BY <1>0, <1>p, <1>10, MoveIInv DEF FileOperationFails
  <1>11. CASE StartSidecar
    <2>1. /\ UNCHANGED <<reviewed, registry, sources, pc, file, upstream>>
          /\ sidecar' = file
      BY <1>11 DEF StartSidecar, files, environment
    <2>2. pc' \in [Processes -> Points] /\ upstream' \in Catalogs \cup {Nothing}
      BY <2>1 DEF IInv, ShapeInv
    <2>3. QED
      BY <2>1, <2>2, PointStepIInv
  <1>12. CASE BuildFails
    BY <1>0, <1>p, <1>12, MoveIInv DEF BuildFails, files, environment
  <1>13. CASE Serve
    BY <1>0, <1>p, <1>13, MoveIInv DEF Serve, files, environment
  <1>14. CASE UpstreamChanges
    <2>1. /\ UNCHANGED <<reviewed, registry, sources, pc, file, sidecar>>
          /\ upstream' \in Catalogs \cup {Nothing}
      BY <1>14 DEF UpstreamChanges, files
    <2>2. pc' \in [Processes -> Points]
      BY <2>1 DEF IInv, ShapeInv
    <2>3. QED
      BY <2>1, <2>2, PointStepIInv
  <1>15. CASE RendererCrashes
    BY <1>0, <1>p, <1>15, MoveIInv DEF RendererCrashes, Crash, files
  <1>16. CASE ServiceCrashes
    BY <1>0, <1>p, <1>16, MoveIInv DEF ServiceCrashes, Crash, files
  <1>17. CASE SidecarCrashes
    <2>1. UNCHANGED <<reviewed, registry, sources, pc, file, upstream>> /\ sidecar' = Nothing
      BY <1>17 DEF SidecarCrashes, Crash, files
    <2>2. pc' \in [Processes -> Points] /\ upstream' \in Catalogs \cup {Nothing}
      BY <2>1 DEF IInv, ShapeInv
    <2>3. QED
      BY <2>1, <2>2, PointStepIInv
  <1>18. CASE Redeploy
    <2>1. /\ UNCHANGED <<reviewed, registry, sources, file, upstream>> /\ sidecar' = Nothing
          /\ pc' = [p \in Processes |-> "absent"]
      BY <1>18 DEF Redeploy, Crash, files
    <2>2. /\ pc' \in [Processes -> Points] /\ upstream' \in Catalogs \cup {Nothing}
          /\ \A p \in Processes : pc'[p] = "absent"
      BY <1>p, <2>1 DEF IInv, ShapeInv
    <2>3. QED
      BY <1>0, <2>1, <2>2, PointStepIInv
  <1>19. CASE UNCHANGED vars
    <2>1. UNCHANGED <<reviewed, registry, sources, pc, file, sidecar, upstream>>
      BY <1>19 DEF vars
    <2>2. pc' \in [Processes -> Points] /\ upstream' \in Catalogs \cup {Nothing}
      BY <2>1 DEF IInv, ShapeInv
    <2>3. QED
      BY <2>1, <2>2, PointStepIInv
  <1>20. CASE Up
    BY <1>19, <1>20 DEF Up
  <1>21. QED
    BY <1>1, <1>2, <1>3, <1>4, <1>5, <1>6, <1>7, <1>8, <1>9, <1>10, <1>11, <1>12, <1>13, <1>14,
       <1>15, <1>16, <1>17, <1>18, <1>19, <1>20 DEF Next, Progress

LEMMA InductiveInvariant == Spec => []IInv
  BY InitIInv, NextIInv, PTL DEF Spec

-----------------------------------------------------------------------------
(* The properties.                                                         *)

\* write_sidecar_config never leaves part of a configuration at the output
\* path, whichever step of whichever run fails or is killed, and what it
\* leaves covers the reviewed registry.
THEOREM OutputCorrect == Spec => []OutputIsWhole
  <1>1. IInv => OutputIsWhole
    <2> SUFFICES ASSUME IInv, file # Nothing PROVE OutputIsWhole
      BY DEF OutputIsWhole
    <2>1. Covers(file, reviewed)
      BY DEF IInv, FilesInv
    <2>2. ASSUME NEW o \in Offers(reviewed)
          PROVE  RouteName(o.provider.id, o.mapping.slug) \in RouteNames(file)
      BY <2>1, <2>2 DEF Covers, HasRoute, RouteNames
    <2>3. QED
      BY <2>1, <2>2 DEF Covers, RouteNames, OutputIsWhole
  <1>2. QED
    BY <1>1, InductiveInvariant, PTL

\* What was reviewed is priced, routed and listed as reviewed, whatever the
\* upstream publishes and whenever it changes.
THEOREM ReviewedCorrect == Spec => []ReviewedIsServed
  <1>1. IInv => ReviewedIsServed
    <2> SUFFICES ASSUME IInv, Serving, sidecar # Nothing, NEW o \in Offers(reviewed)
                 PROVE  /\ PricesFor(Live, o.provider.id, o.mapping.slug) = {PriceOf(o.mapping)}
                        /\ \A profile \in o.provider.profiles :
                               /\ o.mapping.slug \in DOMAIN Snapshot(Live, profile)
                               /\ Route(profile, o) \in RouteTable(Live)
                        /\ HasRoute(sidecar, o)
      BY DEF ReviewedIsServed, HasRoute, Route
    <2>1. reviewed \in Reviewed /\ RegistryExtends(Live, reviewed)
      BY DEF IInv, ShapeInv, RegistryInv, LoadInv, Live, Processes
    <2>2. HasRoute(sidecar, o)
      BY DEF IInv, FilesInv, Covers
    <2>3. QED
      BY <2>1, <2>2, PriceIsReviewed, SlugIsListed, OfferIsRouted
  <1>2. QED
    BY <1>1, InductiveInvariant, PTL

-----------------------------------------------------------------------------
(* The three tables.                                                       *)

\* Offers whose price keys are made of natural numbers.
Priced(offers) ==
    \A o \in offers : /\ o.mapping.input \in Nat /\ o.mapping.output \in Nat
                      /\ IdRank[o.provider.id] \in Nat

\* price_key orders by the sum first.
LEMMA BelowIsLexical ==
    ASSUME NEW a, NEW b, Priced({a, b})
    PROVE  LET sum(o) == o.mapping.input + o.mapping.output
               in(o) == o.mapping.input
               out(o) == o.mapping.output
               rank(o) == IdRank[o.provider.id]
           IN  Below(PriceKey(a), PriceKey(b)) <=>
                   \/ sum(a) < sum(b)
                   \/ sum(a) = sum(b) /\ in(a) < in(b)
                   \/ sum(a) = sum(b) /\ in(a) = in(b) /\ out(a) < out(b)
                   \/ sum(a) = sum(b) /\ in(a) = in(b) /\ out(a) = out(b) /\ rank(a) < rank(b)
  <1> DEFINE left == PriceKey(a)
             right == PriceKey(b)
  <1>1. /\ DOMAIN left = 1..4
        /\ left[1] = a.mapping.input + a.mapping.output /\ left[2] = a.mapping.input
        /\ left[3] = a.mapping.output /\ left[4] = IdRank[a.provider.id]
    BY DEF PriceKey
  <1>2. /\ right[1] = b.mapping.input + b.mapping.output /\ right[2] = b.mapping.input
        /\ right[3] = b.mapping.output /\ right[4] = IdRank[b.provider.id]
    BY DEF PriceKey
  <1> HIDE DEF left, right
  <1>3. Below(left, right) <=>
            \/ left[1] < right[1]
            \/ left[1] = right[1] /\ left[2] < right[2]
            \/ left[1] = right[1] /\ left[2] = right[2] /\ left[3] < right[3]
            \/ left[1] = right[1] /\ left[2] = right[2] /\ left[3] = right[3] /\ left[4] < right[4]
    <2>1. Below(left, right) <=> \E i \in 1..4 : left[i] < right[i] /\ \A j \in 1..(i - 1) : left[j] = right[j]
      BY <1>1 DEF Below
    <2>2. 1..4 = {1, 2, 3, 4} /\ 1..0 = {} /\ 1..1 = {1} /\ 1..2 = {1, 2} /\ 1..3 = {1, 2, 3}
      OBVIOUS
    <2>3. QED
      BY <2>1, <2>2
  <1>4. QED
    BY <1>1, <1>2, <1>3 DEF left, right

\* Catalog rows have a cheapest candidate, and none has a smaller sum.
LEMMA CheapestIsCheapest ==
    ASSUME NEW offers, offers # {}, Priced(offers)
    PROVE  /\ Cheapest(offers) \in offers
           /\ \A o \in offers :
                  Cheapest(offers).mapping.input + Cheapest(offers).mapping.output
                      <= o.mapping.input + o.mapping.output
  <1> DEFINE sum(o) == o.mapping.input + o.mapping.output
             in(o) == o.mapping.input
             out(o) == o.mapping.output
             rank(o) == IdRank[o.provider.id]
  <1>1. \A o \in offers : sum(o) \in Nat /\ in(o) \in Nat /\ out(o) \in Nat /\ rank(o) \in Nat
    BY DEF Priced
  <1>2. \A a, b \in offers :
            Below(PriceKey(a), PriceKey(b)) <=>
                \/ sum(a) < sum(b)
                \/ sum(a) = sum(b) /\ in(a) < in(b)
                \/ sum(a) = sum(b) /\ in(a) = in(b) /\ out(a) < out(b)
                \/ sum(a) = sum(b) /\ in(a) = in(b) /\ out(a) = out(b) /\ rank(a) < rank(b)
    <2> SUFFICES ASSUME NEW a \in offers, NEW b \in offers
                 PROVE  Below(PriceKey(a), PriceKey(b)) <=>
                            \/ sum(a) < sum(b)
                            \/ sum(a) = sum(b) /\ in(a) < in(b)
                            \/ sum(a) = sum(b) /\ in(a) = in(b) /\ out(a) < out(b)
                            \/ sum(a) = sum(b) /\ in(a) = in(b) /\ out(a) = out(b) /\ rank(a) < rank(b)
      OBVIOUS
    <2>1. Priced({a, b})
      BY DEF Priced
    <2>2. QED
      BY <2>1, BelowIsLexical
  <1> HIDE DEF sum, in, out, rank
  <1>3. PICK x1 \in offers : \A o \in offers : sum(x1) <= sum(o)
    <2> DEFINE f == [o \in offers |-> sum(o)]
    <2>1. f \in [offers -> Nat]
      BY <1>1
    <2>2. \E x \in offers : \A o \in offers : f[x] <= f[o]
      BY <2>1, LeastElement
    <2>3. QED
      BY <2>2
  <1> DEFINE S2 == {o \in offers : sum(o) = sum(x1)}
  <1>4. PICK x2 \in S2 : \A o \in S2 : in(x2) <= in(o)
    <2> DEFINE f == [o \in S2 |-> in(o)]
    <2>1. f \in [S2 -> Nat] /\ S2 # {}
      BY <1>1
    <2> HIDE DEF S2
    <2>2. \E x \in S2 : \A o \in S2 : f[x] <= f[o]
      BY <2>1, LeastElement
    <2>3. QED
      BY <2>2
  <1> DEFINE S3 == {o \in S2 : in(o) = in(x2)}
  <1>5. PICK x3 \in S3 : \A o \in S3 : out(x3) <= out(o)
    <2> DEFINE f == [o \in S3 |-> out(o)]
    <2>1. f \in [S3 -> Nat] /\ S3 # {}
      BY <1>1
    <2> HIDE DEF S3
    <2>2. \E x \in S3 : \A o \in S3 : f[x] <= f[o]
      BY <2>1, LeastElement
    <2>3. QED
      BY <2>2
  <1> DEFINE S4 == {o \in S3 : out(o) = out(x3)}
  <1>6. PICK x4 \in S4 : \A o \in S4 : rank(x4) <= rank(o)
    <2> DEFINE f == [o \in S4 |-> rank(o)]
    <2>1. f \in [S4 -> Nat] /\ S4 # {}
      BY <1>1
    <2> HIDE DEF S4
    <2>2. \E x \in S4 : \A o \in S4 : f[x] <= f[o]
      BY <2>1, LeastElement
    <2>3. QED
      BY <2>2
  <1>7. x4 \in offers /\ sum(x4) = sum(x1) /\ in(x4) = in(x2) /\ out(x4) = out(x3)
    BY <1>6
  <1>8. \A o \in offers : ~Below(PriceKey(o), PriceKey(x4))
    <2> SUFFICES ASSUME NEW o \in offers, Below(PriceKey(o), PriceKey(x4)) PROVE FALSE
      OBVIOUS
    <2>1. sum(x1) <= sum(o) /\ sum(o) \in Nat /\ sum(x1) \in Nat
      BY <1>1, <1>3
    <2>2. ~(sum(o) < sum(x4))
      BY <1>7, <2>1
    <2>3. sum(o) = sum(x1) => in(x2) <= in(o) /\ in(o) \in Nat /\ in(x2) \in Nat
      BY <1>1, <1>4
    <2>4. sum(o) = sum(x1) /\ in(o) = in(x2) => out(x3) <= out(o) /\ out(o) \in Nat /\ out(x3) \in Nat
      BY <1>1, <1>5
    <2>5. sum(o) = sum(x1) /\ in(o) = in(x2) /\ out(o) = out(x3)
              => rank(x4) <= rank(o) /\ rank(o) \in Nat /\ rank(x4) \in Nat
      BY <1>1, <1>6, <1>7
    <2>6. QED
      BY <1>2, <1>7, <2>2, <2>3, <2>4, <2>5
  <1> DEFINE c == Cheapest(offers)
  <1>9. c \in offers /\ \A o \in offers : ~Below(PriceKey(o), PriceKey(c))
    BY <1>7, <1>8 DEF Cheapest
  <1> HIDE DEF c
  <1>10. ASSUME NEW o \in offers
         PROVE  sum(c) <= sum(o)
    <2>1. ~(sum(o) < sum(c))
      BY <1>2, <1>9
    <2>2. QED
      BY <1>1, <1>9, <2>1
  <1>11. QED
    BY <1>9, <1>10 DEF c, sum

EndpointOf(o) == [provider |-> o.provider.id, prices |-> PriceOf(o.mapping)]

\* The routes of a profile are made from the offers its catalog lists.
LEMMA RoutesAreListed ==
    ASSUME NEW r, NEW profile
    PROVE  {d \in RouteTable(r) : d.profile = profile} = {Route(profile, o) : o \in Listed(r, profile)}
  <1>1. ASSUME NEW d \in RouteTable(r), d.profile = profile
        PROVE  \E o \in Listed(r, profile) : d = Route(profile, o)
    <2>1. PICK o \in Offers(r) : d \in {Route(x, o) : x \in o.provider.profiles}
      BY <1>1 DEF RouteTable, Route
    <2>2. PICK x \in o.provider.profiles : d = Route(x, o)
      BY <2>1
    <2>3. x = profile
      BY <1>1, <2>2 DEF Route
    <2>4. QED
      BY <2>2, <2>3 DEF Listed
  <1>2. ASSUME NEW o \in Listed(r, profile)
        PROVE  Route(profile, o) \in RouteTable(r) /\ Route(profile, o).profile = profile
    <2>1. o \in Offers(r) /\ profile \in o.provider.profiles
      BY <1>2 DEF Listed
    <2>2. Route(profile, o) \in {Route(x, o) : x \in o.provider.profiles}
      BY <2>1
    <2>3. QED
      BY <2>1, <2>2 DEF RouteTable, Route
  <1>3. QED
    BY <1>1, <1>2

\* Once the price table builds, provider and slug determine the mapping.
LEMMA OfferIsUnique ==
    ASSUME NEW r, Validate(r), PriceTableBuilds(r), NEW o \in Offers(r), NEW q \in Offers(r),
           o.provider.id = q.provider.id, o.mapping.slug = q.mapping.slug
    PROVE  o.mapping = q.mapping
  <1>1. PICK i \in DOMAIN r : \E k \in DOMAIN r[i].models : r[i].enabled /\ o = Offer(r[i], k)
    BY OffersAre
  <1>2. PICK k \in DOMAIN r[i].models : r[i].enabled /\ o = Offer(r[i], k)
    BY <1>1
  <1>3. PICK j \in DOMAIN r : \E l \in DOMAIN r[j].models : r[j].enabled /\ q = Offer(r[j], l)
    BY OffersAre
  <1>4. PICK l \in DOMAIN r[j].models : r[j].enabled /\ q = Offer(r[j], l)
    BY <1>3
  <1>5. /\ o.provider = r[i] /\ o.mapping = r[i].models[k]
        /\ q.provider = r[j] /\ q.mapping = r[j].models[l]
    BY <1>2, <1>4 DEF Offer
  <1>6. i = j
    BY <1>5 DEF Validate
  <1>7. r[i] \in Elements(r)
    BY DEF Elements
  <1>8. \A a, b \in DOMAIN r[i].models : r[i].models[a].slug = r[i].models[b].slug => a = b
    BY <1>2, <1>7 DEF PriceTableBuilds
  <1>9. k = l
    BY <1>4, <1>5, <1>6, <1>8
  <1>10. QED
    BY <1>5, <1>6, <1>9

\* The price table returns the price of an offer, and no other.
LEMMA PriceIsUnique ==
    ASSUME NEW r, Validate(r), PriceTableBuilds(r), NEW o \in Offers(r)
    PROVE  PricesFor(r, o.provider.id, o.mapping.slug) = {PriceOf(o.mapping)}
  <1>1. \A q \in Offers(r) :
            q.provider.id = o.provider.id /\ q.mapping.slug = o.mapping.slug => q.mapping = o.mapping
    BY OfferIsUnique
  <1>2. QED
    BY <1>1 DEF PricesFor

\* Offers of a registry that builds have natural prices, and ranked providers.
LEMMA OffersArePriced ==
    ASSUME NEW s \in Reviewed, NEW r, RegistryExtends(r, s), RoutesBuild(r)
    PROVE  Priced(Offers(r))
  <1> SUFFICES ASSUME NEW o \in Offers(r)
               PROVE  /\ o.mapping.input \in Nat /\ o.mapping.output \in Nat
                      /\ IdRank[o.provider.id] \in Nat
    BY DEF Priced
  <1>1. PICK i \in DOMAIN r : \E k \in DOMAIN r[i].models : o = Offer(r[i], k)
    BY OffersAre
  <1>2. PICK k \in DOMAIN r[i].models : o = Offer(r[i], k)
    BY <1>1
  <1>3. o.provider = r[i] /\ o.mapping = r[i].models[k]
    BY <1>2 DEF Offer
  <1>4. i \in DOMAIN s /\ ProviderExtends(r[i], s[i])
    BY DEF RegistryExtends
  <1>5. o.mapping \in ModelMapping
    BY <1>3, <1>4 DEF ProviderExtends
  <1>6. o.mapping.input >= 0 /\ o.mapping.output >= 0
    BY DEF RoutesBuild, CandidateBuilds
  <1>7. o.mapping.input \in Int /\ o.mapping.output \in Int
    BY <1>5 DEF ModelMapping
  <1>8. o.provider.id \in ProviderIds
    <2>1. s[i] \in Provider
      BY <1>4, ReviewedIsValid
    <2>2. s[i].id \in ProviderIds
      BY <2>1 DEF Provider
    <2>3. QED
      BY <1>3, <1>4, <2>2 DEF ProviderExtends
  <1>9. QED
    BY <1>6, <1>7, <1>8, RegistryAssumption

OffersOf(r, profile, slug) == {o \in Listed(r, profile) : o.mapping.slug = slug}

\* What a catalog snapshot holds.
LEMMA SnapshotIs ==
    ASSUME NEW r, NEW profile
    PROVE  /\ DOMAIN Snapshot(r, profile) = {o.mapping.slug : o \in Listed(r, profile)}
           /\ \A slug \in DOMAIN Snapshot(r, profile) :
                  /\ OffersOf(r, profile, slug) # {}
                  /\ Snapshot(r, profile)[slug].row = PriceOf(Cheapest(OffersOf(r, profile, slug)).mapping)
                  /\ Snapshot(r, profile)[slug].endpoints = {EndpointOf(o) : o \in OffersOf(r, profile, slug)}
  <1>1. Snapshot(r, profile) =
            [slug \in {o.mapping.slug : o \in Listed(r, profile)} |->
                [row |-> PriceOf(Cheapest(OffersOf(r, profile, slug)).mapping),
                 endpoints |-> {EndpointOf(o) : o \in OffersOf(r, profile, slug)}]]
    BY DEF Snapshot, OffersOf, EndpointOf
  <1>2. DOMAIN Snapshot(r, profile) = {o.mapping.slug : o \in Listed(r, profile)}
    BY <1>1
  <1>3. ASSUME NEW slug \in DOMAIN Snapshot(r, profile)
        PROVE  OffersOf(r, profile, slug) # {}
    BY <1>2, <1>3 DEF OffersOf
  <1>4. ASSUME NEW slug \in DOMAIN Snapshot(r, profile)
        PROVE  /\ Snapshot(r, profile)[slug].row = PriceOf(Cheapest(OffersOf(r, profile, slug)).mapping)
               /\ Snapshot(r, profile)[slug].endpoints = {EndpointOf(o) : o \in OffersOf(r, profile, slug)}
    BY <1>1, <1>2, <1>4
  <1>5. QED
    BY <1>2, <1>3, <1>4

\* Catalog, route table and price table of every registry that builds agree.
LEMMA TablesOfABuild ==
    ASSUME NEW s \in Reviewed, NEW r, RegistryExtends(r, s), Builds(r), NEW profile
    PROVE  LET snapshot == Snapshot(r, profile)
               routes == {d \in RouteTable(r) : d.profile = profile}
           IN  /\ DOMAIN snapshot = {d.slug : d \in routes}
               /\ \A slug \in DOMAIN snapshot :
                      LET row == snapshot[slug]
                      IN  /\ row.endpoints = {[provider |-> d.provider, prices |-> d.prices] :
                                                 d \in {d \in routes : d.slug = slug}}
                          /\ \A e \in row.endpoints :
                                 /\ PricesFor(r, e.provider, slug) = {e.prices}
                                 /\ row.row.input + row.row.output <= e.prices.input + e.prices.output
                          /\ row.row \in {e.prices : e \in row.endpoints}
  <1> DEFINE snapshot == Snapshot(r, profile)
             routes == {d \in RouteTable(r) : d.profile = profile}
             listed == Listed(r, profile)
             End(d) == [provider |-> d.provider, prices |-> d.prices]
  <1>1. routes = {Route(profile, o) : o \in listed}
    BY RoutesAreListed
  <1>2. \A o \in listed : Route(profile, o).slug = o.mapping.slug /\ End(Route(profile, o)) = EndpointOf(o)
    BY DEF Route, EndpointOf
  <1>3. DOMAIN snapshot = {o.mapping.slug : o \in listed}
    BY SnapshotIs
  <1>4. Validate(r) /\ PriceTableBuilds(r) /\ RoutesBuild(r) /\ listed \subseteq Offers(r)
    BY DEF Builds, Listed
  <1>5. Priced(Offers(r))
    BY <1>4, OffersArePriced
  <1> HIDE DEF snapshot, routes, listed, End
  <1>6. DOMAIN snapshot = {d.slug : d \in routes}
    BY <1>1, <1>2, <1>3
  <1>7. ASSUME NEW slug \in DOMAIN snapshot
        PROVE  /\ snapshot[slug].endpoints = {End(d) : d \in {d \in routes : d.slug = slug}}
               /\ \A e \in snapshot[slug].endpoints :
                      /\ PricesFor(r, e.provider, slug) = {e.prices}
                      /\ snapshot[slug].row.input + snapshot[slug].row.output <= e.prices.input + e.prices.output
               /\ snapshot[slug].row \in {e.prices : e \in snapshot[slug].endpoints}
    <2> DEFINE offers == OffersOf(r, profile, slug)
               c == Cheapest(offers)
               row == snapshot[slug].row
               endpoints == snapshot[slug].endpoints
    <2>1. offers = {o \in listed : o.mapping.slug = slug}
      BY DEF OffersOf, listed
    <2>2. offers # {} /\ row = PriceOf(c.mapping) /\ endpoints = {EndpointOf(o) : o \in offers}
      BY <1>7, SnapshotIs DEF snapshot
    <2> HIDE DEF offers
    <2>3. c \in offers /\ \A o \in offers : c.mapping.input + c.mapping.output <= o.mapping.input + o.mapping.output
      <3>1. Priced(offers)
        BY <1>4, <1>5, <2>1 DEF Priced
      <3>2. QED
        BY <2>2, <3>1, CheapestIsCheapest
    <2> HIDE DEF c, row, endpoints
    <2>4. endpoints = {End(d) : d \in {d \in routes : d.slug = slug}}
      <3>1. ASSUME NEW o \in offers
            PROVE  \E d \in routes : d.slug = slug /\ EndpointOf(o) = End(d)
        BY <1>1, <1>2, <2>1, <3>1
      <3>2. ASSUME NEW d \in routes, d.slug = slug
            PROVE  \E o \in offers : End(d) = EndpointOf(o)
        BY <1>1, <1>2, <2>1, <3>2
      <3>3. QED
        BY <2>2, <3>1, <3>2
    <2>5. ASSUME NEW o \in offers
          PROVE  /\ PricesFor(r, EndpointOf(o).provider, slug) = {EndpointOf(o).prices}
                 /\ row.input + row.output <= EndpointOf(o).prices.input + EndpointOf(o).prices.output
      <3>1. o \in Offers(r) /\ o.mapping.slug = slug
        BY <1>4, <2>1, <2>5
      <3>2. PricesFor(r, o.provider.id, slug) = {PriceOf(o.mapping)}
        BY <1>4, <3>1, PriceIsUnique
      <3>3. row.input = c.mapping.input /\ row.output = c.mapping.output
        BY <2>2 DEF PriceOf
      <3>4. /\ EndpointOf(o).provider = o.provider.id /\ EndpointOf(o).prices = PriceOf(o.mapping)
            /\ EndpointOf(o).prices.input = o.mapping.input
            /\ EndpointOf(o).prices.output = o.mapping.output
        BY DEF EndpointOf, PriceOf
      <3>5. c.mapping.input + c.mapping.output <= o.mapping.input + o.mapping.output
        BY <2>3, <2>5
      <3>6. QED
        BY <3>2, <3>3, <3>4, <3>5
    <2>6. row \in {e.prices : e \in endpoints}
      <3>1. EndpointOf(c) \in endpoints /\ EndpointOf(c).prices = row
        BY <2>2, <2>3 DEF EndpointOf
      <3>2. QED
        BY <3>1
    <2>7. \A e \in endpoints : /\ PricesFor(r, e.provider, slug) = {e.prices}
                               /\ row.input + row.output <= e.prices.input + e.prices.output
      BY <2>2, <2>5
    <2>8. QED
      BY <2>4, <2>6, <2>7 DEF row, endpoints
  <1>8. QED
    BY <1>6, <1>7 DEF snapshot, routes, End

\* What the service lists, routes and bills by agree in every state in which it
\* serves, whatever was merged into its registry.
THEOREM TablesCorrect == Spec => []TablesAgree
  <1>1. IInv => TablesAgree
    <2> SUFFICES ASSUME IInv, Serving PROVE TablesAgree
      BY DEF TablesAgree
    <2>1. reviewed \in Reviewed /\ RegistryExtends(Live, reviewed) /\ Builds(Live)
      BY DEF IInv, ShapeInv, RegistryInv, LoadInv, ServiceInv, Serving, Live, Processes
    <2>2. QED
      BY <2>1, TablesOfABuild DEF TablesAgree
  <1>2. QED
    BY <1>1, InductiveInvariant, PTL

-----------------------------------------------------------------------------
(* Types, and the names of the temporary files.                            *)

\* A render run past its create, whose temporary has the run's name.
Begun == pc["renderer"] \in {"created", "written", "done"}

\* Every run but the one under way, or the one that is done, ended in a fault.
RunInv ==
    /\ pc["renderer"] \in RendererPoints /\ pc["service"] \in ServicePoints
    /\ changes \in 0..MaxChanges /\ faults \in 0..MaxFaults
    /\ run \in Nat /\ temps \subseteq 1..run
    /\ run <= IF Begun THEN faults + 1 ELSE faults

\* A step that leaves the files and the faults alone, and begins or ends no run.
LEMMA MoveRunInv ==
    ASSUME RunInv, UNCHANGED <<temps, run, changes, faults>>, Begun' <=> Begun,
           pc'["renderer"] \in RendererPoints, pc'["service"] \in ServicePoints
    PROVE  RunInv'
  BY DEF RunInv

\* A fault that ends the renderer's run, or strikes elsewhere.
LEMMA FaultRunInv ==
    ASSUME RunInv, UNCHANGED <<run, changes>>, temps' \subseteq temps,
           faults < MaxFaults, faults' = faults + 1,
           pc'["renderer"] \in RendererPoints, pc'["service"] \in ServicePoints,
           Begun' => Begun
    PROVE  RunInv'
  <1>1. faults \in Nat /\ faults + 1 \in 0..MaxFaults
    BY StartupAssumption DEF RunInv
  <1>2. run <= IF Begun' THEN (faults + 1) + 1 ELSE faults + 1
    <2>1. run \in Nat /\ run <= faults + 1
      BY <1>1 DEF RunInv
    <2>2. QED
      BY <1>1, <2>1
  <1>3. run' <= IF Begun' THEN faults' + 1 ELSE faults'
    BY <1>2
  <1>4. QED
    BY <1>1, <1>3 DEF RunInv

LEMMA NextRunInv == IInv /\ RunInv /\ [Next]_vars => RunInv'
  <1> SUFFICES ASSUME IInv, RunInv, [Next]_vars PROVE RunInv'
    OBVIOUS
  <1>0. "renderer" \in Processes /\ "service" \in Processes /\ "renderer" # "service"
        /\ DOMAIN pc = Processes /\ pc["renderer"] \in RendererPoints /\ pc["service"] \in ServicePoints
    BY DEF Processes, IInv, ShapeInv, RunInv
  <1> DEFINE Moves(p, point) == pc' = [pc EXCEPT ![p] = point]
  <1>1. ASSUME NEW point \in RendererPoints, Moves("renderer", point)
        PROVE  pc'["renderer"] = point /\ pc'["service"] = pc["service"]
    BY <1>0, <1>1
  <1>2. ASSUME NEW point \in ServicePoints, Moves("service", point)
        PROVE  pc'["service"] = point /\ pc'["renderer"] = pc["renderer"]
    BY <1>0, <1>2
  <1>3. CASE StartRenderer
    <2>1. /\ pc["renderer"] \in {"absent", "failed"} /\ Moves("renderer", "loading")
          /\ UNCHANGED <<temps, run, changes, faults>>
      BY <1>3 DEF StartRenderer, BeginLoading, files, environment
    <2>2. "loading" \in RendererPoints
      BY DEF RendererPoints
    <2>3. pc'["renderer"] = "loading" /\ pc'["service"] = pc["service"]
      BY <1>1, <2>1, <2>2
    <2>4. QED
      BY <1>0, <2>1, <2>2, <2>3, MoveRunInv DEF Begun
  <1>4. CASE StartService
    <2>1. Moves("service", "loading") /\ UNCHANGED <<temps, run, changes, faults>>
      BY <1>4 DEF StartService, BeginLoading, files, environment
    <2>2. "loading" \in ServicePoints
      BY DEF ServicePoints
    <2>3. pc'["service"] = "loading" /\ pc'["renderer"] = pc["renderer"]
      BY <1>2, <2>1, <2>2
    <2>4. QED
      BY <1>0, <2>1, <2>2, <2>3, MoveRunInv DEF Begun
  <1>5. CASE \E p \in Processes : FetchSucceeds(p) \/ FetchFails(p)
    <2>1. UNCHANGED <<pc, temps, run, changes, faults>>
      BY <1>5 DEF FetchSucceeds, FetchFails, files, environment
    <2>2. QED
      BY <1>0, <2>1, MoveRunInv DEF Begun
  <1>6. CASE \E p \in Processes : LoadFails(p)
    <2>1. PICK p \in Processes : LoadFails(p)
      BY <1>6
    <2>2. pc[p] = "loading" /\ Moves(p, "failed") /\ UNCHANGED <<temps, run, changes, faults>>
      BY <2>1 DEF LoadFails, Loaded, files, environment
    <2>3. "failed" \in RendererPoints /\ "failed" \in ServicePoints
      BY DEF RendererPoints, ServicePoints
    <2>4. CASE p = "renderer"
      <3>1. pc'["renderer"] = "failed" /\ pc'["service"] = pc["service"]
        BY <1>1, <2>2, <2>3, <2>4
      <3>2. QED
        BY <1>0, <2>2, <2>3, <2>4, <3>1, MoveRunInv DEF Begun
    <2>5. CASE p = "service"
      <3>1. pc'["service"] = "failed" /\ pc'["renderer"] = pc["renderer"]
        BY <1>2, <2>2, <2>3, <2>5
      <3>2. QED
        BY <1>0, <2>2, <2>3, <3>1, MoveRunInv DEF Begun
    <2>6. QED
      BY <2>4, <2>5 DEF Processes
  <1>7. CASE CompileConfig
    <2>1. /\ pc["renderer"] = "loading" /\ Moves("renderer", "compiled")
          /\ UNCHANGED <<temps, run, changes, faults>>
      BY <1>7 DEF CompileConfig, Loaded, files, environment
    <2>2. "compiled" \in RendererPoints
      BY DEF RendererPoints
    <2>3. pc'["renderer"] = "compiled" /\ pc'["service"] = pc["service"]
      BY <1>1, <2>1, <2>2
    <2>4. QED
      BY <1>0, <2>1, <2>2, <2>3, MoveRunInv DEF Begun
  <1>8. CASE CreateTemporary
    <2>1. /\ pc["renderer"] = "compiled" /\ Moves("renderer", "created")
          /\ run' = run + 1 /\ temps' = temps \cup {run + 1} /\ UNCHANGED <<changes, faults>>
      BY <1>8 DEF CreateTemporary, environment
    <2>2. "created" \in RendererPoints
      BY DEF RendererPoints
    <2>3. pc'["renderer"] = "created" /\ pc'["service"] = pc["service"]
      BY <1>1, <2>1, <2>2
    <2>4. ~Begun /\ Begun'
      BY <2>1, <2>3 DEF Begun
    <2>5. run \in Nat /\ faults \in Nat /\ run <= faults /\ temps \subseteq 1..run
      BY <2>4 DEF RunInv
    <2>6. run' \in Nat /\ run' <= faults' + 1 /\ temps' \subseteq 1..run'
      BY <2>1, <2>5
    <2>7. run' <= IF Begun' THEN faults' + 1 ELSE faults'
      BY <2>4, <2>6
    <2>8. changes' \in 0..MaxChanges /\ faults' \in 0..MaxFaults
      BY <2>1 DEF RunInv
    <2>9. QED
      BY <1>0, <2>2, <2>3, <2>6, <2>7, <2>8 DEF RunInv
  <1>9. CASE WriteTemporary
    <2>1. /\ pc["renderer"] = "created" /\ Moves("renderer", "written")
          /\ UNCHANGED <<temps, run, changes, faults>>
      BY <1>9 DEF WriteTemporary, files, environment
    <2>2. "written" \in RendererPoints
      BY DEF RendererPoints
    <2>3. pc'["renderer"] = "written" /\ pc'["service"] = pc["service"]
      BY <1>1, <2>1, <2>2
    <2>4. QED
      BY <1>0, <2>1, <2>2, <2>3, MoveRunInv DEF Begun
  <1>10. CASE Persist
    <2>1. /\ pc["renderer"] = "written" /\ Moves("renderer", "done")
          /\ temps' = temps \ {run} /\ UNCHANGED <<run, changes, faults>>
      BY <1>10 DEF Persist, environment
    <2>2. "done" \in RendererPoints
      BY DEF RendererPoints
    <2>3. pc'["renderer"] = "done" /\ pc'["service"] = pc["service"]
      BY <1>1, <2>1, <2>2
    <2>4. Begun /\ Begun'
      BY <2>1, <2>3 DEF Begun
    <2>5. run' <= IF Begun' THEN faults' + 1 ELSE faults'
      BY <2>1, <2>4 DEF RunInv
    <2>6. QED
      BY <1>0, <2>1, <2>2, <2>3, <2>5 DEF RunInv
  <1>11. CASE FileOperationFails
    <2>1. /\ faults < MaxFaults /\ faults' = faults + 1 /\ Moves("renderer", "failed")
          /\ UNCHANGED <<run, changes>> /\ temps' \subseteq temps
      BY <1>11 DEF FileOperationFails, DropTemporary
    <2>2. "failed" \in RendererPoints
      BY DEF RendererPoints
    <2>3. pc'["renderer"] = "failed" /\ pc'["service"] = pc["service"]
      BY <1>1, <2>1, <2>2
    <2>4. QED
      BY <1>0, <2>1, <2>2, <2>3, FaultRunInv DEF Begun
  <1>12. CASE StartSidecar
    BY <1>0, <1>12, MoveRunInv DEF StartSidecar, files, environment, Begun
  <1>13. CASE BuildFails \/ Serve
    <2>1. PICK point \in {"failed", "serving"} :
              Moves("service", point) /\ UNCHANGED <<temps, run, changes, faults>>
      BY <1>13 DEF BuildFails, Serve, files, environment
    <2>2. point \in ServicePoints
      BY DEF ServicePoints
    <2>3. pc'["service"] = point /\ pc'["renderer"] = pc["renderer"]
      BY <1>2, <2>1, <2>2
    <2>4. QED
      BY <1>0, <2>1, <2>2, <2>3, MoveRunInv DEF Begun
  <1>14. CASE UpstreamChanges
    <2>1. changes < MaxChanges /\ changes' = changes + 1 /\ UNCHANGED <<pc, temps, run, faults>>
      BY <1>14 DEF UpstreamChanges, files
    <2>2. changes' \in 0..MaxChanges
      BY <2>1, StartupAssumption DEF RunInv
    <2>3. QED
      BY <2>1, <2>2 DEF RunInv, Begun
  <1>15. CASE RendererCrashes
    <2>1. /\ faults < MaxFaults /\ faults' = faults + 1 /\ Moves("renderer", "absent")
          /\ UNCHANGED <<run, changes>> /\ temps' \subseteq temps
      BY <1>15 DEF RendererCrashes, Crash, files
    <2>2. "absent" \in RendererPoints
      BY DEF RendererPoints
    <2>3. pc'["renderer"] = "absent" /\ pc'["service"] = pc["service"]
      BY <1>1, <2>1, <2>2
    <2>4. QED
      BY <1>0, <2>1, <2>2, <2>3, FaultRunInv DEF Begun
  <1>16. CASE ServiceCrashes
    <2>1. /\ faults < MaxFaults /\ faults' = faults + 1 /\ Moves("service", "absent")
          /\ UNCHANGED <<run, changes>> /\ temps' \subseteq temps
      BY <1>16 DEF ServiceCrashes, Crash, files
    <2>2. "absent" \in ServicePoints
      BY DEF ServicePoints
    <2>3. pc'["service"] = "absent" /\ pc'["renderer"] = pc["renderer"]
      BY <1>2, <2>1, <2>2
    <2>4. QED
      BY <1>0, <2>1, <2>2, <2>3, FaultRunInv DEF Begun
  <1>17. CASE SidecarCrashes
    <2>1. /\ faults < MaxFaults /\ faults' = faults + 1
          /\ UNCHANGED <<pc, run, changes>> /\ temps' \subseteq temps
      BY <1>17 DEF SidecarCrashes, Crash, files
    <2>2. QED
      BY <1>0, <2>1, FaultRunInv DEF Begun
  <1>18. CASE Redeploy
    <2>1. /\ faults < MaxFaults /\ faults' = faults + 1 /\ pc' = [p \in Processes |-> "absent"]
          /\ UNCHANGED <<run, changes>> /\ temps' \subseteq temps
      BY <1>18 DEF Redeploy, Crash, files
    <2>2. "absent" \in RendererPoints /\ "absent" \in ServicePoints
      BY DEF RendererPoints, ServicePoints
    <2>3. pc'["renderer"] = "absent" /\ pc'["service"] = "absent"
      BY <1>0, <2>1
    <2>4. QED
      BY <2>1, <2>2, <2>3, FaultRunInv DEF Begun
  <1>19. CASE UNCHANGED vars
    BY <1>0, <1>19, MoveRunInv DEF vars, Begun
  <1>20. QED
    BY <1>3, <1>4, <1>5, <1>6, <1>7, <1>8, <1>9, <1>10, <1>11, <1>12, <1>13, <1>14, <1>15,
       <1>16, <1>17, <1>18, <1>19 DEF Next, Progress, Up

\* Every variable keeps its type.  A render run past the first takes a fault,
\* and temporary files are named by runs that were begun.
THEOREM TypeCorrect == Spec => []TypeOK
  <1>1. Init => RunInv
    <2> SUFFICES ASSUME Init PROVE RunInv
      OBVIOUS
    <2>1. pc["renderer"] = "absent" /\ pc["service"] = "absent"
      BY DEF Init, Processes
    <2>2. ~Begun
      BY <2>1 DEF Begun
    <2>3. QED
      BY <2>1, <2>2, StartupAssumption DEF Init, RunInv, RendererPoints, ServicePoints
  <1>2. Spec => []RunInv
    BY <1>1, InductiveInvariant, NextRunInv, PTL DEF Spec
  <1>3. IInv /\ RunInv => TypeOK
    <2> SUFFICES ASSUME IInv, RunInv PROVE TypeOK
      OBVIOUS
    <2>1. reviewed \in Reviewed /\ upstream \in Catalogs \cup {Nothing}
      BY DEF IInv, ShapeInv
    <2>2. \A p \in Processes : sources[p] \subseteq DOMAIN reviewed /\ DOMAIN registry[p] = DOMAIN reviewed
      BY DEF IInv, RegistryInv, LoadInv, RegistryExtends
    <2>3. run \in 0..(1 + MaxFaults)
      <3>1. run \in Nat /\ faults \in 0..MaxFaults /\ run <= faults + 1
        BY DEF RunInv
      <3>2. QED
        BY <3>1, StartupAssumption
    <2>4. QED
      BY <2>1, <2>2, <2>3 DEF RunInv, TypeOK
  <1>4. QED
    BY <1>2, <1>3, InductiveInvariant, PTL

=============================================================================
