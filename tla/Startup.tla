-------------------------------- MODULE Startup --------------------------------
(***************************************************************************)
(* Bringing up a pod: the init container renders the sidecar's             *)
(* configuration (main.rs dispatch, deployment.rs), the sidecar loads it,  *)
(* and the service builds its own tables (main.rs run_service).  Renderer  *)
(* and service load the registry through the same code, each with its own  *)
(* requests to the upstream catalogs, which may change or fail in between. *)
(* Containers crash and are restarted.                                     *)
(***************************************************************************)
EXTENDS Registry

CONSTANTS
    Reviewed,     \* contents of providers.yaml
    Catalogs,     \* catalogs the upstream may publish
    MaxChanges,   \* bound on the upstream's changes
    MaxFaults     \* bound on crashes and failed file operations

VARIABLES
    reviewed,    \* the registry file
    upstream,    \* the published catalog, Nothing while it is unreachable
    pc,          \* program points of renderer and service
    registry,    \* the registry each has loaded so far
    sources,     \* providers whose catalogs each has still to fetch
    temps,       \* temporary files, named by the render run that made them
    run,         \* the number of the render run
    file,        \* what is at the output path
    sidecar,     \* the configuration the sidecar runs with
    changes,
    faults

vars == <<reviewed, upstream, pc, registry, sources, temps, run, file, sidecar,
          changes, faults>>

Processes == {"renderer", "service"}

RendererPoints == {"absent", "loading", "compiled", "created", "written", "done", "failed"}

ServicePoints == {"absent", "loading", "serving", "failed"}

\* run_service gets through: Registry::validate, Catalog::from_registry,
\* PriceTable::from_registry and RoutingPolicy::from_registry.
Builds(r) == Validate(r) /\ ~CatalogPanics(r) /\ PriceTableBuilds(r) /\ RoutesBuild(r)

ASSUME StartupAssumption ==
    /\ Reviewed \subseteq Seq(Provider)
    /\ \A r \in Reviewed : Builds(r)
    /\ Catalogs \subseteq Seq(CatalogModel)
    /\ Nothing \notin Catalogs
    /\ MaxChanges \in Nat /\ MaxFaults \in Nat

Init ==
    /\ reviewed \in Reviewed
    /\ upstream \in Catalogs \cup {Nothing}
    /\ pc = [p \in Processes |-> "absent"]
    /\ registry = [p \in Processes |-> reviewed]
    /\ sources = [p \in Processes |-> {}]
    /\ temps = {}
    /\ run = 0
    /\ file = Nothing
    /\ sidecar = Nothing
    /\ changes = 0
    /\ faults = 0

files == <<temps, run, file>>

environment == <<upstream, changes, faults>>

-----------------------------------------------------------------------------
(* load_registry                                                           *)

BeginLoading(p) ==
    /\ pc' = [pc EXCEPT ![p] = "loading"]
    /\ registry' = [registry EXCEPT ![p] = reviewed]
    /\ sources' = [sources EXCEPT ![p] = CatalogSources(reviewed)]

StartRenderer ==
    /\ pc["renderer"] \in {"absent", "failed"}
    /\ BeginLoading("renderer")
    /\ UNCHANGED <<reviewed, files, sidecar, environment>>

\* Init containers finish before the others start.
StartService ==
    /\ pc["service"] \in {"absent", "failed"}
    /\ pc["renderer"] = "done"
    /\ BeginLoading("service")
    /\ UNCHANGED <<reviewed, files, sidecar, environment>>

\* The catalogs are fetched in the order of the registry.
NextSource(p, i) ==
    /\ pc[p] = "loading"
    /\ \A j \in sources[p] : i <= j
    /\ sources' = [sources EXCEPT ![p] = @ \ {i}]

FetchSucceeds(p) ==
    /\ upstream # Nothing
    /\ \E i \in sources[p] :
           /\ NextSource(p, i)
           /\ registry' = [registry EXCEPT ![p] =
                              HydrateProvider(@, @[i].id, MappingsFromCatalog(upstream))]
    /\ UNCHANGED <<reviewed, pc, files, sidecar, environment>>

\* Mutant: a catalog that cannot be fetched ends the start.
FetchIsFatal(p) ==
    /\ upstream = Nothing
    /\ \E i \in sources[p] : NextSource(p, i)
    /\ pc' = [pc EXCEPT ![p] = "failed"]
    /\ UNCHANGED <<reviewed, registry, files, sidecar, environment>>

\* An error is logged and the reviewed coverage stands.
FetchFails(p) ==
    /\ upstream = Nothing
    /\ \E i \in sources[p] : NextSource(p, i)
    /\ UNCHANGED <<reviewed, pc, registry, files, sidecar, environment>>

Loaded(p) == pc[p] = "loading" /\ sources[p] = {}

\* Validation comes after hydration.
LoadFails(p) ==
    /\ Loaded(p)
    /\ ~Validate(registry[p])
    /\ pc' = [pc EXCEPT ![p] = "failed"]
    /\ UNCHANGED <<reviewed, registry, sources, files, sidecar, environment>>

-----------------------------------------------------------------------------
(* write_sidecar_config                                                    *)

CompileConfig ==
    /\ Loaded("renderer")
    /\ Validate(registry["renderer"])
    /\ pc' = [pc EXCEPT !["renderer"] = "compiled"]
    /\ UNCHANGED <<reviewed, registry, sources, files, sidecar, environment>>

\* TemporaryOutput::create, under a new name.
CreateTemporary ==
    /\ pc["renderer"] = "compiled"
    /\ pc' = [pc EXCEPT !["renderer"] = "created"]
    /\ run' = run + 1
    /\ temps' = temps \cup {run + 1}
    /\ UNCHANGED <<reviewed, registry, sources, file, sidecar, environment>>

\* Mutant: the output itself is opened and written.
WriteInPlace ==
    /\ pc["renderer"] = "created"
    /\ pc' = [pc EXCEPT !["renderer"] = "written"]
    /\ file' = [BuildConfig(registry["renderer"]) EXCEPT !.models = {}]
    /\ UNCHANGED <<reviewed, registry, sources, temps, run, sidecar, environment>>

\* write_all and sync_all
WriteTemporary ==
    /\ pc["renderer"] = "created"
    /\ pc' = [pc EXCEPT !["renderer"] = "written"]
    /\ UNCHANGED <<reviewed, registry, sources, files, sidecar, environment>>

Persist ==
    /\ pc["renderer"] = "written"
    /\ pc' = [pc EXCEPT !["renderer"] = "done"]
    /\ file' = BuildConfig(registry["renderer"])
    /\ temps' = temps \ {run}
    /\ UNCHANGED <<reviewed, registry, sources, run, sidecar, environment>>

\* Drop for TemporaryOutput
DropTemporary == temps' = temps \ {run}

\* Creating, writing or renaming returns an error.
FileOperationFails ==
    /\ pc["renderer"] \in {"compiled", "created", "written"}
    /\ faults < MaxFaults
    /\ faults' = faults + 1
    /\ pc' = [pc EXCEPT !["renderer"] = "failed"]
    /\ IF pc["renderer"] = "compiled" THEN UNCHANGED temps ELSE DropTemporary
    /\ UNCHANGED <<reviewed, registry, sources, run, file, sidecar, upstream, changes>>

-----------------------------------------------------------------------------
(* The sidecar (external) and run_service.                                 *)

StartSidecar ==
    /\ sidecar = Nothing
    /\ pc["renderer"] = "done"
    /\ sidecar' = file
    /\ UNCHANGED <<reviewed, pc, registry, sources, files, environment>>

BuildFails ==
    /\ Loaded("service")
    /\ Validate(registry["service"])
    /\ ~Builds(registry["service"])
    /\ pc' = [pc EXCEPT !["service"] = "failed"]
    /\ UNCHANGED <<reviewed, registry, sources, files, sidecar, environment>>

Serve ==
    /\ Loaded("service")
    /\ Builds(registry["service"])
    /\ pc' = [pc EXCEPT !["service"] = "serving"]
    /\ UNCHANGED <<reviewed, registry, sources, files, sidecar, environment>>

-----------------------------------------------------------------------------
(* The environment.                                                        *)

UpstreamChanges ==
    /\ changes < MaxChanges
    /\ changes' = changes + 1
    /\ upstream' \in (Catalogs \cup {Nothing}) \ {upstream}
    /\ UNCHANGED <<reviewed, pc, registry, sources, files, sidecar, faults>>

Crash ==
    /\ faults < MaxFaults
    /\ faults' = faults + 1
    /\ UNCHANGED <<reviewed, registry, sources, files, upstream, changes>>

RendererCrashes ==
    /\ pc["renderer"] \in {"loading", "compiled", "created", "written"}
    /\ Crash
    /\ pc' = [pc EXCEPT !["renderer"] = "absent"]
    /\ UNCHANGED sidecar

ServiceCrashes ==
    /\ pc["service"] \in {"loading", "serving"}
    /\ Crash
    /\ pc' = [pc EXCEPT !["service"] = "absent"]
    /\ UNCHANGED sidecar

SidecarCrashes ==
    /\ sidecar # Nothing
    /\ Crash
    /\ sidecar' = Nothing
    /\ UNCHANGED pc

\* All containers are started again, the init container first, on the same
\* volume: the configuration is rendered anew over the old one.
Redeploy ==
    /\ pc["renderer"] = "done"
    /\ Crash
    /\ pc' = [p \in Processes |-> "absent"]
    /\ sidecar' = Nothing

\* Up, with nothing left to happen but what the bounds exclude.
Up ==
    /\ pc["service"] = "serving"
    /\ sidecar # Nothing
    /\ UNCHANGED vars

Progress ==
    \/ StartRenderer
    \/ StartService
    \/ \E p \in Processes : FetchSucceeds(p) \/ FetchFails(p) \/ LoadFails(p)
    \/ CompileConfig
    \/ CreateTemporary
    \/ WriteTemporary
    \/ Persist
    \/ StartSidecar
    \/ BuildFails
    \/ Serve

Next ==
    \/ Progress
    \/ FileOperationFails
    \/ UpstreamChanges
    \/ RendererCrashes
    \/ ServiceCrashes
    \/ SidecarCrashes
    \/ Redeploy
    \/ Up

Spec == Init /\ [][Next]_vars

\* The kubelet starts and restarts containers, a fetch ends by its timeout.
Fairness ==
    /\ WF_vars(StartRenderer) /\ WF_vars(StartService) /\ WF_vars(StartSidecar)
    /\ \A p \in Processes : WF_vars(FetchSucceeds(p) \/ FetchFails(p)) /\ WF_vars(LoadFails(p))
    /\ WF_vars(CompileConfig) /\ WF_vars(CreateTemporary) /\ WF_vars(WriteTemporary)
    /\ WF_vars(Persist) /\ WF_vars(BuildFails) /\ WF_vars(Serve)

FairSpec == Spec /\ Fairness

-----------------------------------------------------------------------------
(* Properties.                                                             *)

Serving == pc["service"] = "serving"

Live == registry["service"]

\* Every variable has its type; each render run has a temporary file of its own.
TypeOK ==
    /\ reviewed \in Reviewed
    /\ upstream \in Catalogs \cup {Nothing}
    /\ pc["renderer"] \in RendererPoints /\ pc["service"] \in ServicePoints
    /\ \A p \in Processes : sources[p] \subseteq DOMAIN reviewed /\ DOMAIN registry[p] = DOMAIN reviewed
    /\ temps \subseteq 1..run
    /\ run \in 0..(1 + MaxFaults)
    /\ changes \in 0..MaxChanges /\ faults \in 0..MaxFaults

\* However the upstream changes between the two fetches, what was reviewed is
\* served as reviewed: its price is in the price table, every profile of its
\* provider lists it and routes it to that provider at that price, and the
\* sidecar has its route, to the reviewed target (hydrate_provider,
\* RoutingPolicy::from_registry, write_sidecar_config).
ReviewedIsServed ==
    (Serving /\ sidecar # Nothing) =>
        \A o \in Offers(reviewed) :
            /\ PricesFor(Live, o.provider.id, o.mapping.slug) = {PriceOf(o.mapping)}
            /\ \A profile \in o.provider.profiles :
                   /\ o.mapping.slug \in DOMAIN Snapshot(Live, profile)
                   /\ [profile |-> profile, slug |-> o.mapping.slug,
                       provider |-> o.provider.id, prices |-> PriceOf(o.mapping)]
                          \in RouteTable(Live)
            /\ \E route \in sidecar.models :
                   /\ route.name = RouteName(o.provider.id, o.mapping.slug)
                   /\ route.target = o.mapping.target
                   /\ route.served = o.provider.id

\* Catalog, route table and price table, built by three loops over the
\* registry, agree: in each profile the slugs listed are the slugs routed,
\* with the same providers at the same prices, and the row of a slug shows the
\* cheapest of its endpoints (CatalogSnapshot::from_registry,
\* RoutingPolicy::from_registry, PriceTable::from_registry).
TablesAgree ==
    Serving =>
        \A profile \in Profiles :
            LET snapshot == Snapshot(Live, profile)
                routes == {r \in RouteTable(Live) : r.profile = profile}
            IN  /\ DOMAIN snapshot = {r.slug : r \in routes}
                /\ \A slug \in DOMAIN snapshot :
                       LET row == snapshot[slug]
                       IN  /\ row.endpoints = {[provider |-> r.provider, prices |-> r.prices] :
                                                  r \in {r \in routes : r.slug = slug}}
                           /\ \A e \in row.endpoints :
                                  /\ PricesFor(Live, e.provider, slug) = {e.prices}
                                  /\ row.row.input + row.row.output <= e.prices.input + e.prices.output
                           /\ row.row \in {e.prices : e \in row.endpoints}

\* At every moment, a render run over an old configuration and its crash
\* included, the output path is empty or holds a whole configuration: every
\* reviewed mapping has its route and every failover target is a route
\* (write_sidecar_config).
OutputIsWhole ==
    file # Nothing =>
        LET names == {route.name : route \in file.models}
        IN  /\ \A o \in Offers(reviewed) : RouteName(o.provider.id, o.mapping.slug) \in names
            /\ \A v \in file.virtual : \A t \in v.targets : t.model \in names

\* Whatever the upstream published before, and whatever crashed, once it stays
\* unreachable the service comes up beside its sidecar and stays up.
ComesUpWithoutUpstream ==
    <>[](upstream = Nothing) => <>[](Serving /\ sidecar # Nothing)

\* "a slug that is advertised and routed always has a matching generated
\* sidecar route" (main.rs, load_registry).
RoutedHasSidecarRoute ==
    (Serving /\ sidecar # Nothing) =>
        \A r \in RouteTable(Live) :
            RouteName(r.provider, r.slug) \in {route.name : route \in sidecar.models}

\* "every routable model must carry a Decimal rate so the `usage.cost` money
\* path always has its defined fallback" (upstream_catalog.rs, fetch_catalog):
\* the rate is found for every route a request can be served by.
RoutedIsPriced ==
    Serving => \A r \in RouteTable(Live) : PricesForRequest(Live, r.slug, r.provider) # {}

================================================================================
