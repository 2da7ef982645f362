------------------------------ MODULE ModelNames ------------------------------
(***************************************************************************)
(* Several Instances on one AI Gateway: Validate refuses an Instance whose   *)
(* model name another route already serves (validateAIGatewayAccess,         *)
(* aigateway.go), Sync then writes or deletes the Instance's own route       *)
(* (syncLLM and syncAIGateway, cleanupAIGateway): a check-then-act.  The     *)
(* check lists unstructured objects, which the client of controller-runtime  *)
(* reads from the API server unless the runtime that builds it says          *)
(* otherwise; the runtime is not in this repository, so both are modelled    *)
(* (live).  One worker reconciles one Instance at a time (the default of the *)
(* runtime); the route of Instance i is routes[i].                           *)
(***************************************************************************)
EXTENDS GatewayKeys, Sequences

CONSTANTS
    Instances,      \* names <<namespace, name>>
    Models,         \* served model names
    MaxLag,         \* bound: route events the cache may be behind
    MaxEdits        \* bound: edits by users, restarts included

ASSUME LagAssumption == MaxLag \in Nat \ {0} /\ MaxEdits \in Nat
ASSUME ModelsAssumption == Models # {} /\ "" \notin Models

VARIABLES
    spec,       \* [Instances -> [exists, exposed, model]], the Instances as stored
    routes,     \* API server: the routes that exist, a function on names
    cRoutes,    \* informer cache of the routes
    watch,      \* snapshots the cache has not seen yet
    failed,     \* Instances whose last Validate refused them
    queued,     \* Instances in the work queue
    pc, run,    \* next step of the worker; [instance, spec, seen]
    edits,
    live        \* does the client list routes from the API server (its default for unstructured
                \* objects), or from the informer's cache?

vars == <<spec, routes, cRoutes, watch, failed, queued, pc, run, edits, live>>

NoRoutes == [r \in {} |-> ""]
NoInstance == [exists |-> FALSE, exposed |-> FALSE, model |-> CHOOSE m \in Models : TRUE]
NoRun == [instance |-> <<"", "">>, spec |-> NoInstance, seen |-> NoRoutes]

\* Mutant: the Gateway's namespace is left to default to the route's.
buildAIGatewayRouteMutant(model) ==
    [parents |-> {[name |-> GatewayName, namespace |-> "", kind |-> "Gateway"]},
     headers |-> {[name |-> ModelHeader, type |-> "Exact", value |-> model]}]

buildAIGatewayRoute(model) ==
    [parents |-> {[name |-> GatewayName, namespace |-> GatewayNamespace, kind |-> "Gateway"]},
     headers |-> {[name |-> ModelHeader, type |-> "Exact", value |-> model]}]

Serves(rs, i, model) ==
    /\ i \in DOMAIN rs
    /\ routeAttachedToGateway(i[1], rs[i])
    /\ model \in aiGatewayRouteModels(rs[i])

-----------------------------------------------------------------------------
(* The API server, the watch, and the users. *)

StoreRoutes(new) ==
    /\ routes' = new
    /\ IF new = routes
       THEN UNCHANGED watch
       ELSE Len(watch) < MaxLag /\ watch' = Append(watch, new)

DeliverRoute ==
    /\ watch # <<>>
    /\ watch' = Tail(watch)
    /\ cRoutes' = Head(watch)
    /\ queued' = queued \cup {i \in Instances : i \in DOMAIN cRoutes \cup DOMAIN cRoutes'
                                /\ (i \in DOMAIN cRoutes /\ i \in DOMAIN cRoutes'
                                    => cRoutes[i] # cRoutes'[i])}
    /\ UNCHANGED <<spec, routes, failed, pc, run, edits, live>>

Edit == edits < MaxEdits /\ edits' = edits + 1

\* A user creates an Instance, renames its model or changes its access mode.  A
\* name is taken up again only after the old Instance's route was collected.
WriteInstance(i) ==
    /\ Edit /\ (spec[i].exists \/ i \notin DOMAIN routes)
    /\ \E exposed \in BOOLEAN, model \in Models :
          spec' = [spec EXCEPT ![i] = [exists |-> TRUE, exposed |-> exposed, model |-> model]]
    /\ queued' = queued \cup {i}
    /\ UNCHANGED <<routes, cRoutes, watch, failed, pc, run, live>>

\* The worker's Cleanup and the end of the finalizer: the route is left to its
\* owner reference.
DeleteInstance(i) ==
    /\ Edit /\ spec[i].exists /\ pc = "idle"
    /\ spec' = [spec EXCEPT ![i] = NoInstance]
    /\ failed' = failed \ {i} /\ queued' = queued \ {i}
    /\ UNCHANGED <<routes, cRoutes, watch, pc, run, live>>

CollectRoute(i) ==
    /\ ~spec[i].exists /\ i \in DOMAIN routes
    /\ StoreRoutes([r \in DOMAIN routes \ {i} |-> routes[r]])
    /\ UNCHANGED <<spec, cRoutes, failed, queued, pc, run, edits, live>>

\* A failed reconcile comes back, and so does every Instance on a resync.
Resync(i) ==
    /\ spec[i].exists /\ i \notin queued
    /\ queued' = queued \cup {i}
    /\ UNCHANGED <<spec, routes, cRoutes, watch, failed, pc, run, edits, live>>

Restart ==
    /\ Edit
    /\ cRoutes' = routes /\ watch' = <<>>
    /\ queued' = {i \in Instances : spec[i].exists}
    /\ pc' = "idle" /\ run' = NoRun
    /\ UNCHANGED <<spec, routes, failed, live>>

-----------------------------------------------------------------------------
(* The reconcile. *)

Start(i) ==
    /\ pc = "idle" /\ i \in queued
    /\ queued' = queued \ {i}
    /\ run' = [NoRun EXCEPT !.instance = i, !.spec = spec[i]]
    /\ pc' = IF spec[i].exposed THEN "validate" ELSE "delete"
    /\ UNCHANGED <<spec, routes, cRoutes, watch, failed, edits, live>>

\* Mutant: an Instance is told apart by its name alone.
NameTakenMutant(rs, i, model) == \E j \in DOMAIN rs : j[2] # i[2] /\ Serves(rs, j, model)

\* Does a route other than i's own serve the model?
NameTaken(rs, i, model) == \E j \in DOMAIN rs : j # i /\ Serves(rs, j, model)

Listed == IF live THEN routes ELSE cRoutes

\* Mutant: an Instance that has its route already is not checked again.
validateAIGatewayAccessMutant ==
    /\ pc = "validate"
    /\ IF run.instance \notin DOMAIN Listed /\ NameTaken(Listed, run.instance, run.spec.model)
       THEN /\ failed' = failed \cup {run.instance}
            /\ pc' = "idle" /\ run' = NoRun
       ELSE /\ failed' = failed \ {run.instance}
            /\ pc' = "route" /\ run' = [run EXCEPT !.seen = Listed]
    /\ UNCHANGED <<spec, routes, cRoutes, watch, queued, edits, live>>

\* run.seen records what was listed; the code keeps none of it.
validateAIGatewayAccess ==
    /\ pc = "validate"
    /\ IF NameTaken(Listed, run.instance, run.spec.model)
       THEN /\ failed' = failed \cup {run.instance}
            /\ pc' = "idle" /\ run' = NoRun
       ELSE /\ failed' = failed \ {run.instance}
            /\ pc' = "route" /\ run' = [run EXCEPT !.seen = Listed]
    /\ UNCHANGED <<spec, routes, cRoutes, watch, queued, edits, live>>

ApplyRoute ==
    /\ pc = "route"
    /\ StoreRoutes([r \in DOMAIN routes \cup {run.instance} |->
                      IF r = run.instance THEN buildAIGatewayRoute(run.spec.model) ELSE routes[r]])
    /\ pc' = "idle" /\ run' = NoRun
    /\ UNCHANGED <<spec, cRoutes, failed, queued, edits, live>>

\* Mutant: a refused Instance that leaves the Gateway keeps its route.
cleanupAIGatewayMutant ==
    /\ pc = "delete"
    /\ IF run.instance \in failed
       THEN UNCHANGED <<routes, watch>>
       ELSE StoreRoutes([r \in DOMAIN routes \ {run.instance} |-> routes[r]])
    /\ pc' = "idle" /\ run' = NoRun
    /\ UNCHANGED <<spec, cRoutes, failed, queued, edits, live>>

\* Another access mode (Validate has nothing to refuse then).
cleanupAIGateway ==
    /\ pc = "delete"
    /\ StoreRoutes([r \in DOMAIN routes \ {run.instance} |-> routes[r]])
    /\ failed' = failed \ {run.instance}
    /\ pc' = "idle" /\ run' = NoRun
    /\ UNCHANGED <<spec, cRoutes, queued, edits, live>>

WriteFails ==
    /\ pc \in {"route", "delete"}
    /\ queued' = queued \cup ({run.instance} \cap {i \in Instances : spec[i].exists})
    /\ pc' = "idle" /\ run' = NoRun
    /\ UNCHANGED <<spec, routes, cRoutes, watch, failed, edits, live>>

-----------------------------------------------------------------------------
Init ==
    /\ spec = [i \in Instances |-> NoInstance]
    /\ routes = NoRoutes /\ cRoutes = NoRoutes /\ watch = <<>>
    /\ failed = {} /\ queued = {} /\ pc = "idle" /\ run = NoRun
    /\ edits = 0 /\ live \in BOOLEAN

Reconcile == validateAIGatewayAccess \/ ApplyRoute \/ cleanupAIGateway

Next ==
    \/ \E i \in Instances :
          WriteInstance(i) \/ DeleteInstance(i) \/ CollectRoute(i) \/ Resync(i) \/ Start(i)
    \/ DeliverRoute \/ Restart \/ Reconcile \/ WriteFails

Spec == Init /\ [][Next]_vars

\* The queue is fair to every Instance, calls that are retried succeed some day,
\* the watch delivers and owner references are collected.
FairSpec ==
    /\ Spec
    /\ WF_vars(DeliverRoute) /\ WF_vars(validateAIGatewayAccess)
    /\ \A i \in Instances :
          /\ WF_vars(CollectRoute(i)) /\ WF_vars(Resync(i)) /\ SF_vars(Start(i))
          /\ SF_vars(run.instance = i /\ ApplyRoute)
          /\ SF_vars(run.instance = i /\ cleanupAIGateway)

-----------------------------------------------------------------------------
(* Properties. *)

IsRoutes(rs) ==
    /\ DOMAIN rs \subseteq Instances
    /\ \A r \in DOMAIN rs : \E m \in Models : {n \in Models : Serves(rs, r, n)} = {m}

\* The route the provider builds is one that its own readers understand: wherever
\* it is seen, it is attached to the Gateway and serves exactly one name.
TypeOK ==
    /\ spec \in [Instances -> [exists : BOOLEAN, exposed : BOOLEAN, model : Models]]
    /\ IsRoutes(routes) /\ IsRoutes(cRoutes)
    /\ \A k \in DOMAIN watch : IsRoutes(watch[k])
    /\ failed \subseteq Instances /\ queued \subseteq Instances
    /\ pc \in {"idle", "validate", "route", "delete"}
    /\ edits \in 0 .. MaxEdits /\ live \in BOOLEAN

\* "A model name maps to exactly one route" (validateAIGatewayAccess): with lists from
\* the API server no two routes ever serve one name, whatever is renamed, refused,
\* deleted or restarted between the check and the write.
OneRoutePerModel ==
    live => \A i, j \in DOMAIN routes : \A m \in Models :
                Serves(routes, i, m) /\ Serves(routes, j, m) => i = j

\* A step makes a name served twice only when the list that Validate went by did not
\* show the other route, as one from a cache may: the check itself never lets a
\* duplicate through.
CollisionsOnlyFromLag ==
    [][\A i, j \in Instances : \A m \in Models :
          /\ i # j /\ Serves(routes', i, m) /\ Serves(routes', j, m)
          /\ ~Serves(routes, i, m)
          => run.instance = i /\ ~Serves(run.seen, j, m)]_vars

Wants(i, m) == spec[i].exists /\ spec[i].exposed /\ spec[i].model = m

\* A duplicate that slipped through does not stay silent: Instances that go on
\* asking for one name, with both routes in place, are all refused in the end.
Duplicate(i, j) ==
    \E m \in Models : /\ Wants(i, m) /\ Wants(j, m)
                      /\ Serves(routes, i, m) /\ Serves(routes, j, m)
CollisionIsReported ==
    \A i, j \in Instances : i # j => (<>[]Duplicate(i, j) => <>[](i \in failed))

\* A name nobody else asks for, and that no other Instance holds on to while it
\* asks for something else, is served in the end: a name given up (another access
\* mode, another model, a deleted Instance) comes free.
NameIsFree(i) ==
    /\ spec[i].exists /\ spec[i].exposed
    /\ \A j \in Instances \ {i} :
          /\ ~Wants(j, spec[i].model)
          /\ spec[j].exposed => ~Serves(routes, j, spec[i].model)
Published(i) == Serves(routes, i, spec[i].model) /\ i \notin failed
FreeNameIsServed == \A i \in Instances : <>[]NameIsFree(i) => <>[]Published(i)

\* "Another Instance on the Gateway uses the same modelName; pick a unique one"
\* (docs/ai-gateway-setup.md): an Instance whose name no other Instance asks for is
\* served in the end.  Two Instances that swap their names block each other, also with
\* lists from the API server.
UniqueName(i) ==
    /\ spec[i].exists /\ spec[i].exposed
    /\ \A j \in Instances \ {i} : ~Wants(j, spec[i].model)
UniqueNameIsServed == live => \A i \in Instances : <>[]UniqueName(i) => <>[]Published(i)
=============================================================================
