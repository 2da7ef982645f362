---------------------------- MODULE ModelNamesProofs ----------------------------
(***************************************************************************)
(* Theorems about the uniqueness check, for every set of Instances and model  *)
(* names, every lag of the cache, every number of edits and both ways in      *)
(* which the client may list.                                                *)
(***************************************************************************)
EXTENDS ModelNames, SequenceTheorems, TLAPS

-----------------------------------------------------------------------------
(* The built route and its readers. *)

LEMMA BuiltModels ==
    ASSUME NEW m
    PROVE  aiGatewayRouteModels(buildAIGatewayRoute(m)) = {m} \ {""}
<1> DEFINE h == [name |-> ModelHeader, type |-> "Exact", value |-> m]
           matching == {x \in {h} : /\ x.name = ModelHeader
                                    /\ x.type \in {"", "Exact"}
                                    /\ x.value # ""}
<1>1. aiGatewayRouteModels(buildAIGatewayRoute(m)) = {x.value : x \in matching}
  BY DEF aiGatewayRouteModels, buildAIGatewayRoute
<1>2. h.name = ModelHeader /\ h.type = "Exact" /\ h.value = m
  OBVIOUS
<1> HIDE DEF h
<1>3. matching = {x \in {h} : m # ""}
  BY <1>2
<1> HIDE DEF matching
<1> QED
  BY <1>1, <1>2, <1>3

LEMMA BuiltAttached ==
    ASSUME GatewayNamespace # "", NEW m, NEW ns
    PROVE  routeAttachedToGateway(ns, buildAIGatewayRoute(m))
  BY DEF routeAttachedToGateway, buildAIGatewayRoute

\* A write of the routes as the provider makes it.
WithRoute(i, m) ==
    [r \in DOMAIN routes \cup {i} |-> IF r = i THEN buildAIGatewayRoute(m) ELSE routes[r]]
WithoutRoute(i) == [r \in DOMAIN routes \ {i} |-> routes[r]]

LEMMA OnlyOwnRoute ==
    ASSUME NEW i, NEW model, NEW j, NEW m, Serves(WithRoute(i, model), j, m), ~Serves(routes, j, m)
    PROVE  j = i /\ m = model
<1>1. j = i
  BY DEF Serves, WithRoute
<1>2. m \in aiGatewayRouteModels(buildAIGatewayRoute(model))
  BY <1>1 DEF Serves, WithRoute
<1> QED
  BY <1>1, <1>2, BuiltModels

LEMMA NoNewRoute ==
    ASSUME NEW i, NEW j, NEW m, Serves(WithoutRoute(i), j, m)
    PROVE  Serves(routes, j, m)
  BY DEF Serves, WithoutRoute

-----------------------------------------------------------------------------
(* Collisions. *)

\* Between the check and the write the worker remembers a list in which its name
\* was free.
SawNameFree ==
    /\ run = [instance |-> run.instance, spec |-> run.spec, seen |-> run.seen]
    /\ pc = "route" => ~NameTaken(run.seen, run.instance, run.spec.model)

LEMMA InitSaw == Init => SawNameFree
  BY DEF Init, SawNameFree, NoRun

LEMMA NextSaw == SawNameFree /\ [Next]_vars => SawNameFree'
<1> SUFFICES ASSUME SawNameFree, [Next]_vars PROVE SawNameFree'
  OBVIOUS
<1>1. CASE UNCHANGED <<pc, run>>
  BY <1>1 DEF SawNameFree, NameTaken
<1>2. CASE run' = NoRun /\ pc' = "idle"
  BY <1>2 DEF SawNameFree, NoRun
<1>3. ASSUME NEW i \in Instances, Start(i) PROVE SawNameFree'
  BY <1>3 DEF Start, SawNameFree, NoRun
<1>4. CASE validateAIGatewayAccess
  <2>1. CASE NameTaken(Listed, run.instance, run.spec.model)
    BY <1>2, <1>4, <2>1 DEF validateAIGatewayAccess
  <2>2. CASE ~NameTaken(Listed, run.instance, run.spec.model)
    <3>1. run' = [instance |-> run.instance, spec |-> run.spec, seen |-> Listed]
      BY <1>4, <2>2 DEF validateAIGatewayAccess, SawNameFree
    <3> QED
      BY <2>2, <3>1 DEF SawNameFree, NameTaken
  <2> QED
    BY <2>1, <2>2
<1>5. ASSUME NEW i \in Instances,
             WriteInstance(i) \/ DeleteInstance(i) \/ CollectRoute(i) \/ Resync(i)
      PROVE  SawNameFree'
  BY <1>1, <1>5 DEF WriteInstance, DeleteInstance, CollectRoute, Resync
<1>6. CASE DeliverRoute \/ UNCHANGED vars
  BY <1>1, <1>6 DEF DeliverRoute, vars
<1>7. CASE Restart \/ ApplyRoute \/ cleanupAIGateway \/ WriteFails
  BY <1>2, <1>7 DEF Restart, ApplyRoute, cleanupAIGateway, WriteFails
<1> QED
  BY <1>3, <1>4, <1>5, <1>6, <1>7 DEF Next, Reconcile

LEMMA Collision ==
    ASSUME SawNameFree, [Next]_vars,
           NEW i \in Instances, NEW j \in Instances, NEW m \in Models, i # j,
           Serves(routes', i, m), ~Serves(routes, i, m)
    PROVE  run.instance = i /\ ~Serves(run.seen, j, m)
<1>1. CASE routes' = routes
  BY <1>1
<1>2. ASSUME NEW r, routes' = WithoutRoute(r) PROVE FALSE
  BY <1>2, NoNewRoute
<1>3. CASE ApplyRoute
  <2>1. routes' = WithRoute(run.instance, run.spec.model)
    BY <1>3 DEF ApplyRoute, StoreRoutes, WithRoute
  <2>2. i = run.instance /\ m = run.spec.model
    BY <2>1, OnlyOwnRoute
  <2>3. ~NameTaken(run.seen, i, m)
    BY <1>3, <2>2 DEF ApplyRoute, SawNameFree
  <2> QED
    BY <2>2, <2>3 DEF NameTaken, Serves
<1>4. CASE cleanupAIGateway
  BY <1>2, <1>4 DEF cleanupAIGateway, StoreRoutes, WithoutRoute
<1>5. ASSUME NEW r \in Instances, CollectRoute(r) PROVE FALSE
  BY <1>2, <1>5 DEF CollectRoute, StoreRoutes, WithoutRoute
<1>6. ASSUME NEW r \in Instances, WriteInstance(r) \/ DeleteInstance(r) \/ Resync(r) \/ Start(r)
      PROVE  routes' = routes
  BY <1>6 DEF WriteInstance, DeleteInstance, Resync, Start
<1>7. CASE DeliverRoute \/ Restart \/ validateAIGatewayAccess \/ WriteFails \/ UNCHANGED vars
  BY <1>1, <1>7 DEF DeliverRoute, Restart, validateAIGatewayAccess, WriteFails, vars
<1> QED
  BY <1>1, <1>3, <1>4, <1>5, <1>6, <1>7 DEF Next, Reconcile

\* validateAIGatewayAccess itself never lets a second route for a name through,
\* between any number of Instances: where there are two, the list it went by did not
\* show the other one.
THEOREM OnlyLagCollides == Spec => CollisionsOnlyFromLag
<1>1. SawNameFree /\ [Next]_vars =>
        [\A i, j \in Instances : \A m \in Models :
            /\ i # j /\ Serves(routes', i, m) /\ Serves(routes', j, m)
            /\ ~Serves(routes, i, m)
            => run.instance = i /\ ~Serves(run.seen, j, m)]_vars
  BY Collision
<1> QED
  BY <1>1, InitSaw, NextSaw, PTL DEF Spec, CollisionsOnlyFromLag

-----------------------------------------------------------------------------
(* Lists from the API server: one route for a name.  That alone is not inductive:  *)
(* between the check and the write the worker relies on nobody else adding a route. *)

\* What the worker is about to write is served by no other route.
NameStillFree == pc = "route" => ~NameTaken(routes, run.instance, run.spec.model)

UniqueInv == OneRoutePerModel /\ (live => NameStillFree)

LEMMA InitUnique == Init => UniqueInv
  BY DEF Init, UniqueInv, OneRoutePerModel, NameStillFree, NoRoutes

\* A route that goes takes no name from anyone and gives none.
LEMMA RouteGoes ==
    ASSUME UniqueInv, NEW i, routes' = WithoutRoute(i), live' = live,
           pc' = "idle" \/ UNCHANGED <<pc, run>>
    PROVE  UniqueInv'
<1>1. ASSUME NEW j, NEW m, Serves(routes', j, m) PROVE Serves(routes, j, m)
  BY <1>1, NoNewRoute
<1>2. OneRoutePerModel'
  BY <1>1 DEF UniqueInv, OneRoutePerModel, Serves
<1>3. (live => NameStillFree)'
  <2>1. CASE pc' = "idle"
    BY <2>1 DEF NameStillFree
  <2>2. CASE UNCHANGED <<pc, run>>
    <3>1. ASSUME NameTaken(routes', run.instance, run.spec.model)
          PROVE  NameTaken(routes, run.instance, run.spec.model)
      BY <1>1, <3>1 DEF NameTaken, Serves
    <3> QED
      BY <2>2, <3>1 DEF UniqueInv, NameStillFree
  <2> QED
    BY <2>1, <2>2
<1> QED
  BY <1>2, <1>3 DEF UniqueInv

\* The write serves a name that was free when it was checked and still is.
LEMMA ApplyUnique == UniqueInv /\ ApplyRoute => UniqueInv'
<1> SUFFICES ASSUME UniqueInv, ApplyRoute PROVE UniqueInv'
  OBVIOUS
<1>1. /\ routes' = WithRoute(run.instance, run.spec.model)
      /\ live' = live /\ pc' = "idle" /\ pc = "route"
  BY DEF ApplyRoute, StoreRoutes, WithRoute
<1>2. ASSUME live, NEW i, NEW j, NEW m, i # j,
             Serves(routes', i, m), Serves(routes', j, m), ~Serves(routes, i, m)
      PROVE  FALSE
  <2>1. i = run.instance /\ m = run.spec.model
    BY <1>1, <1>2, OnlyOwnRoute
  <2>2. Serves(routes, j, m)
    BY <1>1, <1>2, <2>1, OnlyOwnRoute
  <2>3. ~NameTaken(routes, i, m)
    BY <1>1, <1>2, <2>1 DEF UniqueInv, NameStillFree
  <2> QED
    BY <1>2, <2>2, <2>3 DEF NameTaken, Serves
<1>3. OneRoutePerModel'
  <2> SUFFICES ASSUME live, NEW i, NEW j, NEW m \in Models,
                      Serves(routes', i, m), Serves(routes', j, m), i # j
               PROVE  FALSE
    BY <1>1 DEF OneRoutePerModel, Serves
  <2>1. Serves(routes, i, m) /\ Serves(routes, j, m)
    BY <1>2
  <2> QED
    BY <2>1 DEF UniqueInv, OneRoutePerModel, Serves
<1> QED
  BY <1>1, <1>3 DEF UniqueInv, NameStillFree

LEMMA NextUnique == SawNameFree /\ UniqueInv /\ [Next]_vars => UniqueInv'
<1> SUFFICES ASSUME SawNameFree, UniqueInv, [Next]_vars PROVE UniqueInv'
  OBVIOUS
<1>1. CASE UNCHANGED <<routes, live>> /\ (pc' # "route" \/ UNCHANGED <<pc, run>>)
  BY <1>1 DEF UniqueInv, OneRoutePerModel, NameStillFree, NameTaken, Serves
<1>2. CASE validateAIGatewayAccess
  <2>1. CASE NameTaken(Listed, run.instance, run.spec.model)
    BY <1>1, <1>2, <2>1 DEF validateAIGatewayAccess
  <2>2. CASE ~NameTaken(Listed, run.instance, run.spec.model)
    <3>1. /\ run' = [instance |-> run.instance, spec |-> run.spec, seen |-> Listed]
          /\ UNCHANGED <<routes, live>>
      BY <1>2, <2>2 DEF validateAIGatewayAccess, SawNameFree
    <3>2. run'.instance = run.instance /\ run'.spec = run.spec
      BY <3>1
    <3>3. live => ~NameTaken(routes, run.instance, run.spec.model)
      BY <2>2 DEF Listed
    <3> QED
      BY <3>1, <3>2, <3>3 DEF UniqueInv, OneRoutePerModel, NameStillFree, NameTaken, Serves
  <2> QED
    BY <2>1, <2>2
<1>3. ASSUME NEW i \in Instances, CollectRoute(i) PROVE UniqueInv'
  BY <1>3, RouteGoes DEF CollectRoute, StoreRoutes, WithoutRoute
<1>4. CASE cleanupAIGateway
  BY <1>4, RouteGoes DEF cleanupAIGateway, StoreRoutes, WithoutRoute
<1>5. ASSUME NEW i \in Instances, WriteInstance(i) \/ DeleteInstance(i) \/ Resync(i) \/ Start(i)
      PROVE  UniqueInv'
  BY <1>1, <1>5 DEF WriteInstance, DeleteInstance, Resync, Start
<1>6. CASE DeliverRoute \/ Restart \/ WriteFails \/ UNCHANGED vars
  BY <1>1, <1>6 DEF DeliverRoute, Restart, WriteFails, vars
<1> QED
  BY <1>2, <1>3, <1>4, <1>5, <1>6, ApplyUnique DEF Next, Reconcile

\* "A model name maps to exactly one route" (validateAIGatewayAccess): as long as the
\* client lists from the API server and one worker reconciles, check and write are as
\* good as one step, with any number of Instances and whatever others do in between.
THEOREM OneRouteForAName == Spec => []OneRoutePerModel
<1>1. UniqueInv => OneRoutePerModel
  BY DEF UniqueInv
<1> QED
  BY <1>1, InitSaw, NextSaw, InitUnique, NextUnique, PTL DEF Spec

-----------------------------------------------------------------------------
(* Types. *)

\* All that is ever stored, cached or under way: some of the Instances with a route
\* that the provider built.
Stores == UNION {[D -> {buildAIGatewayRoute(m) : m \in Models}] : D \in SUBSET Instances}

SpecType == [exists : BOOLEAN, exposed : BOOLEAN, model : Models]

TypeInv ==
    /\ spec \in [Instances -> SpecType]
    /\ routes \in Stores /\ cRoutes \in Stores /\ watch \in Seq(Stores)
    /\ failed \subseteq Instances /\ queued \subseteq Instances
    /\ pc \in {"idle", "validate", "route", "delete"}
    /\ DOMAIN run = {"instance", "spec", "seen"}
    /\ pc # "idle" => run.instance \in Instances /\ run.spec.model \in Models
    /\ edits \in 0 .. MaxEdits /\ live \in BOOLEAN

LEMMA StoreFields ==
    ASSUME NEW rs \in Stores
    PROVE  /\ DOMAIN rs \subseteq Instances
           /\ \A r \in DOMAIN rs : \E m \in Models : rs[r] = buildAIGatewayRoute(m)
  BY DEF Stores

LEMMA StoreOf ==
    ASSUME NEW D, D \subseteq Instances, NEW rs, DOMAIN rs = D, rs = [r \in D |-> rs[r]],
           \A r \in D : \E m \in Models : rs[r] = buildAIGatewayRoute(m)
    PROVE  rs \in Stores
<1>1. rs \in [D -> {buildAIGatewayRoute(m) : m \in Models}]
  OBVIOUS
<1> QED
  BY <1>1 DEF Stores

\* The readers find exactly one name in each.
LEMMA StoresServe ==
    ASSUME GatewayNamespace # "", NEW rs \in Stores
    PROVE  IsRoutes(rs)
<1>1. ASSUME NEW r \in DOMAIN rs PROVE \E m \in Models : {n \in Models : Serves(rs, r, n)} = {m}
  <2>1. PICK m \in Models : rs[r] = buildAIGatewayRoute(m)
    BY StoreFields
  <2>2. aiGatewayRouteModels(rs[r]) = {m}
    BY <2>1, BuiltModels, ModelsAssumption
  <2>3. routeAttachedToGateway(r[1], rs[r])
    BY <2>1, BuiltAttached
  <2> QED
    BY <2>2, <2>3 DEF Serves
<1> QED
  BY <1>1, StoreFields DEF IsRoutes

LEMMA RouteWritten ==
    ASSUME TypeInv, NEW i \in Instances, NEW m \in Models
    PROVE  WithRoute(i, m) \in Stores /\ WithoutRoute(i) \in Stores
<1>1. /\ DOMAIN routes \subseteq Instances
      /\ \A r \in DOMAIN routes : \E n \in Models : routes[r] = buildAIGatewayRoute(n)
  BY StoreFields DEF TypeInv
<1>2. WithRoute(i, m) \in Stores
  <2> DEFINE D == DOMAIN routes \cup {i}
             new == WithRoute(i, m)
  <2>1. D \subseteq Instances
    BY <1>1
  <2>2. /\ DOMAIN new = D /\ new = [r \in D |-> new[r]]
        /\ \A r \in D : \E n \in Models : new[r] = buildAIGatewayRoute(n)
    BY <1>1 DEF WithRoute
  <2> HIDE DEF D, new
  <2> QED
    BY <2>1, <2>2, StoreOf DEF new
<1>3. WithoutRoute(i) \in Stores
  <2> DEFINE D == DOMAIN routes \ {i}
             new == WithoutRoute(i)
  <2>1. D \subseteq Instances
    BY <1>1
  <2>2. /\ DOMAIN new = D /\ new = [r \in D |-> new[r]]
        /\ \A r \in D : \E n \in Models : new[r] = buildAIGatewayRoute(n)
    BY <1>1 DEF WithoutRoute
  <2> HIDE DEF D, new
  <2> QED
    BY <2>1, <2>2, StoreOf DEF new
<1> QED
  BY <1>2, <1>3

LEMMA StoreRoutesType ==
    ASSUME TypeInv, NEW new \in Stores, StoreRoutes(new)
    PROVE  routes' \in Stores /\ watch' \in Seq(Stores)
<1>1. watch' = watch \/ watch' = Append(watch, new)
  BY DEF StoreRoutes
<1> QED
  BY <1>1, AppendProperties DEF StoreRoutes, TypeInv

LEMMA NoInstanceType == NoInstance \in SpecType
<1>1. (CHOOSE m \in Models : TRUE) \in Models
  BY ModelsAssumption
<1> QED
  BY <1>1 DEF NoInstance, SpecType

LEMMA InitTyped == Init => TypeInv
<1> SUFFICES ASSUME Init PROVE TypeInv
  OBVIOUS
<1>1. NoRoutes \in Stores
  <2>1. NoRoutes \in [{} -> {buildAIGatewayRoute(m) : m \in Models}]
    BY DEF NoRoutes
  <2> QED
    BY <2>1 DEF Stores
<1>2. spec \in [Instances -> SpecType] /\ DOMAIN run = {"instance", "spec", "seen"}
  BY NoInstanceType DEF Init, NoRun
<1>3. watch \in Seq(Stores)
  BY EmptySeq DEF Init
<1> QED
  BY <1>1, <1>2, <1>3, LagAssumption DEF Init, TypeInv

LEMMA EditTyped == ASSUME TypeInv, Edit PROVE edits' \in 0 .. MaxEdits
  BY LagAssumption DEF TypeInv, Edit

LEMMA NextTyped == TypeInv /\ [Next]_vars => TypeInv'
<1> SUFFICES ASSUME TypeInv, [Next]_vars PROVE TypeInv'
  OBVIOUS
<1> DOMAIN NoRun = {"instance", "spec", "seen"}
  BY DEF NoRun
<1>1. ASSUME NEW i \in Instances, WriteInstance(i) PROVE TypeInv'
  <2>1. spec' \in [Instances -> SpecType]
    <3>1. PICK e \in BOOLEAN, m \in Models :
            spec' = [spec EXCEPT ![i] = [exists |-> TRUE, exposed |-> e, model |-> m]]
      BY <1>1 DEF WriteInstance
    <3>2. [exists |-> TRUE, exposed |-> e, model |-> m] \in SpecType
      BY DEF SpecType
    <3> QED
      BY <3>1, <3>2 DEF TypeInv
  <2> QED
    BY <1>1, <2>1, EditTyped DEF WriteInstance, TypeInv
<1>2. ASSUME NEW i \in Instances, DeleteInstance(i) PROVE TypeInv'
  BY <1>2, NoInstanceType, EditTyped DEF DeleteInstance, TypeInv
<1>3. ASSUME NEW i \in Instances, CollectRoute(i) PROVE TypeInv'
  <2>1. WithoutRoute(i) \in Stores
    BY RouteWritten, ModelsAssumption
  <2> QED
    BY <1>3, <2>1, StoreRoutesType DEF CollectRoute, WithoutRoute, TypeInv
<1>4. ASSUME NEW i \in Instances, Resync(i) PROVE TypeInv'
  BY <1>4 DEF Resync, TypeInv
<1>5. ASSUME NEW i \in Instances, Start(i) PROVE TypeInv'
  <2>1. run'.instance = i /\ run'.spec = spec[i] /\ DOMAIN run' = {"instance", "spec", "seen"}
    BY <1>5 DEF Start, NoRun
  <2>2. spec[i].model \in Models
    BY DEF TypeInv, SpecType
  <2>3. pc' \in {"validate", "delete"}
    BY <1>5 DEF Start
  <2> QED
    BY <1>5, <2>1, <2>2, <2>3 DEF Start, TypeInv
<1>6. CASE DeliverRoute
  <2>1. cRoutes' \in Stores /\ watch' \in Seq(Stores)
    BY <1>6, HeadTailProperties DEF DeliverRoute, TypeInv
  <2> QED
    BY <1>6, <2>1 DEF DeliverRoute, TypeInv
<1>7. CASE Restart
  <2>1. watch' \in Seq(Stores)
    BY <1>7, EmptySeq DEF Restart
  <2> QED
    BY <1>7, <2>1, EditTyped DEF Restart, TypeInv
<1>8. CASE validateAIGatewayAccess
  <2>1. CASE NameTaken(Listed, run.instance, run.spec.model)
    BY <1>8, <2>1 DEF validateAIGatewayAccess, TypeInv
  <2>2. CASE ~NameTaken(Listed, run.instance, run.spec.model)
    <3>1. run'.instance = run.instance /\ run'.spec = run.spec /\ DOMAIN run' = DOMAIN run
      BY <1>8, <2>2 DEF validateAIGatewayAccess, TypeInv
    <3> QED
      BY <1>8, <2>2, <3>1 DEF validateAIGatewayAccess, TypeInv
  <2> QED
    BY <2>1, <2>2
<1>9. CASE ApplyRoute
  <2>1. WithRoute(run.instance, run.spec.model) \in Stores
    BY <1>9, RouteWritten DEF ApplyRoute, TypeInv
  <2> QED
    BY <1>9, <2>1, StoreRoutesType DEF ApplyRoute, WithRoute, TypeInv
<1>10. CASE cleanupAIGateway
  <2>1. WithoutRoute(run.instance) \in Stores
    BY <1>10, RouteWritten DEF cleanupAIGateway, TypeInv
  <2> QED
    BY <1>10, <2>1, StoreRoutesType DEF cleanupAIGateway, WithoutRoute, TypeInv
<1>11. CASE WriteFails
  BY <1>11 DEF WriteFails, TypeInv
<1>12. CASE UNCHANGED vars
  BY <1>12 DEF vars, TypeInv
<1> QED
  BY <1>1, <1>2, <1>3, <1>4, <1>5, <1>6, <1>7, <1>8, <1>9, <1>10, <1>11, <1>12 DEF Next, Reconcile

\* Wherever a route is seen, and however old it is, validateAIGatewayAccess and the
\* renderer find exactly one name in it.  The Gateway's namespace is set: without it
\* the provider has no AI Gateway (AIGatewayEnabled).
THEOREM RoutesReadable == ASSUME GatewayNamespace # "" PROVE Spec => []TypeOK
<1>1. TypeInv => TypeOK
  <2> SUFFICES ASSUME TypeInv PROVE TypeOK
    OBVIOUS
  <2>1. ASSUME NEW k \in DOMAIN watch PROVE IsRoutes(watch[k])
    <3>1. watch \in Seq(Stores)
      BY DEF TypeInv
    <3>2. k \in 1 .. Len(watch)
      BY <3>1, LenProperties
    <3>3. watch[k] \in Stores
      BY <3>1, <3>2, ElementOfSeq
    <3> QED
      BY <3>3, StoresServe
  <2> QED
    BY <2>1, StoresServe DEF TypeInv, TypeOK, SpecType
<1> QED
  BY <1>1, InitTyped, NextTyped, PTL DEF Spec
=============================================================================
