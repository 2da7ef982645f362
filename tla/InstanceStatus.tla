---------------------------- MODULE InstanceStatus ----------------------------
(***************************************************************************)
(* What the provider reports of one Instance: Status (provider.go) of both   *)
(* topologies, statusLLM (llminferenceservice.go), statusPredictor           *)
(* (inferenceservice.go), the details of the AI Gateway (aigateway.go) and   *)
(* of the external Service (externalservice.go).                             *)
(*                                                                         *)
(* A reconcile applies what the Instance asks for and then reads, one object *)
(* at a time and from an informer cache that lags behind the API server,     *)
(* whether it serves and where.  KServe, Envoy, the load balancer, the       *)
(* Gateway and the nodes change what there is to report between any two      *)
(* reads; an event queues the Instance only when its kind is watched, and    *)
(* only when it has reached the cache.                                       *)
(***************************************************************************)
EXTENDS Optionals, FiniteSets, ExternalAccess

CONSTANTS
    Specs,      \* the Instance specs a user may store
    Surroundings, \* states of what is around: [gateway, nodes], gateway <<>> absent, <<"">>
                \* without an address or <<address>>, nodes a set of [external, internal]
                \* addresses, "" for none
    Auth,       \* does the chart guard the Gateway with keys?
    PodCounts,  \* what KServe may say with Ready of a language model's pods: the ready pods of
                \* each model workload that it names, <<>> when it names none
    MaxEdits    \* bound: changes of the spec and in the cluster

\* A Gateway is there or not, and its address is a text.
SurroundingsAssumption == \A a \in Surroundings : OptionOf(a.gateway, STRING)
EditsAssumption == MaxEdits \in Nat

ASSUME Parameters == SurroundingsAssumption /\ EditsAssumption

\* A spec is [topology, access, legacy, service, model, routed]; model is the name a
\* server answers to, as far as the spec declares it, and routed says whether KServe
\* publishes a URL of its own.
VARIABLES
    spec,       \* the Instance as stored
    api,        \* API server: the objects Status reads, by kind
    cache,      \* the informer caches of the same objects
    around,     \* the Gateway and the nodes, which nobody watches: a cache that lags behind
                \* them is a change that comes later
    run,        \* the reconcile under way: <<[spec, next, host]>>, next the kind read next
    status,     \* the status published last
    queued,     \* is the Instance in the work queue?
    served,     \* history: did KServe ever report Ready with a ready pod for every model
                \* workload it named?
    edits,
    missed      \* history: since the last reconcile began, did a read fail or the surroundings
                \* change?

vars == <<spec, api, cache, around, run, status, queued, served, edits, missed>>
cluster == <<spec, api, cache, around, served, edits, missed>>

Kinds == {"workload", "route", "service", "key"}

-----------------------------------------------------------------------------
(* What there is to report. *)

Provisioning == [phase |-> "Provisioning", details |-> <<>>]
Ready == [phase |-> "Ready", details |-> <<>>]
Details(via, host, model, key) == [via |-> via, host |-> host, model |-> model, key |-> key]
ReadyWithConnectionDetails(d) == [phase |-> "Ready", details |-> <<d>>]

\* Mutant: the prefill workload is not looked at.
unservedWorkloadMutant(s, w) == s.topology = "llm" /\ w.pods # <<>> /\ w.pods[1] = 0

\* With a GPU rollout KServe's Ready precedes the first pod.  Only the llm topology
\* counts pods, those of the workloads that the status names; of none, Ready is trusted.
unservedWorkload(s, w) == s.topology = "llm" /\ \E n \in DOMAIN w.pods : w.pods[n] = 0

Serves(s, w) == IsSet(w) /\ Val(w).ready /\ ~unservedWorkload(s, Val(w))

routeAcceptance(r) == IsSet(r) /\ Val(r).accepted

ExternalAddresses(nodes) == {n.external : n \in nodes} \ {""}
InternalAddresses(nodes) == {n.internal : n \in nodes} \ {""}

\* Mutant: a node without an external address does not count.
firstNodeAddressMutant(nodes) ==
    IF ExternalAddresses(nodes) # {} THEN ExternalAddresses(nodes) ELSE {""}

\* The cache lists the nodes in any order: the first address is any of these.
firstNodeAddress(nodes) ==
    CASE ExternalAddresses(nodes) # {} -> ExternalAddresses(nodes)
      [] ExternalAddresses(nodes) = {} /\ InternalAddresses(nodes) # {} -> InternalAddresses(nodes)
      [] OTHER -> {""}

\* Clients of a predictor ask the Gateway for the Instance by its name.
GatewayModel(s) == IF s.topology = "llm" THEN s.model ELSE "instance"

\* The name to use without the Gateway; a language model gives none.
DirectModel(s) == IF s.topology = "llm" THEN "" ELSE s.model

\* KServe's own URL wins over the external Service for a language model, and is the
\* last choice for a predictor.
OwnURLFirst(s) == s.topology = "llm"

ClusterDetails(s, w) ==
    Details("cluster", IF Val(w).url = "" THEN "service-dns" ELSE Val(w).url, DirectModel(s), 0)

\* Mutant: nobody watches Services.
WatchedKindsMutant == {"workload", "route", "key"}

\* The kinds whose events queue the Instance (New); Gateway and nodes are not watched.
WatchedKinds == {"workload", "route", "service", "key"}

-----------------------------------------------------------------------------
(* The cluster. *)

Edit == edits < MaxEdits /\ edits' = edits + 1

WriteSpec ==
    /\ Edit
    /\ \E s \in Specs : s.topology = spec.topology /\ s # spec /\ spec' = s
    /\ queued' = TRUE
    /\ UNCHANGED <<api, cache, around, run, status, served, missed>>

Change(kind, value) ==
    /\ value # api[kind]
    /\ api' = [api EXCEPT ![kind] = value]
    /\ UNCHANGED <<spec, cache, around, run, status, queued, missed>>

\* A predictor's pods are not in what Status reads, and without Ready nobody looks at
\* those of a language model.
Conditions ==
    {c \in [ready : BOOLEAN, pods : PodCounts \cup {<<>>}] :
        ~c.ready \/ spec.topology = "predictor" => c.pods = <<>>}

HavePods(pods) == \A n \in DOMAIN pods : pods[n] # 0

\* KServe reports on the workload, of the revision there is.  Ready may come before the
\* first pod of a workload, and with or without naming the workloads.
KServeReports ==
    /\ IsSet(api["workload"])
    /\ LET rev == Val(api["workload"]).rev IN
       \E c \in Conditions :
         /\ Change("workload", <<[rev |-> rev, current |-> TRUE, ready |-> c.ready, pods |-> c.pods,
                                  url |-> IF c.ready /\ rev.routed THEN "url" ELSE ""]>>)
         /\ served' = (served \/ (c.ready /\ HavePods(c.pods)))

EnvoyReports ==
    /\ IsSet(api["route"])
    /\ \E a \in BOOLEAN :
         Change("route", <<[rev |-> Val(api["route"]).rev, current |-> TRUE, accepted |-> a]>>)
    /\ UNCHANGED served

Behind(kind) == IsSet(api[kind]) /\ ~Val(api[kind]).current

\* They get to a new revision sooner or later, and change their mind about an old one.
CatchUp(kind) ==
    /\ Behind(kind) /\ UNCHANGED edits
    /\ \/ kind = "workload" /\ KServeReports
       \/ kind = "route" /\ EnvoyReports

ChangeOfMind == Edit /\ ((~Behind("workload") /\ KServeReports) \/ (~Behind("route") /\ EnvoyReports))

\* A load balancer comes for the Service that asks for one and goes with it.
BalancerReports ==
    /\ IsSet(api["service"])
    /\ LET s == Val(api["service"]) IN
       Change("service", <<[s EXCEPT !.address = IF s.type = "LoadBalancer" THEN "balancer" ELSE ""]>>)
    /\ UNCHANGED <<served, edits>>

\* The key is rotated: its Secret is deleted.
KeyDeleted == Edit /\ Change("key", <<>>) /\ UNCHANGED served

SurroundingsChange ==
    /\ Edit
    /\ around' \in Surroundings \ {around}
    /\ missed' = TRUE
    /\ UNCHANGED <<spec, api, cache, run, status, queued, served>>

Deliver(kind) ==
    /\ cache[kind] # api[kind]
    /\ cache' = [cache EXCEPT ![kind] = api[kind]]
    /\ queued' = (queued \/ kind \in WatchedKinds)
    /\ UNCHANGED <<spec, api, around, run, status, served, edits, missed>>

Resync == run = <<>> /\ ~queued /\ queued' = TRUE /\ UNCHANGED <<cluster, run, status>>

-----------------------------------------------------------------------------
(* The reconcile: Sync as one step, then the reads of Status. *)

\* Server-side apply leaves the status that others wrote.
Applied(kind, rev, fresh) ==
    CASE ~IsSet(api[kind]) -> <<fresh>>
      [] IsSet(api[kind]) /\ Val(api[kind]).rev # rev ->
            <<[Val(api[kind]) EXCEPT !.rev = rev, !.current = FALSE]>>
      [] OTHER -> api[kind]

AppliedWorkload(s) ==
    LET rev == [model |-> s.model, routed |-> s.routed] IN
    Applied("workload", rev,
        [rev |-> rev, current |-> FALSE, ready |-> FALSE, pods |-> <<>>, url |-> ""])

AppliedRoute(s) ==
    IF UsesAIGateway(s)
    THEN Applied("route", GatewayModel(s), [rev |-> GatewayModel(s), current |-> FALSE, accepted |-> FALSE])
    ELSE <<>>

ServiceType(s) == IF UsesAIGateway(s) THEN "ClusterIP" ELSE resolveServiceType(s)

AppliedService(s) ==
    CASE ServiceType(s) = "ClusterIP" -> <<>>
      [] ServiceType(s) # "ClusterIP" /\ IsSet(api["service"]) ->
            <<[Val(api["service"]) EXCEPT !.type = ServiceType(s)]>>
      [] OTHER -> <<[type |-> ServiceType(s), address |-> ""]>>

NeedsKey(s) == UsesAIGateway(s) /\ Auth

\* A key the cache has not got yet fails the Sync; there is never a second one.
KeyConflict(s) == NeedsKey(s) /\ ~IsSet(cache["key"]) /\ IsSet(api["key"])

\* A new key is not the one reported; which numbers nobody remembers does not matter.
KeyReported == {Val(d).key : d \in {status.details} \ {<<>>}}
EnsuredKey(s) ==
    IF NeedsKey(s) /\ ~IsSet(cache["key"]) THEN <<CHOOSE k \in 1 .. 2 : k \notin KeyReported>>
    ELSE api["key"]

Sync ==
    /\ run = <<>> /\ queued /\ ~KeyConflict(spec)
    /\ api' = [api EXCEPT !["workload"] = AppliedWorkload(spec), !["route"] = AppliedRoute(spec),
                          !["service"] = AppliedService(spec), !["key"] = EnsuredKey(spec)]
    /\ queued' = FALSE
    /\ run' = <<[spec |-> spec, next |-> "workload", host |-> ""]>>
    /\ missed' = FALSE
    /\ UNCHANGED <<spec, cache, around, status, served, edits>>

Reading(kind) == run # <<>> /\ Val(run).next = kind

Continue(kind, host) ==
    /\ run' = <<[Val(run) EXCEPT !.next = kind, !.host = host]>>
    /\ UNCHANGED <<cluster, status, queued>>

Publish(st) ==
    /\ run' = <<>> /\ status' = st
    /\ UNCHANGED <<cluster, queued>>

\* statusLLM and statusPredictor up to the connection details.
ReadWorkload ==
    /\ Reading("workload")
    /\ LET s == Val(run).spec
           w == cache["workload"]
           direct == ServiceType(s) = "ClusterIP" \/ (OwnURLFirst(s) /\ Val(w).url # "") IN
       CASE ~Serves(s, w) -> Publish(Provisioning)
         [] Serves(s, w) /\ UsesAIGateway(s) -> Continue("route", "")
         [] Serves(s, w) /\ ~UsesAIGateway(s) /\ direct ->
              Publish(ReadyWithConnectionDetails(ClusterDetails(s, w)))
         [] OTHER -> Continue("service", "")

GatewayDetails(host, key) ==
    ReadyWithConnectionDetails(Details("gateway", host, GatewayModel(Val(run).spec), key))

\* aiGatewayConnectionDetails: the route and then the Gateway.
ReadRoute ==
    /\ Reading("route")
    /\ LET gateway == around.gateway IN
       CASE ~routeAcceptance(cache["route"]) \/ gateway \in {<<>>, <<"">>} -> Publish(Provisioning)
         [] routeAcceptance(cache["route"]) /\ gateway \notin {<<>>, <<"">>} /\ Auth ->
              Continue("key", Val(gateway))
         [] OTHER -> Publish(GatewayDetails(Val(gateway), 0))

ReadKey ==
    /\ Reading("key")
    /\ IF IsSet(cache["key"]) THEN Publish(GatewayDetails(Val(run).host, Val(cache["key"])))
       ELSE Publish(Provisioning)

\* Mutant: an address that is not there yet is reported as one.
ServiceDetailsMutant(host) ==
    ReadyWithConnectionDetails(Details("service", host, DirectModel(Val(run).spec), 0))

ServiceDetails(host) ==
    IF host = "" THEN Ready
    ELSE ReadyWithConnectionDetails(Details("service", host, DirectModel(Val(run).spec), 0))

\* Ready without details as long as there is no address.  The nodes are listed for
\* NodePort only; every Service here has a node port.
ReadService ==
    /\ Reading("service")
    /\ LET svc == cache["service"] IN
       CASE ~IsSet(svc) -> Publish(Ready)
         [] IsSet(svc) /\ ServiceType(Val(run).spec) = "LoadBalancer" ->
              Publish(ServiceDetails(Val(svc).address))
         [] OTHER -> \E host \in firstNodeAddress(around.nodes) : Publish(ServiceDetails(host))

Step == Sync \/ ReadWorkload \/ ReadRoute \/ ReadKey \/ ReadService

\* An error: of Sync before anything is read, or of the key's read.
Fails ==
    /\ \/ run = <<>> /\ queued
       \/ Reading("key")
    /\ run' = <<>> /\ queued' = TRUE
    /\ UNCHANGED <<cluster, status>>

\* Every other read that fails is taken for an object that is not there, and the
\* reconcile ends well.
ReadFails ==
    /\ run # <<>> /\ ~Reading("key")
    /\ run' = <<>> /\ status' = IF Reading("service") THEN Ready ELSE Provisioning
    /\ missed' = TRUE
    /\ UNCHANGED <<spec, api, cache, around, queued, served, edits>>

-----------------------------------------------------------------------------
Init ==
    /\ spec \in Specs
    /\ api = [k \in Kinds |-> <<>>] /\ cache = api /\ around \in Surroundings
    /\ run = <<>> /\ status = Provisioning /\ queued = TRUE /\ served = FALSE /\ missed = FALSE
    /\ edits = 0

Next ==
    \/ WriteSpec \/ CatchUp("workload") \/ CatchUp("route") \/ ChangeOfMind \/ BalancerReports
    \/ KeyDeleted \/ SurroundingsChange
    \/ \E kind \in Kinds : Deliver(kind)
    \/ Resync \/ Step \/ Fails \/ ReadFails

Spec == Init /\ [][Next]_vars

\* The worker goes on, caches catch up, KServe and Envoy get to the latest revision,
\* and some day the API server answers for as long as it takes.
Fairness ==
    /\ WF_vars(Step)
    /\ \A kind \in Kinds : WF_vars(Deliver(kind))
    /\ WF_vars(CatchUp("workload")) /\ WF_vars(CatchUp("route"))
    /\ WF_vars(BalancerReports)
    /\ <>[][~Fails /\ ~ReadFails]_vars

FairSpec == Spec /\ Fairness

-----------------------------------------------------------------------------
(* Properties. *)

GatewayAddresses == {Val(a.gateway) : a \in {b \in Surroundings : IsSet(b.gateway)}} \ {""}
NodeAddresses ==
    UNION {ExternalAddresses(a.nodes) \cup InternalAddresses(a.nodes) : a \in Surroundings}

StatusType ==
    {Provisioning, Ready} \cup
    {ReadyWithConnectionDetails(d) : d \in
        [via : {"cluster"}, host : {"service-dns", "url"}, model : {s.model : s \in Specs} \cup {""}, key : {0}]
        \cup [via : {"service"}, host : {"balancer"} \cup NodeAddresses,
              model : {s.model : s \in Specs} \cup {""}, key : {0}]
        \cup [via : {"gateway"}, host : GatewayAddresses, model : {s.model : s \in Specs} \cup {"instance"},
              key : IF Auth THEN 1 .. 2 ELSE {0}]}

\* What is published is a status; details name a host, and those of a guarded
\* Gateway a key.
TypeOK ==
    /\ spec \in Specs /\ around \in Surroundings /\ DOMAIN api = Kinds /\ DOMAIN cache = Kinds
    /\ status \in StatusType
    /\ run # <<>> => Val(run).spec \in Specs /\ Val(run).next \in Kinds
    /\ queued \in BOOLEAN /\ served \in BOOLEAN /\ missed \in BOOLEAN /\ edits \in 0 .. MaxEdits

\* unservedWorkload: while KServe, however early its Ready, names a model workload that
\* has no ready pod yet, a language model is not reported Ready: not before KServe has
\* once said Ready with a pod for each workload it named.  A Ready that names none is
\* trusted ("no workload status trusts Ready", llminferenceservice_test.go).
NeverReadyUnserved == spec.topology = "llm" /\ status.phase = "Ready" => served

\* The ways in that clients have, by the API server.
Entrances ==
    LET w == api["workload"]
        ownURL == OwnURLFirst(spec) /\ Val(w).url # ""
        directly == ClusterDetails(spec, w)
        Outside(host) == Details("service", host, DirectModel(spec), 0)
        Internal == InternalAddresses(around.nodes)
        External == ExternalAddresses(around.nodes) IN
    CASE UsesAIGateway(spec) ->
            {Details("gateway", host, GatewayModel(spec), key) :
                host \in {g \in GatewayAddresses : routeAcceptance(api["route"]) /\ around.gateway = <<g>>},
                key \in IF Auth THEN {k \in 1 .. 2 : api["key"] = <<k>>} ELSE {0}}
      [] ~UsesAIGateway(spec) /\ (ServiceType(spec) = "ClusterIP" \/ ownURL) -> {directly}
      [] ~UsesAIGateway(spec) /\ ServiceType(spec) = "LoadBalancer" /\ ~ownURL ->
            {Outside(host) : host \in {h \in {"balancer"} : IsSet(api["service"]) /\ Val(api["service"]).address = h}}
      [] OTHER -> {Outside(host) : host \in IF External # {} THEN External ELSE Internal}

\* The status is what the API server says.
Truthful ==
    IF ~IsSet(api["workload"]) \/ ~Serves(spec, api["workload"]) THEN status = Provisioning
    ELSE IF Entrances = {} THEN status = (IF UsesAIGateway(spec) THEN Provisioning ELSE Ready)
    ELSE \E d \in Entrances : status = ReadyWithConnectionDetails(d)

\* Once the changes stop and as long as the periodic resync comes round, the report
\* is true: a Ready or an acceptance of an earlier revision, a read that failed, an
\* address of before do not last.
ReportSettles == WF_vars(Resync) => <>[]Truthful

\* The watches alone, without the resync, are enough for everything but the Gateway's
\* address, the nodes and a read that failed.
WatchesSuffice == <>[](missed \/ Truthful)
=============================================================================
