----------------------------- MODULE InstanceSync -----------------------------
(***************************************************************************)
(* One Instance and the objects the provider owns for it: Sync and Cleanup   *)
(* (provider.go) of both topologies, as the sequence of calls they make to   *)
(* the API server (llminferenceservice.go, inferenceservice.go,              *)
(* aigateway.go, podmonitor.go, externalservice.go).                         *)
(*                                                                         *)
(* A reconcile reads the Instance once and makes its calls one by one.  Each *)
(* call may fail, or succeed with its answer lost; the reconcile then starts *)
(* over from the first call, with the Instance as it is by then.  The user   *)
(* edits the Instance and deletes it, others delete what the provider owns,  *)
(* and the provider restarts, possibly with another chart configuration, all *)
(* between any two calls.                                                    *)
(***************************************************************************)
EXTENDS Integers, Sequences, ExternalAccess

CONSTANTS
    Specs,      \* the Instance specs a user may store
    Charts,     \* the chart configurations the provider may run with
    Drifting,   \* kinds of objects that others may delete
    MaxEdits    \* bound: edits, drift and restarts

\* A spec is [topology, access, legacy, service, model, config, hub, secret, metrics]:
\* access is externalAccess, legacy enableAIGateway, service the component's
\* serviceType, model the served name, config the inline config, hub whether a
\* predictor downloads with the chart's Hugging Face token, secret
\* backendAPIKeySecret; "" is a field that is not set.
\* A chart is [gateway, auth, redis, hfToken, podMonitor], all Booleans.

ASSUME SpecsAssumption ==
    Specs \subseteq [topology : {"llm", "predictor"}, access : STRING, legacy : BOOLEAN,
                     service : {"", "ClusterIP", "LoadBalancer", "NodePort"}, model : STRING,
                     config : STRING, hub : BOOLEAN, secret : STRING, metrics : BOOLEAN]
ASSUME ChartsAssumption ==
    Charts \subseteq [gateway : BOOLEAN, auth : BOOLEAN, redis : BOOLEAN, hfToken : BOOLEAN,
                      podMonitor : BOOLEAN]
ASSUME MaxEditsAssumption == MaxEdits \in Nat

VARIABLES
    spec,       \* the Instance as stored
    phase,      \* "live", "deleting" (finalizer held) or "gone"
    chart,      \* configuration of the running provider
    objects,    \* API server: content of the owned objects that exist, by kind
    calls,      \* calls the running reconcile has still to make
    queued,     \* is the Instance in the work queue?
    edits,
    calm        \* in this behaviour the chart has the Gateway and no object is deleted
                \* by others; never changes

vars == <<spec, phase, chart, objects, calls, queued, edits, calm>>

-----------------------------------------------------------------------------
\* The checks of validateLLM and validatePredictor that decide what Sync meets.
Validate(s, ch) ==
    /\ UsesAIGateway(s) => ch.gateway
    /\ s.topology = "predictor" /\ s.secret # "" => UsesAIGateway(s)

-----------------------------------------------------------------------------
(* The calls, in the order of the code. *)

Apply(kind, content) == [op |-> "apply", kind |-> kind, content |-> content]
Delete(kind) == [op |-> "delete", kind |-> kind, content |-> <<>>]
Ensure(kind) == [op |-> "ensure", kind |-> kind, content |-> <<>>]
Release == [op |-> "release", kind |-> "finalizer", content |-> <<>>]
When(condition, call) == IF condition THEN <<call>> ELSE <<>>

syncPodMonitor(s, ch) ==
    IF ch.podMonitor /\ s.metrics THEN <<Apply("podMonitor", <<>>)>> ELSE <<Delete("podMonitor")>>

\* Mutant: a Service left over from another access mode stays.
reconcileExternalServiceMutant(s) ==
    When(resolveServiceType(s) # "ClusterIP", Apply("service", <<resolveServiceType(s)>>))

reconcileExternalService(s) ==
    IF resolveServiceType(s) = "ClusterIP" THEN <<Delete("service")>>
    ELSE <<Apply("service", <<resolveServiceType(s)>>)>>

\* Mutant: the key comes after the route it guards.
syncAIGatewayMutant(s, ch, backends) ==
    backends
    \o <<Apply("route", <<s.model>>)>>
    \o When(ch.auth, Ensure("key"))
    \o <<IF ch.redis THEN Apply("tokenLimit", <<s.model>>) ELSE Delete("tokenLimit")>>

\* The key before the backends before the route before the quota.
syncAIGateway(s, ch, backends) ==
    When(ch.auth, Ensure("key"))
    \o backends
    \o <<Apply("route", <<s.model>>)>>
    \o <<IF ch.redis THEN Apply("tokenLimit", <<s.model>>) ELSE Delete("tokenLimit")>>

cleanupAIGateway == <<Delete("route"), Delete("tokenLimit")>>

\* Mutant: the external Service goes once the route is in place.
syncLLMMutant(s, ch) ==
    When(ch.hfToken, Apply("serviceAccount", <<>>))
    \o When(s.config # "", Apply("config", <<s.config>>))
    \o <<Apply("workload", <<s.model, s.config, IF ch.hfToken THEN "puller" ELSE "">>)>>
    \o syncPodMonitor(s, ch)
    \o IF UsesAIGateway(s)
       THEN syncAIGateway(s, ch, <<>>) \o <<Delete("service")>>
       ELSE reconcileExternalService(s) \o (IF ch.gateway THEN cleanupAIGateway ELSE <<>>)

syncLLM(s, ch) ==
    When(ch.hfToken, Apply("serviceAccount", <<>>))
    \o When(s.config # "", Apply("config", <<s.config>>))
    \o <<Apply("workload", <<s.model, s.config, IF ch.hfToken THEN "puller" ELSE "">>)>>
    \o syncPodMonitor(s, ch)
    \o IF UsesAIGateway(s)
       THEN <<Delete("service")>> \o syncAIGateway(s, ch, <<>>)
       ELSE (IF ch.gateway THEN cleanupAIGateway ELSE <<>>) \o reconcileExternalService(s)

\* Mutant: the backends go before the route that sends requests to them.
syncPredictorAIGatewayMutant(s, ch) ==
    IF ~UsesAIGateway(s)
    THEN IF ~ch.gateway THEN <<>>
         ELSE <<Delete("backendKey"), Delete("aiBackend"), Delete("backend")>> \o cleanupAIGateway
    ELSE When(s.secret = "", Delete("backendKey"))
         \o syncAIGateway(s, ch,
                <<Apply("backend", <<>>), Apply("aiBackend", <<>>)>>
                \o When(s.secret # "", Apply("backendKey", <<s.secret>>)))

syncPredictorAIGateway(s, ch) ==
    IF ~UsesAIGateway(s)
    THEN IF ~ch.gateway THEN <<>>
         ELSE cleanupAIGateway \o <<Delete("backendKey"), Delete("aiBackend"), Delete("backend")>>
    ELSE When(s.secret = "", Delete("backendKey"))
         \o syncAIGateway(s, ch,
                <<Apply("backend", <<>>), Apply("aiBackend", <<>>)>>
                \o When(s.secret # "", Apply("backendKey", <<s.secret>>)))

usesHFTokenServiceAccount(s, ch) == ch.hfToken /\ s.hub

\* The inline config of a predictor is merged into its InferenceService.
syncPredictor(s, ch) ==
    When(usesHFTokenServiceAccount(s, ch), Apply("serviceAccount", <<>>))
    \o <<Apply("workload", <<s.model, "",
               IF usesHFTokenServiceAccount(s, ch) THEN "puller" ELSE "">>)>>
    \o syncPodMonitor(s, ch)
    \o syncPredictorAIGateway(s, ch)
    \o reconcileExternalService(s)

Sync(s, ch) == IF s.topology = "llm" THEN syncLLM(s, ch) ELSE syncPredictor(s, ch)

\* Mutant: the config goes before the workload that refers to it.
CleanupMutant(s) ==
    When(s.topology = "llm", Delete("config"))
    \o <<Delete("workload"), Delete("key")>>

\* Mutant: only the llm branch deletes the key.
CleanupKeyMutant(s) ==
    <<Delete("workload")>>
    \o When(s.topology = "llm", Delete("config"))
    \o When(s.topology = "llm", Delete("key"))

Cleanup(s) ==
    <<Delete("workload")>>
    \o When(s.topology = "llm", Delete("config"))
    \o <<Delete("key")>>

-----------------------------------------------------------------------------
(* Others. *)

\* Mutant: no watch on Services.
WatchedKindsMutant(ch) ==
    {"workload", "config"} \cup (IF ch.gateway THEN {"route", "key"} ELSE {})

\* The kinds whose events queue the Instance (New, provider.go).
WatchedKinds(ch) ==
    {"workload", "config", "service"} \cup (IF ch.gateway THEN {"route", "key"} ELSE {})

Edit == edits < MaxEdits /\ edits' = edits + 1

WriteSpec ==
    /\ Edit /\ phase = "live"
    /\ \E s \in Specs : s.topology = spec.topology /\ s # spec /\ spec' = s
    /\ queued' = TRUE
    /\ UNCHANGED <<phase, chart, objects, calls, calm>>

DeleteInstance ==
    /\ Edit /\ phase = "live"
    /\ phase' = "deleting"
    /\ queued' = TRUE
    /\ UNCHANGED <<spec, chart, objects, calls, calm>>

Without(kind) == [k \in DOMAIN objects \ {kind} |-> objects[k]]

Drift(kind) ==
    /\ Edit /\ ~calm /\ kind \in DOMAIN objects
    /\ objects' = Without(kind)
    /\ queued' = (queued \/ (phase # "gone" /\ kind \in WatchedKinds(chart)))
    /\ UNCHANGED <<spec, phase, chart, calls, calm>>

Collect(kind) ==
    /\ phase = "gone" /\ kind \in DOMAIN objects
    /\ objects' = Without(kind)
    /\ UNCHANGED <<spec, phase, chart, calls, queued, edits, calm>>

ChartsOf(quiet) == {ch \in Charts : quiet => ch.gateway}

\* The provider stops between two calls and comes up, maybe reconfigured; every
\* Instance is queued then.
Restart ==
    /\ Edit
    /\ chart' \in ChartsOf(calm)
    /\ calls' = <<>>
    /\ queued' = (phase # "gone")
    /\ UNCHANGED <<spec, phase, objects, calm>>

Resync ==
    /\ phase # "gone" /\ ~queued
    /\ queued' = TRUE
    /\ UNCHANGED <<spec, phase, chart, objects, calls, edits, calm>>

-----------------------------------------------------------------------------
(* The reconcile. *)

Start ==
    /\ calls = <<>> /\ queued /\ phase # "gone"
    /\ queued' = FALSE
    /\ calls' = CASE phase = "deleting" -> Cleanup(spec) \o <<Release>>
                  [] phase = "live" /\ Validate(spec, chart) -> Sync(spec, chart)
                  [] OTHER -> <<>>
    /\ UNCHANGED <<spec, phase, chart, objects, edits, calm>>

\* Server-side apply writes the whole intent; ensure never rewrites what exists;
\* delete ignores what is absent.
Performed ==
    /\ calls # <<>> /\ Head(calls) # Release
    /\ LET call == Head(calls) IN
       objects' = CASE call.op = "delete" -> Without(call.kind)
                    [] call.op = "ensure" /\ call.kind \in DOMAIN objects -> objects
                    [] OTHER -> [k \in DOMAIN objects \cup {call.kind} |->
                                   IF k = call.kind THEN call.content ELSE objects[k]]

Call ==
    /\ Performed
    /\ calls' = Tail(calls)
    /\ UNCHANGED <<spec, phase, chart, queued, edits, calm>>

\* The runtime's last call: without its finalizer the Instance is gone.
ReleaseFinalizer ==
    /\ calls = <<Release>>
    /\ calls' = <<>> /\ phase' = "gone" /\ queued' = FALSE
    /\ UNCHANGED <<spec, chart, objects, edits, calm>>

Retry == calls' = <<>> /\ queued' = TRUE /\ UNCHANGED <<spec, phase, chart, edits, calm>>

CallFails == calls # <<>> /\ Retry /\ UNCHANGED objects

AnswerLost == Performed /\ Retry

-----------------------------------------------------------------------------
Nothing == [k \in {} |-> <<>>]

Kinds == {"serviceAccount", "config", "workload", "podMonitor", "service", "key",
          "backend", "aiBackend", "backendKey", "route", "tokenLimit"}

Init ==
    /\ calm \in BOOLEAN
    /\ spec \in Specs /\ phase = "live" /\ chart \in ChartsOf(calm)
    /\ objects = Nothing /\ calls = <<>> /\ queued = TRUE /\ edits = 0

Next ==
    \/ WriteSpec \/ DeleteInstance \/ Restart \/ Resync
    \/ \E k \in Drifting : Drift(k)
    \/ \E k \in Kinds : Collect(k)
    \/ Start \/ Call \/ ReleaseFinalizer \/ CallFails \/ AnswerLost

Spec == Init /\ [][Next]_vars

\* The worker takes up a queued Instance and makes its calls, owner references are
\* collected, and some day the API server answers for as long as it takes.
Fairness ==
    /\ WF_vars(Start) /\ WF_vars(Call) /\ WF_vars(ReleaseFinalizer)
    /\ WF_vars(\E k \in Kinds : Collect(k))
    /\ <>[][~CallFails /\ ~AnswerLost]_vars

FairSpec == Spec /\ Fairness

-----------------------------------------------------------------------------
(* Properties.  What is said of the order of the calls is said of calm behaviours: *)
(* a config that others delete, or a Gateway that the chart gives up, is beyond    *)
(* any order.                                                                    *)

Exists(k) == k \in DOMAIN objects

\* Every object and every pending call is one of the provider's own kinds, the
\* external Service has one of the two types it is meant for, and an Instance is
\* gone only when no call is pending.
TypeOK ==
    /\ spec \in Specs /\ phase \in {"live", "deleting", "gone"} /\ chart \in ChartsOf(calm)
    /\ DOMAIN objects \subseteq Kinds
    /\ Exists("service") => objects["service"] \in {<<"LoadBalancer">>, <<"NodePort">>}
    /\ \A i \in DOMAIN calls :
          \/ calls[i].op \in {"apply", "delete", "ensure"} /\ calls[i].kind \in Kinds
          \/ calls[i] = Release
    /\ phase = "gone" => calls = <<>> /\ ~queued
    /\ queued \in BOOLEAN /\ edits \in 0 .. MaxEdits

\* "Materialize the inline Advanced config before the workload", "Provision the
\* HuggingFace token ServiceAccount before the workload": the workload never
\* refers to a config or a ServiceAccount that is not there, also not while it is
\* cleaned up.
ReferencesExist ==
    calm /\ phase # "gone" /\ Exists("workload") =>
        /\ objects["workload"][2] # "" => Exists("config")
        /\ objects["workload"][3] # "" => Exists("serviceAccount")

\* The route of a predictor always has its backends behind it, and a backend's key
\* policy its target, whichever way access is switched and wherever it fails.
RouteHasBackends ==
    calm /\ phase # "gone" /\ spec.topology = "predictor" =>
        /\ Exists("route") => Exists("aiBackend")
        /\ Exists("aiBackend") => Exists("backend")
        /\ Exists("backendKey") => Exists("aiBackend")

\* "AI Gateway replaces it": a language model is never reachable through the
\* Gateway and through its external Service, which knows no keys, at once.
OneWayIn ==
    calm /\ spec.topology = "llm" => ~(Exists("route") /\ Exists("service"))

\* A predictor is switched the other way round: the external Service goes last.  It
\* is open beside the Gateway only while a reconcile that closes it is under way or
\* queued; what fails on the way, or a Validate that refuses, keeps it open.
OverlapPasses ==
    calm /\ phase = "live" /\ Exists("route") /\ Exists("service") =>
        calls # <<>> \/ queued \/ ~Validate(spec, chart)

\* "The key must exist before the route so the model is never reachable without
\* one": a route comes into being only when the key does exist.
RouteComesAfterKey ==
    [][calm /\ ~Exists("route") /\ "route" \in DOMAIN objects' /\ chart.auth => Exists("key")]_vars

\* "The key is removed with the Instance": when the finalizer goes, workload,
\* config and key have been deleted, however often Cleanup had to start over.
GoneMeansRemoved ==
    phase = "gone" => {"workload", "config", "key"} \cap DOMAIN objects = {}

Is(k, present, content) ==
    IF present THEN Exists(k) /\ objects[k] = content ELSE ~Exists(k)

\* The Gateway takes over from the component's serviceType too.
WantsService == resolveServiceType(spec) # "ClusterIP" /\ ~UsesAIGateway(spec)

GatewayKindsSettled ==
    LET on == UsesAIGateway(spec)
        predictor == spec.topology = "predictor" IN
    /\ Is("route", on, <<spec.model>>)
    /\ Is("tokenLimit", on /\ chart.redis, <<spec.model>>)
    /\ on /\ chart.auth => Exists("key")
    /\ predictor =>
         /\ Is("backend", on, <<>>) /\ Is("aiBackend", on, <<>>)
         /\ Is("backendKey", on /\ spec.secret # "", <<spec.secret>>)

\* What the spec and the chart ask for is what exists.  Three things stay behind
\* by the code's choice: a config or a ServiceAccount no longer used, and, while
\* the chart has no Gateway, the Gateway's objects.
Settled ==
    /\ phase = "live" /\ Validate(spec, chart) =>
         /\ Exists("workload") /\ objects["workload"][1] = spec.model
         /\ spec.topology = "llm" /\ spec.config # "" =>
              Exists("config") /\ objects["config"] = <<spec.config>>
         /\ Is("podMonitor", chart.podMonitor /\ spec.metrics, <<>>)
         /\ Is("service", WantsService, <<resolveServiceType(spec)>>)
         /\ chart.gateway => GatewayKindsSettled
    /\ phase # "live" => phase = "gone" /\ DOMAIN objects = {}

\* Once edits, drift and restarts stop and as long as the periodic resync comes
\* round, the owned objects settle on what is asked for, whatever failed on the way.
Converges == WF_vars(Resync) => <>[]Settled

\* The watches alone, without the periodic resync, bring back what others delete,
\* as far as its kind is watched.
WatchedSettled ==
    phase = "live" /\ Validate(spec, chart) =>
        /\ Exists("workload")
        /\ spec.topology = "llm" /\ spec.config # "" => Exists("config")
        /\ Is("service", WantsService, <<resolveServiceType(spec)>>)
        /\ UsesAIGateway(spec) => Exists("route") /\ (chart.auth => Exists("key"))
DriftIsRepaired == <>[]WatchedSettled
=============================================================================
