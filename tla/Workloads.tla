------------------------------- MODULE Workloads -------------------------------
(***************************************************************************)
(* How one Instance becomes its KServe workload: Validate, then the calls of  *)
(* Sync that write the workload (provider.go), for both topologies.           *)
(*                                                                         *)
(* What a reconcile reads belongs to others and is not watched: the configs   *)
(* an LLMInferenceService refers to are read one by one, the                  *)
(* ClusterStorageContainer of a predictor during Validate.  Others write them *)
(* between any two steps, the user edits the Instance, calls fail, answers    *)
(* are lost and the provider restarts.  The other calls of Sync are in        *)
(* InstanceSync.                                                              *)
(***************************************************************************)
EXTENDS LlmWorkload, PredictorWorkload

CONSTANTS
    Insts,      \* the Instances a user may create
    Revised,    \* those an edit may lead to
    Layers,     \* contents others may give a config
    Names,      \* the configs others write, in both namespaces
    Installed,  \* what others have written before the provider starts
    Stores,     \* contents the ClusterStorageContainer of the predictors may have
    MaxEdits    \* bound: writes of the Instance, of configs and of the container

ASSUME MaxEditsAssumption == MaxEdits \in Nat
ASSUME RevisedAssumption == Revised \subseteq Insts
ASSUME TopologyAssumption == \A i \in Insts : i.topology \in {"llm", "predictor"}

\* What the types of the code and the API server say of numbers: a limit is a quantity.
LimitOf(resources) ==
    \/ resources = <<>>
    \/ resources = <<Val(resources)>> /\ OptionOf(Val(resources), Nat)
ScalingType(s) == OptionOf(s.min, Int) /\ OptionOf(s.max, Int)

\* A config defines pod templates that there are.
LayerOption(content) == IsSet(content) => DOMAIN Val(content) \subseteq Pods

\* A worker count is an integer of the code's width.
ASSUME CountsAssumption ==
    \A i \in Insts : i.topology = "llm" =>
        \A count \in {i.workerCount, i.prefill.workerCount} : Below(count, Half) \/ count = <<>>

ASSUME InstsAssumption ==
    \A i \in Insts : i.topology = "llm" =>
        /\ OptionOf(i.tensor, Int) /\ OptionOf(i.pipeline, Int) /\ OptionOf(i.data, Int)
        /\ OptionOf(i.gpuCount, Int) /\ OptionOf(i.gpu, Nat) /\ i.cpu \in BOOLEAN
        /\ OptionOf(i.workerCount, Int) /\ LimitOf(i.workerRes)
        /\ ScalingType(i.scaling) /\ ScalingType(i.prefill.scaling)
        /\ OptionOf(i.prefill.pipeline, Int) /\ OptionOf(i.prefill.workerCount, Int)
        /\ LimitOf(i.prefill.workerRes) /\ i.prefill.on \in BOOLEAN
        /\ i.baseRefs \in Seq(STRING) /\ LayerOption(i.config)

\* Every config of others that is written or looked up is there or is not.
KnownRefs ==
    {"cpu", "scheduler", "route"} \cup Names
    \cup ((UNION {Range(i.baseRefs) : i \in {i \in Insts : i.topology = "llm"}}) \ {Inline})

ASSUME ConfigsAssumption ==
    /\ \A l \in Layers : LayerOption(<<l>>)
    /\ \A c \in Installed :
          /\ DOMAIN c = {"own", "system"}
          /\ \A place \in DOMAIN c : \A name \in KnownRefs :
                name \in DOMAIN c[place] /\ LayerOption(c[place][name])

\* What the predictor code reads of an Instance.
PredictorFields ==
    {"topology", "access", "legacy", "service", "name", "model", "format", "scheme", "task",
     "runtime", "args", "res", "gpuCount", "replicas", "min", "max", "container", "account",
     "tolerations", "image", "port", "imageOnly", "schema", "openAI", "secret", "served",
     "pull", "tokenLimit", "labels", "annotations", "config", "wellFormed"}

\* A decoded inline config: lists merged by name list names, and ports are what the API
\* server takes, in the dry run of Validate or for the Service.
SpecType(spec) ==
    /\ DOMAIN spec \subseteq Seq(STRING)
    /\ \A p \in DOMAIN spec :
          /\ IsNamedList(p) => spec[p] \in Seq(STRING)
          /\ p[Len(p)] = "ports" => spec[p] \in Seq(Ports)

ASSUME PredictorsAssumption ==
    \A i \in Insts : i.topology = "predictor" =>
        /\ PredictorFields \subseteq DOMAIN i
        /\ i.args \in Seq([flag : STRING, value : STRING]) /\ OptionOf(i.port, Int)
        /\ IsSet(i.res) => DOMAIN Val(i.res) \subseteq {"limits", "requests"} \X STRING
        /\ IsSet(i.config) => SpecType(Val(i.config))

VARIABLES
    inst,       \* the Instance as stored
    configs,    \* configs of others: optional layer by namespace and name
    inline,     \* the Instance's own config as stored: optional layer
    store,      \* the ClusterStorageContainer as stored, optional
    workload,   \* the KServe workload as stored, optional
    service,    \* the external Service of a predictor: optional [type, target]
    run,        \* the reconcile under way
    queued,
    edits

vars == <<inst, configs, inline, store, workload, service, run, queued, edits>>

-----------------------------------------------------------------------------
(* Others. *)

Places == <<"own", "system">>   \* the Instance's namespace and KServe's

Edit == edits < MaxEdits /\ edits' = edits + 1

\* The topology of an Instance does not change.
WriteInstance ==
    /\ Edit
    /\ \E i \in Revised : i.topology = inst.topology /\ i # inst /\ inst' = i
    /\ queued' = TRUE
    /\ UNCHANGED <<configs, inline, store, workload, service, run>>

\* Configs and containers of others are not watched.  What the topology does not
\* read is left alone.
WriteConfig ==
    /\ Edit /\ inst.topology = "llm"
    /\ \E place \in {"own", "system"}, name \in Names, content \in {<<>>} \cup {<<l>> : l \in Layers} :
          /\ configs[place][name] # content
          /\ configs' = [configs EXCEPT ![place][name] = content]
    /\ UNCHANGED <<inst, inline, store, workload, service, run, queued>>

WriteStore ==
    /\ Edit /\ inst.topology = "predictor"
    /\ \E content \in {<<>>} \cup {<<s>> : s \in Stores} : store # content /\ store' = content
    /\ UNCHANGED <<inst, configs, inline, workload, service, run, queued>>

Resync ==
    /\ ~queued /\ queued' = TRUE
    /\ UNCHANGED <<inst, configs, inline, store, workload, service, run, edits>>

-----------------------------------------------------------------------------
(* The reconcile.  llm: Validate, ensureLLMConfig, one lookup per ref, Apply.     *)
(* predictor: Validate, the lookup of the container, Apply, the Service.          *)

Idle == [phase |-> "idle", inst |-> <<>>, at |-> 0, place |-> 1, in |-> NothingInherited,
         read |-> <<>>]

\* The checks of Validate that look at the Instance alone.
Validates(i) == IF i.topology = "llm" THEN validateLLM(i) ELSE validatePredictor(i)

First(i) ==
    CASE i.topology = "llm" -> "config"
      [] i.topology = "predictor" /\ i.container # "" -> "store"
      [] OTHER -> "apply"

\* Mutant: what the user stored is taken as it is.
BeginMutant ==
    /\ run = Idle /\ queued /\ inst.topology = "llm"
    /\ queued' = FALSE
    /\ run' = [Idle EXCEPT !.phase = First(inst), !.inst = <<inst>>]
    /\ UNCHANGED <<inst, configs, inline, store, workload, service, edits>>

Begin ==
    /\ run = Idle /\ queued
    /\ queued' = FALSE
    /\ run' = IF Validates(inst) THEN [Idle EXCEPT !.phase = First(inst), !.inst = <<inst>>]
              ELSE Idle
    /\ UNCHANGED <<inst, configs, inline, store, workload, service, edits>>

\* A check in the middle of validatePredictor, after the others here: those look at the
\* Instance alone, and whichever refuses ends the reconcile.
getStorageContainer ==
    /\ run.phase = "store"
    /\ run' = IF validateStorageContainer(Val(run.inst), store)
              THEN [run EXCEPT !.phase = "apply", !.read = store]
              ELSE Idle
    /\ UNCHANGED <<inst, configs, inline, store, workload, service, queued, edits>>

\* Without flags the configs are not read.
ensureLLMConfig ==
    /\ run.phase = "config"
    /\ LET i == Val(run.inst) IN
       /\ inline' = IF IsSet(i.config) THEN i.config ELSE inline
       /\ run' = IF i.flags = <<>> THEN [run EXCEPT !.phase = "apply"]
                 ELSE [run EXCEPT !.phase = "read", !.at = 1]
    /\ UNCHANGED <<inst, configs, store, workload, service, queued, edits>>

Refs == baseRefs(Val(run.inst))

Found(content) == run' = [run EXCEPT !.in = add(@, content), !.at = @ + 1, !.place = 1]

OwnConfig == Refs[run.at] = Inline /\ IsSet(Val(run.inst).config)

\* The inline config is taken from the Instance if that has one.
resolveInline ==
    /\ run.phase = "read" /\ run.at <= Len(Refs) /\ OwnConfig
    /\ Found(Val(Val(run.inst).config))
    /\ UNCHANGED <<inst, configs, inline, store, workload, service, queued, edits>>

\* The Instance's own config may outlive the inline one it was written from.
ConfigAt(place, ref) ==
    CASE ref = Inline /\ place = "own" -> inline
      [] ref = Inline /\ place = "system" -> <<>>
      [] OTHER -> configs[place][ref]

\* One namespace after the other; a config that neither has is skipped.
getLLMConfig ==
    /\ run.phase = "read" /\ run.at <= Len(Refs) /\ ~OwnConfig
    /\ LET content == ConfigAt(Places[run.place], Refs[run.at]) IN
       \/ IsSet(content) /\ Found(Val(content))
       \/ ~IsSet(content) /\ run.place = 1 /\ run' = [run EXCEPT !.place = 2]
       \/ ~IsSet(content) /\ run.place = 2 /\ run' = [run EXCEPT !.at = @ + 1, !.place = 1]
    /\ UNCHANGED <<inst, configs, inline, store, workload, service, queued, edits>>

Resolved ==
    /\ run.phase = "read" /\ run.at > Len(Refs)
    /\ run' = [run EXCEPT !.phase = "apply"]
    /\ UNCHANGED <<inst, configs, inline, store, workload, service, queued, edits>>

\* A predictor is built from the Instance alone.
InferenceServices ==
    [i \in {i \in Insts : i.topology = "predictor" /\ validatePredictor(i)} |->
        buildInferenceService(i)]

Build(i) == IF i.topology = "llm" THEN buildLLMInferenceService(i, run.in)
            ELSE InferenceServices[i] ++ [read |-> run.read]

Built == run.phase = "apply" /\ workload' = <<Build(Val(run.inst))>>

Apply ==
    /\ Built
    /\ run' = IF Val(run.inst).topology = "llm" THEN Idle ELSE [run EXCEPT !.phase = "service"]
    /\ UNCHANGED <<inst, configs, inline, store, service, queued, edits>>

\* Mutant: a Service that is there already is left as it is.
reconcileExternalServiceMutant(i) ==
    LET type == resolveServiceType(i) IN
    service' = IF type = "ClusterIP" THEN <<>>
               ELSE IF IsSet(service) /\ Val(service).type = type THEN service
               ELSE <<[type |-> type, target |-> predictorTargetPort(Val(workload).spec)]>>

\* The target is taken from the workload as the API server returned it.
reconcileExternalService(i) ==
    service' = IF resolveServiceType(i) = "ClusterIP" THEN <<>>
               ELSE <<[type |-> resolveServiceType(i),
                       target |-> predictorTargetPort(Val(workload).spec)]>>

Published == run.phase = "service" /\ reconcileExternalService(Val(run.inst))

Publish ==
    /\ Published
    /\ run' = Idle
    /\ UNCHANGED <<inst, configs, inline, store, workload, queued, edits>>

\* A call fails, or the provider restarts, which queues every Instance.
Abandoned ==
    run # Idle /\ run' = Idle /\ queued' = TRUE /\ UNCHANGED <<inst, configs, store, edits>>

Fails == Abandoned /\ UNCHANGED <<inline, workload, service>>

AnswerLost ==
    /\ Abandoned
    /\ \/ Built /\ UNCHANGED <<inline, service>>
       \/ Published /\ UNCHANGED <<inline, workload>>

ConfigAnswerLost ==
    /\ Abandoned /\ run.phase = "config" /\ IsSet(Val(run.inst).config)
    /\ inline' = Val(run.inst).config
    /\ UNCHANGED <<workload, service>>

ReadsConfigs(i) == i.topology = "llm" /\ i.flags # <<>>
ReadsStore(i) == i.topology = "predictor" /\ i.container # ""

\* What the first Instance does not read is empty to begin with.
Init ==
    /\ inst \in Insts
    /\ configs \in Installed
    /\ ~ReadsConfigs(inst) => \A c \in Range(configs) : Range(c) = {<<>>}
    /\ store \in {<<>>} \cup {<<s>> : s \in Stores}
    /\ ~ReadsStore(inst) => store = <<>>
    /\ inline = <<>> /\ workload = <<>> /\ service = <<>>
    /\ run = Idle /\ queued = TRUE /\ edits = 0

Reconcile ==
    \/ Begin \/ getStorageContainer \/ ensureLLMConfig \/ resolveInline \/ getLLMConfig
    \/ Resolved \/ Apply \/ Publish

Next ==
    \/ WriteInstance \/ WriteConfig \/ WriteStore \/ Resync
    \/ Reconcile
    \/ Fails \/ AnswerLost \/ ConfigAnswerLost

Spec == Init /\ [][Next]_vars

\* The worker goes on, the resync comes round, and failures stop some day.
Fairness ==
    /\ WF_vars(Reconcile) /\ WF_vars(Resync)
    /\ <>[][~Fails /\ ~AnswerLost /\ ~ConfigAnswerLost]_vars

FairSpec == Spec /\ Fairness

-----------------------------------------------------------------------------
(* What KServe makes of it: configs merged in the order of the refs, then the   *)
(* workload's own templates; a list such as args is taken whole.               *)

Stored(ref) == Either(ConfigAt("own", ref), ConfigAt("system", ref))

Merged(w) == {n \in DOMAIN w.refs : IsSet(Stored(w.refs[n]))}

Layer(w, n) == Val(Stored(w.refs[n]))

GivesArgs(config, pod) ==
    IsSet(config) /\ pod \in DOMAIN Val(config) /\ IsSet(Val(config)[pod])

InheritedPods(w) == {"template"} \cup UNION {DOMAIN Layer(w, n) : n \in Merged(w)}

\* The last config that gives the template arguments.
InheritedArgs(w, pod) ==
    LET giving == {n \in Merged(w) : GivesArgs(Stored(w.refs[n]), pod)} IN
    IF giving = {} THEN <<>>
    ELSE LET last == CHOOSE n \in giving : \A m \in giving : m <= n
         IN  Val(Layer(w, last)[pod])

RunningPods(w) == DOMAIN w.pods \cup InheritedPods(w)

RunningArgs(w, pod) ==
    IF pod \in DOMAIN w.pods /\ IsSet(w.pods[pod].args) THEN Val(w.pods[pod].args)
    ELSE InheritedArgs(w, pod)

-----------------------------------------------------------------------------
(* Properties. *)

Llm == IsSet(workload) /\ inst.topology = "llm"
Predictor == IsSet(workload) /\ inst.topology = "predictor"

\* A reconcile that has come past Validate builds from an Instance that it accepts,
\* reads the refs of that Instance only, and every template is one of the four.
TypeOK ==
    /\ queued \in BOOLEAN /\ edits \in 0 .. MaxEdits
    /\ run.phase \in {"idle", "store", "config", "read", "apply", "service"}
    /\ run.place \in {1, 2} /\ run.in.has \subseteq Pods
    /\ run.phase = "idle" <=> run = Idle
    /\ run # Idle => Validates(Val(run.inst)) /\ Val(run.inst).topology = inst.topology
    /\ run.phase = "read" => run.at \in 1 .. Len(Refs) + 1
    /\ IsSet(service) => inst.topology = "predictor" /\ Val(service).target \in Ports
    /\ Llm =>
         /\ PodsOf(Val(workload).of) \subseteq DOMAIN Val(workload).pods
         /\ DOMAIN Val(workload).pods \subseteq Pods

\* "Must be >= tensorParallelSize": on the GPU profile every pod the Instance asks
\* for, head, worker or prefill, is given the GPUs its tensor parallelism needs, and
\* one at least unless the resources of the component, without a gpuCount, or those of
\* the workers set the limit to 0.
SetToZero(i, pod) ==
    \/ i.gpu = <<0>> /\ ~IsSet(i.gpuCount)
    \/ pod = "worker" /\ i.workerRes = << <<0>> >>
    \/ pod = "prefillWorker" /\ i.prefill.workerRes = << <<0>> >>

EnoughGPUs ==
    Llm =>
        LET i == Val(workload).of
            pods == Val(workload).pods IN
        ~i.cpu => \A p \in PodsOf(i) :
            /\ IsSet(pods[p].gpu) /\ (Val(pods[p].gpu) >= 1 \/ SetToZero(i, p))
            /\ IsSet(i.tensor) => Val(pods[p].gpu) >= Val(i.tensor)

\* The groups of workers that are built, each with the pipeline beside it.
WorkerGroups ==
    LET w == Val(workload)
        i == w.of IN
    {[count |-> Val(i.workerCount), pipeline |-> w.parallelism.pipeline] :
        p \in PodsOf(i) \cap {"worker"}}
    \cup {[count |-> Val(i.prefill.workerCount), pipeline |-> w.prefillPipeline] :
        p \in PodsOf(i) \cap {"prefillWorker"}}

\* Head and workers are as many as the pipeline has stages, and data parallelism never
\* displaces the pipeline of workers.  The largest count is the exception: there the sum
\* of validateWorkerGroup wraps, and the workers are built with the smallest integer for
\* a pipeline, or with none where data parallelism displaces it.
WorkersFitPipeline ==
    Llm => \A g \in WorkerGroups :
              IF g.count < Half - 1 THEN g.pipeline = <<g.count + 1>>
              ELSE g.pipeline \in {<<>>, <<-Half>>}

\* WorkerCount "must equal pipelineParallelSize - 1" (components/types.go), without an
\* exception: a Validate that compares sums of int32 does not hold it.
WorkersMatchPipeline == Llm => \A g \in WorkerGroups : g.pipeline = <<g.count + 1>>

\* "Static replicas, or WVA autoscaling (mutually exclusive on the CR)" and "KServe
\* requires the same actuator on both sides": what is built scales one way.
OneWayToScale ==
    Llm =>
        LET w == Val(workload)
            Sound(s, asked) ==
                IsSet(s.scaling) =>
                    /\ s.replicas = <<>>
                    /\ Val(s.scaling).actuator = "hpa" <=> asked.actuator.text = "hpa"
                    /\ \A n \in Range(Val(s.scaling).min) : 1 <= n /\ n <= Val(s.scaling).max
        IN  /\ Sound(w.decode, w.of.scaling)
            /\ w.of.prefill.on => Sound(w.prefill, w.of.prefill.scaling)
            /\ w.of.prefill.on /\ IsSet(w.decode.scaling) /\ IsSet(w.prefill.scaling) =>
                 Val(w.decode.scaling).actuator = Val(w.prefill.scaling).actuator

\* "Each adapter is addressable by name in OpenAI model requests": as built, with
\* their names trimmed, no two adapters share a name, nor an adapter and the model.
AdaptersAddressable ==
    Llm =>
        LET w == Val(workload)
            Name(n) == w.lora[n].name.text IN
        /\ \A n \in DOMAIN w.lora : Name(n) # servedModelName(w.of)
        /\ \A n, m \in DOMAIN w.lora : Name(n) = Name(m) => n = m

\* "The provider appends them after the args the workload inherits, so they win":
\* once others stop writing, every pod KServe starts, also one that only a config
\* defines, has what it would inherit and then the flags of the Instance, and what
\* it inherits is the inline config's if that has any ("applied last").
EngineFlagsSettle ==
    <>[](inst.topology = "llm" /\ validateLLM(inst) =>
            /\ IsSet(workload) /\ Val(workload).of = inst
            /\ LET w == Val(workload) IN
               \A p \in RunningPods(w) :
                  /\ RunningArgs(w, p) = InheritedArgs(w, p) \o inst.flags
                  /\ GivesArgs(inst.config, p) => InheritedArgs(w, p) = Val(Val(inst.config)[p]))

\* "Set on head, worker and prefill pods" (README): no pod KServe starts lacks the
\* pull secret.  A worker or prefill template that only a config defines does.
PullSecretEverywhere ==
    Llm /\ Val(workload).of.pullSecret =>
        LET w == Val(workload) IN
        \A p \in RunningPods(w) : p \in DOMAIN w.pods /\ w.pods[p].pull

\* "GPU llm and predictor pods tolerate the taint named after each GPU resource they
\* request" and are "replaced one at a time without a surge pod" (README): whether
\* gpuCount, the catalog, the component's resources or a worker's own ask for them.
\* GPUs that only an inline config asks for are left out.
PodsFollowGPU ==
    /\ Llm =>
         LET w == Val(workload) IN
         /\ \A p \in PodsOf(w.of) :
               Above(w.pods[p].gpu, 0) => \E t \in w.pods[p].tolerations : Covers(t, "nvidia")
         /\ ~w.of.cpu => w.noSurge
    /\ Predictor =>
         LET spec == Val(workload).spec
             res == predictorResources(Val(resolveCatalogModel(Val(workload).of))) IN
         requestsGPU(res) =>
            /\ \A g \in Claimed(res) :
                  \E t \in At(spec, <<"tolerations">>, {}) : Covers(t, g)
            /\ At(spec, <<"deploymentStrategy", "maxSurge">>, 1) = 0
            /\ \E source \in {<<"model">>, <<"containers", kserveContainer>>}, g \in GPUs :
                  At(spec, source \o <<"resources", "limits", g>>, 0) # 0
                  \/ At(spec, source \o <<"resources", "requests", g>>, 0) # 0

\* "KServe treats the first container as the model server": whatever containers the
\* inline config lists, and in whatever order, the Instance's own image stays first
\* with its own port, and none of the config's containers is lost.
ModelServerFirst ==
    Predictor /\ UsesCustomContainer(Val(workload).of) =>
        LET i == Val(workload).of
            spec == Val(workload).spec
            containers == At(spec, Items("containers"), <<>>)
            server == <<"containers", kserveContainer>> IN
        /\ containers # <<>> /\ Head(containers) = kserveContainer
        /\ At(spec, server \o <<"image">>, "") = i.image
        /\ At(spec, server \o <<"ports">>, <<>>) = <<ContainerPort(i)>>
        /\ Contains(At(spec, Items("volumes"), <<>>), sharedMemory)
        /\ \A c \in Range(At(Val(Either(i.config, <<None>>)), Items("containers"), <<>>)) :
              Contains(containers, c)

\* "Mixing a catalog URI with another format would serve the wrong runtime": format
\* and source both come from the Instance or both from the catalog, never from the
\* inline config; and the source is one that the storage container, as it was when
\* Validate read it, downloads.
SourceFits ==
    Predictor =>
        LET i == Val(workload).of
            spec == Val(workload).spec
            format == At(spec, <<"model", "modelFormat", "name">>, "")
            source == At(spec, <<"model", "storageUri">>, "")
            content == Val(workload).read IN
        /\ ~UsesCustomContainer(i) =>
             \/ format = i.format /\ source = i.scheme
             \/ /\ i.format = "" /\ i.scheme = ""
                /\ format = Models[i.model].format /\ source = Models[i.model].scheme
        /\ i.container # "" =>
             /\ IsSet(content) /\ ~Val(content).disabled
             /\ (IF UsesCustomContainer(i) THEN i.scheme ELSE source) \in Val(content).schemes

\* "Serves decoder-based embedding models as text generators unless told to pool": a
\* runtime predictor that the Gateway routes as an embeddings API runs the embedding
\* task, on a GPU by the pooling runner and without one by the huggingface backend,
\* unless the user passes those flags.
EmbeddingsServed ==
    Predictor /\ UsesAIGateway(Val(workload).of) /\ ~UsesCustomContainer(Val(workload).of) =>
        LET r == Val(resolveCatalogModel(Val(workload).of))
            args == At(Val(workload).spec, <<"model", "args">>, <<>>)
            Says(flag, value) == Contains(args, [flag |-> flag, value |-> value])
            gpu == requestsGPU(predictorResources(r)) IN
        ~hasFlag(r.args, "task") =>
            /\ Says("task", TextEmbedding)
            /\ gpu /\ ~hasFlag(r.args, "runner") => Says("runner", "pooling")
            /\ ~gpu /\ ~hasFlag(r.args, "backend") => Says("backend", "huggingface")

\* Where the pod listens: a transformer the config adds, else the image, else the
\* runtime.
ListensOn(i) ==
    LET config == Val(Either(i.config, <<None>>)) IN
    IF Contains(At(config, Items("containers"), <<>>), transformerContainer)
    THEN LET ports == At(config, <<"containers", transformerContainer, "ports">>, <<>>) IN
         IF ports = <<>> THEN 8080 ELSE Head(ports)
    ELSE IF UsesCustomContainer(i) THEN ContainerPort(i) ELSE 8080

Accepted(i) ==
    validatePredictor(i) /\ (i.container # "" => validateStorageContainer(i, store))

\* "The external Service follows it" (README): once the user and others rest, an
\* accepted predictor is stored as its Instance says, and its external Service is
\* there exactly if access asks for it, of that type, in front of the port its pods
\* listen on by then, also when the port or the config has changed under a Service
\* that was there.
PredictorSettles ==
    <>[](inst.topology = "predictor" /\ Accepted(inst) =>
            /\ IsSet(workload) /\ Val(workload).of = inst
            /\ service = IF inst.access \in {"LoadBalancer", "NodePort"}
                         THEN <<[type |-> inst.access, target |-> ListensOn(inst)]>>
                         ELSE IF inst.access = "" /\ inst.service \in {"LoadBalancer", "NodePort"}
                         THEN <<[type |-> inst.service, target |-> ListensOn(inst)]>>
                         ELSE <<>>)
=============================================================================
