--------------------------- MODULE PredictorWorkload ---------------------------
(***************************************************************************)
(* The InferenceService of a predictor Instance: what validatePredictor       *)
(* accepts and what buildInferenceService makes of it (inferenceservice.go,   *)
(* the defaults of components/types.go), and the port and the API that the    *)
(* external Service and the AI Gateway are told.                              *)
(***************************************************************************)
EXTENDS Integers, Sequences, Optionals, Maps, ExternalAccess, GpuPods, PredictorConfig

CONSTANTS
    Models,     \* the chart's predictor catalog: [format, scheme, task, gpuCount] by name
    HFToken     \* is a Hugging Face token configured?

ASSUME HFTokenAssumption == HFToken \in BOOLEAN

\* An Instance is a record of topology, access, legacy, service (ExternalAccess) and
\*   name, model (of the catalog), format, scheme (of storageURI), task,
\*   runtime (runtime or runtimeVersion is set), args (of [flag, value]), res
\*   (resources as in GpuPods), gpuCount, replicas, min, max, container
\*   (storageContainer), account (serviceAccountName), tolerations (of the scheduling
\*   policy), image, port, imageOnly (command or healthPath is set), schema, openAI,
\*   secret (backendAPIKeySecret), served (servedModelName), pull (imagePullSecret),
\*   tokenLimit, labels, annotations (by key), config (optional spec), wellFormed (each
\*   field that is checked alone, and what the API server says of the merged resource).
\* A ClusterStorageContainer is [disabled, type, schemes].

\* Formats are compared without regard to case.
HuggingFace == {"huggingface", "HuggingFace"}
TextEmbedding == "text_embedding"

-----------------------------------------------------------------------------
(* Parameters and their defaults. *)

UsesCustomContainer(i) == i.image # ""

ContainerPort(i) == IF IsSet(i.port) THEN Val(i.port) ELSE 8080

ResolvedAPISchema(i) ==
    CASE i.schema # "" -> i.schema
      [] i.schema = "" /\ i.openAI -> "OpenAI"
      [] OTHER -> ""

\* Mutant: a URI of the user's own does not opt out.
resolveCatalogModelMutant(i) ==
    CASE i.model = "" \/ i.format # "" \/ UsesCustomContainer(i) -> <<i>>
      [] OTHER -> IF i.model \notin DOMAIN Models THEN <<>>
                  ELSE <<[i EXCEPT !.format = Models[i.model].format,
                                   !.task = IF @ = "" THEN Models[i.model].task ELSE @]>>

\* The Instance with the catalog's values filled in; nil for an unknown model.
resolveCatalogModel(i) ==
    CASE i.model = "" \/ i.format # "" \/ i.scheme # "" \/ UsesCustomContainer(i) -> <<i>>
      [] OTHER ->
            IF i.model \notin DOMAIN Models THEN <<>>
            ELSE LET entry == Models[i.model] IN
                 <<[i EXCEPT !.format = entry.format, !.scheme = entry.scheme,
                             !.task = IF @ = "" THEN entry.task ELSE @,
                             !.gpuCount = IF ~IsSet(@) /\ entry.gpuCount > 0
                                          THEN <<entry.gpuCount>> ELSE @]>>

\* The API the Gateway can route to; "" if there is none.
predictorGatewaySchema(r) ==
    CASE UsesCustomContainer(r) /\ ResolvedAPISchema(r) \in {"OpenAI", "TypeSafe"} ->
            ResolvedAPISchema(r)
      [] ~UsesCustomContainer(r) /\ r.format \in HuggingFace /\ r.task = TextEmbedding -> "OpenAI"
      [] OTHER -> ""

-----------------------------------------------------------------------------
(* Validation of the resolved Instance. *)

validateRuntimeModel(r) ==
    /\ r.format # "" /\ r.scheme # ""
    /\ r.task # "" => r.format \in HuggingFace
    /\ ~r.imageOnly /\ ~IsSet(r.port) /\ ~r.openAI
    /\ r.schema = "" /\ r.secret = "" /\ r.served = "" /\ r.pull = ""

Ports == 1 .. 65535

validateCustomContainer(r) ==
    /\ r.format = "" /\ ~r.runtime /\ r.task = ""
    /\ ContainerPort(r) \in Ports
    /\ \/ r.schema \in {"", "OpenAI"}
       \/ r.schema = "TypeSafe" /\ ~r.openAI
    /\ r.container # "" => r.scheme # ""

validateReplicas(r) == ~Below(Either(r.min, r.replicas), 1)

validateAccess(r) ==
    /\ r.service \in {"", "ClusterIP", "LoadBalancer", "NodePort"}
    /\ r.access \in {"", "ClusterIP", "LoadBalancer", "NodePort", "EnvoyAIGateway"}
    /\ UsesAIGateway(r) => predictorGatewaySchema(r) # ""
    /\ r.secret # "" => UsesAIGateway(r)
    /\ IsSet(r.tokenLimit) => UsesAIGateway(r) /\ Val(r.tokenLimit) >= 1

\* Labels the provider puts on the InferenceService and its pods.
providerLabelKeys == {"instance"}
DeploymentMode == "deploymentMode"

validatePredictorMetadata(r) ==
    DOMAIN r.labels \cap providerLabelKeys = {} /\ DeploymentMode \notin DOMAIN r.annotations

validatePredictor(i) ==
    IsSet(resolveCatalogModel(i)) /\
    LET r == Val(resolveCatalogModel(i)) IN
    /\ IF UsesCustomContainer(r) THEN validateCustomContainer(r) ELSE validateRuntimeModel(r)
    /\ validateReplicas(r)
    /\ ~Below(r.gpuCount, 0)
    /\ validateAccess(r)
    /\ validatePredictorMetadata(r)
    /\ r.wellFormed

\* Mutant: the URI before the catalog is looked at.
validateStorageContainerMutant(i, content) ==
    IsSet(content) /\ ~Val(content).disabled /\ Val(content).type \in {"", "initContainer"}

\* content is what is stored under the name the Instance gives.
validateStorageContainer(i, content) ==
    /\ IsSet(content)
    /\ ~Val(content).disabled /\ Val(content).type \in {"", "initContainer"}
    /\ Val(resolveCatalogModel(i)).scheme \in Val(content).schemes

-----------------------------------------------------------------------------
(* The InferenceService. *)

None == [x \in {} |-> x]

predictorResources(r) ==
    LET given == IF IsSet(r.res) THEN Val(r.res) ELSE None
        out == IF Above(r.gpuCount, 0) THEN One(<<"limits", "nvidia">>, Val(r.gpuCount)) ++ given
               ELSE given
        Limited == {p[2] : p \in {p \in DOMAIN out : p[1] = "limits"}} IN
    IF ~IsSet(r.res) /\ ~Above(r.gpuCount, 0) THEN <<>>
    ELSE <<out ++ [p \in {"requests"} \X Limited |-> out[<<"limits", p[2]>>]]>>

hasFlag(args, flag) == \E n \in DOMAIN args : args[n].flag = flag

\* Mutant: asks for pooling without a GPU too, and not with one.
predictorArgsMutant(r) ==
    IF r.format \notin HuggingFace THEN r.args
    ELSE r.args \o When(~requestsGPU(predictorResources(r)), [flag |-> "runner", value |-> "pooling"])

predictorArgs(r) ==
    LET gpu == requestsGPU(predictorResources(r))
        Managed(flag, wanted, value) ==
            When(wanted /\ ~hasFlag(r.args, flag), [flag |-> flag, value |-> value])
        task == Managed("task", r.task # "", r.task) IN
    IF r.format \notin HuggingFace THEN r.args
    ELSE task \o r.args
         \o Managed("backend", ~gpu, "huggingface")
         \o Managed("runner", gpu /\ task # <<>> /\ r.task = TextEmbedding, "pooling")

usesHFTokenServiceAccount(r) == r.account = "" /\ HFToken /\ r.scheme = "hf"

\* A leaf that is left out when nothing is given.
Leaf(path, o) == IF IsSet(o) THEN One(path, Val(o)) ELSE None

NonEmpty(x) == When(x # <<>>, x)

Named(x) == When(x # "", x)

Prefixed(prefix, spec) ==
    [p \in {prefix \o q : q \in DOMAIN spec} |-> spec[SubSeq(p, Len(prefix) + 1, Len(p))]]

ResourcesOf(r) ==
    LET res == predictorResources(r) IN
    IF IsSet(res) THEN Prefixed(<<"resources">>, Val(res)) ELSE None

kserveContainer == "kserve-container"
transformerContainer == "transformer-container"
sharedMemory == "dshm"

customPredictorContainer(r) ==
    One(<<"image">>, r.image)
    ++ Leaf(<<"args">>, NonEmpty(r.args))
    ++ Leaf(<<"env">>, NonEmpty(When(r.scheme # "", [name |-> "STORAGE_URI", value |-> r.scheme])))
    ++ One(<<"ports">>, <<ContainerPort(r)>>)
    ++ One(Items("volumeMounts"), <<sharedMemory>>)
    ++ ResourcesOf(r)

runtimeModel(r) ==
    One(<<"modelFormat", "name">>, r.format)
    ++ One(<<"storageUri">>, r.scheme)
    ++ Leaf(<<"args">>, NonEmpty(predictorArgs(r)))
    ++ ResourcesOf(r)

\* The source of the model: an image, or a serving runtime.
SourceOf(r) ==
    IF UsesCustomContainer(r)
    THEN One(Items("containers"), <<kserveContainer>>)
         ++ Prefixed(<<"containers", kserveContainer>>, customPredictorContainer(r))
         ++ One(Items("volumes"), <<sharedMemory>>)
         ++ Leaf(Items("imagePullSecrets"), When(r.pull # "", <<r.pull>>))
    ELSE Prefixed(<<"model">>, runtimeModel(r))

\* Mutant: a custom container is scheduled as the user says.
PlacementMutant(r) ==
    LET gpu == ~UsesCustomContainer(r) /\ requestsGPU(predictorResources(r)) IN
    Leaf(<<"tolerations">>, When(r.tolerations # {}, r.tolerations))
    ++ Leaf(<<"deploymentStrategy", "maxSurge">>, When(gpu, 0))

\* gpuDeploymentStrategy replaces pods one at a time without surging.
Placement(r) ==
    LET gpu == requestsGPU(predictorResources(r))
        tolerations == ScheduledWith(r.tolerations, predictorResources(r)) IN
    Leaf(<<"tolerations">>, When(tolerations # {}, tolerations))
    ++ Leaf(<<"deploymentStrategy", "maxSurge">>, When(gpu, 0))
    ++ Leaf(<<"deploymentStrategy", "maxUnavailable">>, When(gpu, 1))

ScalingOf(r) ==
    Leaf(<<"minReplicas">>, Either(r.min, r.replicas)) ++ Leaf(<<"maxReplicas">>, r.max)

Accounts(r) ==
    Leaf(<<"storageContainerName">>, Named(r.container))
    ++ Leaf(<<"serviceAccountName">>,
            IF usesHFTokenServiceAccount(r) THEN <<"puller">> ELSE Named(r.account))

mergeMaps(base, override) == override ++ base

\* The metrics endpoint of a custom image is the user's to change, the mode is not.
AnnotationsOf(r) ==
    mergeMaps(mergeMaps(Leaf("metricsPort", When(UsesCustomContainer(r), ContainerPort(r))),
                        r.annotations),
              One(DeploymentMode, "Standard"))

Generated(r) ==
    One(<<"labels", "instance">>, r.name)
    ++ SourceOf(r) ++ Placement(r) ++ ScalingOf(r) ++ Accounts(r)

buildInferenceService(i) ==
    LET r == Val(resolveCatalogModel(i)) IN
    [of |-> i,      \* history: what it was built from
     labels |-> mergeMaps(r.labels, One("instance", r.name)),
     annotations |-> AnnotationsOf(r),
     spec |-> IF IsSet(r.config) THEN mergeSpecMaps(Val(r.config), Generated(r))
             ELSE Generated(r)]

\* What a spec says at a path, or else.
At(spec, path, else) == IF path \in DOMAIN spec THEN spec[path] ELSE else

predictorContainerPort == 8080

\* Mutant: always the first container.
predictorTargetPortMutant(spec) ==
    LET containers == At(spec, Items("containers"), <<>>)
        ports == At(spec, <<"containers", Head(containers), "ports">>, <<>>) IN
    IF containers = <<>> \/ ports = <<>> THEN predictorContainerPort ELSE Head(ports)

\* The first port of the transformer if there is one, else of the first container.
predictorTargetPort(spec) ==
    LET containers == At(spec, Items("containers"), <<>>)
        target == IF Contains(containers, transformerContainer) THEN transformerContainer
                  ELSE Head(containers)
        ports == At(spec, <<"containers", target, "ports">>, <<>>) IN
    IF containers = <<>> \/ ports = <<>> THEN predictorContainerPort ELSE Head(ports)
=============================================================================
