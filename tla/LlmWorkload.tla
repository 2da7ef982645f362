------------------------------ MODULE LlmWorkload ------------------------------
(***************************************************************************)
(* The LLMInferenceService of an llm Instance: what validateLLM accepts,     *)
(* what buildLLMInferenceService makes of it (llminferenceservice.go,        *)
(* llm_model_source.go) and how the engine's flags are joined to the         *)
(* arguments inherited from LLMInferenceServiceConfigs (vllm_engine.go).     *)
(* The access mode's checks and calls are in InstanceSync and ModelNames.    *)
(***************************************************************************)
EXTENDS Integers, Sequences, Functions, Optionals, Maps, GpuPods

CONSTANTS
    Catalog,    \* the chart's LoRA adapters: URI scheme by name
    Width       \* bits of the integers of a spec (32 in the code)

ASSUME WidthAssumption == Width \in Nat \ {0}

\* A text that the code trims is [text, padded].  An Instance is a record of
\*   topology, name, modelName, scheme (of modelURI), disabled
\*   (disableStorageInitializer), pullSecret, replicas, tensor, pipeline, data (parallel
\*   sizes), cpu (profile), gpuCount, gpu (limit in the component's resources),
\*   tolerations (of the scheduling policy), workerCount, workerRes (optional
\*   resources: an optional GPU limit), scaling [min, max, actuator],
\*   prefill [on, replicas, pipeline, workerCount, workerRes, scaling],
\*   lora [deployment, slots, adapters, limits], routing, gateway, baseRefs,
\*   config (optional layer), flags (of the engine settings), wellFormed (each field
\*   that is checked alone: modelURI, config, service type, engine, pull secret).
\* A layer maps the pod templates a config defines to the optional arguments of
\* their main container.

\* A sum of signed integers of Width bits.
Half == 2 ^ (Width - 1)
ASSUME HalfAssumption == Half \in Nat \ {0}

Wrap(n) == ((n + Half) % (2 * Half)) - Half

-----------------------------------------------------------------------------
(* Validation. *)

NoText == [text |-> "", padded |-> FALSE]

enabled(s) == IsSet(s.min) \/ IsSet(s.max) \/ s.actuator # NoText

\* Mutant: compares before it trims.
resolvedActuatorMutant(actuator) ==
    IF actuator = [text |-> "hpa", padded |-> FALSE] THEN "hpa" ELSE "keda"

resolvedActuator(actuator) == IF actuator.text = "hpa" THEN "hpa" ELSE "keda"

validateWorkloadScaling(s) ==
    enabled(s) =>
        /\ IsSet(s.max) /\ Val(s.max) >= 1
        /\ IsSet(s.min) => Val(s.min) >= 1 /\ Val(s.min) <= Val(s.max)
        /\ s.actuator.text \in {"", "hpa", "keda"}

\* Mutant: off by one.
validateWorkerGroupMutant(count, pipeline, resources) ==
    IF ~IsSet(count) THEN ~IsSet(resources)
    ELSE Val(count) >= 1 /\ IsSet(pipeline) /\ Val(pipeline) \in {Val(count), Val(count) + 1}

validateWorkerGroup(count, pipeline, resources) ==
    IF ~IsSet(count) THEN ~IsSet(resources)
    ELSE Val(count) >= 1 /\ IsSet(pipeline) /\ Val(pipeline) = Wrap(Val(count) + 1)

\* The GPU limit of the component's resources once gpuCount has been worked in.
withGPUCount(i) ==
    CASE i.cpu -> i.gpu
      [] ~i.cpu /\ IsSet(i.gpuCount) -> <<IF Val(i.gpuCount) < 1 THEN 1 ELSE Val(i.gpuCount)>>
      [] ~i.cpu /\ ~IsSet(i.gpuCount) -> IF IsSet(i.gpu) THEN i.gpu ELSE <<1>>

overlayResources(head, overlay) ==
    IF IsSet(overlay) /\ IsSet(Val(overlay)) THEN Val(overlay) ELSE head

validateTensorGPU(limit, i) ==
    ~i.cpu /\ IsSet(i.tensor) /\ Val(i.tensor) >= 1 /\ IsSet(limit) => Val(limit) >= Val(i.tensor)

validateLLMModelSource(i) ==
    IF i.disabled THEN i.scheme \notin {"oci", "oci+native"}
    ELSE i.scheme \in {"hf", "s3", "pvc", "oci", "oci+native"}

servedModelName(i) == IF i.modelName # "" THEN i.modelName ELSE i.name

loraSlotNames(i) == {s \in DOMAIN i.lora.slots : i.lora.slots[s].text # ""}

Enabled == [text |-> "enabled", padded |-> FALSE]

validateLoRASlots(i) ==
    LET slots == i.lora.slots IN
    CASE i.lora.deployment.text \in {"", "disabled"} -> TRUE
      [] i.lora.deployment.text = "enabled" ->
            /\ loraSlotNames(i) # {}
            /\ \A s, t \in loraSlotNames(i) : slots[s].text = slots[t].text => s = t
            /\ \A s \in loraSlotNames(i) : slots[s].text \in DOMAIN Catalog
      [] OTHER -> FALSE

\* The deployment is compared as it was written, the slots are trimmed.
resolvedLoRAAdapters(i) ==
    LET FromSlot(slot) == [name |-> [text |-> slot.text, padded |-> FALSE],
                           scheme |-> Catalog[slot.text]]
        Used(slot) == slot.text # ""
        used == SelectSeq(i.lora.slots, Used) IN
    IF i.lora.deployment = Enabled
    THEN [n \in DOMAIN used |-> FromSlot(used[n])]
    ELSE i.lora.adapters

\* Mutant: the names are compared as they were written.
validateLoRAParamsMutant(i) ==
    LET adapters == resolvedLoRAAdapters(i)
        Name(n) == adapters[n].name IN
    /\ validateLoRASlots(i)
    /\ \A n \in DOMAIN adapters : Name(n).text \notin {"", ".", "..", servedModelName(i)}
    /\ \A n, m \in DOMAIN adapters : Name(n) = Name(m) => n = m

validateLoRAParams(i) ==
    LET adapters == resolvedLoRAAdapters(i)
        Name(n) == adapters[n].name.text IN
    /\ validateLoRASlots(i)
    /\ adapters # <<>> =>
         /\ \A n \in DOMAIN adapters : Name(n) \notin {"", ".", "..", servedModelName(i)}
         /\ \A n, m \in DOMAIN adapters : Name(n) = Name(m) => n = m
         /\ \A n \in DOMAIN adapters : adapters[n].scheme # ""
         /\ \A limit \in i.lora.limits : limit >= 1
         /\ i.disabled => \A n \in DOMAIN adapters : adapters[n].scheme \notin {"hf", "s3"}

validateScaling(i) ==
    /\ validateWorkloadScaling(i.scaling)
    /\ enabled(i.prefill.scaling) => i.prefill.on
    /\ validateWorkloadScaling(i.prefill.scaling)
    /\ enabled(i.scaling) /\ enabled(i.prefill.scaling) =>
         resolvedActuator(i.scaling.actuator) = resolvedActuator(i.prefill.scaling.actuator)

\* Mutant: the prefill workers are not looked at.
validateGPUsMutant(i) ==
    /\ IsSet(i.gpuCount) => ~i.cpu /\ Val(i.gpuCount) >= 1
    /\ validateTensorGPU(withGPUCount(i), i)
    /\ IsSet(i.workerCount) =>
         validateTensorGPU(overlayResources(withGPUCount(i), i.workerRes), i)

validateGPUs(i) ==
    /\ IsSet(i.gpuCount) => ~i.cpu /\ Val(i.gpuCount) >= 1
    /\ validateTensorGPU(withGPUCount(i), i)
    /\ IsSet(i.workerCount) =>
         validateTensorGPU(overlayResources(withGPUCount(i), i.workerRes), i)
    /\ IsSet(i.prefill.workerCount) =>
         validateTensorGPU(overlayResources(withGPUCount(i), i.prefill.workerRes), i)

validateWorkers(i) ==
    /\ validateWorkerGroup(i.workerCount, i.pipeline, i.workerRes)
    /\ IsSet(i.prefill.workerCount) \/ IsSet(i.prefill.workerRes) => i.prefill.on
    /\ validateWorkerGroup(i.prefill.workerCount, i.prefill.pipeline, i.prefill.workerRes)

validateLLM(i) ==
    /\ validateLLMModelSource(i)
    /\ IsSet(i.replicas) => Val(i.replicas) >= 0
    /\ ~(Above(i.data, 1) /\ Above(i.pipeline, 1))
    /\ i.wellFormed
    /\ validateScaling(i)
    /\ validateWorkers(i)
    /\ validateGPUs(i)
    /\ validateLoRAParams(i)

-----------------------------------------------------------------------------
(* The LLMInferenceService. *)

Pods == {"template", "worker", "prefill", "prefillWorker"}
Inline == "inline"

routingConfigRefs(i) ==
    When(i.routing \/ i.gateway, "scheduler") \o When(i.routing, "route")

baseRefs(i) ==
    When(i.cpu, "cpu") \o routingConfigRefs(i) \o i.baseRefs \o When(IsSet(i.config), Inline)

buildScaling(s, replicas) ==
    [replicas |-> IF enabled(s) THEN <<>> ELSE replicas,
     scaling |-> IF enabled(s) THEN <<[min |-> s.min, max |-> Val(s.max),
                                       actuator |-> resolvedActuator(s.actuator)]>>
                 ELSE <<>>]

buildParallelism(i) ==
    [tensor |-> i.tensor,
     data |-> IF Above(i.data, 1) THEN i.data ELSE <<>>,
     pipeline |-> IF Above(i.data, 1) THEN <<>> ELSE i.pipeline]

\* The pod templates the Instance itself asks for, a template at least.
PodsOf(i) ==
    {"template"}
    \cup (IF IsSet(i.workerCount) THEN {"worker"} ELSE {})
    \cup (IF i.prefill.on THEN {"prefill"} ELSE {})
    \cup (IF i.prefill.on /\ IsSet(i.prefill.workerCount) THEN {"prefillWorker"} ELSE {})

GPULimit(i, pod) ==
    CASE pod = "worker" -> overlayResources(withGPUCount(i), i.workerRes)
      [] pod = "prefillWorker" -> overlayResources(withGPUCount(i), i.prefill.workerRes)
      [] pod \in {"template", "prefill"} -> withGPUCount(i)

\* Every template is scheduled by what it requests itself.
applyLLMScheduling(i, pod) ==
    LET limit == GPULimit(i, pod) IN
    ScheduledWith(i.tolerations,
                  IF IsSet(limit) THEN <<One(<<"limits", "nvidia">>, Val(limit))>> ELSE <<>>)

\* The pull secret is added to the templates built by then.
buildPods(i) ==
    [p \in PodsOf(i) |-> [gpu |-> GPULimit(i, p), tolerations |-> applyLLMScheduling(i, p),
                          pull |-> i.pullSecret, args |-> <<>>]]

\* What applyEngineArgs meets: the arguments inherited per template, and the
\* templates that some config defines.
NothingInherited == [args |-> [p \in Pods |-> <<>>], has |-> {}]

\* Mutant: a template without arguments takes those of earlier configs away.
addMutant(in, layer) ==
    [args |-> [p \in Pods |->
                 CASE p \in DOMAIN layer /\ IsSet(layer[p]) -> Val(layer[p])
                   [] p \in DOMAIN layer /\ ~IsSet(layer[p]) -> <<>>
                   [] OTHER -> in.args[p]],
     has |-> in.has \cup DOMAIN layer]

add(in, layer) ==
    [args |-> [p \in Pods |->
                 IF p \in DOMAIN layer /\ IsSet(layer[p]) THEN Val(layer[p]) ELSE in.args[p]],
     has |-> in.has \cup DOMAIN layer]

BarePod == [gpu |-> <<>>, tolerations |-> {}, pull |-> FALSE, args |-> <<>>]

applyEngineArgs(pods, in, flags) ==
    IF flags = <<>> THEN pods
    ELSE [p \in DOMAIN pods \cup in.has |->
            [(IF p \in DOMAIN pods THEN pods[p] ELSE BarePod)
                EXCEPT !.args = <<in.args[p] \o flags>>]]

buildLLMInferenceService(i, in) ==
    [of |-> i,      \* history: what it was built from
     refs |-> baseRefs(i),
     parallelism |-> buildParallelism(i),
     decode |-> buildScaling(i.scaling, i.replicas),
     prefill |-> buildScaling(i.prefill.scaling, i.prefill.replicas),
     prefillPipeline |-> i.prefill.pipeline,
     noSurge |-> ~i.cpu,
     lora |-> resolvedLoRAAdapters(i),
     pods |-> applyEngineArgs(buildPods(i), in, i.flags)]
=============================================================================
