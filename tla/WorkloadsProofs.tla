---------------------------- MODULE WorkloadsProofs ----------------------------
(***************************************************************************)
(* Theorems about Workloads: what Validate accepts is built consistently, for *)
(* every set of Instances, integers of any width, whatever others write and   *)
(* however often the provider fails or restarts.                              *)
(***************************************************************************)
EXTENDS Workloads, TLAPS

-----------------------------------------------------------------------------
(* The invariant.  An Instance may be edited under a reconcile and long after     *)
(* it: what is stored was built from some Instance that Validate accepted, not     *)
(* from the one there is.                                                          *)

\* A reconcile works on an Instance that it accepted.
RunSound ==
    run # Idle =>
        /\ {"phase", "inst"} \subseteq DOMAIN run
        /\ Val(run.inst) \in Insts /\ Val(run.inst).topology = inst.topology
        /\ Validates(Val(run.inst))

\* What the builder makes of an accepted Instance, whatever arguments are inherited.
AsBuilt(w) ==
    /\ w.of \in Insts /\ w.of.topology = "llm" /\ validateLLM(w.of)
    /\ w.parallelism = buildParallelism(w.of)
    /\ w.prefillPipeline = w.of.prefill.pipeline
    /\ w.decode = buildScaling(w.of.scaling, w.of.replicas)
    /\ w.prefill = buildScaling(w.of.prefill.scaling, w.of.prefill.replicas)
    /\ w.lora = resolvedLoRAAdapters(w.of)
    /\ w.noSurge = ~w.of.cpu
    /\ \A p \in PodsOf(w.of) :
          /\ w.pods[p].gpu = GPULimit(w.of, p)
          /\ w.pods[p].tolerations = applyLLMScheduling(w.of, p)

BuiltInv ==
    /\ inst \in Insts
    /\ RunSound
    /\ Llm => AsBuilt(Val(workload))

-----------------------------------------------------------------------------
(* It is inductive. *)

LEMMA PointerTo == ASSUME NEW x PROVE IsSet(<<x>>) /\ Val(<<x>>) = x
  BY DEF IsSet, Val

\* The engine's flags change the arguments of a template and nothing else.
LEMMA PodsKept ==
    ASSUME NEW i, NEW in, NEW flags, NEW p \in PodsOf(i),
           NEW pods, pods = applyEngineArgs(buildPods(i), in, flags)
    PROVE  pods[p].gpu = GPULimit(i, p) /\ pods[p].tolerations = applyLLMScheduling(i, p)
<1> DEFINE pod == [gpu |-> GPULimit(i, p), tolerations |-> applyLLMScheduling(i, p),
                   pull |-> i.pullSecret, args |-> <<>>]
<1>1. p \in DOMAIN buildPods(i) /\ buildPods(i)[p] = pod
  BY DEF buildPods
<1>2. CASE flags = <<>>
  BY <1>1, <1>2 DEF applyEngineArgs
<1>3. CASE flags # <<>>
  <2>1. pods[p] = [pod EXCEPT !.args = <<in.args[p] \o flags>>]
    BY <1>1, <1>3 DEF applyEngineArgs
  <2> QED
    BY <2>1
<1> QED
  BY <1>2, <1>3

LEMMA BuilderSound ==
    ASSUME NEW i \in Insts, i.topology = "llm", validateLLM(i), NEW in
    PROVE  AsBuilt(buildLLMInferenceService(i, in))
<1> DEFINE w == buildLLMInferenceService(i, in)
<1>1. /\ w.of = i /\ w.parallelism = buildParallelism(i)
      /\ w.prefillPipeline = i.prefill.pipeline
      /\ w.decode = buildScaling(i.scaling, i.replicas)
      /\ w.prefill = buildScaling(i.prefill.scaling, i.prefill.replicas)
      /\ w.lora = resolvedLoRAAdapters(i) /\ w.noSurge = ~i.cpu
      /\ w.pods = applyEngineArgs(buildPods(i), in, i.flags)
  BY DEF buildLLMInferenceService
<1> HIDE DEF w
<1>2. \A p \in PodsOf(i) : /\ w.pods[p].gpu = GPULimit(i, p)
                           /\ w.pods[p].tolerations = applyLLMScheduling(i, p)
  BY <1>1, PodsKept
<1>3. AsBuilt(w)
  BY <1>1, <1>2 DEF AsBuilt
<1> QED
  BY <1>3 DEF w

LEMMA InitBuilt == Init => BuiltInv
  BY DEF Init, BuiltInv, RunSound, Llm, IsSet

\* A step that goes on with the Instance it has, or ends the reconcile.
LEMMA GoesOn ==
    ASSUME BuiltInv, UNCHANGED <<inst, workload>>,
           \/ run' = Idle
           \/ /\ run # Idle /\ {"phase", "inst"} \subseteq DOMAIN run' /\ run'.inst = run.inst
    PROVE  BuiltInv'
  BY DEF BuiltInv, RunSound, Llm, Validates

\* What is written is built from the Instance the reconcile accepted.
LEMMA BuiltSound ==
    ASSUME BuiltInv, Built, inst' = inst
    PROVE  Llm' => AsBuilt(Val(workload)')
<1> SUFFICES ASSUME inst.topology = "llm" PROVE AsBuilt(Val(workload)')
  BY DEF Llm
<1> DEFINE i == Val(run.inst)
<1>1. run # Idle
  BY DEF Built, Idle
<1>2. i \in Insts /\ i.topology = "llm" /\ validateLLM(i)
  BY <1>1 DEF BuiltInv, RunSound, Validates
<1>3. Val(workload)' = buildLLMInferenceService(i, run.in)
  <2>1. workload' = <<buildLLMInferenceService(i, run.in)>>
    BY <1>2 DEF Built, Build
  <2> QED
    BY <2>1 DEF Val
<1> QED
  BY <1>2, <1>3, BuilderSound

LEMMA BeginBuilt == BuiltInv /\ Begin => BuiltInv'
<1> SUFFICES ASSUME BuiltInv, Begin PROVE BuiltInv'
  OBVIOUS
<1>1. UNCHANGED <<inst, workload>>
  BY DEF Begin
<1>2. CASE ~Validates(inst)
  BY <1>1, <1>2, GoesOn DEF Begin
<1>3. CASE Validates(inst)
  <2>1. run' = [Idle EXCEPT !.phase = First(inst), !.inst = <<inst>>]
    BY <1>3 DEF Begin
  <2>2. {"phase", "inst"} \subseteq DOMAIN run' /\ run'.inst = <<inst>>
    BY <2>1 DEF Idle
  <2>3. Val(run'.inst) = inst
    BY <2>2, PointerTo
  <2> QED
    BY <1>1, <1>3, <2>2, <2>3 DEF BuiltInv, RunSound, Llm, Validates
<1> QED
  BY <1>2, <1>3

\* The calls between Validate and Apply keep the Instance.
LEMMA CallsBuilt ==
    BuiltInv /\ (getStorageContainer \/ ensureLLMConfig \/ resolveInline \/ getLLMConfig \/ Resolved)
        => BuiltInv'
<1> SUFFICES ASSUME BuiltInv,
                    getStorageContainer \/ ensureLLMConfig \/ resolveInline \/ getLLMConfig \/ Resolved
             PROVE  BuiltInv'
  OBVIOUS
<1>1. run # Idle
  <2>1. run.phase \in {"store", "config", "read"}
    BY DEF getStorageContainer, ensureLLMConfig, resolveInline, getLLMConfig, Resolved
  <2>2. Idle.phase = "idle"
    BY DEF Idle
  <2> QED
    BY <2>1, <2>2
<1>2. {"phase", "inst"} \subseteq DOMAIN run
  BY <1>1 DEF BuiltInv, RunSound
<1>3. UNCHANGED <<inst, workload>>
  BY DEF getStorageContainer, ensureLLMConfig, resolveInline, getLLMConfig, Resolved
<1>4. run' = Idle \/ (DOMAIN run' = DOMAIN run /\ run'.inst = run.inst)
  <2>1. CASE getStorageContainer
    BY <1>2, <2>1 DEF getStorageContainer
  <2>2. CASE ensureLLMConfig
    BY <1>2, <2>2 DEF ensureLLMConfig
  <2>3. CASE resolveInline
    BY <1>2, <2>3 DEF resolveInline, Found
  <2>4. CASE getLLMConfig
    BY <1>2, <2>4 DEF getLLMConfig, Found
  <2>5. CASE Resolved
    BY <1>2, <2>5 DEF Resolved
  <2> QED
    BY <2>1, <2>2, <2>3, <2>4, <2>5
<1> QED
  BY <1>1, <1>2, <1>3, <1>4, GoesOn

LEMMA ApplyBuilt == BuiltInv /\ Apply => BuiltInv'
<1> SUFFICES ASSUME BuiltInv, Apply PROVE BuiltInv'
  OBVIOUS
<1>1. inst' = inst /\ (Llm' => AsBuilt(Val(workload)'))
  BY BuiltSound DEF Apply
<1>2. run # Idle
  BY DEF Apply, Built, Idle
<1>3. {"phase", "inst"} \subseteq DOMAIN run
  BY <1>2 DEF BuiltInv, RunSound
<1>4. run' = Idle \/ (DOMAIN run' = DOMAIN run /\ run'.inst = run.inst)
  BY <1>3 DEF Apply
<1>5. RunSound'
  BY <1>1, <1>2, <1>4 DEF BuiltInv, RunSound, Validates
<1> QED
  BY <1>1, <1>5 DEF BuiltInv

LEMMA NextBuilt == BuiltInv /\ [Next]_vars => BuiltInv'
<1> SUFFICES ASSUME BuiltInv, [Next]_vars PROVE BuiltInv'
  OBVIOUS
<1>1. CASE WriteInstance
  <2>1. inst' \in Insts /\ inst'.topology = inst.topology /\ UNCHANGED <<workload, run>>
    BY <1>1, RevisedAssumption DEF WriteInstance
  <2> QED
    BY <2>1 DEF BuiltInv, RunSound, Llm, Validates
<1>2. CASE WriteConfig \/ WriteStore \/ Resync \/ UNCHANGED vars
  <2>1. UNCHANGED <<inst, workload, run>>
    BY <1>2 DEF WriteConfig, WriteStore, Resync, vars
  <2> QED
    BY <2>1 DEF BuiltInv, RunSound, Llm, Validates
<1>3. CASE Reconcile
  <2>1. CASE Publish
    BY <2>1, GoesOn DEF Publish
  <2> QED
    BY <1>3, <2>1, BeginBuilt, CallsBuilt, ApplyBuilt DEF Reconcile
<1>4. CASE Fails \/ ConfigAnswerLost
  BY <1>4, GoesOn DEF Fails, ConfigAnswerLost, Abandoned
<1>5. CASE AnswerLost
  <2>1. run' = Idle /\ inst' = inst
    BY <1>5 DEF AnswerLost, Abandoned
  <2>2. CASE Published /\ UNCHANGED <<inline, workload>>
    BY <2>1, <2>2, GoesOn
  <2>3. CASE Built
    <3>1. Llm' => AsBuilt(Val(workload)')
      BY <2>1, <2>3, BuiltSound
    <3> QED
      BY <2>1, <3>1 DEF BuiltInv, RunSound
  <2> QED
    BY <1>5, <2>2, <2>3 DEF AnswerLost
<1> QED
  BY <1>1, <1>2, <1>3, <1>4, <1>5 DEF Next

LEMMA AlwaysBuilt == Spec => []BuiltInv
  BY InitBuilt, NextBuilt, PTL DEF Spec

-----------------------------------------------------------------------------
(* What Validate promises of an Instance, and what it makes of the built object.  *)

LEMMA Option ==
    ASSUME NEW S, NEW o, OptionOf(o, S)
    PROVE  o = <<>> \/ (IsSet(o) /\ Val(o) \in S /\ o = <<Val(o)>>)
<1>1. o \in Seq(S) /\ Len(o) \in Nat /\ Len(o) <= 1
  BY DEF OptionOf
<1>2. CASE Len(o) = 0
  BY <1>1, <1>2
<1>3. CASE Len(o) = 1
  <2>1. o[1] \in S /\ o # <<>>
    BY <1>1, <1>3
  <2>2. o = <<o[1]>>
    BY <1>1, <1>3
  <2> QED
    BY <2>1, <2>2 DEF IsSet, Val
<1>4. Len(o) = 0 \/ Len(o) = 1
  <2>1. ASSUME NEW n \in Nat, n <= 1 PROVE n = 0 \/ n = 1
    BY <2>1
  <2> QED
    BY <1>1, <2>1
<1> QED
  BY <1>2, <1>3, <1>4

\* The limit of a pod is one quantity, which suffices.
Enough(i, limit) ==
    /\ IsSet(limit) /\ Val(limit) \in Nat /\ limit = <<Val(limit)>>
    /\ IsSet(i.tensor) => Val(limit) >= Val(i.tensor)

NoCount(i) == i.gpu = <<0>> /\ ~IsSet(i.gpuCount)

\* The check of Validate, where there is a quantity to check.
LEMMA TensorFits ==
    ASSUME NEW i \in Insts, i.topology = "llm", ~i.cpu,
           NEW limit, OptionOf(limit, Nat), IsSet(limit), validateTensorGPU(limit, i)
    PROVE  Enough(i, limit)
<1>1. IsSet(i.tensor) => Val(i.tensor) \in Int
  BY InstsAssumption, Option DEF IsSet
<1>2. Val(limit) \in Nat /\ limit = <<Val(limit)>>
  BY Option DEF IsSet
<1> QED
  BY <1>1, <1>2 DEF validateTensorGPU, Enough

\* The head's limit: gpuCount, else the component's, else one GPU.
LEMMA HeadLimit ==
    ASSUME NEW i \in Insts, i.topology = "llm", ~i.cpu, validateLLM(i)
    PROVE  /\ OptionOf(withGPUCount(i), Nat) /\ IsSet(withGPUCount(i))
           /\ Val(withGPUCount(i)) >= 1 \/ NoCount(i)
<1> DEFINE limit == withGPUCount(i)
<1>1. IsSet(i.gpuCount) => Val(i.gpuCount) >= 1
  BY DEF validateLLM, validateGPUs
<1>2. CASE IsSet(i.gpuCount)
  <2> DEFINE n == Val(i.gpuCount)
  <2>1. n \in Int
    BY <1>2, InstsAssumption, Option DEF IsSet
  <2>2. limit = <<n>> /\ n \in Nat /\ n >= 1
    BY <1>1, <1>2, <2>1 DEF withGPUCount
  <2> HIDE DEF limit, n
  <2>3. OptionOf(limit, Nat) /\ Val(limit) = n /\ IsSet(limit)
    BY <2>2 DEF OptionOf, Val, IsSet
  <2> QED
    BY <2>2, <2>3 DEF limit
<1>3. CASE ~IsSet(i.gpuCount) /\ IsSet(i.gpu)
  <2>1. i.gpu = <<Val(i.gpu)>> /\ Val(i.gpu) \in Nat
    BY <1>3, InstsAssumption, Option DEF IsSet
  <2>2. limit = i.gpu
    BY <1>3 DEF withGPUCount
  <2>3. Val(i.gpu) >= 1 \/ Val(i.gpu) = 0
    BY <2>1
  <2>4. OptionOf(i.gpu, Nat)
    BY InstsAssumption
  <2> QED
    BY <1>3, <2>1, <2>2, <2>3, <2>4 DEF NoCount
<1>4. CASE ~IsSet(i.gpuCount) /\ ~IsSet(i.gpu)
  <2>1. limit = <<1>>
    BY <1>4 DEF withGPUCount
  <2> HIDE DEF limit
  <2>2. OptionOf(limit, Nat) /\ Val(limit) = 1 /\ IsSet(limit)
    BY <2>1 DEF OptionOf, Val, IsSet
  <2> QED
    BY <2>2 DEF limit
<1> QED
  BY <1>2, <1>3, <1>4

\* Workers take over the head's limit unless their own resources set one.
LEMMA WorkerLimit ==
    ASSUME NEW i \in Insts, i.topology = "llm", ~i.cpu, validateLLM(i), NEW res, LimitOf(res)
    PROVE  LET limit == overlayResources(withGPUCount(i), res) IN
           /\ OptionOf(limit, Nat) /\ IsSet(limit)
           /\ Val(limit) >= 1 \/ NoCount(i) \/ res = << <<0>> >>
<1> DEFINE limit == overlayResources(withGPUCount(i), res)
<1>1. CASE IsSet(res) /\ IsSet(Val(res))
  <2>1. res = <<Val(res)>> /\ OptionOf(Val(res), Nat)
    BY <1>1 DEF LimitOf, IsSet
  <2>2. Val(res) = <<Val(Val(res))>> /\ Val(Val(res)) \in Nat
    BY <1>1, <2>1, Option DEF IsSet
  <2>3. limit = Val(res)
    BY <1>1 DEF overlayResources
  <2>4. Val(Val(res)) >= 1 \/ Val(Val(res)) = 0
    BY <2>2
  <2>5. Val(Val(res)) = 0 => res = << <<0>> >>
    BY <2>1, <2>2
  <2> QED
    BY <1>1, <2>1, <2>3, <2>4, <2>5
<1>2. CASE ~(IsSet(res) /\ IsSet(Val(res)))
  <2>1. limit = withGPUCount(i)
    BY <1>2 DEF overlayResources
  <2> QED
    BY <2>1, HeadLimit
<1> QED
  BY <1>1, <1>2

LEMMA PodLimit ==
    ASSUME NEW i \in Insts, i.topology = "llm", ~i.cpu, validateLLM(i), NEW p \in PodsOf(i)
    PROVE  /\ Enough(i, GPULimit(i, p))
           /\ Val(GPULimit(i, p)) >= 1 \/ SetToZero(i, p)
<1>1. /\ validateTensorGPU(withGPUCount(i), i)
      /\ IsSet(i.workerCount) =>
           validateTensorGPU(overlayResources(withGPUCount(i), i.workerRes), i)
      /\ IsSet(i.prefill.workerCount) =>
           validateTensorGPU(overlayResources(withGPUCount(i), i.prefill.workerRes), i)
  BY DEF validateLLM, validateGPUs
<1>2. CASE p \in {"template", "prefill"}
  <2>1. GPULimit(i, p) = withGPUCount(i)
    BY <1>2 DEF GPULimit
  <2> QED
    BY <1>1, <2>1, HeadLimit, TensorFits DEF SetToZero, NoCount
<1>3. CASE p = "worker" /\ IsSet(i.workerCount)
  <2>1. GPULimit(i, p) = overlayResources(withGPUCount(i), i.workerRes)
    BY <1>3 DEF GPULimit
  <2>2. LimitOf(i.workerRes)
    BY InstsAssumption
  <2> QED
    BY <1>1, <1>3, <2>1, <2>2, WorkerLimit, TensorFits DEF SetToZero, NoCount
<1>4. CASE p = "prefillWorker" /\ IsSet(i.prefill.workerCount)
  <2>1. GPULimit(i, p) = overlayResources(withGPUCount(i), i.prefill.workerRes)
    BY <1>4 DEF GPULimit
  <2>2. LimitOf(i.prefill.workerRes)
    BY InstsAssumption
  <2> QED
    BY <1>1, <1>4, <2>1, <2>2, WorkerLimit, TensorFits DEF SetToZero, NoCount
<1> QED
  BY <1>2, <1>3, <1>4 DEF PodsOf

\* Every pod of an accepted Instance on the GPU profile, head, worker or prefill, gets
\* the GPUs that its tensor parallelism needs, and one unless a limit says none:
\* validateLLM and buildLLMInferenceService work the limits out separately.
THEOREM GPUsSuffice == Spec => []EnoughGPUs
<1>1. BuiltInv => EnoughGPUs
  <2> SUFFICES ASSUME BuiltInv, Llm, ~Val(workload).of.cpu, NEW p \in PodsOf(Val(workload).of)
               PROVE  LET limit == Val(workload).pods[p].gpu
                          i == Val(workload).of IN
                      /\ IsSet(limit) /\ (Val(limit) >= 1 \/ SetToZero(i, p))
                      /\ IsSet(i.tensor) => Val(limit) >= Val(i.tensor)
    BY DEF EnoughGPUs
  <2> QED
    BY PodLimit DEF BuiltInv, AsBuilt, Enough
<1> QED
  BY <1>1, AlwaysBuilt, PTL

-----------------------------------------------------------------------------
(* Workers and pipelines. *)

\* Below the largest integer the sum does not wrap.
LEMMA NoWrap ==
    ASSUME NEW n \in Int, n >= 1, n < Half - 1
    PROVE  Wrap(n + 1) = n + 1
<1>1. ASSUME NEW h \in Nat, n + 1 < h PROVE ((n + 1 + h) % (2 * h)) - h = n + 1
  <2>1. n + 1 + h \in 0 .. (2 * h - 1)
    BY <1>1
  <2>2. ASSUME NEW a \in Nat, NEW m \in Nat, a < m PROVE a % m = a
    BY <2>2
  <2> QED
    BY <1>1, <2>1, <2>2
<1>2. Half \in Nat
  BY HalfAssumption
<1> HIDE DEF Half
<1> QED
  BY <1>1, <1>2 DEF Wrap

\* The sum of the largest integer and one is the smallest.
LEMMA WrapsRound == Wrap(Half - 1 + 1) = -Half
<1>1. ASSUME NEW h \in Nat \ {0} PROVE ((h - 1 + 1 + h) % (2 * h)) - h = -h
  <2>1. h - 1 + 1 + h = 2 * h
    OBVIOUS
  <2>2. ASSUME NEW m \in Nat \ {0} PROVE m % m = 0
    BY <2>2
  <2>3. (2 * h) % (2 * h) = 0
    BY <2>2
  <2> QED
    BY <2>1, <2>3
<1>2. Half \in Nat \ {0}
  BY HalfAssumption
<1> HIDE DEF Half
<1> QED
  BY <1>1, <1>2 DEF Wrap

LEMMA Workers ==
    ASSUME NEW count, OptionOf(count, Int), NEW pipeline, OptionOf(pipeline, Int), NEW res,
           validateWorkerGroup(count, pipeline, res), IsSet(count), Val(count) < Half
    PROVE  /\ Val(count) >= 1 /\ Val(count) \in Int
           /\ IF Val(count) < Half - 1 THEN pipeline = <<Val(count) + 1>> ELSE pipeline = <<-Half>>
<1>1. Val(count) \in Int /\ Val(count) >= 1 /\ IsSet(pipeline) /\ Val(pipeline) = Wrap(Val(count) + 1)
  BY Option DEF IsSet, validateWorkerGroup
<1>2. pipeline = <<Val(pipeline)>>
  BY <1>1, Option DEF IsSet
<1>3. CASE Val(count) < Half - 1
  BY <1>1, <1>2, <1>3, NoWrap
<1>4. CASE ~(Val(count) < Half - 1)
  <2>1. Half \in Nat
    BY HalfAssumption
  <2>2. Val(count) = Half - 1
    <3> HIDE DEF Half
    <3> QED
      BY <1>1, <1>4, <2>1
  <2>3. Wrap(Val(count) + 1) = -Half
    BY <2>2, WrapsRound
  <2> QED
    BY <1>1, <1>2, <1>4, <2>3
<1> QED
  BY <1>3, <1>4

\* Head and workers are as many as the pipeline has stages, also beside data
\* parallelism, which displaces the pipeline only where there are no workers: for every
\* worker count but the largest, where validateWorkerGroup takes the smallest integer.
THEOREM WorkersFit == Spec => []WorkersFitPipeline
<1>1. BuiltInv => WorkersFitPipeline
  <2> SUFFICES ASSUME BuiltInv, Llm PROVE WorkersFitPipeline
    BY DEF WorkersFitPipeline
  <2> DEFINE w == Val(workload)
             i == w.of
             Fits(count, pipeline) == IF count < Half - 1 THEN pipeline = <<count + 1>>
                                      ELSE pipeline \in {<<>>, <<-Half>>}
  <2>1. /\ i \in Insts /\ i.topology = "llm" /\ validateWorkers(i)
        /\ ~(Above(i.data, 1) /\ Above(i.pipeline, 1))
        /\ w.parallelism = buildParallelism(i) /\ w.prefillPipeline = i.prefill.pipeline
    BY DEF BuiltInv, AsBuilt, validateLLM
  <2> HIDE DEF i, w
  <2>2. /\ OptionOf(i.workerCount, Int) /\ OptionOf(i.pipeline, Int)
        /\ OptionOf(i.prefill.workerCount, Int) /\ OptionOf(i.prefill.pipeline, Int)
    BY <2>1, InstsAssumption
  <2>3. /\ IsSet(i.workerCount) => Val(i.workerCount) < Half
        /\ IsSet(i.prefill.workerCount) => Val(i.prefill.workerCount) < Half
    BY <2>1, CountsAssumption DEF Below, IsSet
  <2>4. ASSUME "worker" \in PodsOf(i)
        PROVE  Fits(Val(i.workerCount), w.parallelism.pipeline)
    <3> DEFINE n == Val(i.workerCount)
    <3>1. IsSet(i.workerCount)
      BY <2>4 DEF PodsOf
    <3>2. /\ n \in Int /\ n >= 1
          /\ IF n < Half - 1 THEN i.pipeline = <<n + 1>> ELSE i.pipeline = <<-Half>>
      BY <2>1, <2>2, <2>3, <3>1, Workers DEF validateWorkers
    <3>3. w.parallelism.pipeline \in {<<>>, i.pipeline}
      BY <2>1 DEF buildParallelism
    <3> HIDE DEF n
    <3>4. CASE n < Half - 1
      <4>1. i.pipeline = <<n + 1>> /\ Above(i.pipeline, 1)
        BY <3>2, <3>4, PointerTo DEF Above, IsSet, Val
      <4>2. w.parallelism.pipeline = i.pipeline
        BY <2>1, <4>1 DEF buildParallelism
      <4> QED
        BY <3>4, <4>1, <4>2 DEF n
    <3>5. CASE ~(n < Half - 1)
      BY <3>2, <3>3, <3>5 DEF n
    <3> QED
      BY <3>4, <3>5
  <2>5. ASSUME "prefillWorker" \in PodsOf(i)
        PROVE  Fits(Val(i.prefill.workerCount), w.prefillPipeline)
    <3>1. IsSet(i.prefill.workerCount)
      BY <2>5 DEF PodsOf
    <3> QED
      BY <2>1, <2>2, <2>3, <3>1, Workers DEF validateWorkers
  <2> QED
    BY <2>4, <2>5 DEF WorkersFitPipeline, WorkerGroups, w, i
<1> QED
  BY <1>1, AlwaysBuilt, PTL

-----------------------------------------------------------------------------
(* Scaling and adapters. *)

\* One side, decode or prefill, as it is built.
LEMMA ScalesOneWay ==
    ASSUME NEW s, ScalingType(s), validateWorkloadScaling(s), NEW replicas,
           NEW b, b = buildScaling(s, replicas), IsSet(b.scaling)
    PROVE  /\ enabled(s) /\ b.replicas = <<>>
           /\ Val(b.scaling).actuator = resolvedActuator(s.actuator)
           /\ \A n \in Range(Val(b.scaling).min) : 1 <= n /\ n <= Val(b.scaling).max
<1> DEFINE c == [min |-> s.min, max |-> Val(s.max), actuator |-> resolvedActuator(s.actuator)]
<1>1. enabled(s)
  BY DEF buildScaling, IsSet
<1>2. b.replicas = <<>> /\ b.scaling = <<c>>
  BY <1>1 DEF buildScaling
<1>3. Val(b.scaling) = c
  BY <1>2, PointerTo
<1>4. \A n \in Range(s.min) : 1 <= n /\ n <= Val(s.max)
  <2> SUFFICES ASSUME NEW n \in Range(s.min) PROVE 1 <= n /\ n <= Val(s.max)
    OBVIOUS
  <2>1. PICK k \in DOMAIN s.min : n = s.min[k]
    BY DEF Range
  <2>2. s.min = <<>> \/ (IsSet(s.min) /\ Val(s.min) \in Int /\ s.min = <<Val(s.min)>>)
    BY Option DEF ScalingType
  <2>3. s.min # <<>>
    BY <2>1
  <2>4. n = Val(s.min)
    BY <2>1, <2>2, <2>3
  <2> QED
    BY <1>1, <2>2, <2>3, <2>4 DEF validateWorkloadScaling
<1> QED
  BY <1>1, <1>2, <1>3, <1>4

\* What is built scales in one way, replicas or autoscaling, within bounds, and by the
\* same actuator on both sides.
THEOREM ScalesSafely == Spec => []OneWayToScale
<1>1. BuiltInv => OneWayToScale
  <2> SUFFICES ASSUME BuiltInv, Llm PROVE OneWayToScale
    BY DEF OneWayToScale
  <2> DEFINE w == Val(workload)
             i == w.of
  <2>1. /\ i \in Insts /\ i.topology = "llm" /\ validateScaling(i)
        /\ w.decode = buildScaling(i.scaling, i.replicas)
        /\ w.prefill = buildScaling(i.prefill.scaling, i.prefill.replicas)
    BY DEF BuiltInv, AsBuilt, validateLLM
  <2> HIDE DEF i, w
  <2>2. ScalingType(i.scaling) /\ ScalingType(i.prefill.scaling)
    BY <2>1, InstsAssumption
  <2>3. IsSet(w.decode.scaling) =>
          /\ enabled(i.scaling) /\ w.decode.replicas = <<>>
          /\ Val(w.decode.scaling).actuator = resolvedActuator(i.scaling.actuator)
          /\ \A n \in Range(Val(w.decode.scaling).min) : 1 <= n /\ n <= Val(w.decode.scaling).max
    BY <2>1, <2>2, ScalesOneWay DEF validateScaling
  <2>4. IsSet(w.prefill.scaling) =>
          /\ enabled(i.prefill.scaling) /\ w.prefill.replicas = <<>>
          /\ Val(w.prefill.scaling).actuator = resolvedActuator(i.prefill.scaling.actuator)
          /\ \A n \in Range(Val(w.prefill.scaling).min) : 1 <= n /\ n <= Val(w.prefill.scaling).max
    BY <2>1, <2>2, ScalesOneWay DEF validateScaling
  <2>5. enabled(i.scaling) /\ enabled(i.prefill.scaling) =>
          resolvedActuator(i.scaling.actuator) = resolvedActuator(i.prefill.scaling.actuator)
    BY <2>1 DEF validateScaling
  <2>6. \A a : resolvedActuator(a) = "hpa" <=> a.text = "hpa"
    BY DEF resolvedActuator
  <2> QED
    BY <2>3, <2>4, <2>5, <2>6 DEF OneWayToScale, w, i
<1> QED
  BY <1>1, AlwaysBuilt, PTL

\* As built, no two adapters share a name, nor an adapter and the model: also when the
\* adapters are not the ones that the slots were checked for.
THEOREM AdaptersDistinct == Spec => []AdaptersAddressable
<1>1. BuiltInv => AdaptersAddressable
  <2> SUFFICES ASSUME BuiltInv, Llm PROVE AdaptersAddressable
    BY DEF AdaptersAddressable
  <2> DEFINE w == Val(workload)
             i == w.of
  <2>1. validateLoRAParams(i) /\ w.lora = resolvedLoRAAdapters(i)
    BY DEF BuiltInv, AsBuilt, validateLLM
  <2>2. CASE w.lora = <<>>
    BY <2>2 DEF AdaptersAddressable
  <2>3. CASE w.lora # <<>>
    BY <2>1, <2>3 DEF AdaptersAddressable, validateLoRAParams
  <2> QED
    BY <2>2, <2>3
<1> QED
  BY <1>1, AlwaysBuilt, PTL
=============================================================================
