---------------------------- MODULE PredictorProofs ----------------------------
(***************************************************************************)
(* Theorems about the predictors of Workloads: what the inline config and the *)
(* catalog may change of what the Instance says, for every set of Instances,  *)
(* configs, catalogs and storage containers.                                  *)
(***************************************************************************)
EXTENDS PredictorSpecProofs

-----------------------------------------------------------------------------
(* The invariant.  The storage container may be rewritten right after Validate     *)
(* has looked at it: the reconcile carries what it read.                            *)

Phases == {"idle", "store", "config", "read", "apply", "service"}

\* A reconcile of a predictor goes past Validate only with a container that fits, and
\* to its Service only once the workload is there.
RunReads ==
    /\ run # Idle => DOMAIN run = DOMAIN Idle
    /\ run.phase \in Phases
    /\ run.phase \in {"config", "read"} => Val(run.inst).topology = "llm"
    /\ run.phase = "store" => Val(run.inst).topology = "predictor"
    /\ run.phase = "service" => Val(run.inst).topology = "predictor" /\ IsSet(workload)
    /\ run.phase \in {"apply", "service"} /\ ReadsStore(Val(run.inst)) =>
         validateStorageContainer(Val(run.inst), run.read)

\* What is stored is what an accepted Instance makes, with the container it was
\* accepted for.
AsServed(w) ==
    /\ w.of \in Insts /\ w.of.topology = "predictor" /\ validatePredictor(w.of)
    /\ w.spec = buildInferenceService(w.of).spec
    /\ w.of.container # "" => validateStorageContainer(w.of, w.read)

ServedInv ==
    /\ BuiltInv
    /\ RunReads
    /\ Predictor => AsServed(Val(workload))

-----------------------------------------------------------------------------
(* It is inductive. *)

\* What is written is built from the accepted Instance and says what was read for it.
LEMMA ServedSound ==
    ASSUME ServedInv, Built, inst' = inst
    PROVE  Predictor' => AsServed(Val(workload)')
<1> SUFFICES ASSUME inst.topology = "predictor" PROVE AsServed(Val(workload)')
  BY DEF Predictor
<1> DEFINE i == Val(run.inst)
           w == InferenceServices[i] ++ [read |-> run.read]
<1>1. run # Idle /\ run.phase = "apply"
  BY DEF Built, Idle
<1>2. i \in Insts /\ i.topology = "predictor" /\ validatePredictor(i)
  BY <1>1 DEF ServedInv, BuiltInv, RunSound, Validates
<1>3. Val(workload)' = w
  <2>1. workload' = <<w>>
    BY <1>2 DEF Built, Build
  <2> QED
    BY <2>1 DEF Val
<1>4. InferenceServices[i] = buildInferenceService(i)
  BY <1>2 DEF InferenceServices
<1>5. /\ DOMAIN buildInferenceService(i) = {"of", "labels", "annotations", "spec"}
      /\ buildInferenceService(i).of = i
  BY DEF buildInferenceService
<1>6. w.of = i /\ w.spec = buildInferenceService(i).spec /\ w.read = run.read
  <2> DEFINE b == buildInferenceService(i)
             c == [read |-> run.read]
  <2>1. DOMAIN c = {"read"} /\ c["read"] = run.read
    OBVIOUS
  <2>2. "of" \in DOMAIN b /\ "spec" \in DOMAIN b /\ "read" \notin DOMAIN b
    BY <1>5
  <2> HIDE DEF b, c
  <2>3. (b ++ c)["of"] = b["of"] /\ (b ++ c)["spec"] = b["spec"]
    BY <2>2 DEF ++
  <2>4. (b ++ c)["read"] = c["read"]
    BY <2>1, <2>2 DEF ++
  <2> QED
    BY <1>4, <1>5, <2>1, <2>3, <2>4 DEF b, c
<1>7. i.container # "" => validateStorageContainer(i, run.read)
  BY <1>1, <1>2 DEF ServedInv, RunReads, ReadsStore
<1> HIDE DEF w
<1> QED
  BY <1>2, <1>3, <1>6, <1>7 DEF AsServed

LEMMA InitServed == Init => ServedInv
<1> SUFFICES ASSUME Init PROVE ServedInv
  OBVIOUS
<1>1. BuiltInv
  BY InitBuilt
<1>2. run = Idle /\ Idle.phase = "idle" /\ workload = <<>>
  BY DEF Init, Idle
<1> QED
  BY <1>1, <1>2 DEF ServedInv, RunReads, Phases, Predictor, IsSet

\* The end of a reconcile, and a step of others.
LEMMA Rests ==
    ASSUME ServedInv, BuiltInv', UNCHANGED workload, inst'.topology = inst.topology,
           run' = Idle \/ run' = run
    PROVE  ServedInv'
<1>1. Idle.phase = "idle"
  BY DEF Idle
<1>2. RunReads'
  BY <1>1 DEF ServedInv, RunReads, Phases
<1> QED
  BY <1>2 DEF ServedInv, Predictor

LEMMA BeginServed == ServedInv /\ Begin /\ BuiltInv' => ServedInv'
<1> SUFFICES ASSUME ServedInv, Begin, BuiltInv' PROVE ServedInv'
  OBVIOUS
<1>1. UNCHANGED <<inst, workload>>
  BY DEF Begin
<1>2. CASE ~Validates(inst)
  BY <1>1, <1>2, Rests DEF Begin
<1>3. CASE Validates(inst)
  <2>1. run' = [Idle EXCEPT !.phase = First(inst), !.inst = <<inst>>]
    BY <1>3 DEF Begin
  <2>2. DOMAIN run' = DOMAIN Idle /\ run'.phase = First(inst) /\ Val(run'.inst) = inst
    BY <2>1, PointerTo DEF Idle
  <2>3. \/ First(inst) = "config" /\ inst.topology = "llm"
        \/ First(inst) = "store" /\ inst.topology = "predictor"
        \/ First(inst) = "apply" /\ ~ReadsStore(inst)
    <3>1. inst.topology \in {"llm", "predictor"}
      BY TopologyAssumption DEF ServedInv, BuiltInv
    <3> QED
      BY <3>1 DEF First, ReadsStore
  <2>4. RunReads'
    BY <2>2, <2>3 DEF RunReads, Phases, ReadsStore
  <2> QED
    BY <1>1, <2>4 DEF ServedInv, Predictor
<1> QED
  BY <1>2, <1>3

LEMMA StoreServed == ServedInv /\ getStorageContainer /\ BuiltInv' => ServedInv'
<1> SUFFICES ASSUME ServedInv, getStorageContainer, BuiltInv' PROVE ServedInv'
  OBVIOUS
<1>1. UNCHANGED <<inst, workload>> /\ run.phase = "store" /\ run # Idle
  BY DEF getStorageContainer, Idle
<1>2. CASE ~validateStorageContainer(Val(run.inst), store)
  BY <1>1, <1>2, Rests DEF getStorageContainer
<1>3. CASE validateStorageContainer(Val(run.inst), store)
  <2>1. run' = [run EXCEPT !.phase = "apply", !.read = store]
    BY <1>3 DEF getStorageContainer
  <2>2. DOMAIN run = DOMAIN Idle
    BY <1>1 DEF ServedInv, RunReads
  <2>3. DOMAIN run' = DOMAIN Idle /\ run'.phase = "apply" /\ run'.inst = run.inst /\ run'.read = store
    BY <2>1, <2>2 DEF Idle
  <2>4. RunReads'
    BY <1>3, <2>3 DEF RunReads, Phases
  <2> QED
    BY <1>1, <2>4 DEF ServedInv, Predictor
<1> QED
  BY <1>2, <1>3

LEMMA ConfigsServed ==
    ServedInv /\ (ensureLLMConfig \/ resolveInline \/ getLLMConfig \/ Resolved) /\ BuiltInv'
        => ServedInv'
<1> SUFFICES ASSUME ServedInv, ensureLLMConfig \/ resolveInline \/ getLLMConfig \/ Resolved, BuiltInv'
             PROVE  ServedInv'
  OBVIOUS
<1>1. UNCHANGED <<inst, workload>> /\ run.phase \in {"config", "read"} /\ run # Idle
  BY DEF ensureLLMConfig, resolveInline, getLLMConfig, Resolved, Idle
<1>2. DOMAIN run = DOMAIN Idle /\ Val(run.inst).topology = "llm"
  BY <1>1 DEF ServedInv, RunReads
<1>3. {"phase", "inst", "at", "place", "in", "read"} = DOMAIN run
  BY <1>2 DEF Idle
<1>4. DOMAIN run' = DOMAIN run /\ run'.inst = run.inst /\ run'.phase \in {"read", "apply"}
  <2>1. CASE ensureLLMConfig
    BY <1>3, <2>1 DEF ensureLLMConfig
  <2>2. CASE resolveInline
    BY <1>3, <2>2 DEF resolveInline, Found
  <2>3. CASE getLLMConfig
    BY <1>3, <2>3 DEF getLLMConfig, Found
  <2>4. CASE Resolved
    BY <1>3, <2>4 DEF Resolved
  <2> QED
    BY <2>1, <2>2, <2>3, <2>4
<1>5. RunReads'
  BY <1>2, <1>4 DEF RunReads, Phases, ReadsStore
<1> QED
  BY <1>1, <1>5 DEF ServedInv, Predictor

LEMMA ApplyServed == ServedInv /\ Apply /\ BuiltInv' => ServedInv'
<1> SUFFICES ASSUME ServedInv, Apply, BuiltInv' PROVE ServedInv'
  OBVIOUS
<1>1. inst' = inst /\ (Predictor' => AsServed(Val(workload)'))
  BY ServedSound DEF Apply
<1>2. run # Idle /\ run.phase = "apply" /\ IsSet(workload')
  BY DEF Apply, Built, Idle, IsSet
<1>3. DOMAIN run = DOMAIN Idle
  BY <1>2 DEF ServedInv, RunReads
<1>4. CASE run' = Idle
  <2>1. Idle.phase = "idle"
    BY DEF Idle
  <2>2. RunReads'
    BY <1>4, <2>1 DEF RunReads, Phases
  <2> QED
    BY <1>1, <2>2 DEF ServedInv
<1>5. CASE Val(run.inst).topology # "llm" /\ run' = [run EXCEPT !.phase = "service"]
  <2>1. DOMAIN run' = DOMAIN Idle /\ run'.phase = "service" /\ run'.inst = run.inst /\ run'.read = run.read
    BY <1>3, <1>5 DEF Idle
  <2>2. Val(run.inst).topology = "predictor"
    <3>1. Val(run.inst) \in Insts
      BY <1>2 DEF ServedInv, BuiltInv, RunSound
    <3> QED
      BY <1>5, <3>1, TopologyAssumption
  <2>3. RunReads'
    BY <1>2, <2>1, <2>2 DEF ServedInv, RunReads, Phases
  <2> QED
    BY <1>1, <2>3 DEF ServedInv
<1> QED
  BY <1>4, <1>5 DEF Apply

LEMMA NextServed == ServedInv /\ [Next]_vars => ServedInv'
<1> SUFFICES ASSUME ServedInv, [Next]_vars PROVE ServedInv'
  OBVIOUS
<1>1. BuiltInv'
  BY NextBuilt DEF ServedInv
<1>2. CASE WriteInstance \/ WriteConfig \/ WriteStore \/ Resync \/ UNCHANGED vars
  <2>1. inst'.topology = inst.topology /\ UNCHANGED <<workload, run>>
    BY <1>2 DEF WriteInstance, WriteConfig, WriteStore, Resync, vars
  <2> QED
    BY <1>1, <2>1, Rests
<1>3. CASE Reconcile
  <2>1. CASE Publish
    BY <1>1, <2>1, Rests DEF Publish
  <2> QED
    BY <1>1, <1>3, <2>1, BeginServed, StoreServed, ConfigsServed, ApplyServed DEF Reconcile
<1>4. CASE Fails \/ ConfigAnswerLost
  BY <1>1, <1>4, Rests DEF Fails, ConfigAnswerLost, Abandoned
<1>5. CASE AnswerLost
  <2>1. run' = Idle /\ inst' = inst
    BY <1>5 DEF AnswerLost, Abandoned
  <2>2. CASE Published /\ UNCHANGED <<inline, workload>>
    BY <1>1, <2>1, <2>2, Rests
  <2>3. CASE Built
    <3>1. Predictor' => AsServed(Val(workload)')
      BY <2>1, <2>3, ServedSound
    <3>2. RunReads'
      BY <2>1 DEF RunReads, Phases, Idle
    <3> QED
      BY <1>1, <3>1, <3>2 DEF ServedInv
  <2> QED
    BY <1>5, <2>2, <2>3 DEF AnswerLost
<1> QED
  BY <1>2, <1>3, <1>4, <1>5 DEF Next

LEMMA AlwaysServed == Spec => []ServedInv
  BY InitServed, NextServed, PTL DEF Spec

-----------------------------------------------------------------------------
(* The theorems.                                                                  *)

\* The served model's format and source come together, from the Instance or from the
\* catalog, past whatever the inline config says, and the storage container that
\* Validate read downloads that source.
THEOREM SourceServed == Spec => []SourceFits
<1>1. ServedInv => SourceFits
  <2> SUFFICES ASSUME ServedInv, Predictor PROVE SourceFits
    BY DEF SourceFits
  <2> DEFINE w == Val(workload)
             i == w.of
             r == Val(resolveCatalogModel(i))
             format == At(w.spec, <<"model", "modelFormat", "name">>, "")
             source == At(w.spec, <<"model", "storageUri">>, "")
  <2>1. /\ i \in Insts /\ i.topology = "predictor" /\ validatePredictor(i)
        /\ w.spec = SpecOf(i) /\ (i.container # "" => validateStorageContainer(i, w.read))
    BY DEF ServedInv, AsServed, SpecOf
  <2>2. Resolves(i, r) /\ IsSet(resolveCatalogModel(i))
    BY <2>1 DEF Resolves, validatePredictor
  <2> HIDE DEF w, i, r
  <2>3. ~UsesCustomContainer(i) => format = r.format /\ source = r.scheme
    BY <2>1, <2>2, FormatAndSource, ResolvedType
  <2>4. \/ r = i
        \/ /\ i.format = "" /\ i.scheme = "" /\ ~UsesCustomContainer(i)
           /\ r.format = Models[i.model].format /\ r.scheme = Models[i.model].scheme
    BY <2>1, <2>2, ResolvedModel DEF r
  <2>5. ~UsesCustomContainer(i) =>
           \/ format = i.format /\ source = i.scheme
           \/ /\ i.format = "" /\ i.scheme = ""
              /\ format = Models[i.model].format /\ source = Models[i.model].scheme
    BY <2>3, <2>4
  <2>6. ASSUME i.container # ""
        PROVE  /\ IsSet(w.read) /\ ~Val(w.read).disabled
               /\ (IF UsesCustomContainer(i) THEN i.scheme ELSE source) \in Val(w.read).schemes
    <3>1. IsSet(w.read) /\ ~Val(w.read).disabled /\ r.scheme \in Val(w.read).schemes
      BY <2>1, <2>6 DEF validateStorageContainer, r
    <3>2. UsesCustomContainer(i) => r = i
      BY <2>2, ResolvedType
    <3> QED
      BY <2>3, <3>1, <3>2
  <2> QED
    BY <2>5, <2>6 DEF SourceFits, w, i
<1> QED
  BY <1>1, AlwaysServed, PTL

LEMMA PodTolerates ==
    ASSUME NEW i, NEW p, Above(GPULimit(i, p), 0)
    PROVE  \E t \in applyLLMScheduling(i, p) : Covers(t, "nvidia")
<1> DEFINE limit == GPULimit(i, p)
           k == <<"limits", "nvidia">>
           one == One(k, Val(limit))
           res == <<one>>
<1>1. IsSet(limit) /\ Val(limit) # 0
  BY DEF Above
<1>2. applyLLMScheduling(i, p) = ScheduledWith(i.tolerations, res)
  BY <1>1 DEF applyLLMScheduling
<1>3. DOMAIN one = {k} /\ one[k] = Val(limit)
  BY DEF One
<1>4. k[2] = "nvidia" /\ "nvidia" \in GPUs
  BY DEF GPUs
<1>5. IsSet(res) /\ Val(res) = one
  BY PointerTo
<1> HIDE DEF limit, one, res
<1>6. requestsGPU(res)
  BY <1>1, <1>3, <1>4, <1>5 DEF requestsGPU
<1>7. "nvidia" \in Claimed(res)
  BY <1>3, <1>4, <1>5 DEF Claimed
<1> QED
  BY <1>2, <1>6, <1>7, Tolerated

\* Every GPU that a pod requests, of a language model or a predictor, is tolerated, is
\* replaced without a surge pod, and is asked for in the container that serves: the
\* builders work the resources out once for the pod and again for its scheduling.
THEOREM GPUsFollowed == Spec => []PodsFollowGPU
<1>1. ServedInv => PodsFollowGPU
  <2>1. ASSUME ServedInv, Llm
        PROVE  /\ \A p \in PodsOf(Val(workload).of) :
                     Above(Val(workload).pods[p].gpu, 0) =>
                         \E t \in Val(workload).pods[p].tolerations : Covers(t, "nvidia")
               /\ ~Val(workload).of.cpu => Val(workload).noSurge
    <3>1. AsBuilt(Val(workload))
      BY <2>1 DEF ServedInv, BuiltInv
    <3> QED
      BY ZenonT(30), <3>1, PodTolerates DEF AsBuilt
  <2>2. ASSUME ServedInv, Predictor,
               requestsGPU(predictorResources(Val(resolveCatalogModel(Val(workload).of))))
        PROVE  LET spec == Val(workload).spec
                   res == predictorResources(Val(resolveCatalogModel(Val(workload).of))) IN
               /\ \A g \in Claimed(res) : \E t \in At(spec, <<"tolerations">>, {}) : Covers(t, g)
               /\ At(spec, <<"deploymentStrategy", "maxSurge">>, 1) = 0
               /\ \E source \in {<<"model">>, <<"containers", kserveContainer>>}, g \in GPUs :
                     \/ At(spec, source \o <<"resources", "limits", g>>, 0) # 0
                     \/ At(spec, source \o <<"resources", "requests", g>>, 0) # 0
    <3> DEFINE w == Val(workload)
               i == w.of
               r == Val(resolveCatalogModel(i))
               res == predictorResources(r)
               tolerations == ScheduledWith(r.tolerations, res)
    <3>1. Resolves(i, r) /\ w.spec = SpecOf(i)
      BY <2>2 DEF ServedInv, AsServed, SpecOf, Resolves
    <3>2. requestsGPU(res)
      BY <2>2
    <3> HIDE DEF w, i, r
    <3>3. ResourceType(r)
      BY <3>1, ResolvedType
    <3>4. At(w.spec, <<"deploymentStrategy", "maxSurge">>, 1) = 0
      BY <3>1, <3>2, <3>3, PlacementSays, PlacedAs
    <3>5. ASSUME NEW g \in Claimed(res)
          PROVE  \E t \in At(w.spec, <<"tolerations">>, {}) : Covers(t, g)
      <4>1. \E t \in tolerations : Covers(t, g)
        BY <3>2, Tolerated
      <4>2. tolerations # {}
        BY <4>1
      <4>3. At(w.spec, <<"tolerations">>, {}) = tolerations
        <5>1. <<"tolerations">> \in DOMAIN Placement(r) /\ Placement(r)[<<"tolerations">>] = tolerations
          BY <3>3, <4>2, PlacementSays
        <5> QED
          BY <3>1, <5>1, PlacedAs
      <4> QED
        BY <4>1, <4>3
    <3>6. \E source \in {<<"model">>, <<"containers", kserveContainer>>}, g \in GPUs :
              \/ At(w.spec, source \o <<"resources", "limits", g>>, 0) # 0
              \/ At(w.spec, source \o <<"resources", "requests", g>>, 0) # 0
      BY <3>1, <3>2, AsksForGPU
    <3> QED
      BY <3>4, <3>5, <3>6 DEF w, i, r
  <2> QED
    BY <2>1, <2>2 DEF PodsFollowGPU
<1> QED
  BY <1>1, AlwaysServed, PTL

\* An embedding model behind the Gateway is told to embed, and on a GPU to pool, unless
\* the user says otherwise: past the inline config, which the arguments displace.
THEOREM EmbeddingsTold == Spec => []EmbeddingsServed
<1>1. ServedInv => EmbeddingsServed
  <2> SUFFICES ASSUME ServedInv, Predictor, UsesAIGateway(Val(workload).of),
                      ~UsesCustomContainer(Val(workload).of)
               PROVE  EmbeddingsServed
    BY DEF EmbeddingsServed
  <2> DEFINE w == Val(workload)
             i == w.of
             r == Val(resolveCatalogModel(i))
             args == At(w.spec, <<"model", "args">>, <<>>)
             gpu == requestsGPU(predictorResources(r))
  <2>1. Resolves(i, r) /\ w.spec = SpecOf(i) /\ UsesAIGateway(i) /\ ~UsesCustomContainer(i)
    BY DEF ServedInv, AsServed, SpecOf, Resolves
  <2> HIDE DEF w, i
  <2>2. ~UsesCustomContainer(r) /\ r.args \in Seq([flag : STRING, value : STRING])
    BY <2>1, ResolvedType
  <2>3. r.format \in HuggingFace /\ r.task = TextEmbedding
    <3>1. validateAccess(r) /\ IsSet(resolveCatalogModel(i)) /\ i \in Insts /\ i.topology = "predictor"
      BY <2>1 DEF Resolves, validatePredictor
    <3>2. UsesAIGateway(r)
      BY <2>1, <3>1, ResolvedModel DEF UsesAIGateway
    <3> QED
      BY <2>2, <3>1, <3>2 DEF validateAccess, predictorGatewaySchema
  <2>4. gpu \in BOOLEAN
    BY DEF requestsGPU, IsSet
  <2> SUFFICES ASSUME ~hasFlag(r.args, "task")
               PROVE  /\ Contains(args, [flag |-> "task", value |-> TextEmbedding])
                      /\ gpu /\ ~hasFlag(r.args, "runner") =>
                           Contains(args, [flag |-> "runner", value |-> "pooling"])
                      /\ ~gpu /\ ~hasFlag(r.args, "backend") =>
                           Contains(args, [flag |-> "backend", value |-> "huggingface"])
    BY DEF EmbeddingsServed, i, w
  <2>5. /\ Contains(predictorArgs(r), [flag |-> "task", value |-> TextEmbedding])
        /\ gpu /\ ~hasFlag(r.args, "runner") =>
             Contains(predictorArgs(r), [flag |-> "runner", value |-> "pooling"])
        /\ ~gpu /\ ~hasFlag(r.args, "backend") =>
             Contains(predictorArgs(r), [flag |-> "backend", value |-> "huggingface"])
    BY <2>2, <2>3, <2>4, EmbeddingArgs
  <2>6. args = predictorArgs(r)
    <3> DEFINE k == <<"args">>
    <3>1. {"model", "args"} \subseteq Words
      BY DEF Words
    <3>2. <<"model">> \o k = <<"model", "args">>
      BY <3>1, Join11
    <3>3. Len(k) = 1 /\ k[1] = "args"
      BY <3>1, Path1
    <3>4. predictorArgs(r) # <<>>
      BY <2>5 DEF Contains
    <3>5. k \in DOMAIN runtimeModel(r) /\ runtimeModel(r)[k] = predictorArgs(r)
      BY <2>1, <3>4, ResolvedType, RuntimeSays
    <3>6. Len(k) >= 1 /\ k[Len(k)] # "items"
      BY <3>3
    <3> HIDE DEF k, r
    <3>7. At(SpecOf(i), <<"model">> \o k, <<>>) = predictorArgs(r)
      BY <2>1, <2>2, <3>5, <3>6, ModelSays
    <3> QED
      BY <2>1, <3>2, <3>7
  <2> QED
    BY <2>5, <2>6
<1> QED
  BY <1>1, AlwaysServed, PTL

\* However the inline config lists its containers, the Instance's image comes first,
\* under its name and port, and no container of the config is lost.
THEOREM ServerKept == Spec => []ModelServerFirst
<1>1. ServedInv => ModelServerFirst
  <2> SUFFICES ASSUME ServedInv, Predictor, UsesCustomContainer(Val(workload).of)
               PROVE  ModelServerFirst
    BY DEF ModelServerFirst
  <2> DEFINE w == Val(workload)
             i == w.of
             containers == At(w.spec, Items("containers"), <<>>)
             volumes == At(w.spec, Items("volumes"), <<>>)
             server == <<"containers", kserveContainer>>
             k1 == <<"image">>
             k2 == <<"ports">>
             r == Val(resolveCatalogModel(i))
  <2>1. Resolves(i, r) /\ w.spec = SpecOf(i) /\ UsesCustomContainer(i)
    BY DEF ServedInv, AsServed, SpecOf, Resolves
  <2> HIDE DEF w, i
  <2>2. UsesCustomContainer(r) /\ r = i /\ ResourceType(r)
    BY <2>1, ResolvedType
  <2>3. /\ containers # <<>> /\ Head(containers) = kserveContainer
        /\ Contains(volumes, sharedMemory)
        /\ \A c \in Range(At(Val(Either(i.config, <<None>>)), Items("containers"), <<>>)) :
              Contains(containers, c)
    BY <2>1, <2>2, ServerFirst
  <2>4. server \o k1 = server \o <<"image">> /\ server \o k2 = server \o <<"ports">>
    OBVIOUS
  <2>5. /\ Len(k1) >= 1 /\ k1[Len(k1)] # "items"
        /\ Len(k2) >= 1 /\ k2[Len(k2)] # "items"
    <3>1. "image" \in Words /\ "ports" \in Words
      BY DEF Words
    <3>2. Len(k1) = 1 /\ k1[1] = "image" /\ Len(k2) = 1 /\ k2[1] = "ports"
      BY <3>1, Path1
    <3> QED
      BY <3>2
  <2>6. /\ k1 \in DOMAIN customPredictorContainer(r) /\ customPredictorContainer(r)[k1] = i.image
        /\ k2 \in DOMAIN customPredictorContainer(r)
        /\ customPredictorContainer(r)[k2] = <<ContainerPort(i)>>
    BY <2>2, ContainerSays
  <2> HIDE DEF k1, k2, r
  <2>7. At(SpecOf(i), server \o k1, "") = i.image
    BY <2>1, <2>2, <2>5, <2>6, ServerSays
  <2>8. At(SpecOf(i), server \o k2, <<>>) = <<ContainerPort(i)>>
    BY <2>1, <2>2, <2>5, <2>6, ServerSays
  <2> QED
    BY <2>1, <2>3, <2>7, <2>8 DEF ModelServerFirst, i, w, k1, k2
<1> QED
  BY <1>1, AlwaysServed, PTL

-----------------------------------------------------------------------------
(* Types.  What is inherited is read from configs that others write, and the port  *)
(* of the Service from a spec merged with what the user writes: both are carried.   *)

ConfigsTyped ==
    /\ DOMAIN configs = {"own", "system"}
    /\ \A place \in {"own", "system"} : \A name \in KnownRefs :
          name \in DOMAIN configs[place] /\ LayerOption(configs[place][name])
    /\ LayerOption(inline)

RunTyped ==
    /\ run.place \in {1, 2} /\ run.in.has \subseteq Pods
    /\ run.phase = "idle" <=> run = Idle
    /\ run.phase = "read" => run.at \in 1 .. Len(Refs) + 1

ServiceTyped ==
    IsSet(service) => inst.topology = "predictor" /\ Val(service).target \in Ports

PodsTyped ==
    Llm => /\ PodsOf(Val(workload).of) \subseteq DOMAIN Val(workload).pods
           /\ DOMAIN Val(workload).pods \subseteq Pods

TypeInv ==
    /\ ServedInv
    /\ queued \in BOOLEAN /\ edits \in 0 .. MaxEdits
    /\ ConfigsTyped /\ RunTyped /\ ServiceTyped /\ PodsTyped

LEMMA InitTyped == Init => TypeInv
<1> SUFFICES ASSUME Init PROVE TypeInv
  OBVIOUS
<1>1. ServedInv
  BY InitServed
<1>2. queued \in BOOLEAN /\ edits \in 0 .. MaxEdits
  BY MaxEditsAssumption DEF Init
<1>3. ConfigsTyped
  <2>1. configs \in Installed /\ inline = <<>>
    BY DEF Init
  <2> QED
    BY <2>1, ConfigsAssumption DEF ConfigsTyped, LayerOption, IsSet
<1>4. RunTyped
  BY DEF Init, RunTyped, Idle, NothingInherited
<1>5. ServiceTyped /\ PodsTyped
  BY DEF Init, ServiceTyped, PodsTyped, Llm, IsSet
<1> QED
  BY <1>1, <1>2, <1>3, <1>4, <1>5 DEF TypeInv

\* The refs of a language model are names that are looked up.
LEMMA RefsKnown ==
    ASSUME NEW i \in Insts, i.topology = "llm"
    PROVE  /\ baseRefs(i) \in Seq(KnownRefs \cup {Inline})
           /\ LayerOption(i.config)
<1> DEFINE S == KnownRefs \cup {Inline}
<1>1. i.baseRefs \in Seq(STRING) /\ LayerOption(i.config)
  BY InstsAssumption
<1>2. i.baseRefs \in Seq(S)
  <2>1. \A n \in 1 .. Len(i.baseRefs) : i.baseRefs[n] \in Range(i.baseRefs)
    BY <1>1 DEF Range
  <2>2. Range(i.baseRefs) \subseteq S
    <3> DEFINE named == {Range(j.baseRefs) : j \in {j \in Insts : j.topology = "llm"}}
    <3>1. Range(i.baseRefs) \in named
      OBVIOUS
    <3>2. Range(i.baseRefs) \subseteq UNION named
      <4> HIDE DEF named
      <4> QED
        BY <3>1
    <3>3. KnownRefs = {"cpu", "scheduler", "route"} \cup Names \cup ((UNION named) \ {Inline})
      BY DEF KnownRefs
    <3> HIDE DEF named
    <3>4. (UNION named) \subseteq S
      BY <3>3
    <3> QED
      BY <3>2, <3>4
  <2>3. \A n \in 1 .. Len(i.baseRefs) : i.baseRefs[n] \in S
    BY <2>1, <2>2
  <2> HIDE DEF S
  <2> QED
    BY <1>1, <2>3
<1>3. "cpu" \in S /\ "scheduler" \in S /\ "route" \in S /\ Inline \in S
  BY DEF KnownRefs
<1> HIDE DEF S
<1>4. ASSUME NEW x \in S, NEW condition PROVE When(condition, x) \in Seq(S)
  BY <1>4 DEF When
<1>5. routingConfigRefs(i) \in Seq(S)
  BY <1>3, <1>4, ConcatProperties DEF routingConfigRefs
<1>6. baseRefs(i) \in Seq(S)
  BY <1>2, <1>3, <1>4, <1>5, ConcatProperties DEF baseRefs
<1> QED
  BY <1>1, <1>6 DEF S

\* What a config adds to the inherited arguments.
LEMMA AddTyped ==
    ASSUME NEW in, in.has \subseteq Pods, NEW layer, DOMAIN layer \subseteq Pods
    PROVE  add(in, layer).has \subseteq Pods
  BY DEF add

\* A step that leaves the types to the run alone.
LEMMA StepTyped ==
    ASSUME TypeInv, ServedInv', RunTyped', UNCHANGED <<inst, configs, inline, workload, service>>,
           queued' \in BOOLEAN, edits' = edits
    PROVE  TypeInv'
<1>1. ConfigsTyped'
  BY DEF TypeInv, ConfigsTyped
<1>2. ServiceTyped' /\ PodsTyped'
  BY DEF TypeInv, ServiceTyped, PodsTyped, Llm
<1> QED
  BY <1>1, <1>2 DEF TypeInv

LEMMA IdleTyped == run' = Idle => RunTyped'
  BY DEF RunTyped, Idle, NothingInherited

\* A step of a reconcile, which stays one.
LEMMA GoingTyped ==
    ASSUME NEW phase \in {"store", "config", "apply", "service"},
           run'.phase = phase, run'.place \in {1, 2}, run'.in.has \subseteq Pods
    PROVE  RunTyped'
<1>1. run' # Idle
  BY DEF Idle
<1> QED
  BY <1>1 DEF RunTyped

\* What others and the user do.
LEMMA EditsTyped ==
    TypeInv /\ ServedInv' /\ (WriteInstance \/ WriteConfig \/ WriteStore \/ Resync) => TypeInv'
<1> SUFFICES ASSUME TypeInv, ServedInv', WriteInstance \/ WriteConfig \/ WriteStore \/ Resync
             PROVE  TypeInv'
  OBVIOUS
<1>1. UNCHANGED <<inline, run, workload, service>> /\ inst'.topology = inst.topology
  BY DEF WriteInstance, WriteConfig, WriteStore, Resync
<1>2. queued' \in BOOLEAN /\ edits' \in 0 .. MaxEdits
  <2>1. edits' = edits \/ (edits < MaxEdits /\ edits' = edits + 1)
    BY DEF WriteInstance, WriteConfig, WriteStore, Resync, Edit
  <2>2. edits \in 0 .. MaxEdits /\ queued \in BOOLEAN
    BY DEF TypeInv
  <2>3. edits' \in 0 .. MaxEdits
    BY <2>1, <2>2, MaxEditsAssumption
  <2>4. queued' = queued \/ queued' = TRUE
    BY DEF WriteInstance, WriteConfig, WriteStore, Resync
  <2> QED
    BY <2>2, <2>3, <2>4
<1>3. ConfigsTyped'
  <2>1. CASE configs' = configs
    BY <1>1, <2>1 DEF TypeInv, ConfigsTyped
  <2>2. CASE WriteConfig
    <3>1. PICK place \in {"own", "system"}, name \in Names, content \in {<<>>} \cup {<<l>> : l \in Layers} :
              configs' = [configs EXCEPT ![place][name] = content]
      BY <2>2 DEF WriteConfig
    <3>2. LayerOption(content)
      BY <3>1, ConfigsAssumption DEF LayerOption, IsSet
    <3> QED
      BY <1>1, <3>1, <3>2 DEF TypeInv, ConfigsTyped
  <2> QED
    BY <2>1, <2>2 DEF WriteInstance, WriteStore, Resync
<1>4. RunTyped'
  BY <1>1 DEF TypeInv, RunTyped, Refs
<1>5. ServiceTyped' /\ PodsTyped'
  BY <1>1 DEF TypeInv, ServiceTyped, PodsTyped, Llm
<1> QED
  BY <1>2, <1>3, <1>4, <1>5 DEF TypeInv

LEMMA BeginTyped == TypeInv /\ ServedInv' /\ Begin => TypeInv'
<1> SUFFICES ASSUME TypeInv, ServedInv', Begin PROVE TypeInv'
  OBVIOUS
<1>1. CASE Validates(inst)
  <2>1. run' = [Idle EXCEPT !.phase = First(inst), !.inst = <<inst>>]
    BY <1>1 DEF Begin
  <2>2. run'.phase = First(inst) /\ run'.place = 1 /\ run'.in.has = {}
    BY <2>1 DEF Idle, NothingInherited
  <2>3. First(inst) \in {"store", "config", "apply"}
    BY DEF First
  <2>4. RunTyped'
    BY <2>2, <2>3, GoingTyped
  <2> QED
    BY <2>4, StepTyped DEF Begin
<1>2. CASE ~Validates(inst)
  BY <1>2, IdleTyped, StepTyped DEF Begin
<1> QED
  BY <1>1, <1>2

LEMMA StoreTyped == TypeInv /\ ServedInv' /\ getStorageContainer => TypeInv'
<1> SUFFICES ASSUME TypeInv, ServedInv', getStorageContainer PROVE TypeInv'
  OBVIOUS
<1>1. DOMAIN run = DOMAIN Idle /\ run.place \in {1, 2} /\ run.in.has \subseteq Pods
  BY DEF TypeInv, ServedInv, RunReads, RunTyped, getStorageContainer, Idle
<1>2. CASE run' = Idle
  BY <1>2, IdleTyped, StepTyped DEF getStorageContainer, TypeInv
<1>3. CASE run' = [run EXCEPT !.phase = "apply", !.read = store]
  <2>1. run'.phase = "apply" /\ run'.place = run.place /\ run'.in = run.in
    BY <1>1, <1>3 DEF Idle
  <2> QED
    BY <1>1, <2>1, GoingTyped, StepTyped DEF getStorageContainer, TypeInv
<1> QED
  BY <1>2, <1>3 DEF getStorageContainer

\* A call of a language model's reconcile works on an Instance it accepted.
LEMMA ReadsLlm ==
    ASSUME ServedInv, run.phase \in {"config", "read"}
    PROVE  /\ Val(run.inst) \in Insts /\ Val(run.inst).topology = "llm"
           /\ DOMAIN run = DOMAIN Idle
<1>1. run # Idle
  BY DEF Idle
<1> QED
  BY <1>1 DEF ServedInv, BuiltInv, RunSound, RunReads

LEMMA ConfigTyped ==
    TypeInv /\ ServedInv' /\ ensureLLMConfig => TypeInv'
<1> SUFFICES ASSUME TypeInv, ServedInv', ensureLLMConfig PROVE TypeInv'
  OBVIOUS
<1> DEFINE i == Val(run.inst)
<1>1. /\ i \in Insts /\ i.topology = "llm" /\ DOMAIN run = DOMAIN Idle
      /\ run.place \in {1, 2} /\ run.in.has \subseteq Pods
  BY ReadsLlm DEF ensureLLMConfig, TypeInv, RunTyped
<1>2. /\ run'.place = run.place /\ run'.in = run.in /\ run'.inst = run.inst
      /\ \/ run'.phase = "apply"
         \/ run'.phase = "read" /\ run'.at = 1
  BY <1>1 DEF ensureLLMConfig, Idle
<1>3. RunTyped'
  <2>1. run' # Idle
    BY <1>2 DEF Idle
  <2>2. Refs' = Refs /\ Len(Refs) \in Nat
    BY <1>1, <1>2, RefsKnown DEF Refs
  <2>3. 1 \in 1 .. Len(Refs) + 1
    BY <2>2
  <2> QED
    BY <1>1, <1>2, <2>1, <2>2, <2>3 DEF RunTyped
<1>4. ConfigsTyped'
  <2>1. LayerOption(i.config)
    BY <1>1, RefsKnown
  <2>2. inline' = inline \/ inline' = i.config
    BY DEF ensureLLMConfig
  <2> QED
    BY <2>1, <2>2 DEF ensureLLMConfig, TypeInv, ConfigsTyped, LayerOption
<1>5. ServiceTyped' /\ PodsTyped'
  BY DEF ensureLLMConfig, TypeInv, ServiceTyped, PodsTyped, Llm
<1> QED
  BY <1>3, <1>4, <1>5 DEF ensureLLMConfig, TypeInv

\* A step of the walk over the refs.
LEMMA ReadTyped ==
    TypeInv /\ ServedInv' /\ (resolveInline \/ getLLMConfig \/ Resolved) => TypeInv'
<1> SUFFICES ASSUME TypeInv, ServedInv', resolveInline \/ getLLMConfig \/ Resolved PROVE TypeInv'
  OBVIOUS
<1> DEFINE i == Val(run.inst)
<1>1. run.phase = "read"
  BY DEF resolveInline, getLLMConfig, Resolved
<1>2. /\ i \in Insts /\ i.topology = "llm" /\ DOMAIN run = DOMAIN Idle
      /\ run.place \in {1, 2} /\ run.in.has \subseteq Pods /\ run.at \in 1 .. Len(Refs) + 1
  BY <1>1, ReadsLlm DEF TypeInv, RunTyped
<1>3. Refs \in Seq(KnownRefs \cup {Inline}) /\ LayerOption(i.config)
  BY <1>2, RefsKnown DEF Refs
<1>4. ASSUME NEW content, IsSet(content), LayerOption(content), Found(Val(content)), run.at <= Len(Refs)
      PROVE  RunTyped'
  <2>1. /\ run'.phase = "read" /\ run'.inst = run.inst /\ run'.place = 1
        /\ run'.at = run.at + 1 /\ run'.in = add(run.in, Val(content))
    BY <1>1, <1>2, <1>4 DEF Found, Idle
  <2>2. run'.in.has \subseteq Pods
    BY <1>2, <1>4, <2>1, AddTyped DEF LayerOption
  <2>3. Refs' = Refs /\ run' # Idle
    BY <2>1 DEF Refs, Idle
  <2>4. run.at + 1 \in 1 .. Len(Refs) + 1
    BY <1>2, <1>3, <1>4
  <2> QED
    BY <2>1, <2>2, <2>3, <2>4 DEF RunTyped
<1>5. CASE resolveInline
  <2>1. RunTyped'
    BY <1>3, <1>4, <1>5 DEF resolveInline, OwnConfig
  <2> QED
    BY <1>5, <2>1, StepTyped DEF resolveInline, TypeInv
<1>6. CASE getLLMConfig
  <2> DEFINE ref == Refs[run.at]
             place == Places[run.place]
             content == ConfigAt(place, ref)
  <2>1. ref \in KnownRefs \cup {Inline} /\ place \in {"own", "system"}
    <3>1. run.at \in 1 .. Len(Refs)
      BY <1>2, <1>3, <1>6 DEF getLLMConfig
    <3> QED
      BY <1>2, <1>3, <3>1 DEF Places
  <2>2. LayerOption(content)
    <3> HIDE DEF ref, place
    <3>1. CASE ref = Inline
      BY <2>1, <3>1 DEF ConfigAt, TypeInv, ConfigsTyped, LayerOption, IsSet
    <3>2. CASE ref # Inline
      <4>1. ref \in KnownRefs
        BY <2>1, <3>2
      <4>2. content = configs[place][ref]
        BY <3>2 DEF ConfigAt
      <4> QED
        BY <2>1, <4>1, <4>2 DEF TypeInv, ConfigsTyped
    <3> QED
      BY <3>1, <3>2
  <2>3. CASE IsSet(content) /\ Found(Val(content))
    <3>1. run.at <= Len(Refs)
      BY <1>6 DEF getLLMConfig
    <3> HIDE DEF content
    <3>2. RunTyped'
      BY <1>4, <2>2, <2>3, <3>1
    <3> QED
      BY <1>6, <3>2, StepTyped DEF getLLMConfig, TypeInv
  <2>4. CASE run' = [run EXCEPT !.place = 2]
    <3>1. /\ run'.phase = "read" /\ run'.inst = run.inst /\ run'.place = 2
          /\ run'.at = run.at /\ run'.in = run.in
      BY <1>1, <1>2, <2>4 DEF Idle
    <3>2. RunTyped'
      <4>1. Refs' = Refs /\ run' # Idle
        BY <3>1 DEF Refs, Idle
      <4> QED
        BY <1>2, <3>1, <4>1 DEF RunTyped
    <3> QED
      BY <1>6, <3>2, StepTyped DEF getLLMConfig, TypeInv
  <2>5. CASE run' = [run EXCEPT !.at = run.at + 1, !.place = 1]
    <3>1. /\ run'.phase = "read" /\ run'.inst = run.inst /\ run'.place = 1
          /\ run'.at = run.at + 1 /\ run'.in = run.in
      BY <1>1, <1>2, <2>5 DEF Idle
    <3>2. run.at + 1 \in 1 .. Len(Refs) + 1
      BY <1>2, <1>3, <1>6 DEF getLLMConfig
    <3>3. RunTyped'
      <4>1. Refs' = Refs /\ run' # Idle
        BY <3>1 DEF Refs, Idle
      <4> QED
        BY <1>2, <3>1, <3>2, <4>1 DEF RunTyped
    <3> QED
      BY <1>6, <3>3, StepTyped DEF getLLMConfig, TypeInv
  <2> QED
    BY <1>6, <2>3, <2>4, <2>5 DEF getLLMConfig
<1>7. CASE Resolved
  <2>1. run'.phase = "apply" /\ run'.place = run.place /\ run'.in = run.in
    BY <1>2, <1>7 DEF Resolved, Idle
  <2>2. RunTyped'
    BY <1>2, <2>1, GoingTyped
  <2> QED
    BY <1>7, <2>2, StepTyped DEF Resolved, TypeInv
<1> QED
  BY <1>5, <1>6, <1>7

\* The templates that are built are those of the Instance and of the configs read.
LEMMA PodsBuilt ==
    ASSUME NEW i, NEW in, in.has \subseteq Pods
    PROVE  LET pods == buildLLMInferenceService(i, in).pods IN
           PodsOf(i) \subseteq DOMAIN pods /\ DOMAIN pods \subseteq Pods
<1> DEFINE own == buildPods(i)
           pods == applyEngineArgs(own, in, i.flags)
<1>1. DOMAIN own = PodsOf(i) /\ PodsOf(i) \subseteq Pods
  BY DEF buildPods, PodsOf, Pods
<1>2. buildLLMInferenceService(i, in).pods = pods
  BY DEF buildLLMInferenceService
<1> HIDE DEF own
<1>3. DOMAIN pods = DOMAIN own \/ DOMAIN pods = DOMAIN own \cup in.has
  BY DEF applyEngineArgs
<1> HIDE DEF pods
<1> QED
  BY <1>1, <1>2, <1>3

LEMMA BuiltTyped ==
    ASSUME TypeInv, Built, inst' = inst
    PROVE  PodsTyped'
<1> SUFFICES ASSUME inst.topology = "llm"
             PROVE  /\ PodsOf(Val(workload)'.of) \subseteq DOMAIN Val(workload)'.pods
                    /\ DOMAIN Val(workload)'.pods \subseteq Pods
  BY DEF PodsTyped, Llm
<1> DEFINE i == Val(run.inst)
           w == buildLLMInferenceService(i, run.in)
<1>1. i.topology = "llm" /\ run.in.has \subseteq Pods
  <2>1. run # Idle
    BY DEF Built, Idle
  <2> QED
    BY <2>1 DEF TypeInv, ServedInv, BuiltInv, RunSound, RunTyped
<1>2. Val(workload)' = w
  <2>1. workload' = <<w>>
    BY <1>1 DEF Built, Build
  <2> QED
    BY <2>1 DEF Val
<1>3. w.of = i
  BY DEF buildLLMInferenceService
<1> QED
  BY <1>1, <1>2, <1>3, PodsBuilt

LEMMA PublishedTyped ==
    ASSUME TypeInv, Published, UNCHANGED <<inst, workload>>
    PROVE  ServiceTyped'
<1> DEFINE i == Val(run.inst)
           w == Val(workload)
           r == Val(resolveCatalogModel(w.of))
<1>1. run # Idle /\ run.phase = "service"
  BY DEF Published, Idle
<1>2. i.topology = "predictor" /\ inst.topology = "predictor" /\ IsSet(workload)
  BY <1>1 DEF TypeInv, ServedInv, BuiltInv, RunSound, RunReads
<1>3. Resolves(w.of, r) /\ w.spec = SpecOf(w.of)
  BY <1>2 DEF TypeInv, ServedInv, Predictor, AsServed, Resolves, SpecOf
<1>4. predictorTargetPort(w.spec) \in Ports
  BY <1>3, TargetStored
<1>5. \/ service' = <<>>
      \/ service' = <<[type |-> resolveServiceType(i), target |-> predictorTargetPort(w.spec)]>>
  BY DEF Published, reconcileExternalService
<1> HIDE DEF w
<1>6. IsSet(service)' => Val(service)'.target = predictorTargetPort(w.spec)
  BY <1>5 DEF IsSet, Val
<1> QED
  BY <1>2, <1>4, <1>6 DEF ServiceTyped

LEMMA ApplyTyped == TypeInv /\ ServedInv' /\ Apply => TypeInv'
<1> SUFFICES ASSUME TypeInv, ServedInv', Apply PROVE TypeInv'
  OBVIOUS
<1>1. PodsTyped'
  BY BuiltTyped DEF Apply
<1>2. DOMAIN run = DOMAIN Idle /\ run.place \in {1, 2} /\ run.in.has \subseteq Pods
  BY DEF TypeInv, ServedInv, RunReads, RunTyped, Apply, Built, Idle
<1>3. RunTyped'
  <2>1. CASE run' = Idle
    BY <2>1, IdleTyped
  <2>2. CASE run' = [run EXCEPT !.phase = "service"]
    <3>1. run'.phase = "service" /\ run'.place = run.place /\ run'.in = run.in
      BY <1>2, <2>2 DEF Idle
    <3> QED
      BY <1>2, <3>1, GoingTyped
  <2> QED
    BY <2>1, <2>2 DEF Apply
<1>4. ConfigsTyped' /\ ServiceTyped'
  BY DEF Apply, TypeInv, ConfigsTyped, ServiceTyped
<1> QED
  BY <1>1, <1>3, <1>4 DEF Apply, TypeInv

LEMMA PublishTyped == TypeInv /\ ServedInv' /\ Publish => TypeInv'
<1> SUFFICES ASSUME TypeInv, ServedInv', Publish PROVE TypeInv'
  OBVIOUS
<1>1. ServiceTyped'
  BY PublishedTyped DEF Publish
<1>2. RunTyped'
  BY IdleTyped DEF Publish
<1>3. ConfigsTyped' /\ PodsTyped'
  BY DEF Publish, TypeInv, ConfigsTyped, PodsTyped, Llm
<1> QED
  BY <1>1, <1>2, <1>3 DEF Publish, TypeInv

\* A call fails or its answer is lost: what it wrote may be there, the reconcile is gone.
LEMMA AbandonedTyped ==
    TypeInv /\ ServedInv' /\ (Fails \/ AnswerLost \/ ConfigAnswerLost) => TypeInv'
<1> SUFFICES ASSUME TypeInv, ServedInv', Fails \/ AnswerLost \/ ConfigAnswerLost PROVE TypeInv'
  OBVIOUS
<1>1. run' = Idle /\ queued' = TRUE /\ UNCHANGED <<inst, configs, store, edits>>
  BY DEF Fails, AnswerLost, ConfigAnswerLost, Abandoned
<1>2. RunTyped'
  BY <1>1, IdleTyped
<1>3. ConfigsTyped'
  <2>1. CASE UNCHANGED inline
    BY <1>1, <2>1 DEF TypeInv, ConfigsTyped
  <2>2. CASE ConfigAnswerLost
    <3>1. Val(run.inst) \in Insts /\ Val(run.inst).topology = "llm"
      BY <2>2, ReadsLlm DEF ConfigAnswerLost, TypeInv
    <3>2. LayerOption(inline')
      BY <2>2, <3>1, RefsKnown DEF ConfigAnswerLost
    <3> QED
      BY <1>1, <3>2 DEF TypeInv, ConfigsTyped, LayerOption
  <2> QED
    BY <2>1, <2>2 DEF Fails, AnswerLost
<1>4. ServiceTyped'
  <2>1. CASE UNCHANGED service
    BY <1>1, <2>1 DEF TypeInv, ServiceTyped
  <2>2. CASE Published /\ UNCHANGED workload
    BY <1>1, <2>2, PublishedTyped
  <2> QED
    BY <2>1, <2>2 DEF Fails, AnswerLost, ConfigAnswerLost
<1>5. PodsTyped'
  <2>1. CASE UNCHANGED workload
    BY <1>1, <2>1 DEF TypeInv, PodsTyped, Llm
  <2>2. CASE Built
    BY <1>1, <2>2, BuiltTyped
  <2> QED
    BY <2>1, <2>2 DEF Fails, AnswerLost, ConfigAnswerLost
<1> QED
  BY <1>1, <1>2, <1>3, <1>4, <1>5 DEF TypeInv

LEMMA NextTyped == TypeInv /\ [Next]_vars => TypeInv'
<1> SUFFICES ASSUME TypeInv, [Next]_vars PROVE TypeInv'
  OBVIOUS
<1>1. ServedInv'
  BY NextServed DEF TypeInv
<1>2. CASE UNCHANGED vars
  <2>1. UNCHANGED <<inst, configs, inline, workload, service, run, queued, edits>>
    BY <1>2 DEF vars
  <2>2. RunTyped'
    BY <2>1 DEF TypeInv, RunTyped, Refs
  <2> QED
    BY <1>1, <2>1, <2>2, StepTyped DEF TypeInv
<1>3. CASE Reconcile
  BY <1>1, <1>3, BeginTyped, StoreTyped, ConfigTyped, ReadTyped, ApplyTyped, PublishTyped
     DEF Reconcile
<1> QED
  BY <1>1, <1>2, <1>3, EditsTyped, AbandonedTyped DEF Next

\* A reconcile past Validate works on an accepted Instance, reads the refs of that
\* Instance and no others, templates are the four there are, and the Service of a
\* predictor leads to a port, whatever the user and others write meanwhile.
THEOREM TypeCorrect == Spec => []TypeOK
<1>1. TypeInv => TypeOK
  <2> SUFFICES ASSUME TypeInv PROVE TypeOK
    OBVIOUS
  <2>1. run # Idle => Validates(Val(run.inst)) /\ Val(run.inst).topology = inst.topology
    BY DEF TypeInv, ServedInv, BuiltInv, RunSound
  <2>2. run.phase \in {"idle", "store", "config", "read", "apply", "service"}
    BY DEF TypeInv, ServedInv, RunReads, Phases
  <2> QED
    BY <2>1, <2>2 DEF TypeInv, RunTyped, ServiceTyped, PodsTyped, TypeOK
<1> QED
  BY <1>1, InitTyped, NextTyped, PTL DEF Spec

=============================================================================
