----------------------------- MODULE MC_Workloads -----------------------------
(***************************************************************************)
(* Small instances of Workloads: one plain Instance of each topology, varied *)
(* in the fields that one group of checks relates, with integers of four     *)
(* bits for the language models.                                             *)
(***************************************************************************)
EXTENDS Workloads, TLC

Text(text) == [text |-> text, padded |-> FALSE]
Padded(text) == [text |-> text, padded |-> TRUE]
Optional(S) == {<<>>} \cup {<<x>> : x \in S}
NoScaling == [min |-> <<>>, max |-> <<>>, actuator |-> NoText]

Plain ==
    [topology |-> "llm", name |-> "x", tolerations |-> {}, modelName |-> "", scheme |-> "hf", disabled |-> FALSE,
     pullSecret |-> FALSE, replicas |-> <<2>>, tensor |-> <<>>, pipeline |-> <<>>,
     data |-> <<>>, cpu |-> FALSE, gpuCount |-> <<>>, gpu |-> <<>>, workerCount |-> <<>>,
     workerRes |-> <<>>, scaling |-> NoScaling,
     prefill |-> [on |-> FALSE, replicas |-> <<1>>, pipeline |-> <<>>, workerCount |-> <<>>,
                  workerRes |-> <<>>, scaling |-> NoScaling],
     lora |-> [deployment |-> NoText, slots |-> <<NoText, NoText, NoText>>,
               adapters |-> <<>>, limits |-> {}],
     routing |-> FALSE, gateway |-> FALSE, baseRefs |-> <<>>, config |-> <<>>,
     flags |-> <<>>, wellFormed |-> TRUE]

\* Worker counts and pipelines up to where the sum wraps, beside data parallelism.
WorkerInsts ==
    {[Plain EXCEPT !.workerCount = c, !.pipeline = p, !.data = d] :
        c \in Optional({0, 1, Half - 1}), p \in Optional({-Half, 2}), d \in Optional({2})}
    \cup {[Plain EXCEPT !.prefill.on = on, !.prefill.workerCount = c, !.prefill.pipeline = p] :
        on \in BOOLEAN, c \in Optional({1, 2}), p \in Optional({2, 3})}

Tolerates(key, effect) == [key |-> key, exists |-> TRUE, effect |-> effect]
Tolerations ==
    {{}, {Tolerates("spot", "NoSchedule")}, {Tolerates("nvidia", "NoExecute")}, {Tolerates("", "")}}

\* GPUs of head, workers and prefill workers against the tensor parallel size.
GPUInsts ==
    {[Plain EXCEPT !.tensor = t, !.gpuCount = g, !.gpu = l] :
        t \in Optional({2}), g \in Optional({0, 1, 2}), l \in Optional({1, 4})}
    \cup {[Plain EXCEPT !.cpu = TRUE, !.tensor = <<2>>, !.gpuCount = g] : g \in Optional({2})}
    \cup {[Plain EXCEPT !.cpu = c, !.gpu = l, !.tolerations = s] :
        c \in BOOLEAN, l \in Optional({0, 1}), s \in Tolerations}
    \cup {[Plain EXCEPT !.tensor = <<2>>, !.gpuCount = g,
                        !.workerCount = <<1>>, !.pipeline = <<2>>, !.workerRes = w,
                        !.prefill.on = TRUE, !.prefill.workerCount = <<1>>,
                        !.prefill.pipeline = <<2>>, !.prefill.workerRes = v] :
        g \in Optional({2}), w \in Optional({<<>>, <<1>>}), v \in Optional({<<>>, <<1>>, <<4>>})}
    \cup {[Plain EXCEPT !.gpu = l, !.gpuCount = g, !.workerCount = <<1>>, !.pipeline = <<2>>,
                        !.workerRes = w] :
        g \in Optional({1}), l \in Optional({0}), w \in Optional({<<0>>, <<1>>})}

Scalings ==
    {NoScaling}
    \cup {[min |-> m, max |-> <<2>>, actuator |-> a] :
            m \in Optional({0, 1, 3}), a \in {NoText, Text("hpa"), Padded("hpa")}}
    \cup {[min |-> <<>>, max |-> <<>>, actuator |-> Padded("")],
          [min |-> <<>>, max |-> <<1>>, actuator |-> Text("other")]}

ScalingInsts ==
    {[Plain EXCEPT !.scaling = s] : s \in Scalings}
    \cup {[Plain EXCEPT !.scaling = s, !.prefill.on = on, !.prefill.scaling = t] :
        s \in {NoScaling, [min |-> <<1>>, max |-> <<2>>, actuator |-> Padded("hpa")]},
        on \in BOOLEAN,
        t \in {NoScaling} \cup {[min |-> <<>>, max |-> <<2>>, actuator |-> a] :
                                  a \in {NoText, Text("hpa")}}}

MCCatalog == [n \in {"c", "x"} |-> IF n = "c" THEN "s3" ELSE "pvc"]
Adapter(name, scheme) == [name |-> name, scheme |-> scheme]

LoraInsts ==
    {[Plain EXCEPT !.modelName = m, !.disabled = d, !.lora.adapters = a] :
        m \in {"", "a"}, d \in BOOLEAN,
        a \in {<<Adapter(Text("a"), "pvc")>>, <<Adapter(Text("a"), "hf")>>, <<Adapter(Text("b"), "")>>,
               <<Adapter(Text("b"), "pvc"), Adapter(Padded("b"), "pvc")>>}}
    \cup {[Plain EXCEPT !.lora.adapters = <<Adapter(Text("a"), "pvc")>>, !.lora.limits = {l}] :
        l \in {0, 7}}
    \cup {[Plain EXCEPT !.lora.deployment = e, !.lora.slots = <<s, NoText, t>>] :
        e \in {Text("enabled"), Padded("enabled"), Text("other")},
        s \in {NoText, Text("c"), Text("x"), Text("unknown")}, t \in {NoText, Padded("c")}}

\* Flags, refs and inline configs, with and without templates of the Instance's own.
Args(a) == << <<a>> >>
Worker(a) == [p \in {"worker"} |-> a]
Prefills(a) == [p \in {"template", "prefill", "prefillWorker"} |-> IF p = "prefill" THEN <<>> ELSE a]

EngineInsts ==
    {[Plain EXCEPT !.flags = f, !.cpu = cpu, !.routing = TRUE, !.baseRefs = <<"r">>,
                   !.config = c, !.pullSecret = TRUE] :
        f \in {<<>>, <<"f">>}, cpu \in BOOLEAN,
        c \in {<<>>, <<Worker(Args("i"))>>, <<Prefills(<<>>)>>}}
    \cup {[Plain EXCEPT !.flags = <<"f">>, !.gateway = TRUE, !.baseRefs = <<"r">>,
                        !.workerCount = <<1>>, !.pipeline = <<2>>, !.prefill.on = TRUE],
          [Plain EXCEPT !.flags = <<"f">>, !.baseRefs = <<Inline, "r">>],
          [Plain EXCEPT !.wellFormed = FALSE],
          [Plain EXCEPT !.scheme = "gs"],
          [Plain EXCEPT !.scheme = "oci", !.disabled = TRUE],
          [Plain EXCEPT !.replicas = <<-1>>]}

MCLayers == {Worker(Args("w")), Prefills(Args("p"))}
MCNames == {"cpu", "r"}

Revision(config) ==
    [Plain EXCEPT !.flags = <<"f">>, !.cpu = TRUE, !.baseRefs = <<"r">>, !.config = config]
LlmRevised == {Plain, Revision(<<>>), Revision(<<Worker(Args("i"))>>)}
LlmInsts == LlmRevised \cup
    WorkerInsts \cup GPUInsts \cup ScalingInsts \cup LoraInsts \cup EngineInsts

Configs(own, system) ==
    [place \in {"own", "system"} |->
        [n \in {"cpu", "scheduler", "route", "r"} |->
            LET there == IF place = "own" THEN own ELSE system IN
            IF n \in DOMAIN there THEN <<there[n]>> ELSE <<>>]]
MCInstalled ==
    {Configs(None, None),
     Configs([n \in {"r"} |-> Worker(<<>>)], [n \in {"cpu", "r"} |-> Prefills(Args("q"))])}

-----------------------------------------------------------------------------
MCModels ==
    [n \in {"embed", "tree"} |->
        IF n = "embed" THEN [format |-> "huggingface", scheme |-> "hf", task |-> TextEmbedding, gpuCount |-> 1]
        ELSE [format |-> "sklearn", scheme |-> "gs", task |-> "", gpuCount |-> 0]]

Runtime ==
    [topology |-> "predictor", access |-> "", legacy |-> FALSE, service |-> "",
     name |-> "x", model |-> "", format |-> "sklearn", scheme |-> "gs", task |-> "",
     runtime |-> FALSE, args |-> <<>>, res |-> <<>>, gpuCount |-> <<>>, replicas |-> <<1>>,
     min |-> <<>>, max |-> <<>>, container |-> "", account |-> "", tolerations |-> {},
     image |-> "", port |-> <<>>, imageOnly |-> FALSE, schema |-> "", openAI |-> FALSE,
     secret |-> "", served |-> "", pull |-> "", tokenLimit |-> <<>>, labels |-> None,
     annotations |-> None, config |-> <<>>, wellFormed |-> TRUE]

Image == [Runtime EXCEPT !.format = "", !.scheme = "", !.image = "i", !.openAI = TRUE]

\* Catalog models beside fields of the user's own, and a storage container.
SourceInsts ==
    {[Runtime EXCEPT !.model = m, !.format = f, !.scheme = s, !.container = c] :
        m \in {"", "embed", "tree", "unknown"}, f \in {"", "sklearn"}, s \in {"", "s3"}, c \in {"", "sc"}}
    \cup {[Image EXCEPT !.model = "tree", !.scheme = s, !.container = "sc", !.account = a] :
        s \in {"", "hf", "gs"}, a \in {"", "mine"}}
    \cup {[Runtime EXCEPT !.scheme = "hf", !.account = a, !.container = "sc"] : a \in {"", "mine"}}

Flag(flag, value) == [flag |-> flag, value |-> value]

EmbeddingInsts ==
    {[Runtime EXCEPT !.model = m, !.format = f, !.scheme = IF m = "" THEN "hf" ELSE "",
                     !.task = t, !.gpuCount = g, !.args = a, !.access = "EnvoyAIGateway"] :
        m \in {"", "embed"}, f \in {"", "HuggingFace"}, t \in {"", TextEmbedding},
        g \in Optional({0, 1}),
        a \in {<<>>, <<Flag("runner", "mine")>>, <<Flag("task", "mine"), Flag("backend", "mine")>>}}

Limits(g, n) == (<<"limits", g>> :> n)
PredictorGPUInsts ==
    {[i EXCEPT !.res = r, !.gpuCount = g, !.tolerations = s] :
        i \in {Runtime, Image}, g \in Optional({-1, 0, 1}), s \in Tolerations,
        r \in {<<>>, <<Limits("amd", 1)>>, <<Limits("nvidia", 0) @@ Limits("cpu", 4)>>,
               <<Limits("nvidia", 2) @@ (<<"requests", "nvidia">> :> 2)>>}}

\* Inline configs: a sidecar listed before the server, a transformer, with and without
\* a port, and fields that the Instance sets too.
Container(name, leaves) == Prefixed(<<"containers", name>>, leaves)
Sidecar == (Items("containers") :> <<"side", kserveContainer>>)
           @@ Container("side", <<"image">> :> "s")
           @@ Container(kserveContainer, (<<"image">> :> "j") @@ (<<"args">> :> <<Flag("c", "c")>>))
Transformer(ports) ==
    (Items("containers") :> <<transformerContainer>>)
    @@ Container(transformerContainer, (<<"image">> :> "t") @@ Leaf(<<"ports">>, ports))
Fields == (<<"minReplicas">> :> 5) @@ (<<"logger", "mode">> :> "all")
          @@ (<<"model", "storageUri">> :> "wrong") @@ (Items("volumes") :> <<"cache">>)
MCConfigs == {Sidecar, Transformer(<<>>), Transformer(<< <<3000>> >>), Fields}

AccessInsts ==
    {[i EXCEPT !.access = a, !.service = s, !.port = p, !.config = c] :
        i \in {Image}, a \in {"", "ClusterIP", "NodePort"}, s \in {"", "LoadBalancer"},
        p \in Optional({80}), c \in Optional(MCConfigs)}
    \cup {[Runtime EXCEPT !.service = s, !.config = <<c>>, !.replicas = <<>>] :
        s \in {"LoadBalancer", "other"}, c \in {Transformer(<< <<3000>> >>), Fields}}
    \cup {[Image EXCEPT !.access = "EnvoyAIGateway", !.schema = s, !.openAI = o, !.secret = k, !.tokenLimit = t] :
        s \in {"", "OpenAI", "TypeSafe", "other"}, o \in BOOLEAN, k \in {"", "k"}, t \in Optional({0, 5})}

OddInsts ==
    {[i EXCEPT !.min = m, !.replicas = r] :
        i \in {Runtime}, m \in Optional({0, 1}), r \in Optional({0, 2})}
    \cup {[Image EXCEPT !.port = <<70000>>], [Image EXCEPT !.task = "t"], [Runtime EXCEPT !.task = "t"],
          [Image EXCEPT !.imageOnly = TRUE, !.pull = "p", !.served = "s"], [Runtime EXCEPT !.imageOnly = TRUE],
          [Runtime EXCEPT !.secret = "k"], [Image EXCEPT !.secret = "k"], [Image EXCEPT !.tokenLimit = <<5>>],
          [Runtime EXCEPT !.labels = ("instance" :> "y")], [Runtime EXCEPT !.labels = ("team" :> "y")],
          [Runtime EXCEPT !.annotations = (DeploymentMode :> "Knative")],
          [Image EXCEPT !.annotations = ("metricsPort" :> 9), !.account = "mine"],
          [Runtime EXCEPT !.wellFormed = FALSE]}

PredictorRevised ==
    {Runtime,
     [Image EXCEPT !.access = "NodePort", !.port = <<80>>, !.container = "sc", !.scheme = "gs"],
     [Image EXCEPT !.access = "NodePort", !.config = <<Transformer(<< <<3000>> >>)>>]}
PredictorInsts == PredictorRevised \cup
    SourceInsts \cup EmbeddingInsts \cup PredictorGPUInsts \cup AccessInsts \cup OddInsts

MCStores ==
    {[disabled |-> FALSE, type |-> "", schemes |-> {"gs", "hf"}],
     [disabled |-> FALSE, type |-> "initContainer", schemes |-> {"s3"}],
     [disabled |-> FALSE, type |-> "other", schemes |-> {"gs"}],
     [disabled |-> TRUE, type |-> "", schemes |-> {"gs"}]}

MCInsts == LlmInsts \cup PredictorInsts
MCRevised == LlmRevised \cup PredictorRevised
=============================================================================
