# TLA+ models of provider-kserve

provider-kserve turns OpenEverest *Instances* into KServe workloads and, on request,
publishes them on a shared Envoy AI Gateway behind API keys.  It is a Kubernetes
controller: every behaviour of interest is a sequence of API calls decided on cached
state, any of which may fail, take effect without its answer arriving, or be cut off
by a restart.  This directory models that part of the program in TLA+, checks it with
TLC on small instances, and proves the safety properties that the passing runs check with
TLAPS for every value of the constants (section 4 says under which assumptions).

`PROJECT.json` maps every definition to the lines it models and lists runs, mutants,
findings, hazards and theorems.

## 1. Inventory

| Component | State | Operations | Interacts with |
|---|---|---|---|
| **Gateway auth renderer** (`gatewayauth.go`) | none of its own; a credentials Secret and a SecurityPolicy on the Gateway; work queue with one key | `Reconcile`, `deleteOutputs`, four watches | reads all key Secrets, all routes, the Gateway; writes two objects owned by the Gateway |
| **API key Secret** (`apikey.go`) | one Secret per exposed Instance | `ensureAIGatewayKey`, `createAIGatewayKey`, fill and patch, `readAIGatewayKey` | called by Sync and Status; its Secret is an input of the renderer; a user rotates by deleting it |
| **Route and name uniqueness** (`aigateway.go`) | one AIGatewayRoute per exposed Instance, token limit, backends | `validateAIGatewayAccess`, `syncAIGateway`, `cleanupAIGateway` | lists the routes of all Instances; routes are an input of the renderer |
| **Sync and Cleanup** (`provider.go`, `llminferenceservice.go`, `inferenceservice.go`, `podmonitor.go`, `externalservice.go`) | up to eleven owned objects per Instance | the call sequences of both topologies | provider-runtime (queue, finalizer, resync), KServe, owner references |
| **Status and connection details** | none | `statusLLM`, `statusPredictor`, `aiGatewayConnectionDetails`, `externalServiceConnectionDetails` | reads what KServe and Envoy report |
| **Validation and builders of the workloads** | none, but the LLM's builder copies arguments out of configs, and the predictor's Validate reads a ClusterStorageContainer, that belong to others | `validateLLM`, `buildLLMInferenceService`, `validatePredictor`, `buildInferenceService`, LoRA, scaling, worker groups, catalog, target port | read by Sync; KServe merges the result with the same configs |
| **Predictor config merge** (`predictor_config.go`), **vLLM arguments** (`vllm_engine.go`) | none | pure functions | used by the builders |
| **Catalogs** (`lora_catalog.go`, `predictor_catalog.go`), **configuration** (`spec.go`), **entry point, RBAC** | embedded YAML, environment | lookups | used by all |

What is hard here, and what each component owes:

* *Renderer.*  It reads four caches that lag and writes two objects one after the
  other; Envoy joins the two by key id and rejects both if two keys share a value.  It
  owes that the pair is acceptable and confined to namespaces at every moment, that no
  update is lost, and that it converges.
* *API key.*  Create and patch are decided on a cached Secret, the patch carries no
  resourceVersion, and the Secret may be deleted (rotation) at any time.  It owes a key
  that is generated once, never rewritten, never resurrected, and published in the end.
* *Names.*  A check on a list of routes followed by a write (several Instances, one name).
  It owes that no name is ever served twice, that, if the client's lists lag, nothing else
  causes a collision and none stays silent, and that names come free again.
* *Sync and Cleanup.*  About ten calls that may stop anywhere, restart with another spec
  or chart, and touch objects that refer to each other.  It owes an order in which no
  reference dangles and no model is published before its key, and convergence.
* *Workloads.*  Validation and builder compute the same quantities twice (GPUs of four
  pod templates, pipeline and workers, adapters, actuators), and the engine's flags are
  joined to arguments read one by one from configs nobody watches.  A predictor's source comes
  from the Instance or from a catalog, its spec is merged with one the user writes, and the
  external Service targets a port found in the result.  They owe that what is accepted is built
  consistently, that no inherited argument is lost, and that Service and workload agree in
  the end.
* *Status.*  Up to five reads, one after the other, of objects whose status lags their spec
  in caches that lag both; the Gateway and the nodes are not watched; a failed read looks like
  an absent object.  It owes that a model is not published while KServe names a workload of it
  without a pod, and that the report
  becomes true, without the resync wherever there is a watch.

The full list of hazards, each at its line, is in `PROJECT.json`.

## 2. Modules

| Module | Models | Runs / proofs |
|---|---|---|
| `GatewayKeys` | the pure part of the renderer: `resolveGatewayKeys`, the route readers, the two builders | used by the two below |
| `GatewayAuth` | the renderer as a state machine | `auth_*`; `GatewayAuthProofs` |
| `KeyLifetime` | abstract: what "generated once and never rewritten" promises | refined by `ApiKey` |
| `ApiKey` | the key Secret of one Instance | `key_lifetime`; `ApiKeyProofs` |
| `ModelNames` | several Instances, their routes and the uniqueness check | `names_*`; `ModelNamesProofs` |
| `InstanceSync` | one Instance, its owned objects, Sync and Cleanup of both topologies | `sync`; `InstanceSyncProofs` |
| `LlmWorkload` | pure: `validateLLM`, `buildLLMInferenceService`, the inherited engine arguments | used by `Workloads` |
| `PredictorWorkload` | pure: `validatePredictor`, the catalog, `buildInferenceService`, the target port | used by `Workloads` |
| `PredictorConfig` | pure: the inline config merged into the generated spec | used by `PredictorWorkload` |
| `GpuPods` | pure: GPU requests and tolerations, for both topologies | used by the builders |
| `Workloads` | the reconcile that builds either workload, and the predictor's external Service | `workloads`, `workers_wrap`, `llm_pull_secret`; `WorkloadsProofs`, `PredictorProofs` |
| `InstanceStatus` | what is reported of one Instance: Status of both topologies | `status`; `InstanceStatusProofs` |
| `ExternalAccess`, `Optionals`, `Maps` | which way in a spec asks for; pointers; maps one over the other | used by several |
| `MC_GatewayAuth`, `MC_ModelNames`, `MC_InstanceSync`, `MC_Workloads`, `MC_InstanceStatus` | small instances | |
| `GatewayAuthProofs`, `ApiKeyProofs`, `ModelNamesProofs`, `InstanceSyncProofs`, `WorkloadsProofs`, `InstanceStatusProofs` | theorems about the modules they are named for | tlapm |
| `PredictorSpecProofs`, `PredictorProofs` | lemmas about the predictor's built and merged spec; theorems about `Workloads` that rest on them | tlapm |

### How state and actions correspond to the code

**GatewayAuth.**  `secrets`, `routes`, `gateway`, `credentials`, `policy` are API server
objects; `cSecrets`, `cRoutes`, `cGateway`, `cCredentials` the informer caches;
`secretWatch`, `routeWatch`, `gatewayWatch` the snapshots under way (in order, per kind),
`policyWatch` a pending event of the policy, which is not read.  Each event says whether
it passes the watch's predicate, which is evaluated on the *new* object.  `queued` is the
work queue (one fixed key, so one bit), `pc` and `run` the running `Reconcile` with what it
has read.  One action per read (`GetGateway`, `ListSecrets`, `ListRoutes`,
`placeholderKey`) and write (`RenderCredentials`, `RenderPolicy`, `DeletePolicyStep`,
`DeleteCredentialsStep`); `WriteFails` and `AnswerLost` are the two ways a write goes
wrong; either requeues.  A write that changes nothing emits no event (server-side apply).
The sort of the Secrets and of the model names fixes the order of output lists only and
is left out, since nothing depends on it: keys, rules and models are sets.

**ApiKey.**  `secret`, `cache` and `watch` as above for one Secret; `phase`, `exposed` the
Instance; `run` the read Secret and the desired one.  `Merged` is the merge patch: only the
fields that differ between the two are written to whatever is stored by then.  A random
draw is the next unused number.  `past` is a history variable.  `clears` says whether this
behaviour has a writer who empties fields in place; it never changes.

**ModelNames.**  `validateAIGatewayAccess` reads `Listed`; `ApplyRoute` is a later step.
`Listed` is the API server's routes or `cRoutes`, the informer's cache of them, by `live`, which each
behaviour chooses once: the code lists unstructured objects through the runtime's client, and
controller-runtime answers those from the API server by default, but could be told to cache them
(an option of the runtime, which is not in this repository).
`run.seen` is a history of what was listed.  One worker, so one Instance at a time.  The
two Instances of the run share one name in two namespaces, which the check tells apart by
namespace *and* name.

**InstanceSync.**  `Sync(s, ch)` and `Cleanup(s)` are the *sequences of calls* that the code
makes for a spec and a chart configuration, one operator per function of the code, in the
order of the code.  `Start` computes the sequence from the Instance as read at that moment;
`Call` performs the first, `CallFails` and `AnswerLost` give up and requeue.  Object contents
are cut down to the fields that refer to other objects or that a spec changes.

**Workloads.**  An Instance is a record of the decoded fields that some check relates; an
optional field is a sequence of length at most one (`Optionals`), and a text that the code trims
says whether it is padded.  Fields that are checked alone (URI syntax, engine ranges, DNS names)
are one Boolean.  For a language model `Begin` is Validate, then come `ensureLLMConfig`, one action
per lookup of a base ref (`getLLMConfig`, the Instance's namespace before KServe's;
`resolveInline`, only if the Instance has an inline config: a ref to the stored one that outlives it is
looked up like any other), and `Apply`; the `in` of `run` is the code's `inheritedArgs`, folded one `add` at a
time.  For a predictor they are `Begin`, `getStorageContainer`, which
reads the API server, `Apply`, and `Publish` (`reconcileExternalService`).  The storage container is looked at in the middle of `validatePredictor`
(`inferenceservice.go:191`); the model has it after the other checks, since those look at the Instance
alone and whichever refuses ends the reconcile.  `WriteConfig` and
`WriteStore` are others who write what a reconcile reads, between any two steps.  Only the GPU
limit, the pull secret, the tolerations and the main container's arguments of an LLM's pod
template are kept.  What KServe makes of base refs and workload (`RunningPods`, `RunningArgs`) is
stated apart and declaratively: the last config that gives a list wins whole.  `workload.of` and
`workload.read` are histories of what it was built and checked from.

**PredictorWorkload** and **PredictorConfig.**  The spec of an InferenceService is a function from
the paths of its leaves (`<<"model", "storageUri">>`) to their values; a list is a leaf, but the four
named lists are merged item by item, so their items are reached by name and the order of the
names is a leaf of its own.  `mergeSpecMaps` then is one function: a generated leaf replaces
whatever the config has on the way to it or below it.  `Maps` has the two operators by which
specs are put together, so that the provers see their definitions.

**InstanceStatus.**  `api` and `cache` hold the four kinds of object that Status reads, the workload
and the route with the status last written and whether it is about the revision there is
(`current`, a history: the code reads no observedGeneration).  Sync is one step, as
`InstanceSync` has its calls; then come `ReadWorkload`, `ReadRoute`, `ReadKey` and `ReadService`, the
order of `statusLLM` and `statusPredictor` in one text, since they differ in what wins
(`OwnURLFirst`), whether pods are counted and which model name is given.  `pods` of a workload is the
sequence of ready pods of the model workloads that its status names (primary, prefill); `<<>>`
names none, and then, as in the code, Ready is trusted.  The Gateway and the nodes (`around`) are
read in the step of the object before them: nobody watches them, so a cache that lags behind
them is the same as a change that comes later.  `ReadFails` is every read whose error the code
takes for an absent object.  `missed` is a history of what no watch can repair.

### What the runtime is assumed to do

`Restart` refills caches before controllers run, and every watched object arrives as a
create event.  An error requeues.  Typed objects (Secrets,
Services, the KServe objects) are read from the informers' caches.  Unstructured ones (routes, the
Gateway, the ClusterStorageContainer) are read from the API server unless the runtime's client is
configured otherwise.  The container is modelled so; `ModelNames`, where it decides a property, has both;
`GatewayAuth` and `InstanceStatus` read routes through a cache that may be up to date or lag, and a read
from the API server is the case where the event arrived just before it.  One worker per controller (the default, not
overridden).  The finalizer is held until Cleanup returns without error.  Objects with an
owner reference to something that is gone are collected some day.

## 3. Runs

| Run | Question | Result |
|---|---|---|
| `auth_safety` | Are credentials and policy acceptable to Envoy and confined to namespaces in every state, and is no update lost? | holds |
| `auth_converges` | Do the outputs converge on the watches alone, with the Gateway replaced, outputs deleted, auth switched? | holds |
| `auth_unlabel` | `QuietMeansUpToDate` when the key label can be taken off | **violated** (finding) |
| `auth_startup` | Is a route always behind the policy? | **violated** (finding) |
| `key_lifetime` | Does the Secret implement `KeyLifetime`; is the stored key published in the end? | holds |
| `names_unique` | Does a model name map to one route when lists are live; if they lag, is lag the only cause of duplicates, and are they reported; do names come free? | holds |
| `names_swapped` | Is a name that one Instance alone asks for served in the end? | **violated** (finding) |
| `sync` | Do references exist, does the key come first, is there one way in, does Cleanup finish; do the owned objects settle, and what comes back without the resync? | holds |
| `workloads` | Is what Validate accepts built consistently, in both topologies; do the engine's flags end up behind what each pod inherits, and the external Service in front of the port the predictor listens on? | holds |
| `workers_wrap` | Is the pipeline one longer than every worker count that Validate accepts? | **violated** (finding) |
| `llm_pull_secret` | Is the pull secret set on head, worker and prefill pods? | **violated** (finding) |
| `status` | Is a language model published while KServe names a workload of it that never had a pod; does the report become true, and where is the resync needed for it? | holds |

Every property of a passing run has a mutant: a plausible bug in a mapped definition
that makes TLC report that property.

### Findings

1. *A label removal is not seen* (`gatewayauth.go:77`).  `NewPredicateFuncs` looks at the
   new object of an update; taking the key label off drops the event, so the key stays
   rendered until something else wakes the renderer.
2. *Nothing orders the first policy before the first route* (`gatewayauth.go:82`): the
   comments rely on it, the controllers are independent.
3. *Two Instances that swap names block each other for ever* (`aigateway.go:140`), also with
   lists from the API server.
4. *A worker or prefill pod that comes from a config has no pull secret*
   (`llm_model_source.go:65`): README and field comment say all of them have it; the engine flags
   do reach these pods.
5. *The largest worker count passes with a negative pipeline* (`llminferenceservice.go:282`): the
   documents ask for a pipeline of one more than the workers, the check compares with a sum of
   int32 that wraps.  `WorkersFitPipeline` says what is built for each count, that one included.

Three more places to know, which no run shows.  README.md:968 says that `config` can add
arguments and environment variables to `kserve-container`; `mergeSpecMaps` replaces both lists when
the Instance sets any argument or a `storageURI` (`predictor_config.go:53`), which is what the
comment at `components/types.go:246` says of lists.  GPUs that only `config` asks for bring neither
toleration nor rollout, as both are decided before the merge (`inferenceservice.go:473`).  And a
`gpuCount` below a GPU request that the component's resources already make leaves a request
above its limit (`inferenceservice.go:642`), which the API server refuses.

### Bounds, and why they are enough

Every bound is a constant.  `MaxLag` limits how many events a cache is behind: 1 or 2,
since a decision on stale data needs one event missing, and a decision on data that is
stale in a different way from the last one needs two.  `MaxEdits` limits what others do
(writes, drift, restarts): 2 to 4, enough for two Secrets, two routes and one change, or
for an edit, a restart and a deletion in any order; steps of the provider itself, failures
and lost answers are not bounded.  `MaxGateways` is 2 in `auth_converges`, so that the Gateway
is replaced once.  `MaxDraws` is 6; a behaviour that uses up its draws (each needs a
retried write on a stale cache) is not claimed to settle.  Two Instances and two names are
enough for `ModelNames`, as its properties speak of pairs.  The specs of
`MC_InstanceSync` cover every access mode of both topologies, with and without the
legacy flag, the component's serviceType, the inline config, the backend key and metrics.

`workloads` gives language models integers of four bits, so that the sum in `validateWorkerGroup`
wraps within reach.  It has nearly six hundred Instances, one family per group of checks, with
values on both sides of every comparison: for predictors the source (catalog, runtime, image, and
the mixtures), GPUs against tolerations and resources, access against schema, metadata, the
storage container, and configs with sidecars and a transformer.  Edits lead to a few of them;
two writes are enough for one of the Instance and one of a config or container between two
steps.

`status` has five specs, which between them take every branch of `ReadWorkload` but a
predictor behind the AI Gateway and a language model behind a LoadBalancer; these lead to the
same reads as the other topology's.  Two states of the surroundings, without a Gateway and with an address, one node
without an external address and one with, four ways for KServe to say Ready (no workload named; one
without a pod, and with one; a prefill workload without), and two edits: one to be seen too early and one to
be seen too late.

The contents of `auth_safety` are chosen so that Secrets collide by id, by value, with the
placeholder's id, refer to another namespace, and routes share a model name, are not
attached to the Gateway, or match by other means than the exact header.

Deadlock is not checked: with no edits left and nothing queued the system rests, as it
should.

### Fairness

Steps of a worker that has work, delivery of watch events and collection by owner
reference are weakly fair: the queue, the informers and the garbage collector run on.
Writes are strongly fair (`GatewayAuth`, `ApiKey`, `ModelNames`) because the runtime retries
a failed reconcile without limit, and an API server that answers again and again is what
a retry counts on; in `InstanceSync`, where a reconcile starts over from its first call,
failures stop some day instead (`<>[][~CallFails /\ ~AnswerLost]_vars`), since a call far down
the sequence is reached only if the earlier ones succeed in one go.  In `ModelNames` fairness is per
Instance, as the queue is.  `Workloads` and `InstanceStatus` are like `InstanceSync` in this.  In `InstanceStatus` KServe
and Envoy are weakly fair in getting to the latest revision, and a load balancer in coming.  Users, drift and restarts are never fair.
The periodic resync is fair where the code relies on it (`ApiKey`, `ModelNames`, `Workloads`), a premise of
`Converges` in `InstanceSync` and of `ReportSettles`, and not used in `GatewayAuth`, `DriftIsRepaired` and
`WatchesSuffice`.

## 4. Proofs

Each theorem holds for all constants that satisfy the assumptions named in the module (`ASSUME`s
that TLC evaluates in every run) and those in the last column.  Every number of Secrets,
Instances, edits, failures and restarts is covered, and every lag of the caches.

| Module | Theorem | Property | Extra assumption |
|---|---|---|---|
| `GatewayAuthProofs` | `TypeCorrect` | `[]TypeOK` | |
| | `CredentialsAccepted` | `[]EnvoyAcceptsCredentials` | |
| | `RulesSafe` | `[]RulesFailClosed` | |
| | `KeysConfined` | `[]KeysStayInNamespace` | `IdsPerNamespace`: key ids belong to one namespace, the contract of key writers in the proposal |
| | `PolicyAfterCredentials` | `[]PolicyHasCredentials` | `~AllowRemoval`: nobody else deletes the outputs or the Gateway |
| | `QuietIsUpToDate` | `[]QuietMeansUpToDate` | `~AllowUnlabel`: nobody takes the key label off a Secret; without it finding 1 is a counterexample |
| `ApiKeyProofs` | `TypeCorrect` | `[]TypeOK` | |
| | `KeyStays` | `NeverRewritten` | |
| | `ImplementsLifetime` | `KeepsLifetime` | |
| `ModelNamesProofs` | `OneRouteForAName` | `[]OneRoutePerModel` | |
| | `OnlyLagCollides` | `CollisionsOnlyFromLag` | |
| | `RoutesReadable` | `[]TypeOK` | `GatewayNamespace # ""`, without which the provider does not start its Gateway part |
| `InstanceSyncProofs` | `TypeCorrect` | `[]TypeOK` | |
| | `ReferencesKept` | `[]ReferencesExist` | |
| | `BackendsBehindRoute` | `[]RouteHasBackends` | |
| | `NeverBothWays` | `[]OneWayIn` | |
| | `RemovedWithInstance` | `[]GoneMeansRemoved` | |
| | `KeyBeforeRoute` | `RouteComesAfterKey` | |
| | `OverlapIsPassing` | `[]OverlapPasses` | |
| `WorkloadsProofs` | `GPUsSuffice` | `[]EnoughGPUs` | |
| | `WorkersFit` | `[]WorkersFitPipeline` | |
| | `ScalesSafely` | `[]OneWayToScale` | |
| | `AdaptersDistinct` | `[]AdaptersAddressable` | |
| `PredictorProofs` | `TypeCorrect` | `[]TypeOK` of `Workloads` | |
| | `SourceServed` | `[]SourceFits` | |
| | `ServerKept` | `[]ModelServerFirst` | |
| | `GPUsFollowed` | `[]PodsFollowGPU` | |
| | `EmbeddingsTold` | `[]EmbeddingsServed` | |
| `InstanceStatusProofs` | `NotReadyUnserved` | `[]NeverReadyUnserved` | |
| | `TypeCorrect` | `[]TypeOK` | |

**The renderer.**  Assumed of the constants: bounds are naturals, valid ids are not `""` or
`"placeholder"`, drawn keys are not in any Secret, labels are Booleans.  `TypeOK` is inductive on
its own; lemmas first show what `resolveGatewayKeys` and the builders return on typed inputs.
For the next three the invariant itself is not inductive: the policy is written in a later step
than the credentials, from what the run has read.  `OutputsInv` adds `CredentialsHome` and
`RulesHome`, which tie each object on its own to one namespace per id, and `RunOK` says what a run
has read by the time it writes (a Gateway, a placeholder drawn by `newAPIKey`).
`KeysStayInNamespace` then follows from the two homes, because ids are unique to a namespace, and
so it survives any interleaving of the two writes.  `PolicyHasCredentials` needs `WritesOrdered`
(each write is preceded by the one it relies on) and `OneGateway`.

`QuietMeansUpToDate` speaks of the end of a chain (edit, event, cache, queue, reads, two writes), and
the invariant has to say where in it an update can be.  `NoUpdateLost` has two halves.
`ViewsAgree`: the newest event of a kind, or its cache if there is none, is what the API server
has; of the Secrets, each view that the cache will go through differs from the API server in
labelled Secrets only if an event that passes the predicate is still to come.  And either
something will wake the renderer (`Woken`), or the run under way is the last one, and then what it
has read so far, and what it has written, is what it would read and write now (`LastRun`).  A step
that breaks the second half always leaves an event or the queue behind; the only one that does
not is the removal of a label.

**The key.**  A patch is decided on a Secret read from the cache some time ago, and written without a
resourceVersion; that it rewrites nothing is a fact about what a run may have read.  `KeyInv`
says that the id and key stored now are among those drawn so far, `past` (`Recorded`), that a run
about to create wants one fresh draw for both (`Fresh`), and that a run about to patch, unless
fields may be cleared by hand, wants exactly the id and key it read, so that its merge patch
contains neither (`Keeps`).  Each step then is one of three: a key appears, vanishes, or
stays, and these are the steps of `KeyLifetime` (and stuttering).

**Names.**  `SawNameFree`: between the check and the write a worker remembers a list in which its
name was free.  `OneRoutePerModel` is not inductive by itself; `UniqueInv` adds `NameStillFree`: with live
lists, the name that is about to be written is served by no other route *now*, because in between
the only writers of routes are deletions, and the one worker is at this Instance.  For the types, everything stored, cached or under way consists of routes that
`buildAIGatewayRoute` made, and of those the readers get exactly one name back.

**Sync and Cleanup.**  What is said of the objects is kept up by the order of the calls still to be
made, so `OrderInv` relates the two.  With `After(q, A, B)` (each call of `A` in `q` has one of `B`
before it) and `Has(q, A)`, `Linked` says of an object that leans on another one: if it is there so
is the other; if the other is not, it comes first; if the one is there it goes before the other
does; and a sequence that brings in the one does not remove the other.  `Apart` is the same for
two ways in that exclude each other, `RemovalInv` for the finalizer.  These four facts are
preserved by *performing the first call* and by *giving up*, whatever the sequence is, and that
the sequences of `Sync` and `Cleanup` have them (`SyncOrdered`, `CleanupCalls`) is proved from how the
code puts them together, one lemma per function.  Between reconciles only what
exists is left of the invariant, so the next reconcile may be that of another spec or chart.
Assumed: specs and charts are records of the types that `InstanceSync` lists.

A predictor's Service and route are closed in different functions and at different ends of
`syncPredictor`, so `Apart` does not hold of them, and they do overlap.  `ClosingInv` says that the
reconcile under way, or the last one if none failed since and nothing is queued, does not bring
one of the two in and deletes it if it is there; `ClosingPieces` finds the call that does, for each
access mode.  With no call left, what was to be deleted is gone.

**Workloads.**  An Instance is edited under a reconcile and long after it; `BuiltInv` therefore says of
what is stored that it was built (`AsBuilt`) from *some* Instance that Validate accepted, with whatever
arguments were inherited.  The theorems then are about the two functions: what `validateLLM` checks
implies the property of what `buildLLMInferenceService` makes of it.  `RevisedAssumption` and
`InstsAssumption` give the types of an Instance, `HalfAssumption` the width of its integers and
`CountsAssumption` worker counts within it; `NoWrap` and `WrapsRound` say where the sum that Validate
compares wraps, which is at the largest count only.

**Predictors.**  Two things that decide what is stored are gone or changed by then: the storage container
that Validate read and the Instance.  `ServedInv` therefore carries the container in the run (`RunReads`)
and says of the workload that it is what `buildInferenceService` makes of an accepted Instance and
that its container fits what was read (`AsServed`).  The rest is about functions from paths to leaves.
`GeneratedWins`: a leaf the provider generates is in the merged spec with its value, unless both
sides list names there; `ElseConfig`: any other leaf is the config's.  `SourceFits`, `PodsFollowGPU` and
`EmbeddingsServed` follow once one knows which leaves are generated (`RuntimeSays`, `ContainerSays`,
`PlacementSays`, `SourceWords`).  `ModelServerFirst` is about the lists of names: `ListSays` says that a
merged list starts with the generated names and contains every name of either side.  `Without` is
recursive, and `CountUp` replaces induction over its argument: the naturals are well founded, so
a set of them that has 0 and with each number the next one has them all.

`TypeOK` of `Workloads` needs `TypeInv`: the configs that others write define only templates that there
are (`ConfigsTyped`), so nothing else is inherited; and the target of a Service is a port
(`TargetStored`), although it is read from a spec into which the user's own containers are merged.
Assumed: `InstsAssumption` and `ConfigsAssumption` for the configs, `PredictorsAssumption` for the
predictors, which gives the decoded fields, of an inline config that its named lists list names and that the ports
in it are ports (the provider does not check these; the API server refuses others in a Service).

**Status.**  `NeverReadyUnserved` is not inductive, since a report that is gone may still be in the cache and
a run may be past the workload.  `Unserved` says that before KServe has once said Ready without naming a
workload that has no pod, neither the API server nor the cache says so, and no run comes past
`ReadWorkload`.  What the theorem does not say, because the code does not do it, is that a Ready without
any workload named is held back.  For `TypeOK` the parts of what is published
are followed back to where they are read: `FieldsOK` types the URL, the address and the key in API
server and cache, and `RunOK` says that a run that asks for the key is that of a guarded Gateway and has
its address.  Assumed: the address of a Gateway is a text (`SurroundingsAssumption`).

Only model-checked: all liveness (`Converges`, `KeySettles`, `CollisionIsReported`, `FreeNameIsServed`,
`DriftIsRepaired`, `EngineFlagsSettle`, `PredictorSettles`, `ReportSettles`, `WatchesSuffice`), which is out
of the prover's reach, as is `ENABLED`.  Every invariant and every action property of the passing runs
has a theorem.

## 5. Plan

Done: the renderer, the key Secret, the names, Sync and Cleanup, both workloads with the config merge
and the engine arguments, Status, and proofs of the safety properties that the passing runs check.  Next, in order:

1. Composition of `ApiKey`, `ModelNames` and `GatewayAuth` through the shared Secrets and routes:
   a published key reaches its model in the end and a rotated one no longer does.
2. Proofs of what liveness rests on: that each step of `InstanceSync`'s and `Workloads`' reconcile
   brings it closer to its end, and that a state in which nothing is left to do is the right one.
3. The rest of the built objects, if a property asks for it: storage initializer resources of
   the four templates, environment, the token limit's rule.

## 6. Not modelled

Of the KServe objects: environment, probes, security contexts, affinity, CPU and memory, storage
initializer resources, tracing.  Of the Services: selectors, annotations, source ranges.  The
token limit's rule; listener names and the HTTPS guard (start-up configuration that never
changes in a process); the PodMonitor's endpoints, and its missing CRD, which turns its calls into
no-ops; condition messages, base paths and logging; loading of the catalogs, entry point, RBAC
markers, the Helm chart.  These are fields copied from one place to one other, or text: there is
nothing in them that two steps or two actors could get wrong.  KServe, Envoy, Kubernetes and
provider-runtime are environment: only what this code relies on is in the models, marked
external in the map.
