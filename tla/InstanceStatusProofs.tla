-------------------------- MODULE InstanceStatusProofs --------------------------
(***************************************************************************)
(* Theorems about InstanceStatus, for every set of specs, whatever surrounds  *)
(* the Instance and however often others change it.                          *)
(***************************************************************************)
EXTENDS InstanceStatus, TLAPS

-----------------------------------------------------------------------------
(* The invariant.  NeverReadyUnserved alone is not inductive: a report that is gone *)
(* may still be in the cache, and a run may be past the workload.               *)

\* The objects are there or not, and a workload has a condition and counts of pods.
ObjectsOK ==
    /\ DOMAIN api = Kinds /\ DOMAIN cache = Kinds
    /\ \A w \in {api["workload"], cache["workload"]} : IsSet(w) => {"ready", "pods"} \subseteq DOMAIN Val(w)

\* KServe says Ready, and of no workload it names that it has no pod.
Served(v) == v.ready /\ HavePods(v.pods)

\* Before KServe has said so, neither the API server nor the cache does, no run has come
\* past the workload, and nothing is reported Ready.
Unserved ==
    spec.topology = "llm" /\ ~served =>
        /\ \A w \in {api["workload"], cache["workload"]} : IsSet(w) => ~Served(Val(w))
        /\ IsSet(run) => Val(run).next = "workload" /\ Val(run).spec.topology = "llm"
        /\ status.phase = "Provisioning"

Inv == ObjectsOK /\ Unserved /\ served \in BOOLEAN

LEMMA InitInv == Init => Inv
<1> SUFFICES ASSUME Init PROVE Inv
  OBVIOUS
<1>1. DOMAIN api = Kinds /\ DOMAIN cache = Kinds
  BY DEF Init
<1>2. api["workload"] = <<>> /\ cache["workload"] = <<>>
  BY DEF Init, Kinds
<1>3. run = <<>> /\ served = FALSE /\ status.phase = "Provisioning"
  BY DEF Init, Provisioning
<1> QED
  BY <1>1, <1>2, <1>3 DEF Inv, ObjectsOK, Unserved, IsSet

-----------------------------------------------------------------------------
(* The steps. *)

LEMMA ValOf == ASSUME NEW x PROVE IsSet(<<x>>) /\ Val(<<x>>) = x
  BY DEF IsSet, Val

\* Applying a workload anew leaves what KServe said of it; of a new one it has said
\* nothing.
LEMMA AppliedReport ==
    ASSUME NEW s, NEW o, o = AppliedWorkload(s),
           IsSet(api["workload"]) => {"ready", "pods"} \subseteq DOMAIN Val(api["workload"])
    PROVE  /\ IsSet(o) /\ {"ready", "pods"} \subseteq DOMAIN Val(o)
           /\ Served(Val(o)) => IsSet(api["workload"]) /\ Served(Val(api["workload"]))
<1> DEFINE rev == [model |-> s.model, routed |-> s.routed]
           fresh == [rev |-> rev, current |-> FALSE, ready |-> FALSE, pods |-> <<>>, url |-> ""]
           old == Val(api["workload"])
<1>1. CASE ~IsSet(api["workload"])
  <2>1. o = <<fresh>>
    BY <1>1 DEF AppliedWorkload, Applied
  <2>2. IsSet(o) /\ Val(o) = fresh
    BY <2>1, ValOf
  <2>3. {"ready", "pods"} \subseteq DOMAIN fresh /\ fresh.ready = FALSE
    OBVIOUS
  <2> QED BY <2>2, <2>3 DEF Served
<1>2. CASE IsSet(api["workload"]) /\ old.rev # rev
  <2>1. o = <<[old EXCEPT !.rev = rev, !.current = FALSE]>>
    BY <1>2 DEF AppliedWorkload, Applied
  <2>2. IsSet(o) /\ Val(o) = [old EXCEPT !.rev = rev, !.current = FALSE]
    BY <2>1, ValOf
  <2>3. {"ready", "pods"} \subseteq DOMAIN old
    BY <1>2
  <2> HIDE DEF rev, old
  <2>4. DOMAIN Val(o) = DOMAIN old /\ Val(o).pods = old.pods /\ Val(o).ready = old.ready
    BY <2>2, <2>3
  <2>5. Served(Val(o)) => Served(old)
    BY <2>4 DEF Served
  <2> QED BY <1>2, <2>2, <2>3, <2>4, <2>5 DEF old
<1>3. CASE IsSet(api["workload"]) /\ old.rev = rev
  <2>1. o = api["workload"]
    BY <1>3 DEF AppliedWorkload, Applied
  <2> QED BY <1>3, <2>1
<1> QED BY <1>1, <1>2, <1>3

\* What others do to the API server touches the workload in KServeReports only.
LEMMA WorkloadUntouched ==
    ASSUME Inv, NEW kind \in Kinds \ {"workload"}, NEW value, Change(kind, value)
    PROVE  DOMAIN api' = Kinds /\ api'["workload"] = api["workload"]
  BY DEF Inv, ObjectsOK, Change, Kinds

\* A step that leaves workload, cache, run, status, topology and history alone.
LEMMA OthersInv ==
    ASSUME Inv, DOMAIN api' = Kinds, api'["workload"] = api["workload"], UNCHANGED cache,
           UNCHANGED <<run, status, served>>, spec'.topology = spec.topology
    PROVE  Inv'
  BY DEF Inv, ObjectsOK, Unserved

\* The condition of the workload and the pods it counts come together, and the first
\* time that they serve is remembered.
LEMMA KServeInv == Inv /\ KServeReports => Inv'
<1> SUFFICES ASSUME Inv, KServeReports PROVE Inv'
  OBVIOUS
<1> DEFINE w(c) == [rev |-> Val(api["workload"]).rev, current |-> TRUE, ready |-> c.ready,
                    pods |-> c.pods,
                    url |-> IF c.ready /\ Val(api["workload"]).rev.routed THEN "url" ELSE ""]
<1>1. PICK c \in Conditions : /\ Change("workload", <<w(c)>>)
                              /\ served' = (served \/ (c.ready /\ HavePods(c.pods)))
  BY DEF KServeReports
<1>2. api'["workload"] = <<w(c)>> /\ DOMAIN api' = Kinds
  BY <1>1 DEF Change, Inv, ObjectsOK, Kinds
<1>3. Val(api'["workload"]) = w(c)
  BY <1>2, ValOf
<1>4. {"ready", "pods"} \subseteq DOMAIN w(c) /\ w(c).ready = c.ready /\ w(c).pods = c.pods
  OBVIOUS
<1>5. UNCHANGED <<spec, cache, run, status>>
  BY <1>1 DEF Change
<1>6. ObjectsOK'
  BY <1>2, <1>3, <1>4, <1>5 DEF Inv, ObjectsOK
<1>7. ASSUME ~served' PROVE ~served /\ ~Served(Val(api'["workload"]))
  <2>1. ~served /\ ~(c.ready /\ HavePods(c.pods))
    BY <1>1, <1>7, Zenon
  <2>2. Served(w(c)) => c.ready /\ HavePods(c.pods)
    BY <1>4 DEF Served
  <2> HIDE DEF w
  <2> QED
    BY <1>3, <2>1, <2>2
<1>8. Unserved'
  BY <1>5, <1>7 DEF Inv, Unserved
<1> QED
  BY <1>1, <1>6, <1>8 DEF Inv

\* Delivery makes the cache of a kind what the API server has.
LEMMA DeliverInv == ASSUME Inv, NEW kind \in Kinds, Deliver(kind) PROVE Inv'
<1>1. cache'["workload"] \in {cache["workload"], api["workload"]} /\ DOMAIN cache' = Kinds
  BY DEF Inv, ObjectsOK, Deliver, Kinds
<1> QED
  BY <1>1 DEF Deliver, Inv, ObjectsOK, Unserved

\* Applying starts a run that has read nothing, and says nothing for KServe.
LEMMA SyncInv == Inv /\ Sync => Inv'
<1> SUFFICES ASSUME Inv, Sync PROVE Inv'
  OBVIOUS
<1>1. api'["workload"] = AppliedWorkload(spec) /\ DOMAIN api' = Kinds
  BY DEF Sync, Inv, ObjectsOK, Kinds
<1>2. /\ {"ready", "pods"} \subseteq DOMAIN Val(api'["workload"])
      /\ Served(Val(api'["workload"])) => IsSet(api["workload"]) /\ Served(Val(api["workload"]))
  BY <1>1, AppliedReport DEF Inv, ObjectsOK
<1>3. UNCHANGED <<spec, cache, status, served>>
  BY DEF Sync
<1>4. Val(run').next = "workload" /\ Val(run').spec = spec
  BY DEF Sync, Val
<1> QED
  BY <1>2, <1>1, <1>3, <1>4 DEF Inv, ObjectsOK, Unserved

\* What the reads of Status leave alone.
LEMMA ReadingInv ==
    ASSUME Inv, UNCHANGED <<spec, api, cache, served>>,
           spec.topology = "llm" /\ ~served => run' = <<>> /\ status'.phase = "Provisioning"
    PROVE  Inv'
  BY DEF Inv, ObjectsOK, Unserved, IsSet

\* A run that reads past the workload has seen it served.
LEMMA PastWorkload ==
    ASSUME Inv, spec.topology = "llm", ~served, NEW kind, Reading(kind)
    PROVE  kind = "workload"
  BY DEF Inv, Unserved, Reading, IsSet

\* The one read that decides.
LEMMA ReadWorkloadInv == Inv /\ ReadWorkload => Inv'
<1> SUFFICES ASSUME Inv, ReadWorkload PROVE Inv'
  OBVIOUS
<1>1. UNCHANGED <<spec, api, cache, served>>
  BY DEF ReadWorkload, Publish, Continue, cluster
<1>2. ASSUME spec.topology = "llm", ~served PROVE run' = <<>> /\ status'.phase = "Provisioning"
  <2>1. Val(run).spec.topology = "llm"
    BY <1>2 DEF Inv, Unserved, ReadWorkload, Reading, IsSet
  <2>2. IsSet(cache["workload"]) => ~Served(Val(cache["workload"]))
    BY <1>2 DEF Inv, Unserved
  <2>3. ~Serves(Val(run).spec, cache["workload"])
    BY <2>1, <2>2 DEF Serves, unservedWorkload, Served, HavePods
  <2>4. Publish(Provisioning)
    BY <2>3 DEF ReadWorkload
  <2> QED
    BY <2>4 DEF Publish, Provisioning
<1> QED
  BY <1>1, <1>2, ReadingInv

LEMMA NextInv == Inv /\ [Next]_vars => Inv'
<1> SUFFICES ASSUME Inv, [Next]_vars PROVE Inv'
  OBVIOUS
<1>1. CASE WriteSpec
  <2>1. spec'.topology = spec.topology /\ UNCHANGED <<api, cache, run, status, served>>
    BY <1>1 DEF WriteSpec
  <2> QED
    BY <2>1, OthersInv DEF Inv, ObjectsOK
<1>2. CASE KServeReports
  BY <1>2, KServeInv
<1>3. CASE EnvoyReports
  <2>1. \E v : Change("route", v)
    BY <1>3 DEF EnvoyReports
  <2>2. DOMAIN api' = Kinds /\ api'["workload"] = api["workload"]
    BY <2>1, WorkloadUntouched DEF Kinds
  <2> QED
    BY <1>3, <2>1, <2>2, OthersInv DEF EnvoyReports, Change
<1>4. CASE BalancerReports
  <2>1. \E v : Change("service", v)
    BY <1>4 DEF BalancerReports
  <2>2. DOMAIN api' = Kinds /\ api'["workload"] = api["workload"]
    BY <2>1, WorkloadUntouched DEF Kinds
  <2> QED
    BY <1>4, <2>1, <2>2, OthersInv DEF BalancerReports, Change
<1>5. CASE KeyDeleted
  <2>1. DOMAIN api' = Kinds /\ api'["workload"] = api["workload"]
    BY <1>5, WorkloadUntouched DEF KeyDeleted, Kinds
  <2> QED
    BY <1>5, <2>1, OthersInv DEF KeyDeleted, Change
<1>6. CASE SurroundingsChange
  BY <1>6, OthersInv DEF SurroundingsChange, Inv, ObjectsOK
<1>7. ASSUME NEW kind \in Kinds, Deliver(kind) PROVE Inv'
  BY <1>7, DeliverInv
<1>8. CASE Resync
  BY <1>8, OthersInv DEF Resync, cluster, Inv, ObjectsOK
<1>9. CASE Sync
  BY <1>9, SyncInv
<1>10. CASE ReadWorkload
  BY <1>10, ReadWorkloadInv
<1>11. CASE ReadRoute
  <2>1. UNCHANGED <<spec, api, cache, served>>
    BY <1>11 DEF ReadRoute, Publish, Continue, cluster
  <2> QED
    BY <1>11, <2>1, PastWorkload, ReadingInv DEF ReadRoute
<1>12. CASE ReadKey
  <2>1. UNCHANGED <<spec, api, cache, served>>
    BY <1>12 DEF ReadKey, Publish, cluster
  <2> QED
    BY <1>12, <2>1, PastWorkload, ReadingInv DEF ReadKey
<1>13. CASE ReadService
  <2>1. UNCHANGED <<spec, api, cache, served>>
    BY <1>13 DEF ReadService, Publish, cluster
  <2> QED
    BY <1>13, <2>1, PastWorkload, ReadingInv DEF ReadService
<1>14. CASE Fails
  <2>1. UNCHANGED <<spec, api, cache, served, status>> /\ run' = <<>>
    BY <1>14 DEF Fails, cluster
  <2>2. spec.topology = "llm" /\ ~served => status.phase = "Provisioning"
    BY DEF Inv, Unserved
  <2> QED
    BY <2>1, <2>2, ReadingInv
<1>15. CASE ReadFails
  <2>1. UNCHANGED <<spec, api, cache, served>> /\ run' = <<>>
    BY <1>15 DEF ReadFails
  <2>2. spec.topology = "llm" /\ ~served => status' = Provisioning
    BY <1>15, PastWorkload DEF ReadFails
  <2> QED
    BY <2>1, <2>2, ReadingInv DEF Provisioning
<1>16. CASE UNCHANGED vars
  BY <1>16, OthersInv DEF vars, Inv, ObjectsOK
<1>17. CASE CatchUp("workload") \/ CatchUp("route") \/ ChangeOfMind
  BY <1>2, <1>3, <1>17 DEF CatchUp, ChangeOfMind
<1> QED
  BY <1>1, <1>4, <1>5, <1>6, <1>7, <1>8, <1>9, <1>10, <1>11, <1>12, <1>13, <1>14, <1>15,
     <1>16, <1>17 DEF Next, Step

\* A language model is not reported Ready before KServe has said Ready without naming a
\* model workload that has no ready pod, however often it says Ready before and however
\* far the caches lag (unservedWorkload in statusLLM).
THEOREM NotReadyUnserved == Spec => []NeverReadyUnserved
<1>1. Inv => NeverReadyUnserved
  BY DEF Inv, Unserved, NeverReadyUnserved
<1> QED
  BY <1>1, InitInv, NextInv, PTL DEF Spec

-----------------------------------------------------------------------------
(* The types.  What is published is put together from what the run has read and   *)
(* from objects of the cache, so their fields are part of the invariant.         *)

\* KServe has written a URL of its own, or none.
URLOK(w) == Val(w).url \in {"", "url"}

\* Of the objects that Status reads, the fields that end up in what it publishes.
FieldsOK(objs) ==
    /\ DOMAIN objs = Kinds
    /\ IsSet(objs["workload"]) =>
          "url" \in DOMAIN Val(objs["workload"]) /\ URLOK(objs["workload"])
    /\ IsSet(objs["service"]) =>
          "address" \in DOMAIN Val(objs["service"]) /\ Val(objs["service"]).address \in {"", "balancer"}
    /\ objs["key"] \in {<<>>, <<1>>, <<2>>}

RunType == [spec : Specs, next : Kinds, host : GatewayAddresses \cup {""}]

\* A run that asks for the key is that of a guarded Gateway, whose address it has.
RunOK ==
    run # <<>> =>
        /\ Val(run) \in RunType
        /\ Val(run).next = "key" => Auth /\ Val(run).host \in GatewayAddresses

TypeInv == TypeOK /\ FieldsOK(api) /\ FieldsOK(cache) /\ RunOK

LEMMA InitTypes == Init => TypeInv
<1> SUFFICES ASSUME Init PROVE TypeInv
  OBVIOUS
<1>1. api = [k \in Kinds |-> <<>>] /\ cache = api
  BY DEF Init
<1>2. FieldsOK(api) /\ FieldsOK(cache)
  BY <1>1 DEF FieldsOK, Kinds, IsSet
<1>3. run = <<>> /\ status \in StatusType /\ edits \in 0 .. MaxEdits
  BY Parameters DEF Init, StatusType, EditsAssumption
<1> QED
  BY <1>1, <1>2, <1>3 DEF TypeInv, TypeOK, RunOK, Init

-----------------------------------------------------------------------------
(* What others do. *)

\* A step that starts no run and publishes nothing.
LEMMA OutsideTypes ==
    ASSUME TypeInv, FieldsOK(api'), FieldsOK(cache'), UNCHANGED <<run, status>>, spec' \in Specs,
           around' \in Surroundings, queued' \in BOOLEAN, served' \in BOOLEAN, missed' \in BOOLEAN,
           edits' \in 0 .. MaxEdits
    PROVE  TypeInv'
  BY DEF TypeInv, TypeOK, RunOK, FieldsOK

LEMMA EditTypes == TypeInv /\ Edit => edits' \in 0 .. MaxEdits
<1> SUFFICES ASSUME TypeInv, Edit PROVE edits' \in 0 .. MaxEdits
  OBVIOUS
<1>1. edits \in 0 .. MaxEdits
  BY DEF TypeInv, TypeOK
<1> QED
  BY <1>1, Parameters DEF Edit, EditsAssumption

\* KServe publishes a URL with Ready, or none.
LEMMA KServeTypes == TypeInv /\ KServeReports => FieldsOK(api')
<1> SUFFICES ASSUME TypeInv, KServeReports PROVE FieldsOK(api')
  OBVIOUS
<1> DEFINE w(c) == [rev |-> Val(api["workload"]).rev, current |-> TRUE, ready |-> c.ready,
                    pods |-> c.pods,
                    url |-> IF c.ready /\ Val(api["workload"]).rev.routed THEN "url" ELSE ""]
<1>1. PICK c \in Conditions : Change("workload", <<w(c)>>)
  BY DEF KServeReports
<1>2. api' = [api EXCEPT !["workload"] = <<w(c)>>]
  BY <1>1 DEF Change
<1>3. DOMAIN api = Kinds
  BY DEF TypeInv, FieldsOK
<1>4. /\ DOMAIN api' = Kinds /\ api'["workload"] = <<w(c)>>
      /\ api'["service"] = api["service"] /\ api'["key"] = api["key"]
  <2> HIDE DEF w
  <2> QED
    BY <1>2, <1>3 DEF Kinds
<1>5. "url" \in DOMAIN w(c) /\ w(c).url \in {"", "url"}
  OBVIOUS
<1>6. Val(api'["workload"]) = w(c)
  BY <1>4, ValOf
<1> HIDE DEF w
<1> QED
  BY <1>4, <1>5, <1>6 DEF TypeInv, FieldsOK, URLOK

\* The route has no field that is published.
LEMMA EnvoyTypes == TypeInv /\ EnvoyReports => FieldsOK(api')
<1> SUFFICES ASSUME TypeInv, EnvoyReports PROVE FieldsOK(api')
  OBVIOUS
<1>1. PICK v : Change("route", v)
  BY DEF EnvoyReports
<1> QED
  BY <1>1 DEF Change, TypeInv, FieldsOK, Kinds

LEMMA BalancerTypes == TypeInv /\ BalancerReports => FieldsOK(api')
<1> SUFFICES ASSUME TypeInv, BalancerReports PROVE FieldsOK(api')
  OBVIOUS
<1> DEFINE s == Val(api["service"])
           address == IF s.type = "LoadBalancer" THEN "balancer" ELSE ""
           new == [s EXCEPT !.address = address]
<1>1. api' = [api EXCEPT !["service"] = <<new>>] /\ IsSet(api["service"])
  BY DEF BalancerReports, Change
<1>2. DOMAIN api = Kinds /\ "address" \in DOMAIN s
  BY <1>1 DEF TypeInv, FieldsOK
<1>3. "address" \in DOMAIN new /\ new.address = address
  <2> HIDE DEF s, address
  <2> QED
    BY <1>2
<1>4. address \in {"", "balancer"}
  OBVIOUS
<1> HIDE DEF new, address
<1>5. /\ DOMAIN api' = Kinds /\ api'["service"] = <<new>>
      /\ api'["workload"] = api["workload"] /\ api'["key"] = api["key"]
  BY <1>1, <1>2 DEF Kinds
<1>6. Val(api'["service"]) = new
  BY <1>5, ValOf
<1> QED
  BY <1>3, <1>4, <1>5, <1>6 DEF TypeInv, FieldsOK

LEMMA KeyDeletedTypes == TypeInv /\ KeyDeleted => FieldsOK(api')
  BY DEF KeyDeleted, Change, TypeInv, FieldsOK, Kinds

LEMMA DeliverTypes == ASSUME TypeInv, NEW kind \in Kinds, Deliver(kind) PROVE FieldsOK(cache')
<1>1. FieldsOK(api) /\ FieldsOK(cache)
  BY DEF TypeInv
<1>2. DOMAIN cache' = Kinds /\ \A k \in Kinds : cache'[k] = IF k = kind THEN api[k] ELSE cache[k]
  BY <1>1 DEF Deliver, FieldsOK
<1>3. \A k \in {"workload", "service", "key"} : cache'[k] = api[k] \/ cache'[k] = cache[k]
  BY <1>2 DEF Kinds
<1> QED
  BY <1>1, <1>2, <1>3 DEF FieldsOK

-----------------------------------------------------------------------------
(* Sync. *)

\* Applying a workload anew leaves the URL that KServe wrote.
LEMMA AppliedURL ==
    ASSUME NEW s, NEW o, o = AppliedWorkload(s), FieldsOK(api)
    PROVE  IsSet(o) /\ "url" \in DOMAIN Val(o) /\ Val(o).url \in {"", "url"}
<1> DEFINE rev == [model |-> s.model, routed |-> s.routed]
           fresh == [rev |-> rev, current |-> FALSE, ready |-> FALSE, pods |-> <<>>, url |-> ""]
           old == Val(api["workload"])
<1>1. CASE ~IsSet(api["workload"])
  <2>1. o = <<fresh>>
    BY <1>1 DEF AppliedWorkload, Applied
  <2>2. IsSet(o) /\ Val(o) = fresh
    BY <2>1, ValOf
  <2>3. "url" \in DOMAIN fresh /\ fresh.url = ""
    OBVIOUS
  <2> QED BY <2>2, <2>3
<1>2. CASE IsSet(api["workload"]) /\ old.rev # rev
  <2>1. o = <<[old EXCEPT !.rev = rev, !.current = FALSE]>>
    BY <1>2 DEF AppliedWorkload, Applied
  <2>2. IsSet(o) /\ Val(o) = [old EXCEPT !.rev = rev, !.current = FALSE]
    BY <2>1, ValOf
  <2>3. "url" \in DOMAIN old /\ old.url \in {"", "url"}
    BY <1>2 DEF FieldsOK, URLOK
  <2> HIDE DEF rev, old
  <2>4. DOMAIN Val(o) = DOMAIN old /\ Val(o).url = old.url
    BY <2>2, <2>3
  <2> QED BY <2>2, <2>3, <2>4
<1>3. CASE IsSet(api["workload"]) /\ old.rev = rev
  <2>1. o = api["workload"]
    BY <1>3 DEF AppliedWorkload, Applied
  <2> QED BY <1>3, <2>1 DEF FieldsOK, URLOK
<1> QED BY <1>1, <1>2, <1>3

\* A Service keeps the address it has; a new one has none.
LEMMA AppliedAddress ==
    ASSUME NEW s, NEW o, o = AppliedService(s), FieldsOK(api), IsSet(o)
    PROVE  "address" \in DOMAIN Val(o) /\ Val(o).address \in {"", "balancer"}
<1> DEFINE old == Val(api["service"])
           type == ServiceType(s)
           kept == [old EXCEPT !.type = type]
           fresh == [type |-> type, address |-> ""]
<1>1. (o = <<kept>> /\ IsSet(api["service"])) \/ o = <<fresh>>
  BY DEF AppliedService, IsSet
<1>2. CASE o = <<kept>> /\ IsSet(api["service"])
  <2>1. Val(o) = kept
    BY <1>2, ValOf
  <2>2. "address" \in DOMAIN old /\ old.address \in {"", "balancer"}
    BY <1>2 DEF FieldsOK
  <2> HIDE DEF old, type
  <2>3. DOMAIN kept = DOMAIN old /\ kept.address = old.address
    BY <2>2
  <2> QED BY <2>1, <2>2, <2>3
<1>3. CASE o = <<fresh>>
  <2>1. Val(o) = fresh
    BY <1>3, ValOf
  <2>2. "address" \in DOMAIN fresh /\ fresh.address = ""
    OBVIOUS
  <2> QED BY <2>1, <2>2
<1> QED BY <1>1, <1>2, <1>3

\* One of two numbers is not the key reported, of which there is at most one.
LEMMA KeyTypes == ASSUME NEW s, FieldsOK(api) PROVE EnsuredKey(s) \in {<<>>, <<1>>, <<2>>}
<1> DEFINE fresh == CHOOSE k \in 1 .. 2 : k \notin KeyReported
<1>1. KeyReported \subseteq {Val(status.details).key}
  BY DEF KeyReported
<1>2. \E k \in 1 .. 2 : k \notin KeyReported
  <2>1. 1 \notin KeyReported \/ 2 \notin KeyReported
    BY <1>1
  <2> QED BY <2>1
<1>3. fresh \in 1 .. 2
  BY <1>2
<1>4. fresh = 1 \/ fresh = 2
  <2> HIDE DEF fresh
  <2> QED BY <1>3
<1>5. EnsuredKey(s) = <<fresh>> \/ EnsuredKey(s) = api["key"]
  BY DEF EnsuredKey
<1> HIDE DEF fresh
<1> QED
  BY <1>4, <1>5 DEF FieldsOK

LEMMA SyncTypes == TypeInv /\ Sync => TypeInv'
<1> SUFFICES ASSUME TypeInv, Sync PROVE TypeInv'
  OBVIOUS
<1>1. /\ DOMAIN api' = Kinds /\ api'["workload"] = AppliedWorkload(spec)
      /\ api'["service"] = AppliedService(spec) /\ api'["key"] = EnsuredKey(spec)
  BY DEF Sync, TypeInv, FieldsOK, Kinds
<1>2. FieldsOK(api)
  BY DEF TypeInv
<1>3. FieldsOK(api')
  BY <1>1, <1>2, AppliedURL, AppliedAddress, KeyTypes DEF FieldsOK, URLOK
<1>4. run' = <<[spec |-> spec, next |-> "workload", host |-> ""]>>
  BY DEF Sync
<1>5. Val(run') = [spec |-> spec, next |-> "workload", host |-> ""]
  BY <1>4, ValOf
<1>6. spec \in Specs
  BY DEF TypeInv, TypeOK
<1>7. Val(run') \in RunType /\ Val(run').next = "workload"
  <2> DEFINE r == [spec |-> spec, next |-> "workload", host |-> ""]
  <2>1. r \in RunType /\ r.next = "workload"
    BY <1>6 DEF RunType, Kinds
  <2>2. Val(run') = r
    BY <1>5
  <2> HIDE DEF r
  <2> QED
    BY <2>1, <2>2
<1>8. Val(run').spec \in Specs /\ Val(run').next \in Kinds
  BY <1>7 DEF RunType
<1>9. UNCHANGED <<spec, cache, around, status, served, edits>> /\ queued' = FALSE /\ missed' = FALSE
  BY DEF Sync
<1> QED
  BY <1>1, <1>3, <1>7, <1>8, <1>9 DEF TypeInv, TypeOK, RunOK, FieldsOK

-----------------------------------------------------------------------------
(* The reads of Status. *)

\* What the run of a step is made for, and what it may publish.
LEMMA SomeModel ==
    ASSUME NEW s \in Specs
    PROVE  /\ DirectModel(s) \in {q.model : q \in Specs} \cup {""}
           /\ GatewayModel(s) \in {q.model : q \in Specs} \cup {"instance"}
  BY DEF DirectModel, GatewayModel

LEMMA PlainStatus == Provisioning \in StatusType /\ Ready \in StatusType
  BY DEF StatusType

LEMMA ClusterStatus ==
    ASSUME NEW s \in Specs, NEW w, URLOK(w)
    PROVE  ReadyWithConnectionDetails(ClusterDetails(s, w)) \in StatusType
<1> DEFINE d == ClusterDetails(s, w)
<1>1. d \in [via : {"cluster"}, host : {"service-dns", "url"},
             model : {q.model : q \in Specs} \cup {""}, key : {0}]
  BY SomeModel DEF ClusterDetails, Details, URLOK
<1> HIDE DEF d
<1>2. ReadyWithConnectionDetails(d) \in StatusType
  BY <1>1, Zenon DEF StatusType
<1> QED
  BY <1>2 DEF d

LEMMA ServiceStatus ==
    ASSUME NEW host \in {"", "balancer"} \cup NodeAddresses, Val(run).spec \in Specs
    PROVE  ServiceDetails(host) \in StatusType
<1> DEFINE d == Details("service", host, DirectModel(Val(run).spec), 0)
<1>1. CASE host = ""
  BY <1>1, PlainStatus DEF ServiceDetails
<1>2. CASE host # ""
  <2>1. d \in [via : {"service"}, host : {"balancer"} \cup NodeAddresses,
               model : {q.model : q \in Specs} \cup {""}, key : {0}]
    BY <1>2, SomeModel DEF Details
  <2> HIDE DEF d
  <2>2. ReadyWithConnectionDetails(d) \in StatusType
    BY <2>1, Zenon DEF StatusType
  <2> QED
    BY <1>2, <2>2 DEF d, ServiceDetails
<1> QED BY <1>1, <1>2

LEMMA GatewayStatus ==
    ASSUME NEW host \in GatewayAddresses, Val(run).spec \in Specs,
           NEW key \in IF Auth THEN 1 .. 2 ELSE {0}
    PROVE  GatewayDetails(host, key) \in StatusType
<1> DEFINE d == Details("gateway", host, GatewayModel(Val(run).spec), key)
<1>1. d \in [via : {"gateway"}, host : GatewayAddresses,
             model : {q.model : q \in Specs} \cup {"instance"},
             key : IF Auth THEN 1 .. 2 ELSE {0}]
  BY SomeModel DEF Details
<1> HIDE DEF d
<1>2. ReadyWithConnectionDetails(d) \in StatusType
  BY <1>1, Zenon DEF StatusType
<1> QED
  BY <1>2 DEF d, GatewayDetails

\* The reads end a run or go on with it, and write nothing.
LEMMA RunEnds ==
    ASSUME TypeInv, UNCHANGED <<spec, api, cache, around, served, edits>>, run' = <<>>,
           status' \in StatusType, queued' \in BOOLEAN, missed' \in BOOLEAN
    PROVE  TypeInv'
<1>1. RunOK'
  BY DEF RunOK
<1>2. FieldsOK(api)' /\ FieldsOK(cache)'
  BY DEF TypeInv, FieldsOK
<1>3. TypeOK'
  BY DEF TypeInv, TypeOK
<1> QED
  BY <1>1, <1>2, <1>3 DEF TypeInv

LEMMA PublishTypes ==
    ASSUME TypeInv, NEW st \in StatusType, Publish(st)
    PROVE  TypeInv'
<1>1. UNCHANGED <<spec, api, cache, around, served, edits, queued, missed>> /\ run' = <<>> /\ status' = st
  BY DEF Publish, cluster
<1>2. queued \in BOOLEAN /\ missed \in BOOLEAN
  BY DEF TypeInv, TypeOK
<1> QED
  BY <1>1, <1>2, RunEnds

LEMMA ContinueTypes ==
    ASSUME TypeInv, run # <<>>, NEW kind \in Kinds, NEW host \in GatewayAddresses \cup {""},
           Continue(kind, host), kind = "key" => Auth /\ host \in GatewayAddresses
    PROVE  TypeInv'
<1> DEFINE r == Val(run)
           next == [r EXCEPT !.next = kind, !.host = host]
<1>1. r \in RunType
  BY DEF TypeInv, RunOK
<1>2. next \in RunType /\ next.next = kind /\ next.host = host /\ next.spec \in Specs
  <2> HIDE DEF r
  <2> QED BY <1>1 DEF RunType
<1>3. run' = <<next>>
  BY DEF Continue
<1> HIDE DEF next
<1>4. Val(run') = next
  BY <1>3, ValOf
<1>5. RunOK'
  BY <1>2, <1>4 DEF RunOK, RunType, Kinds
<1>6. Val(run').spec \in Specs /\ Val(run').next \in Kinds
  BY <1>2, <1>4
<1>7. UNCHANGED <<spec, api, cache, around, served, edits, status, queued, missed>>
  BY DEF Continue, cluster
<1>8. FieldsOK(api)' /\ FieldsOK(cache)'
  BY <1>7 DEF TypeInv, FieldsOK
<1>9. TypeOK'
  BY <1>6, <1>7 DEF TypeInv, TypeOK
<1> QED
  BY <1>5, <1>8, <1>9 DEF TypeInv

LEMMA ReadWorkloadTypes == TypeInv /\ ReadWorkload => TypeInv'
<1> SUFFICES ASSUME TypeInv, ReadWorkload PROVE TypeInv'
  OBVIOUS
<1> DEFINE s == Val(run).spec
           w == cache["workload"]
<1>1. run # <<>> /\ s \in Specs
  BY DEF ReadWorkload, Reading, TypeInv, TypeOK
<1>2. Serves(s, w) => URLOK(w)
  BY DEF Serves, TypeInv, FieldsOK, URLOK
<1>3. \/ Publish(Provisioning) \/ Continue("route", "") \/ Continue("service", "")
      \/ (Serves(s, w) /\ Publish(ReadyWithConnectionDetails(ClusterDetails(s, w))))
  BY DEF ReadWorkload
<1>4. "route" \in Kinds /\ "service" \in Kinds
  BY DEF Kinds
<1> HIDE DEF s, w
<1>5. CASE Publish(Provisioning)
  BY <1>5, PlainStatus, PublishTypes
<1>6. CASE Continue("route", "") \/ Continue("service", "")
  BY <1>1, <1>4, <1>6, ContinueTypes
<1>7. CASE Serves(s, w) /\ Publish(ReadyWithConnectionDetails(ClusterDetails(s, w)))
  <2>1. ReadyWithConnectionDetails(ClusterDetails(s, w)) \in StatusType
    BY <1>1, <1>2, <1>7, ClusterStatus
  <2> QED
    BY <1>7, <2>1, PublishTypes
<1> QED
  BY <1>3, <1>5, <1>6, <1>7

\* A pointer that is set points at one thing.
LEMMA PointerOf ==
    ASSUME NEW S, NEW o, OptionOf(o, S), o # <<>>
    PROVE  o = <<o[1]>>
<1>1. o \in Seq(S) /\ Len(o) <= 1
  BY DEF OptionOf
<1>2. Len(o) = 1 /\ DOMAIN o = {1}
  <2>1. PICK n \in Nat : n = Len(o) /\ DOMAIN o = 1 .. n
    BY <1>1
  <2>2. n = 1
    BY <1>1, <2>1
  <2> QED
    BY <2>1, <2>2
<1>3. /\ o = [k \in DOMAIN o |-> o[k]] /\ <<o[1]>> = [k \in DOMAIN <<o[1]>> |-> <<o[1]>>[k]]
      /\ DOMAIN <<o[1]>> = {1} /\ <<o[1]>>[1] = o[1]
  BY <1>1
<1> QED
  BY <1>2, <1>3

\* Only an address that the Gateway has is reported.
LEMMA AddressOfGateway ==
    ASSUME NEW a \in Surroundings, a.gateway \notin {<<>>, <<"">>}
    PROVE  Val(a.gateway) \in GatewayAddresses
<1>1. OptionOf(a.gateway, STRING)
  BY Parameters DEF SurroundingsAssumption
<1>2. a.gateway = <<a.gateway[1]>>
  BY <1>1, PointerOf
<1>3. a.gateway[1] # ""
  BY <1>2
<1> QED
  BY <1>3 DEF GatewayAddresses, IsSet, Val

LEMMA ReadRouteTypes == TypeInv /\ ReadRoute => TypeInv'
<1> SUFFICES ASSUME TypeInv, ReadRoute PROVE TypeInv'
  OBVIOUS
<1> DEFINE host == Val(around.gateway)
<1>1. run # <<>> /\ Val(run).spec \in Specs /\ around \in Surroundings
  BY DEF ReadRoute, Reading, TypeInv, TypeOK
<1>2. \/ Publish(Provisioning)
      \/ around.gateway \notin {<<>>, <<"">>} /\ Auth /\ Continue("key", host)
      \/ around.gateway \notin {<<>>, <<"">>} /\ ~Auth /\ Publish(GatewayDetails(host, 0))
  BY DEF ReadRoute
<1>3. around.gateway \notin {<<>>, <<"">>} => host \in GatewayAddresses
  BY <1>1, AddressOfGateway
<1> HIDE DEF host
<1>4. CASE Publish(Provisioning)
  BY <1>4, PlainStatus, PublishTypes
<1>5. CASE around.gateway \notin {<<>>, <<"">>} /\ Auth /\ Continue("key", host)
  BY <1>1, <1>3, <1>5, ContinueTypes DEF Kinds
<1>6. CASE around.gateway \notin {<<>>, <<"">>} /\ ~Auth /\ Publish(GatewayDetails(host, 0))
  BY <1>1, <1>3, <1>6, GatewayStatus, PublishTypes
<1> QED
  BY <1>2, <1>4, <1>5, <1>6

\* Details of a guarded Gateway come with a key, which is there.
LEMMA ReadKeyTypes == TypeInv /\ ReadKey => TypeInv'
<1> SUFFICES ASSUME TypeInv, ReadKey PROVE TypeInv'
  OBVIOUS
<1> DEFINE key == Val(cache["key"])
           host == Val(run).host
<1>1. run # <<>> /\ Val(run).next = "key"
  BY DEF ReadKey, Reading
<1>2. Val(run).spec \in Specs /\ Auth /\ host \in GatewayAddresses
  BY <1>1 DEF TypeInv, TypeOK, RunOK
<1>3. IsSet(cache["key"]) => key \in 1 .. 2
  <2>1. IsSet(cache["key"]) => cache["key"] = <<1>> \/ cache["key"] = <<2>>
    BY DEF TypeInv, FieldsOK, IsSet
  <2>2. IsSet(cache["key"]) => key = 1 \/ key = 2
    BY <2>1, ValOf
  <2> HIDE DEF key
  <2> QED
    BY <2>2
<1>4. Publish(Provisioning) \/ (IsSet(cache["key"]) /\ Publish(GatewayDetails(host, key)))
  BY DEF ReadKey
<1> HIDE DEF key, host
<1>5. CASE Publish(Provisioning)
  BY <1>5, PlainStatus, PublishTypes
<1>6. CASE IsSet(cache["key"]) /\ Publish(GatewayDetails(host, key))
  BY <1>2, <1>3, <1>6, GatewayStatus, PublishTypes
<1> QED
  BY <1>4, <1>5, <1>6

LEMMA ReadServiceTypes == TypeInv /\ ReadService => TypeInv'
<1> SUFFICES ASSUME TypeInv, ReadService PROVE TypeInv'
  OBVIOUS
<1> DEFINE address == Val(cache["service"]).address
<1>1. run # <<>> /\ Val(run).spec \in Specs /\ around \in Surroundings
  BY DEF ReadService, Reading, TypeInv, TypeOK
<1>2. \/ Publish(Ready)
      \/ IsSet(cache["service"]) /\ Publish(ServiceDetails(address))
      \/ \E host \in firstNodeAddress(around.nodes) : Publish(ServiceDetails(host))
  BY DEF ReadService
<1>3. firstNodeAddress(around.nodes) \subseteq NodeAddresses \cup {""}
  <2>1. ExternalAddresses(around.nodes) \cup InternalAddresses(around.nodes) \subseteq NodeAddresses
    BY <1>1 DEF NodeAddresses
  <2> QED
    BY <2>1 DEF firstNodeAddress
<1>4. IsSet(cache["service"]) => address \in {"", "balancer"}
  BY DEF TypeInv, FieldsOK
<1> HIDE DEF address
<1>5. CASE Publish(Ready)
  BY <1>5, PlainStatus, PublishTypes
<1>6. CASE IsSet(cache["service"]) /\ Publish(ServiceDetails(address))
  BY <1>1, <1>4, <1>6, ServiceStatus, PublishTypes
<1>7. ASSUME NEW host \in firstNodeAddress(around.nodes), Publish(ServiceDetails(host)) PROVE TypeInv'
  BY <1>1, <1>3, <1>7, ServiceStatus, PublishTypes
<1> QED
  BY <1>2, <1>5, <1>6, <1>7

LEMMA NextTypes == TypeInv /\ [Next]_vars => TypeInv'
<1> SUFFICES ASSUME TypeInv, [Next]_vars PROVE TypeInv'
  OBVIOUS
<1>0. /\ FieldsOK(api) /\ FieldsOK(cache) /\ spec \in Specs /\ around \in Surroundings
      /\ queued \in BOOLEAN /\ served \in BOOLEAN /\ missed \in BOOLEAN /\ edits \in 0 .. MaxEdits
  BY DEF TypeInv, TypeOK
<1>1. CASE WriteSpec
  BY <1>0, <1>1, EditTypes, OutsideTypes DEF WriteSpec, FieldsOK
<1>2. CASE KServeReports /\ (Edit \/ UNCHANGED edits)
  <2>1. served' \in BOOLEAN /\ UNCHANGED <<spec, cache, around, run, status, queued, missed>>
    BY <1>0, <1>2 DEF KServeReports, Change
  <2> QED
    BY <1>0, <1>2, <2>1, KServeTypes, EditTypes, OutsideTypes DEF FieldsOK
<1>3. CASE EnvoyReports /\ (Edit \/ UNCHANGED edits)
  <2>1. UNCHANGED <<spec, cache, around, run, status, queued, missed, served>>
    BY <1>0, <1>3 DEF EnvoyReports, Change
  <2> QED
    BY <1>0, <1>3, <2>1, EnvoyTypes, EditTypes, OutsideTypes DEF FieldsOK
<1>4. CASE BalancerReports
  <2>1. UNCHANGED <<spec, cache, around, run, status, queued, missed, served, edits>>
    BY <1>0, <1>4 DEF BalancerReports, Change
  <2> QED
    BY <1>0, <1>4, <2>1, BalancerTypes, OutsideTypes DEF FieldsOK
<1>5. CASE KeyDeleted
  <2>1. UNCHANGED <<spec, cache, around, run, status, queued, missed, served>>
    BY <1>0, <1>5 DEF KeyDeleted, Change
  <2>2. Edit
    BY <1>5 DEF KeyDeleted
  <2> QED
    BY <1>0, <1>5, <2>1, <2>2, KeyDeletedTypes, EditTypes, OutsideTypes DEF FieldsOK
<1>6. CASE SurroundingsChange
  BY <1>0, <1>6, EditTypes, OutsideTypes DEF SurroundingsChange, FieldsOK
<1>7. ASSUME NEW kind \in Kinds, Deliver(kind) PROVE TypeInv'
  <2>1. FieldsOK(cache')
    BY <1>7, DeliverTypes
  <2>2. UNCHANGED <<spec, api, around, run, status, served, edits, missed>>
    BY <1>7 DEF Deliver
  <2>3. queued' \in BOOLEAN
    BY <1>0, <1>7 DEF Deliver
  <2> QED
    BY <1>0, <2>1, <2>2, <2>3, OutsideTypes DEF FieldsOK
<1>8. CASE Resync
  BY <1>0, <1>8, OutsideTypes DEF Resync, cluster, FieldsOK
<1>9. CASE Step
  BY <1>9, SyncTypes, ReadWorkloadTypes, ReadRouteTypes, ReadKeyTypes, ReadServiceTypes DEF Step
<1>10. CASE Fails
  <2>1. status \in StatusType
    BY DEF TypeInv, TypeOK
  <2> QED
    BY <1>0, <1>10, <2>1, RunEnds DEF Fails, cluster
<1>11. CASE ReadFails
  <2>1. status' \in StatusType
    BY <1>11, PlainStatus DEF ReadFails
  <2> QED
    BY <1>0, <1>11, <2>1, RunEnds DEF ReadFails
<1>12. CASE UNCHANGED vars
  <2>1. /\ UNCHANGED <<spec, api, cache, around, run, status>>
        /\ UNCHANGED <<queued, served, edits, missed>>
    BY <1>12 DEF vars
  <2>2. FieldsOK(api') /\ FieldsOK(cache')
    BY <1>0, <2>1
  <2>3. /\ spec' \in Specs /\ around' \in Surroundings /\ queued' \in BOOLEAN
        /\ served' \in BOOLEAN /\ missed' \in BOOLEAN /\ edits' \in 0 .. MaxEdits
    BY <1>0, <2>1
  <2> QED
    BY <2>1, <2>2, <2>3, OutsideTypes
<1>13. CASE CatchUp("workload") \/ CatchUp("route") \/ ChangeOfMind
  BY <1>2, <1>3, <1>13 DEF CatchUp, ChangeOfMind
<1> QED
  BY <1>1, <1>4, <1>5, <1>6, <1>7, <1>8, <1>9, <1>10, <1>11, <1>12, <1>13 DEF Next

\* What statusLLM and statusPredictor publish is whole: details name a host that was read
\* from a Gateway, a Service, a node or the workload, and those of a guarded Gateway a key
\* (aiGatewayConnectionDetails), also when what was read first has gone by then.
THEOREM TypeCorrect == Spec => []TypeOK
<1>1. TypeInv => TypeOK
  BY DEF TypeInv
<1> QED
  BY <1>1, InitTypes, NextTypes, PTL DEF Spec
=============================================================================
