-------------------------------- MODULE GpuPods --------------------------------
(***************************************************************************)
(* Pods that request GPUs: what counts as a request and which taints they     *)
(* tolerate for it (inferenceservice.go; used by both topologies).            *)
(*                                                                         *)
(* Resources are an optional function from <<"limits" or "requests", name>> to *)
(* a quantity; a toleration is [key, exists, effect], "" being a field that is *)
(* not set.                                                                    *)
(***************************************************************************)
EXTENDS Integers, Sequences, FiniteSets, Optionals

GPUs == {"nvidia", "amd"}     \* the resources named .../gpu

requestsGPU(res) ==
    IsSet(res) /\ \E p \in DOMAIN Val(res) : p[2] \in GPUs /\ Val(res)[p] # 0

Covers(t, g) ==
    (t.key = g \/ (t.key = "" /\ t.exists)) /\ t.effect \in {"", "NoSchedule"}

Toleration(g) == [key |-> g, exists |-> TRUE, effect |-> "NoSchedule"]

Claimed(res) == {g \in GPUs : <<"limits", g>> \in DOMAIN Val(res)}

\* Mutant: whatever the user tolerates is taken as enough.
withGPUTolerationsMutant(tolerations, res) ==
    tolerations \cup IF tolerations = {} THEN {Toleration(g) : g \in Claimed(res)} ELSE {}

\* One toleration for each GPU resource that no toleration covers.
withGPUTolerations(tolerations, res) ==
    tolerations
    \cup {Toleration(g) : g \in {g \in Claimed(res) : \A t \in tolerations : ~Covers(t, g)}}

ScheduledWith(tolerations, res) ==
    IF requestsGPU(res) THEN withGPUTolerations(tolerations, res) ELSE tolerations
=============================================================================
