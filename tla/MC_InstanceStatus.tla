--------------------------- MODULE MC_InstanceStatus ---------------------------
(***************************************************************************)
(* A small instance of InstanceStatus: one spec of each kind of access and   *)
(* topology, one renamed, and two nodes, one without an external address.    *)
(***************************************************************************)
EXTENDS InstanceStatus

Of(topology, access, legacy, service, model, routed) ==
    [topology |-> topology, access |-> access, legacy |-> legacy, service |-> service,
     model |-> model, routed |-> routed]

AllSpecs ==
    {Of("llm", "EnvoyAIGateway", FALSE, "", "m", FALSE),
     Of("llm", "", TRUE, "LoadBalancer", "m", FALSE),
     Of("llm", "ClusterIP", FALSE, "NodePort", "n", TRUE),
     Of("predictor", "", FALSE, "NodePort", "m", TRUE),
     Of("predictor", "LoadBalancer", FALSE, "", "", FALSE)}

Inner == [external |-> "", internal |-> "inner"]
Outer == [external |-> "outer", internal |-> ""]
SomeSurroundings ==
    {[gateway |-> <<>>, nodes |-> {Inner}], [gateway |-> <<"gateway">>, nodes |-> {Inner, Outer}]}

\* No workload named; one without a pod, and with one; the prefill workload still without.
SomePodCounts == {<<>>, <<0>>, <<1>>, <<1, 0>>}
=============================================================================
