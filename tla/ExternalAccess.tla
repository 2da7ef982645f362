---------------------------- MODULE ExternalAccess ----------------------------
(***************************************************************************)
(* What the topology parameters and the component's Service select as the    *)
(* way in (types.go of both topologies, externalservice.go).  An Instance is *)
(* a record with the fields topology, access (externalAccess), legacy        *)
(* (enableAIGateway) and service (the component's serviceType); "" is a      *)
(* field that is not set.                                                    *)
(***************************************************************************)

UsesAIGateway(s) ==
    \/ s.access = "EnvoyAIGateway"
    \/ s.topology = "llm" /\ s.access = "" /\ s.legacy

ResolvedServiceType(s) ==
    CASE s.access \in {"LoadBalancer", "NodePort"} -> s.access
      [] s.access \in {"ClusterIP", "EnvoyAIGateway"} -> "ClusterIP"
      [] OTHER -> ""

\* Mutant: no default.
resolveServiceTypeMutant(s) ==
    IF ResolvedServiceType(s) # "" THEN ResolvedServiceType(s) ELSE s.service

resolveServiceType(s) ==
    CASE ResolvedServiceType(s) # "" -> ResolvedServiceType(s)
      [] ResolvedServiceType(s) = "" /\ s.service # "" -> s.service
      [] OTHER -> "ClusterIP"
=============================================================================
