---------------------------- MODULE MC_InstanceSync ----------------------------
(***************************************************************************)
(* Small instances of InstanceSync: a few specs of each topology that differ *)
(* in the access mode and in the optional objects, and two or three charts.  *)
(***************************************************************************)
EXTENDS InstanceSync

Llm(access, legacy, service, model, config, metrics) ==
    [topology |-> "llm", access |-> access, legacy |-> legacy, service |-> service,
     model |-> model, config |-> config, hub |-> FALSE, secret |-> "", metrics |-> metrics]
Predictor(access, service, hub, secret, metrics) ==
    [topology |-> "predictor", access |-> access, legacy |-> FALSE, service |-> service,
     model |-> "x", config |-> "", hub |-> hub, secret |-> secret, metrics |-> metrics]

LlmSpecs ==
    {Llm("EnvoyAIGateway", FALSE, "", "m", "", TRUE),
     Llm("", TRUE, "LoadBalancer", "n", "c", TRUE),
     Llm("LoadBalancer", FALSE, "", "m", "c", FALSE),
     Llm("", FALSE, "NodePort", "m", "", TRUE),
     Llm("ClusterIP", FALSE, "NodePort", "n", "d", FALSE)}
PredictorSpecs ==
    {Predictor("EnvoyAIGateway", "", TRUE, "", TRUE),
     Predictor("EnvoyAIGateway", "LoadBalancer", FALSE, "s", TRUE),
     Predictor("LoadBalancer", "", FALSE, "", FALSE),
     Predictor("", "NodePort", TRUE, "", TRUE),
     Predictor("", "", FALSE, "", FALSE),
     Predictor("", "", FALSE, "s", FALSE)}
AllSpecs == LlmSpecs \cup PredictorSpecs

Chart(gateway, auth, redis, hfToken, podMonitor) ==
    [gateway |-> gateway, auth |-> auth, redis |-> redis, hfToken |-> hfToken,
     podMonitor |-> podMonitor]
GatewayCharts == {Chart(TRUE, TRUE, TRUE, TRUE, TRUE), Chart(TRUE, FALSE, FALSE, FALSE, TRUE)}
AllCharts == GatewayCharts \cup {Chart(FALSE, FALSE, FALSE, TRUE, FALSE)}
FullChart == {Chart(TRUE, TRUE, TRUE, FALSE, TRUE)}

AnyKind == Kinds
NoKind == {}
=============================================================================
