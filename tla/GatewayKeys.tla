----------------------------- MODULE GatewayKeys -----------------------------
(***************************************************************************)
(* The pure part of the AI Gateway auth renderer: which API keys are        *)
(* rendered for a given set of key Secrets and AIGatewayRoutes, and the two  *)
(* objects built from them (internal/provider/gatewayauth.go, with the       *)
(* route readers of aigateway.go and the annotation parser of apikey.go).    *)
(*                                                                         *)
(* Key Secrets and Instances are named by pairs <<namespace, name>>; an      *)
(* Instance's route is named after the Instance, so the route of Instance i  *)
(* is routes[i].  `secrets' and `routes' are functions whose domains are     *)
(* the objects that exist.  A Secret is a record                             *)
(*   [label, id, value, refs]     label: is the ai-gateway-key label "true"  *)
(* and a route a record                                                     *)
(*   [parents, headers]   parents: set of [name, namespace, kind]            *)
(*                        headers: set of [name, type, value]                *)
(* "" is the empty string of the code: a field that is not set.              *)
(***************************************************************************)
EXTENDS Naturals, FiniteSets

CONSTANTS
    GatewayName,        \* common.AIGatewayName()
    GatewayNamespace,   \* common.AIGatewayNamespace()
    ValidIds            \* the key IDs that match ^k_[a-z0-9]+$

Placeholder == "placeholder"   \* gatewayPlaceholderClientID
ModelHeader == "x-ai-eg-model" \* aiGatewayModelHeader

\* validAPIKeyID: "placeholder" and "" do not begin with k_.
ASSUME ValidIdsAssumption == Placeholder \notin ValidIds /\ "" \notin ValidIds

-----------------------------------------------------------------------------
(* Reading routes and Secrets. *)

routeAttachedToGateway(ns, route) ==
    \E p \in route.parents :
        /\ p.name = GatewayName
        /\ (IF p.namespace = "" THEN ns ELSE p.namespace) = GatewayNamespace
        /\ p.kind \in {"", "Gateway"}

aiGatewayRouteModels(route) ==
    {h.value : h \in {x \in route.headers :
                        /\ x.name = ModelHeader
                        /\ x.type \in {"", "Exact"}
                        /\ x.value # ""}}

\* The comma-separated annotation, already split and trimmed: blank entries go.
parseModelRefs(refs) == refs \ {<<"", "">>}

isAIGatewayKeySecret(secret) == secret.label

\* List with MatchingLabels{aiGatewayKeyLabel: "true"}.
LabelledSecrets(secrets) ==
    [s \in {x \in DOMAIN secrets : isAIGatewayKeySecret(secrets[x])} |-> secrets[s]]

-----------------------------------------------------------------------------
(* resolveGatewayKeys. *)

AttachedRoutes(routes) ==
    {r \in DOMAIN routes : routeAttachedToGateway(r[1], routes[r])}

servedBy(routes, model) ==
    {r \in AttachedRoutes(routes) : model \in aiGatewayRouteModels(routes[r])}

\* servedBy[model] > 1
ServedBySeveral(routes, model) ==
    \E r1, r2 \in servedBy(routes, model) : r1 # r2

\* Mutant: the ref's namespace is not compared with the Secret's.
UsableRefMutant(s, ref) == ref[1] # "" /\ ref[2] # ""

\* A ref the code follows: <ns>/<instance>, both parts set, in the namespace of
\* the Secret that carries it.
UsableRef(s, ref) == ref[1] # "" /\ ref[2] # "" /\ ref[1] = s[1]

GrantedModels(secrets, routes, s) ==
    UNION {{m \in aiGatewayRouteModels(routes[ref]) : ~ServedBySeveral(routes, m)} :
             ref \in {x \in parseModelRefs(secrets[s].refs) :
                        UsableRef(s, x) /\ x \in AttachedRoutes(routes)}}

\* Mutant: the key id is not matched against validAPIKeyID.
CandidatesMutant(secrets, routes) ==
    {s \in DOMAIN secrets :
        secrets[s].value # "" /\ GrantedModels(secrets, routes, s) # {}}

\* Secrets that pass the checks on their own fields and reach some model.
Candidates(secrets, routes) ==
    {s \in DOMAIN secrets :
        /\ secrets[s].id \in ValidIds
        /\ secrets[s].value # ""
        /\ GrantedModels(secrets, routes, s) # {}}

\* Mutants: only one of the two counts is looked at.
CollidesByIdMutant(secrets, routes, s) ==
    \E t \in Candidates(secrets, routes) \ {s} : secrets[t].id = secrets[s].id
CollidesByValueMutant(secrets, routes, s) ==
    \E t \in Candidates(secrets, routes) \ {s} : secrets[t].value = secrets[s].value

\* ids[key.id] > 1 or values[key.value] > 1: every key of a collision is left out.
Collides(secrets, routes, s) ==
    \E t \in Candidates(secrets, routes) \ {s} :
        \/ secrets[t].id = secrets[s].id
        \/ secrets[t].value = secrets[s].value

Rendered(secrets, routes) ==
    {s \in Candidates(secrets, routes) : ~Collides(secrets, routes, s)}

gatewayKey(secrets, routes, s) ==
    [id |-> secrets[s].id,
     value |-> secrets[s].value,
     models |-> GrantedModels(secrets, routes, s)]

resolveGatewayKeys(secrets, routes) ==
    {gatewayKey(secrets, routes, s) : s \in Rendered(secrets, routes)}

-----------------------------------------------------------------------------
(* The two generated objects. *)

KeyIds(keys) == {k.id : k \in keys}

\* The Secret's data: the placeholder entry, then one entry per key (a key whose
\* id were "placeholder" would overwrite it, as the assignment in the loop does).
buildGatewayCredentials(placeholder, keys) ==
    [i \in KeyIds(keys) \cup {Placeholder} |->
        IF i \in KeyIds(keys) THEN (CHOOSE k \in keys : k.id = i).value
                              ELSE placeholder]

\* The authorization rules; everything else is denied (defaultAction: Deny).
buildGatewayAuthPolicy(keys) == {[id |-> k.id, models |-> k.models] : k \in keys}
=============================================================================
