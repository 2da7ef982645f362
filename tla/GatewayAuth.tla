----------------------------- MODULE GatewayAuth -----------------------------
(***************************************************************************)
(* The AI Gateway auth renderer (internal/provider/gatewayauth.go): one      *)
(* controller with one fixed reconcile key and one worker that renders every *)
(* key Secret of the cluster into a credentials Secret and a SecurityPolicy. *)
(*                                                                         *)
(* The API server's objects, the informer caches the renderer reads and the  *)
(* watch events between them are separate variables: the renderer reads      *)
(* state that lags, its two writes are two steps, either may fail (with or   *)
(* without having taken effect), and the process may stop between them.      *)
(***************************************************************************)
EXTENDS GatewayKeys, Sequences

CONSTANTS
    KeySecrets,         \* names <<ns, name>> of the Secrets others may write
    RouteNames,         \* names <<ns, instance>> of the Instances' routes
    SecretContent,      \* [KeySecrets -> set of Secret records]
    RouteContent,       \* [RouteNames -> set of route records]
    NewKeys,            \* values newAPIKey may return for the placeholder
    AuthModes,          \* values AIGatewayAuthEnabled() takes over restarts
    AllowUnlabel,       \* may a writer take the key label off a Secret?
    AllowRemoval,       \* may others remove the outputs or the Gateway?
    MaxLag,             \* bound: events of one kind the cache may be behind
    MaxGateways,        \* bound: Gateway objects created over time
    MaxEdits            \* bound: writes by others, restarts included

NoGateway == 0

ASSUME BoundsAssumption == MaxLag \in Nat \ {0} /\ MaxGateways \in Nat /\ MaxEdits \in Nat

ASSUME SwitchAssumption ==
    AuthModes \subseteq BOOLEAN /\ AllowUnlabel \in BOOLEAN /\ AllowRemoval \in BOOLEAN

\* newAPIKey draws 32 random bytes: nobody else holds the placeholder's value.
ASSUME NewKeysAssumption ==
    /\ NewKeys # {} /\ "" \notin NewKeys
    /\ \A s \in KeySecrets : \A c \in SecretContent[s] : c.value \notin NewKeys

ASSUME LabelAssumption == \A s \in KeySecrets : \A c \in SecretContent[s] : c.label \in BOOLEAN

VARIABLES
    secrets, routes,    \* API server: the inputs, functions on what exists
    gateway,            \* API server: uid of the Gateway, NoGateway when absent
    credentials,        \* API server: [owner, data] of the output Secret
    policy,             \* API server: [owner, rules] of the output policy
    cSecrets, cRoutes, cGateway, cCredentials,  \* informer caches
    secretWatch, routeWatch, gatewayWatch,  \* snapshots the caches have not seen
    policyWatch,        \* is an event of the output policy under way?
    auth,               \* AIGatewayAuthEnabled() of the running process
    queued,             \* is the fixed request in the work queue?
    pc,                 \* next step of the running Reconcile
    run,                \* what the running Reconcile has read
    uids,               \* Gateway objects created so far
    edits               \* writes by others so far

inputs == <<secrets, routes, gateway, uids>>
outputs == <<credentials, policy>>
caches == <<cSecrets, cRoutes, cGateway, cCredentials>>
watches == <<secretWatch, routeWatch, gatewayWatch, policyWatch>>
renderer == <<queued, pc, run>>
vars == <<inputs, outputs, caches, watches, renderer, auth, edits>>

Empty == [x \in {} |-> ""]
NoCredentials == [owner |-> NoGateway, data |-> Empty]
NoPolicy == [owner |-> NoGateway, rules |-> {}]
Put(f, x, v) == [y \in DOMAIN f \cup {x} |-> IF y = x THEN v ELSE f[y]]
Remove(f, x) == [y \in DOMAIN f \ {x} |-> f[y]]

PCs == {"idle", "gateway", "secrets", "routes", "placeholder", "credentials",
        "policy", "deletePolicy", "deleteCredentials"}

NoRun == [gateway |-> NoGateway, secrets |-> Empty, routes |-> Empty,
          placeholder |-> ""]

-----------------------------------------------------------------------------
(* Watch events.  Each event carries the state of its kind after the write;   *)
(* events of one kind arrive in order.  `wake' is the watch's predicate,      *)
(* which NewPredicateFuncs evaluates on the new object of an update.          *)

EmitSecret(wake) ==
    /\ Len(secretWatch) < MaxLag
    /\ secretWatch' = Append(secretWatch,
            [secrets |-> secrets', credentials |-> credentials', wake |-> wake])

EmitRoute ==
    /\ Len(routeWatch) < MaxLag
    /\ routeWatch' = Append(routeWatch, routes')

EmitGateway ==
    /\ Len(gatewayWatch) < MaxLag
    /\ gatewayWatch' = Append(gatewayWatch, gateway')

DeliverSecret ==
    /\ secretWatch # <<>>
    /\ secretWatch' = Tail(secretWatch)
    /\ cSecrets' = Head(secretWatch).secrets
    /\ cCredentials' = Head(secretWatch).credentials
    /\ queued' = (queued \/ Head(secretWatch).wake)
    /\ UNCHANGED <<inputs, outputs, cRoutes, cGateway, routeWatch, gatewayWatch,
                   policyWatch, auth, pc, run, edits>>

DeliverRoute ==
    /\ routeWatch # <<>>
    /\ routeWatch' = Tail(routeWatch)
    /\ cRoutes' = Head(routeWatch)
    /\ queued' = TRUE
    /\ UNCHANGED <<inputs, outputs, cSecrets, cGateway, cCredentials, secretWatch,
                   gatewayWatch, policyWatch, auth, pc, run, edits>>

DeliverGateway ==
    /\ gatewayWatch # <<>>
    /\ gatewayWatch' = Tail(gatewayWatch)
    /\ cGateway' = Head(gatewayWatch)
    /\ queued' = TRUE
    /\ UNCHANGED <<inputs, outputs, cSecrets, cRoutes, cCredentials, secretWatch,
                   routeWatch, policyWatch, auth, pc, run, edits>>

\* Mutant: the policy is not watched.
DeliverPolicyMutant ==
    /\ policyWatch
    /\ policyWatch' = FALSE
    /\ UNCHANGED <<inputs, outputs, caches, secretWatch, routeWatch, gatewayWatch,
                   auth, renderer, edits>>

DeliverPolicy ==
    /\ policyWatch
    /\ policyWatch' = FALSE
    /\ queued' = TRUE
    /\ UNCHANGED <<inputs, outputs, caches, secretWatch, routeWatch, gatewayWatch,
                   auth, pc, run, edits>>

\* Does any object in the API server pass one of the watches' predicates?
SomethingWatched ==
    \/ \E s \in DOMAIN secrets : isAIGatewayKeySecret(secrets[s])
    \/ DOMAIN routes # {}
    \/ gateway # NoGateway
    \/ credentials # NoCredentials
    \/ policy # NoPolicy

\* The informers' periodic resync replays an update of every cached object.
Resync ==
    /\ ~queued
    /\ \/ \E s \in DOMAIN cSecrets : isAIGatewayKeySecret(cSecrets[s])
       \/ DOMAIN cRoutes # {}
       \/ cGateway # NoGateway
       \/ cCredentials # NoCredentials
       \/ policy # NoPolicy
    /\ queued' = TRUE
    /\ UNCHANGED <<inputs, outputs, caches, watches, auth, pc, run, edits>>

-----------------------------------------------------------------------------
(* Others write the inputs: users and key writers, the Instance controller,   *)
(* the chart that owns the Gateway.                                           *)

Edit == edits < MaxEdits /\ edits' = edits + 1

WriteSecret(s, c) ==
    /\ Edit
    /\ s \in DOMAIN secrets => /\ secrets[s] # c
                               /\ secrets[s].label => (c.label \/ AllowUnlabel)
    /\ secrets' = Put(secrets, s, c)
    /\ credentials' = credentials
    /\ EmitSecret(isAIGatewayKeySecret(c))
    /\ UNCHANGED <<routes, gateway, uids, policy, caches, routeWatch, gatewayWatch,
                   policyWatch, renderer, auth>>

DeleteSecret(s) ==
    /\ Edit
    /\ s \in DOMAIN secrets
    /\ secrets' = Remove(secrets, s)
    /\ credentials' = credentials
    /\ EmitSecret(isAIGatewayKeySecret(secrets[s]))
    /\ UNCHANGED <<routes, gateway, uids, policy, caches, routeWatch, gatewayWatch,
                   policyWatch, renderer, auth>>

WriteRoute(r, c) ==
    /\ Edit
    /\ r \in DOMAIN routes => routes[r] # c
    /\ routes' = Put(routes, r, c)
    /\ EmitRoute
    /\ UNCHANGED <<secrets, gateway, uids, outputs, caches, secretWatch, gatewayWatch,
                   policyWatch, renderer, auth>>

DeleteRoute(r) ==
    /\ Edit
    /\ r \in DOMAIN routes
    /\ routes' = Remove(routes, r)
    /\ EmitRoute
    /\ UNCHANGED <<secrets, gateway, uids, outputs, caches, secretWatch, gatewayWatch,
                   policyWatch, renderer, auth>>

CreateGateway ==
    /\ Edit
    /\ gateway = NoGateway /\ uids < MaxGateways
    /\ gateway' = uids + 1 /\ uids' = uids + 1
    /\ EmitGateway
    /\ UNCHANGED <<secrets, routes, outputs, caches, secretWatch, routeWatch,
                   policyWatch, renderer, auth>>

DeleteGateway ==
    /\ Edit
    /\ AllowRemoval
    /\ gateway # NoGateway
    /\ gateway' = NoGateway
    /\ EmitGateway
    /\ UNCHANGED <<secrets, routes, uids, outputs, caches, secretWatch, routeWatch,
                   policyWatch, renderer, auth>>

\* The output Secret goes; the event passes the isOutput predicate.
RemoveCredentials ==
    /\ credentials # NoCredentials
    /\ credentials' = NoCredentials
    /\ secrets' = secrets
    /\ EmitSecret(TRUE)
    /\ UNCHANGED <<routes, gateway, uids, policy, caches, routeWatch, gatewayWatch,
                   policyWatch, auth>>

RemovePolicy ==
    /\ policy # NoPolicy
    /\ policy' = NoPolicy
    /\ policyWatch' = TRUE
    /\ UNCHANGED <<inputs, credentials, caches, secretWatch, routeWatch,
                   gatewayWatch, auth>>

\* Someone deletes a generated object.
DriftCredentials == Edit /\ AllowRemoval /\ RemoveCredentials /\ UNCHANGED renderer
DriftPolicy == Edit /\ AllowRemoval /\ RemovePolicy /\ UNCHANGED renderer

\* Kubernetes collects an output whose owning Gateway is gone.
CollectCredentials ==
    /\ credentials # NoCredentials /\ credentials.owner # gateway
    /\ RemoveCredentials
    /\ UNCHANGED <<renderer, edits>>

CollectPolicy ==
    /\ policy # NoPolicy /\ policy.owner # gateway
    /\ RemovePolicy
    /\ UNCHANGED <<renderer, edits>>

\* The provider process stops at any point and comes back, with the auth setting
\* the chart now gives it.  Its caches are filled before its controllers run,
\* and every watched object arrives as a create event.
Restart(a) ==
    /\ Edit
    /\ auth' = a
    /\ cSecrets' = secrets /\ cRoutes' = routes
    /\ cGateway' = gateway /\ cCredentials' = credentials
    /\ secretWatch' = <<>> /\ routeWatch' = <<>> /\ gatewayWatch' = <<>>
    /\ policyWatch' = FALSE
    /\ queued' = SomethingWatched /\ pc' = "idle" /\ run' = NoRun
    /\ UNCHANGED <<inputs, outputs>>

-----------------------------------------------------------------------------
(* Reconcile, one action per read or write of the API.                        *)

Goto(next) == pc' = next /\ UNCHANGED queued
Finish == pc' = "idle" /\ run' = NoRun /\ UNCHANGED queued
\* An error is returned: the request goes back to the queue.
Retry == pc' = "idle" /\ run' = NoRun /\ queued' = TRUE

Start ==
    /\ pc = "idle" /\ queued
    /\ queued' = FALSE
    /\ pc' = IF auth THEN "gateway" ELSE "deletePolicy"
    /\ UNCHANGED <<inputs, outputs, caches, watches, run, auth, edits>>

GetGateway ==
    /\ pc = "gateway"
    /\ IF cGateway = NoGateway
       THEN Retry
       ELSE Goto("secrets") /\ run' = [run EXCEPT !.gateway = cGateway]
    /\ UNCHANGED <<inputs, outputs, caches, watches, auth, edits>>

ListSecrets ==
    /\ pc = "secrets"
    /\ run' = [run EXCEPT !.secrets = LabelledSecrets(cSecrets)]
    /\ Goto("routes")
    /\ UNCHANGED <<inputs, outputs, caches, watches, auth, edits>>

ListRoutes ==
    /\ pc = "routes"
    /\ run' = [run EXCEPT !.routes = cRoutes]
    /\ Goto("placeholder")
    /\ UNCHANGED <<inputs, outputs, caches, watches, auth, edits>>

\* The stored placeholder is reused; a missing one is generated.
placeholderKey ==
    /\ pc = "placeholder"
    /\ \E v \in NewKeys :
           /\ cCredentials # NoCredentials => v = cCredentials.data[Placeholder]
           /\ run' = [run EXCEPT !.placeholder = v]
    /\ Goto("credentials")
    /\ UNCHANGED <<inputs, outputs, caches, watches, auth, edits>>

Keys == resolveGatewayKeys(run.secrets, run.routes)

\* Server-side apply: writing what is already stored emits no event.
ApplyCredentials ==
    /\ credentials' = [owner |-> run.gateway,
                       data |-> buildGatewayCredentials(run.placeholder, Keys)]
    /\ IF credentials' = credentials
       THEN UNCHANGED <<secrets, secretWatch>>
       ELSE secrets' = secrets /\ EmitSecret(TRUE)
    /\ UNCHANGED <<routes, gateway, uids, policy, caches, routeWatch, gatewayWatch,
                   policyWatch, auth, edits>>

ApplyPolicy ==
    /\ policy' = [owner |-> run.gateway, rules |-> buildGatewayAuthPolicy(Keys)]
    /\ policyWatch' = (policyWatch \/ policy' # policy)
    /\ UNCHANGED <<inputs, credentials, caches, secretWatch, routeWatch,
                   gatewayWatch, auth, edits>>

\* Mutant: when the credentials did not change the policy is taken to be current.
RenderCredentialsMutant ==
    /\ pc = "credentials"
    /\ ApplyCredentials
    /\ IF credentials' = credentials THEN Finish ELSE Goto("policy") /\ UNCHANGED run

RenderCredentials == pc = "credentials" /\ ApplyCredentials /\ Goto("policy") /\ UNCHANGED run
RenderPolicy == pc = "policy" /\ ApplyPolicy /\ Finish

\* deleteOutputs: the policy first, so that it never refers to a missing Secret.
DeletePolicyStep ==
    /\ pc = "deletePolicy"
    /\ \/ RemovePolicy /\ UNCHANGED edits
       \/ policy = NoPolicy /\ UNCHANGED <<inputs, outputs, caches, watches, auth, edits>>
    /\ Goto("deleteCredentials") /\ UNCHANGED run

DeleteCredentialsStep ==
    /\ pc = "deleteCredentials"
    /\ \/ RemoveCredentials /\ UNCHANGED edits
       \/ credentials = NoCredentials /\ UNCHANGED <<inputs, outputs, caches, watches, auth, edits>>
    /\ Finish

\* Mutant: an error of the first apply is not returned.
WriteFailsMutant ==
    /\ pc \in {"credentials", "policy", "deletePolicy", "deleteCredentials"}
    /\ UNCHANGED <<inputs, outputs, caches, watches, auth, edits>>
    /\ IF pc = "credentials" THEN Goto("policy") /\ UNCHANGED run ELSE Retry

\* A write is refused, or it is done and only the answer is lost.
WriteFails ==
    /\ pc \in {"credentials", "policy", "deletePolicy", "deleteCredentials"}
    /\ UNCHANGED <<inputs, outputs, caches, watches, auth, edits>>
    /\ Retry

AnswerLost ==
    /\ \/ pc = "credentials" /\ ApplyCredentials
       \/ pc = "policy" /\ ApplyPolicy
       \/ pc = "deletePolicy" /\ RemovePolicy /\ UNCHANGED edits
       \/ pc = "deleteCredentials" /\ RemoveCredentials /\ UNCHANGED edits
    /\ Retry

-----------------------------------------------------------------------------
Init ==
    /\ secrets = Empty /\ routes = Empty
    /\ gateway \in {NoGateway, 1} /\ gateway <= MaxGateways /\ uids = gateway
    /\ credentials = NoCredentials /\ policy = NoPolicy
    /\ cSecrets = Empty /\ cRoutes = Empty /\ cGateway = gateway /\ cCredentials = NoCredentials
    /\ secretWatch = <<>> /\ routeWatch = <<>> /\ gatewayWatch = <<>> /\ policyWatch = FALSE
    /\ auth \in AuthModes
    /\ queued = (gateway # NoGateway) /\ pc = "idle" /\ run = NoRun
    /\ edits = 0

Others ==
    \/ \E s \in KeySecrets : DeleteSecret(s) \/ \E c \in SecretContent[s] : WriteSecret(s, c)
    \/ \E r \in RouteNames : DeleteRoute(r) \/ \E c \in RouteContent[r] : WriteRoute(r, c)
    \/ CreateGateway \/ DeleteGateway
    \/ DriftCredentials \/ DriftPolicy
    \/ \E a \in AuthModes : Restart(a)

Deliver == DeliverSecret \/ DeliverRoute \/ DeliverGateway \/ DeliverPolicy
Collect == CollectCredentials \/ CollectPolicy
Reads == Start \/ GetGateway \/ ListSecrets \/ ListRoutes \/ placeholderKey
Writes == RenderCredentials \/ RenderPolicy \/ DeletePolicyStep \/ DeleteCredentialsStep

Next == Others \/ Deliver \/ Resync \/ Collect \/ Reads \/ Writes \/ WriteFails \/ AnswerLost

Spec == Init /\ [][Next]_vars

\* The worker keeps working, watches deliver, owners are collected, and a write
\* that is tried again and again is answered some day.  Others owe nothing.
Fairness ==
    /\ WF_vars(Reads)
    /\ SF_vars(RenderCredentials) /\ SF_vars(RenderPolicy)
    /\ SF_vars(DeletePolicyStep) /\ SF_vars(DeleteCredentialsStep)
    /\ WF_vars(DeliverSecret) /\ WF_vars(DeliverRoute)
    /\ WF_vars(DeliverGateway) /\ WF_vars(DeliverPolicy)
    /\ WF_vars(CollectCredentials) /\ WF_vars(CollectPolicy)

FairSpec == Spec /\ Fairness

-----------------------------------------------------------------------------
(* Properties. *)

Ids == UNION {{c.id : c \in SecretContent[s]} : s \in KeySecrets}
Values == UNION {{c.value : c \in SecretContent[s]} : s \in KeySecrets}
Models == UNION {UNION {aiGatewayRouteModels(c) : c \in RouteContent[r]} : r \in RouteNames}

\* The partial functions on the names of D whose value at x lies in C[x].
StoresOn(E, C) == {f \in [E -> UNION {C[x] : x \in E}] : \A x \in E : f[x] \in C[x]}
Stores(D, C) == UNION {StoresOn(E, C) : E \in SUBSET D}
SecretStores == Stores(KeySecrets, SecretContent)
RouteStores == Stores(RouteNames, RouteContent)
Uids == 0 .. MaxGateways

\* An output Secret: absent, or owned by some Gateway and with the placeholder.
CredentialsData == UNION {[I \cup {Placeholder} -> Values \cup NewKeys] : I \in SUBSET (Ids \cap ValidIds)}
CredentialsType == {NoCredentials} \cup [owner : Uids \ {NoGateway}, data : CredentialsData]

SecretEvents == [secrets : SecretStores, credentials : CredentialsType, wake : BOOLEAN]

PolicyType ==
    {NoPolicy} \cup [owner : Uids \ {NoGateway},
                     rules : SUBSET [id : Ids \cap ValidIds, models : SUBSET Models]]

\* Every object of the model has the shape the code gives it: in particular the
\* generated Secret always has its placeholder entry and otherwise only well
\* formed key ids, whatever the writers of key Secrets put in theirs.
TypeOK ==
    /\ secrets \in SecretStores /\ routes \in RouteStores
    /\ gateway \in Uids /\ uids \in Uids
    /\ credentials \in CredentialsType /\ policy \in PolicyType
    /\ cSecrets \in SecretStores /\ cRoutes \in RouteStores /\ cGateway \in Uids
    /\ cCredentials \in CredentialsType
    /\ secretWatch \in Seq(SecretEvents)
    /\ routeWatch \in Seq(RouteStores) /\ gatewayWatch \in Seq(Uids)
    /\ policyWatch \in BOOLEAN /\ auth \in AuthModes /\ queued \in BOOLEAN /\ pc \in PCs
    /\ run \in [gateway : Uids, secrets : SecretStores, routes : RouteStores,
                placeholder : NewKeys \cup {""}]
    /\ edits \in 0 .. MaxEdits

\* Envoy rejects the whole policy, and with it every route of the Gateway, when
\* two credentials share a value.  The generated Secret never has two entries
\* with one value, in any state in between, whatever Secrets collide
\* (resolveGatewayKeys, buildGatewayCredentials).
EnvoyAcceptsCredentials ==
    \A i, j \in DOMAIN credentials.data :
        credentials.data[i] = credentials.data[j] => i = j

\* The policy has at most one rule per key id, every rule names some model, and
\* the placeholder client has none: "It has no authorization rule, so it can
\* never reach a model" (gatewayPlaceholderClientID).
RulesFailClosed ==
    /\ \A q, r \in policy.rules : q.id = r.id => q = r
    /\ \A r \in policy.rules : r.id # Placeholder /\ r.models # {}

\* The contract of key writers: an id is unique to one namespace.
IdsOf(ns) == UNION {{c.id : c \in SecretContent[s]} : s \in {x \in KeySecrets : x[1] = ns}}
ValuesOf(ns) == UNION {{c.value : c \in SecretContent[s]} : s \in {x \in KeySecrets : x[1] = ns}}
ModelsOf(ns) == UNION {UNION {aiGatewayRouteModels(c) : c \in RouteContent[r]} :
                         r \in {x \in RouteNames : x[1] = ns}}
IdsPerNamespace == \A s, t \in KeySecrets :
    IdsOf(s[1]) \cap IdsOf(t[1]) \cap ValidIds # {} => s[1] = t[1]

\* "A key only reaches models in its own namespace".  What Envoy lets through is
\* the join of two objects that are written one after the other, from inputs listed
\* one after the other: even between the two writes and after a partial failure, a
\* value reaches a model only if one namespace has both a key Secret with the value
\* and a route for the model.
KeysStayInNamespace ==
    \A r \in policy.rules : r.id \in DOMAIN credentials.data =>
        \E s \in KeySecrets :
            /\ r.id \in IdsOf(s[1])
            /\ credentials.data[r.id] \in ValuesOf(s[1])
            /\ r.models \subseteq ModelsOf(s[1])

\* The strengthening behind the three invariants above: what a running Reconcile
\* has read by the time it writes, and that each object on its own ties an id to
\* one namespace's values and models.
RunOK ==
    /\ pc \in {"secrets", "routes", "placeholder", "credentials", "policy"} =>
           run.gateway # NoGateway
    /\ pc \in {"credentials", "policy"} => run.placeholder \in NewKeys
CredentialsHome ==
    \A i \in DOMAIN credentials.data \ {Placeholder} :
        \E s \in KeySecrets : i \in IdsOf(s[1]) /\ credentials.data[i] \in ValuesOf(s[1])
RulesHome ==
    \A r \in policy.rules :
        \E s \in KeySecrets : r.id \in IdsOf(s[1]) /\ r.models \subseteq ModelsOf(s[1])
OutputsInv == EnvoyAcceptsCredentials /\ RulesFailClosed /\ CredentialsHome /\ RulesHome

\* The policy never refers to a credentials Secret that the renderer has not
\* written yet or has already deleted: Reconcile applies the Secret first,
\* deleteOutputs deletes the policy first.
PolicyHasCredentials == policy # NoPolicy => credentials # NoCredentials

\* The strengthening of PolicyHasCredentials: there has been one Gateway at most,
\* and each write is preceded by the one it relies on.
OneGateway ==
    /\ cGateway \in {NoGateway, gateway} /\ run.gateway \in {NoGateway, gateway}
    /\ credentials.owner \in {NoGateway, gateway} /\ policy.owner \in {NoGateway, gateway}
    /\ \A i \in DOMAIN gatewayWatch : gatewayWatch[i] \in {NoGateway, gateway}
WritesOrdered ==
    /\ pc = "policy" => credentials # NoCredentials
    /\ pc = "deleteCredentials" => policy = NoPolicy
    /\ PolicyHasCredentials

UpToDate ==
    gateway # NoGateway =>
        LET keys == resolveGatewayKeys(LabelledSecrets(secrets), routes) IN
        IF auth
        THEN /\ policy = [owner |-> gateway, rules |-> buildGatewayAuthPolicy(keys)]
             /\ credentials.owner = gateway
             /\ credentials.data = buildGatewayCredentials(credentials.data[Placeholder], keys)
        ELSE policy = NoPolicy /\ credentials = NoCredentials

Quiet ==
    /\ pc = "idle" /\ ~queued
    /\ secretWatch = <<>> /\ routeWatch = <<>> /\ gatewayWatch = <<>> /\ ~policyWatch

\* No update is lost: once the renderer rests and every event has arrived, the
\* outputs are exactly what the current Secrets and routes resolve to, or are
\* gone when auth is off.
QuietMeansUpToDate == Quiet => UpToDate

\* When others stop writing, the outputs become and stay up to date, through
\* retries, lost answers, garbage collection and restarts.
Converges == <>[]UpToDate

\* Every route of the Gateway is behind the policy while auth is on: "the
\* Gateway denies routes that have no key rule yet" (syncAIGateway).
RoutesAreGuarded ==
    auth /\ gateway # NoGateway /\ AttachedRoutes(routes) # {} => policy # NoPolicy
=============================================================================
