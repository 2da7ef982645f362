-------------------------- MODULE GatewayAuthProofs --------------------------
(***************************************************************************)
(* Proofs about the AI Gateway auth renderer, for every set of Secrets,      *)
(* routes and contents and every bound.                                      *)
(***************************************************************************)
EXTENDS GatewayAuth, TLAPS

-----------------------------------------------------------------------------
(* What resolveGatewayKeys returns. *)

\* No two rendered keys share an id or a value (the collision check of
\* resolveGatewayKeys), so an entry of the credentials determines its key.
LEMMA KeysDistinct ==
    ASSUME NEW S, NEW R,
           NEW j \in resolveGatewayKeys(S, R), NEW k \in resolveGatewayKeys(S, R),
           j.id = k.id \/ j.value = k.value
    PROVE  j = k
<1>1. PICK s \in Rendered(S, R) : j = gatewayKey(S, R, s)
  BY DEF resolveGatewayKeys
<1>2. PICK t \in Rendered(S, R) : k = gatewayKey(S, R, t)
  BY DEF resolveGatewayKeys
<1>3. s \in Candidates(S, R) /\ t \in Candidates(S, R)
  BY DEF Rendered
<1>4. S[s].id = S[t].id \/ S[s].value = S[t].value
  BY <1>1, <1>2 DEF gatewayKey
<1>5. CASE s = t
  BY <1>5, <1>1, <1>2
<1>6. CASE s # t
  <2>1. Collides(S, R, t)
    BY <1>3, <1>4, <1>6 DEF Collides
  <2>2. QED
    BY <2>1 DEF Rendered
<1>7. QED
  BY <1>5, <1>6

\* A rendered key comes from a Secret with a well formed id and a value, and
\* grants at least one model.
LEMMA KeyOrigin ==
    ASSUME NEW S, NEW R, NEW k \in resolveGatewayKeys(S, R)
    PROVE  \E s \in DOMAIN S :
             /\ k.id = S[s].id /\ k.value = S[s].value
             /\ k.id \in ValidIds
             /\ k.models = GrantedModels(S, R, s) /\ k.models # {}
<1>1. PICK s \in Rendered(S, R) : k = gatewayKey(S, R, s)
  BY DEF resolveGatewayKeys
<1>2. s \in DOMAIN S /\ S[s].id \in ValidIds /\ GrantedModels(S, R, s) # {}
  BY DEF Rendered, Candidates
<1>3. k.id = S[s].id /\ k.value = S[s].value /\ k.models = GrantedModels(S, R, s)
  BY <1>1 DEF gatewayKey
<1>4. QED
  BY <1>2, <1>3

\* A model granted to a Secret is a model of an attached route in the Secret's
\* own namespace that no other attached route serves.
LEMMA GrantOrigin ==
    ASSUME NEW S, NEW R, NEW s, NEW m \in GrantedModels(S, R, s)
    PROVE  \E r \in DOMAIN R :
             /\ r[1] = s[1]
             /\ routeAttachedToGateway(r[1], R[r])
             /\ m \in aiGatewayRouteModels(R[r])
             /\ \A q \in AttachedRoutes(R) : m \in aiGatewayRouteModels(R[q]) => q = r
<1>1. PICK r \in AttachedRoutes(R) :
         /\ UsableRef(s, r) /\ m \in aiGatewayRouteModels(R[r]) /\ ~ServedBySeveral(R, m)
  BY DEF GrantedModels
<1>2. r \in servedBy(R, m)
  BY <1>1 DEF servedBy
<1>3. \A q \in AttachedRoutes(R) : m \in aiGatewayRouteModels(R[q]) => q = r
  BY <1>1, <1>2 DEF servedBy, ServedBySeveral
<1>4. r \in DOMAIN R /\ r[1] = s[1] /\ routeAttachedToGateway(r[1], R[r])
  BY <1>1 DEF AttachedRoutes, UsableRef
<1>5. QED
  BY <1>1, <1>3, <1>4

\* The placeholder entry is intact and every other entry of d is the value of
\* the one key with that id.
CredentialsFor(d, p, K) ==
    /\ DOMAIN d = KeyIds(K) \cup {Placeholder}
    /\ d[Placeholder] = p
    /\ \A k \in K : d[k.id] = k.value
    /\ \A i \in DOMAIN d \ {Placeholder} : \E k \in K : k.id = i /\ d[i] = k.value

\* buildGatewayCredentials on resolved keys: no entry overwrites another, because
\* ids are distinct and none of them is "placeholder".
LEMMA CredentialsOf ==
    ASSUME NEW S, NEW R, NEW p
    PROVE  CredentialsFor(buildGatewayCredentials(p, resolveGatewayKeys(S, R)),
                          p, resolveGatewayKeys(S, R))
<1> DEFINE K == resolveGatewayKeys(S, R)
           d == buildGatewayCredentials(p, K)
<1>1. Placeholder \notin KeyIds(K)
  <2>1. ASSUME NEW k \in K PROVE k.id # Placeholder
    <3>1. k \in resolveGatewayKeys(S, R)
      OBVIOUS
    <3>2. k.id \in ValidIds
      BY <3>1, KeyOrigin
    <3>3. QED
      BY <3>2, ValidIdsAssumption
  <2>2. QED
    BY <2>1 DEF KeyIds
<1>2. DOMAIN d = KeyIds(K) \cup {Placeholder} /\ d[Placeholder] = p
  BY <1>1 DEF buildGatewayCredentials
<1>3. ASSUME NEW k \in K PROVE d[k.id] = k.value
  <2>1. k.id \in KeyIds(K)
    BY DEF KeyIds
  <2>2. d[k.id] = (CHOOSE x \in K : x.id = k.id).value
    BY <2>1 DEF buildGatewayCredentials
  <2>3. (CHOOSE x \in K : x.id = k.id) \in K /\ (CHOOSE x \in K : x.id = k.id).id = k.id
    OBVIOUS
  <2>4. (CHOOSE x \in K : x.id = k.id) = k
    BY <2>3, KeysDistinct
  <2>5. QED
    BY <2>2, <2>4
<1>4. ASSUME NEW i \in DOMAIN d \ {Placeholder} PROVE \E k \in K : k.id = i /\ d[i] = k.value
  BY <1>2, <1>3 DEF KeyIds
<1>5. QED
  BY <1>2, <1>3, <1>4 DEF CredentialsFor

-----------------------------------------------------------------------------
(* Stores and the objects built from them. *)

\* What a store (the objects of one kind that exist on the API server) holds.
LEMMA StoreUse ==
    ASSUME NEW D, NEW C, NEW f \in Stores(D, C)
    PROVE  /\ DOMAIN f \subseteq D
           /\ \A x \in DOMAIN f : f[x] \in C[x]
           /\ f = [x \in DOMAIN f |-> f[x]]
<1>1. PICK E \in SUBSET D : f \in StoresOn(E, C)
  BY DEF Stores
<1>2. QED
  BY <1>1 DEF StoresOn

\* A function on some of the names, with admissible values, is a store.
LEMMA StoreIntro ==
    ASSUME NEW D, NEW C, NEW E \in SUBSET D, NEW f,
           DOMAIN f = E, f = [x \in E |-> f[x]],
           \A x \in E : f[x] \in C[x]
    PROVE  f \in Stores(D, C)
<1>1. f \in [E -> UNION {C[x] : x \in E}]
  OBVIOUS
<1>2. f \in StoresOn(E, C)
  BY <1>1 DEF StoresOn
<1>3. QED
  BY <1>2 DEF Stores

\* Writing an object (WriteSecret, WriteRoute) leaves a store a store.
LEMMA StorePut ==
    ASSUME NEW D, NEW C, NEW f \in Stores(D, C), NEW x \in D, NEW v \in C[x]
    PROVE  Put(f, x, v) \in Stores(D, C)
<1>1. DOMAIN Put(f, x, v) = DOMAIN f \cup {x}
  BY DEF Put
<1>2. \A y \in DOMAIN f \cup {x} : Put(f, x, v)[y] \in C[y]
  BY StoreUse DEF Put
<1>3. DOMAIN f \cup {x} \in SUBSET D
  BY StoreUse
<1>4. Put(f, x, v) = [y \in DOMAIN f \cup {x} |-> Put(f, x, v)[y]]
  BY DEF Put
<1>5. QED
  BY <1>1, <1>2, <1>3, <1>4, StoreIntro

\* Deleting an object (DeleteSecret, DeleteRoute) leaves a store a store.
LEMMA StoreRemove ==
    ASSUME NEW D, NEW C, NEW f \in Stores(D, C), NEW x
    PROVE  Remove(f, x) \in Stores(D, C)
<1>1. DOMAIN Remove(f, x) = DOMAIN f \ {x}
  BY DEF Remove
<1>2. \A y \in DOMAIN f \ {x} : Remove(f, x)[y] \in C[y]
  BY StoreUse DEF Remove
<1>3. DOMAIN f \ {x} \in SUBSET D
  BY StoreUse
<1>4. Remove(f, x) = [y \in DOMAIN f \ {x} |-> Remove(f, x)[y]]
  BY DEF Remove
<1>5. QED
  BY <1>1, <1>2, <1>3, <1>4, StoreIntro

\* Before anything is written there is a store.
LEMMA StoreEmpty == \A D, C : Empty \in Stores(D, C)
<1>1. SUFFICES ASSUME NEW D, NEW C PROVE Empty \in Stores(D, C)
  OBVIOUS
<1>2. DOMAIN Empty = {} /\ Empty = [x \in {} |-> Empty[x]]
  BY DEF Empty
<1>3. QED
  BY <1>2, StoreIntro

\* The list with the label selector (ListSecrets) is a store again.
LEMMA StoreLabelled ==
    ASSUME NEW C, NEW D, NEW f \in Stores(D, C)
    PROVE  LabelledSecrets(f) \in Stores(D, C)
<1> DEFINE E == {x \in DOMAIN f : isAIGatewayKeySecret(f[x])}
<1>1. LabelledSecrets(f) = [s \in E |-> f[s]]
  BY DEF LabelledSecrets
<1>2. DOMAIN LabelledSecrets(f) = E
  BY <1>1
<1>3. \A y \in E : LabelledSecrets(f)[y] \in C[y]
  BY <1>1, StoreUse
<1>4. E \in SUBSET D
  BY StoreUse
<1>5. LabelledSecrets(f) = [y \in E |-> LabelledSecrets(f)[y]]
  BY <1>1
<1> HIDE DEF E
<1>6. QED
  BY <1>2, <1>3, <1>4, <1>5, StoreIntro

\* The keys resolved from well formed inputs: ids, values and models of some
\* Secret and of routes in that Secret's namespace.
LEMMA KeysTyped ==
    ASSUME NEW S \in SecretStores, NEW R \in RouteStores,
           NEW k \in resolveGatewayKeys(S, R)
    PROVE  /\ k.id \in Ids \cap ValidIds /\ k.value \in Values \ NewKeys
           /\ k.models \in SUBSET Models /\ k.models # {}
           /\ \E s \in KeySecrets : /\ k.id \in IdsOf(s[1])
                                    /\ k.value \in ValuesOf(s[1])
                                    /\ k.models \subseteq ModelsOf(s[1])
<1>1. PICK s \in DOMAIN S :
         /\ k.id = S[s].id /\ k.value = S[s].value /\ k.id \in ValidIds
         /\ k.models = GrantedModels(S, R, s) /\ k.models # {}
  BY KeyOrigin
<1>2. s \in KeySecrets /\ S[s] \in SecretContent[s]
  BY StoreUse DEF SecretStores
<1>3. k.id \in Ids /\ k.value \in Values
  BY <1>1, <1>2 DEF Ids, Values
<1>4. k.value \notin NewKeys
  BY <1>1, <1>2, NewKeysAssumption
<1>5. k.id \in IdsOf(s[1]) /\ k.value \in ValuesOf(s[1])
  BY <1>1, <1>2 DEF IdsOf, ValuesOf
<1>6. ASSUME NEW m \in GrantedModels(S, R, s)
      PROVE  m \in Models /\ m \in ModelsOf(s[1])
  <2>1. PICK r \in DOMAIN R : r[1] = s[1] /\ m \in aiGatewayRouteModels(R[r])
    BY GrantOrigin
  <2>2. r \in RouteNames /\ R[r] \in RouteContent[r]
    BY StoreUse DEF RouteStores
  <2>3. QED
    BY <2>1, <2>2 DEF Models, ModelsOf
<1>7. QED
  BY <1>1, <1>2, <1>3, <1>4, <1>5, <1>6

-----------------------------------------------------------------------------
(* Type correctness. *)

\* buildGatewayCredentials gives the placeholder entry and well formed ids only.
LEMMA CredentialsTyped ==
    ASSUME NEW S \in SecretStores, NEW R \in RouteStores, NEW p \in NewKeys
    PROVE  buildGatewayCredentials(p, resolveGatewayKeys(S, R)) \in CredentialsData
<1> DEFINE K == resolveGatewayKeys(S, R)
           d == buildGatewayCredentials(p, K)
<1>0. CredentialsFor(d, p, K)
  BY CredentialsOf
<1>1. /\ DOMAIN d = KeyIds(K) \cup {Placeholder} /\ d[Placeholder] = p
      /\ \A i \in DOMAIN d \ {Placeholder} : \E k \in K : k.id = i /\ d[i] = k.value
  <2> HIDE DEF d, K
  <2>1. QED
    BY <1>0 DEF CredentialsFor
<1>2. KeyIds(K) \in SUBSET (Ids \cap ValidIds)
  BY KeysTyped DEF KeyIds
<1>3. \A i \in DOMAIN d : d[i] \in Values \cup NewKeys
  BY <1>1, KeysTyped
<1>4. d = [i \in DOMAIN d |-> d[i]]
  BY DEF buildGatewayCredentials
<1> HIDE DEF d, K
<1>5. d \in [KeyIds(K) \cup {Placeholder} -> Values \cup NewKeys]
  BY <1>1, <1>3, <1>4
<1>6. d \in CredentialsData
  BY <1>2, <1>5 DEF CredentialsData
<1>7. QED
  BY <1>6 DEF d, K

\* buildGatewayAuthPolicy gives rules for well formed ids over served models.
LEMMA RulesTyped ==
    ASSUME NEW S \in SecretStores, NEW R \in RouteStores
    PROVE  buildGatewayAuthPolicy(resolveGatewayKeys(S, R))
             \subseteq [id : Ids \cap ValidIds, models : SUBSET Models]
BY KeysTyped DEF buildGatewayAuthPolicy

TypeInv == TypeOK /\ RunOK

\* A Secret event added to the watch carries well formed snapshots.
LEMMA EmitSecretTyped ==
    ASSUME TypeOK, NEW w \in BOOLEAN, EmitSecret(w),
           secrets' \in SecretStores, credentials' \in CredentialsType
    PROVE  secretWatch' \in Seq(SecretEvents)
<1> DEFINE e == [secrets |-> secrets', credentials |-> credentials', wake |-> w]
<1>1. e \in SecretEvents
  BY DEF SecretEvents
<1>2. secretWatch \in Seq(SecretEvents) /\ secretWatch' = Append(secretWatch, e)
  BY DEF TypeOK, EmitSecret
<1> HIDE DEF e
<1>3. QED
  BY <1>1, <1>2

\* Absent outputs (before the first render, after deleteOutputs) are well formed.
LEMMA NoOutputsTyped == NoCredentials \in CredentialsType /\ NoPolicy \in PolicyType
BY DEF CredentialsType, PolicyType

\* The initial state is well formed.
LEMMA TypeInit == Init => TypeInv
<1> SUFFICES ASSUME Init PROVE TypeInv
  OBVIOUS
<1>1. Empty \in SecretStores /\ Empty \in RouteStores
  BY StoreEmpty DEF SecretStores, RouteStores
<1>2. gateway \in Uids /\ uids \in Uids /\ NoGateway \in Uids
  <2>1. gateway \in {0, 1} /\ gateway <= MaxGateways /\ uids = gateway
    BY DEF Init, NoGateway
  <2>2. QED
    BY <2>1, BoundsAssumption DEF Uids, NoGateway
<1>3. run \in [gateway : Uids, secrets : SecretStores, routes : RouteStores,
               placeholder : NewKeys \cup {""}]
  BY <1>1, <1>2 DEF Init, NoRun
<1>4. edits \in 0 .. MaxEdits
  BY BoundsAssumption DEF Init
<1>5. TypeOK
  <2>1. secretWatch \in Seq(SecretEvents) /\ routeWatch \in Seq(RouteStores) /\ gatewayWatch \in Seq(Uids)
    BY DEF Init
  <2>2. policyWatch \in BOOLEAN /\ auth \in AuthModes /\ queued \in BOOLEAN /\ pc \in PCs
    BY DEF Init, PCs
  <2>3. cGateway \in Uids
    BY <1>2 DEF Init
  <2>4. QED
    BY <1>1, <1>2, <1>3, <1>4, <2>1, <2>2, <2>3, NoOutputsTyped DEF Init, TypeOK
<1>6. RunOK
  BY DEF Init, RunOK
<1>7. QED
  BY <1>5, <1>6 DEF TypeInv

\* Delivering the oldest event leaves a watch of the same kind of events.
LEMMA TailTyped ==
    ASSUME NEW T, NEW q \in Seq(T), q # <<>>
    PROVE  Head(q) \in T /\ Tail(q) \in Seq(T)
OBVIOUS

\* Adding an event leaves a watch of the same kind of events.
LEMMA AppendTyped ==
    ASSUME NEW T, NEW q \in Seq(T), NEW e \in T
    PROVE  Append(q, e) \in Seq(T)
OBVIOUS

\* A Reconcile that has read nothing yet is well formed.
LEMMA NoRunTyped == NoRun \in [gateway : Uids, secrets : SecretStores, routes : RouteStores,
                               placeholder : NewKeys \cup {""}]
<1>1. Empty \in SecretStores /\ Empty \in RouteStores
  BY StoreEmpty DEF SecretStores, RouteStores
<1>2. NoGateway \in Uids
  BY BoundsAssumption DEF Uids, NoGateway
<1>3. QED
  BY <1>1, <1>2 DEF NoRun

\* An edit stays within its bound.
LEMMA EditTyped == ASSUME TypeOK, Edit PROVE edits' \in 0 .. MaxEdits
<1>1. edits \in 0 .. MaxEdits
  BY DEF TypeOK
<1>2. QED
  BY <1>1, BoundsAssumption DEF Edit

\* Delivering a watch event to a cache keeps every object well formed.
LEMMA DeliverTyped == TypeInv /\ Deliver => TypeInv'
<1> SUFFICES ASSUME TypeInv, Deliver PROVE TypeInv'
  OBVIOUS
<1> USE DEF TypeInv
<1> USE DEF inputs, outputs, caches, watches
<1>1. CASE DeliverSecret
  <2>1. Head(secretWatch) \in SecretEvents /\ secretWatch' \in Seq(SecretEvents)
    BY <1>1, TailTyped DEF DeliverSecret, TypeOK
  <2>2. cSecrets' \in SecretStores /\ cCredentials' \in CredentialsType /\ queued' \in BOOLEAN
    BY <1>1, <2>1 DEF DeliverSecret, SecretEvents, TypeOK
  <2>3. QED
    BY <1>1, <2>1, <2>2 DEF DeliverSecret, TypeOK, RunOK
<1>2. CASE DeliverRoute
  <2>1. cRoutes' \in RouteStores /\ routeWatch' \in Seq(RouteStores)
    BY <1>2, TailTyped DEF DeliverRoute, TypeOK
  <2>2. QED
    BY <1>2, <2>1 DEF DeliverRoute, TypeOK, RunOK
<1>3. CASE DeliverGateway
  <2>1. cGateway' \in Uids /\ gatewayWatch' \in Seq(Uids)
    BY <1>3, TailTyped DEF DeliverGateway, TypeOK
  <2>2. QED
    BY <1>3, <2>1 DEF DeliverGateway, TypeOK, RunOK
<1>4. CASE DeliverPolicy
  BY <1>4 DEF DeliverPolicy, TypeOK, RunOK
<1>5. QED
  BY <1>1, <1>2, <1>3, <1>4 DEF Deliver

\* Deleting an output, by whoever, keeps every object well formed.
LEMMA RemoveTyped ==
    ASSUME TypeInv, RemoveCredentials \/ RemovePolicy,
           edits' \in 0 .. MaxEdits, pc' \in PCs, queued' \in BOOLEAN, run' = run \/ run' = NoRun
    PROVE  TypeOK'
<1> USE DEF inputs, outputs, caches, watches
<1>0. run' \in [gateway : Uids, secrets : SecretStores, routes : RouteStores,
                placeholder : NewKeys \cup {""}]
  BY NoRunTyped DEF TypeInv, TypeOK
<1>1. CASE RemoveCredentials
  <2>1. secrets' \in SecretStores /\ credentials' \in CredentialsType
    BY <1>1, NoOutputsTyped DEF RemoveCredentials, TypeInv, TypeOK
  <2>2. secretWatch' \in Seq(SecretEvents)
    BY <1>1, <2>1, EmitSecretTyped DEF RemoveCredentials, TypeInv
  <2>3. QED
    BY <1>0, <1>1, <2>1, <2>2 DEF RemoveCredentials, TypeInv, TypeOK
<1>2. CASE RemovePolicy
  <2>1. policy' \in PolicyType /\ policyWatch' \in BOOLEAN
    BY <1>2, NoOutputsTyped DEF RemovePolicy
  <2>2. QED
    BY <1>0, <1>2, <2>1 DEF RemovePolicy, TypeInv, TypeOK
<1>3. QED
  BY <1>1, <1>2

\* Writes by others, and restarts, keep every object well formed.
LEMMA OthersTyped == TypeInv /\ Others => TypeInv'
<1> SUFFICES ASSUME TypeInv, Others PROVE TypeInv'
  OBVIOUS
<1> USE DEF inputs, outputs, caches, watches, renderer
<1>1. ASSUME NEW s \in KeySecrets, NEW c \in SecretContent[s], WriteSecret(s, c) PROVE TypeInv'
  <2>1. secrets' \in SecretStores /\ credentials' \in CredentialsType
    BY <1>1, StorePut DEF WriteSecret, TypeInv, TypeOK, SecretStores
  <2>2. isAIGatewayKeySecret(c) \in BOOLEAN
    BY LabelAssumption DEF isAIGatewayKeySecret
  <2>3. secretWatch' \in Seq(SecretEvents) /\ edits' \in 0 .. MaxEdits
    BY <1>1, <2>1, <2>2, EmitSecretTyped, EditTyped DEF WriteSecret, TypeInv
  <2>4. QED
    BY <1>1, <2>1, <2>3 DEF WriteSecret, TypeInv, TypeOK, RunOK
<1>2. ASSUME NEW s \in KeySecrets, DeleteSecret(s) PROVE TypeInv'
  <2>1. secrets' \in SecretStores /\ credentials' \in CredentialsType
    BY <1>2, StoreRemove DEF DeleteSecret, TypeInv, TypeOK, SecretStores
  <2>2. secrets[s] \in SecretContent[s]
    BY <1>2, StoreUse DEF DeleteSecret, TypeInv, TypeOK, SecretStores
  <2>3. isAIGatewayKeySecret(secrets[s]) \in BOOLEAN
    BY <2>2, LabelAssumption DEF isAIGatewayKeySecret
  <2>4. secretWatch' \in Seq(SecretEvents) /\ edits' \in 0 .. MaxEdits
    BY <1>2, <2>1, <2>3, EmitSecretTyped, EditTyped DEF DeleteSecret, TypeInv
  <2>5. QED
    BY <1>2, <2>1, <2>4 DEF DeleteSecret, TypeInv, TypeOK, RunOK
<1>3. ASSUME NEW r \in RouteNames, NEW c \in RouteContent[r], WriteRoute(r, c) PROVE TypeInv'
  <2>1. routes' \in RouteStores /\ edits' \in 0 .. MaxEdits
    BY <1>3, StorePut, EditTyped DEF WriteRoute, TypeInv, TypeOK, RouteStores
  <2>2. routeWatch' \in Seq(RouteStores)
    BY <1>3, <2>1, AppendTyped DEF WriteRoute, EmitRoute, TypeInv, TypeOK
  <2>3. QED
    BY <1>3, <2>1, <2>2 DEF WriteRoute, TypeInv, TypeOK, RunOK
<1>4. ASSUME NEW r \in RouteNames, DeleteRoute(r) PROVE TypeInv'
  <2>1. routes' \in RouteStores /\ edits' \in 0 .. MaxEdits
    BY <1>4, StoreRemove, EditTyped DEF DeleteRoute, TypeInv, TypeOK, RouteStores
  <2>2. routeWatch' \in Seq(RouteStores)
    BY <1>4, <2>1, AppendTyped DEF DeleteRoute, EmitRoute, TypeInv, TypeOK
  <2>3. QED
    BY <1>4, <2>1, <2>2 DEF DeleteRoute, TypeInv, TypeOK, RunOK
<1>5. CASE CreateGateway \/ DeleteGateway
  <2>1. gateway' \in Uids /\ uids' \in Uids
    <3>1. gateway \in 0 .. MaxGateways /\ uids \in 0 .. MaxGateways
      BY DEF TypeInv, TypeOK, Uids
    <3>2. CASE CreateGateway
      BY <3>1, <3>2, BoundsAssumption DEF CreateGateway, Uids
    <3>3. CASE DeleteGateway
      BY <3>1, <3>3, BoundsAssumption DEF DeleteGateway, Uids, NoGateway
    <3>4. QED
      BY <1>5, <3>2, <3>3
  <2>2. edits' \in 0 .. MaxEdits
    BY <1>5, EditTyped DEF CreateGateway, DeleteGateway, TypeInv
  <2>3. gatewayWatch' \in Seq(Uids)
    <3>1. gatewayWatch \in Seq(Uids) /\ gatewayWatch' = Append(gatewayWatch, gateway')
      BY <1>5 DEF CreateGateway, DeleteGateway, EmitGateway, TypeInv, TypeOK
    <3>2. QED
      BY <2>1, <3>1, AppendTyped
  <2>4. QED
    BY <1>5, <2>1, <2>2, <2>3 DEF CreateGateway, DeleteGateway, TypeInv, TypeOK, RunOK
<1>6. CASE DriftCredentials \/ DriftPolicy
  <2>1. edits' \in 0 .. MaxEdits
    BY <1>6, EditTyped DEF DriftCredentials, DriftPolicy, TypeInv
  <2>2. pc' \in PCs /\ queued' \in BOOLEAN /\ run' = run
    BY <1>6 DEF DriftCredentials, DriftPolicy, TypeInv, TypeOK
  <2>3. TypeOK'
    BY <1>6, <2>1, <2>2, RemoveTyped DEF DriftCredentials, DriftPolicy
  <2>4. QED
    BY <1>6, <2>3 DEF DriftCredentials, DriftPolicy, TypeInv, RunOK
<1>7. ASSUME NEW a \in AuthModes, Restart(a) PROVE TypeInv'
  <2>1. edits' \in 0 .. MaxEdits
    BY <1>7, EditTyped DEF Restart, TypeInv
  <2>2. queued' \in BOOLEAN
    BY <1>7 DEF Restart, SomethingWatched
  <2>3. run' \in [gateway : Uids, secrets : SecretStores, routes : RouteStores,
                  placeholder : NewKeys \cup {""}]
    BY <1>7, NoRunTyped DEF Restart
  <2>4. secretWatch' \in Seq(SecretEvents) /\ routeWatch' \in Seq(RouteStores) /\ gatewayWatch' \in Seq(Uids)
    BY <1>7 DEF Restart
  <2>5. QED
    BY <1>7, <2>1, <2>2, <2>3, <2>4 DEF Restart, TypeInv, TypeOK, RunOK, PCs
<1>8. QED
  BY <1>1, <1>2, <1>3, <1>4, <1>5, <1>6, <1>7 DEF Others

\* Garbage collection and the resync keep every object well formed.
LEMMA CollectTyped == TypeInv /\ (Collect \/ Resync) => TypeInv'
<1> SUFFICES ASSUME TypeInv, Collect \/ Resync PROVE TypeInv'
  OBVIOUS
<1> USE DEF inputs, outputs, caches, watches, renderer
<1>1. CASE Collect
  <2>1. (RemoveCredentials \/ RemovePolicy) /\ UNCHANGED renderer /\ UNCHANGED edits
    BY <1>1 DEF Collect, CollectCredentials, CollectPolicy
  <2>2. edits' \in 0 .. MaxEdits /\ pc' \in PCs /\ queued' \in BOOLEAN /\ run' = run
    BY <2>1 DEF TypeInv, TypeOK
  <2>3. TypeOK'
    BY <2>1, <2>2, RemoveTyped
  <2>4. QED
    BY <2>1, <2>3 DEF TypeInv, RunOK
<1>2. CASE Resync
  BY <1>2 DEF Resync, TypeInv, TypeOK, RunOK
<1>3. QED
  BY <1>1, <1>2

\* The reads of Reconcile keep every object well formed.
LEMMA ReadsTyped == TypeInv /\ Reads => TypeInv'
<1> SUFFICES ASSUME TypeInv, Reads PROVE TypeInv'
  OBVIOUS
<1> USE DEF inputs, outputs, caches, watches
<1>1. CASE Start
  BY <1>1 DEF Start, TypeInv, TypeOK, RunOK, PCs
<1>2. CASE GetGateway
  <2>1. run' \in [gateway : Uids, secrets : SecretStores, routes : RouteStores,
                  placeholder : NewKeys \cup {""}]
    BY <1>2, NoRunTyped DEF GetGateway, Retry, TypeInv, TypeOK
  <2>2. pc' \in PCs /\ queued' \in BOOLEAN
    BY <1>2 DEF GetGateway, Retry, Goto, TypeInv, TypeOK, PCs
  <2>3. RunOK'
    BY <1>2 DEF GetGateway, Retry, Goto, TypeInv, TypeOK, RunOK
  <2>4. QED
    BY <1>2, <2>1, <2>2, <2>3 DEF GetGateway, TypeInv, TypeOK
<1>3. CASE ListSecrets
  <2>1. LabelledSecrets(cSecrets) \in SecretStores
    BY StoreLabelled DEF TypeInv, TypeOK, SecretStores
  <2>2. QED
    BY <1>3, <2>1 DEF ListSecrets, Goto, TypeInv, TypeOK, RunOK, PCs
<1>4. CASE ListRoutes
  BY <1>4 DEF ListRoutes, Goto, TypeInv, TypeOK, RunOK, PCs
<1>5. CASE placeholderKey
  BY <1>5 DEF placeholderKey, Goto, TypeInv, TypeOK, RunOK, PCs
<1>6. QED
  BY <1>1, <1>2, <1>3, <1>4, <1>5 DEF Reads

\* Applying an output built from what was read keeps every object well formed.
LEMMA ApplyTyped ==
    ASSUME TypeInv, pc \in {"credentials", "policy"}, ApplyCredentials \/ ApplyPolicy,
           pc' \in PCs, queued' \in BOOLEAN, run' = run \/ run' = NoRun
    PROVE  TypeOK'
<1> USE DEF inputs, outputs, caches, watches
<1>0. run' \in [gateway : Uids, secrets : SecretStores, routes : RouteStores,
                placeholder : NewKeys \cup {""}]
  BY NoRunTyped DEF TypeInv, TypeOK
<1>1. /\ run.gateway \in Uids \ {NoGateway} /\ run.placeholder \in NewKeys
      /\ run.secrets \in SecretStores /\ run.routes \in RouteStores
  BY DEF TypeInv, TypeOK, RunOK
<1>2. CASE ApplyCredentials
  <2>1. buildGatewayCredentials(run.placeholder, Keys) \in CredentialsData
    BY <1>1, CredentialsTyped DEF Keys
  <2>2. credentials' \in CredentialsType
    BY <1>1, <1>2, <2>1 DEF ApplyCredentials, CredentialsType
  <2>3. secrets' \in SecretStores
    BY <1>2 DEF ApplyCredentials, TypeInv, TypeOK
  <2>4. secretWatch' \in Seq(SecretEvents)
    BY <1>2, <2>2, <2>3, EmitSecretTyped DEF ApplyCredentials, TypeInv, TypeOK
  <2>5. QED
    BY <1>0, <1>2, <2>2, <2>3, <2>4 DEF ApplyCredentials, TypeInv, TypeOK
<1>3. CASE ApplyPolicy
  <2>1. buildGatewayAuthPolicy(Keys) \subseteq [id : Ids \cap ValidIds, models : SUBSET Models]
    BY <1>1, RulesTyped DEF Keys
  <2>2. policy' \in PolicyType
    BY <1>1, <1>3, <2>1 DEF ApplyPolicy, PolicyType
  <2>3. policyWatch' \in BOOLEAN
    BY <1>3 DEF ApplyPolicy, TypeInv, TypeOK
  <2>4. QED
    BY <1>0, <1>3, <2>2, <2>3 DEF ApplyPolicy, TypeInv, TypeOK
<1>4. QED
  BY <1>2, <1>3

\* The writes of Reconcile, done, refused or unanswered, keep everything well formed.
LEMMA WritesTyped == TypeInv /\ (Writes \/ WriteFails \/ AnswerLost) => TypeInv'
<1> SUFFICES ASSUME TypeInv, Writes \/ WriteFails \/ AnswerLost PROVE TypeInv'
  OBVIOUS
<1> USE DEF inputs, outputs, caches, watches
<1>1. /\ pc' \in PCs /\ queued' \in BOOLEAN
      /\ run' = run \/ run' = NoRun
      /\ pc' \in {"idle", "deleteCredentials"} \/ (pc = "credentials" /\ pc' = "policy" /\ run' = run)
  BY DEF Writes, RenderCredentials, RenderPolicy, DeletePolicyStep, DeleteCredentialsStep,
         WriteFails, AnswerLost, Goto, Finish, Retry, TypeInv, TypeOK, PCs
<1>2. RunOK'
  BY <1>1 DEF TypeInv, RunOK
<1>3. CASE pc \in {"credentials", "policy"} /\ (ApplyCredentials \/ ApplyPolicy)
  BY <1>1, <1>2, <1>3, ApplyTyped DEF TypeInv
<1>4. CASE (RemoveCredentials \/ RemovePolicy) /\ UNCHANGED edits
  <2>1. edits' \in 0 .. MaxEdits
    BY <1>4 DEF TypeInv, TypeOK
  <2>2. QED
    BY <1>1, <1>2, <1>4, <2>1, RemoveTyped DEF TypeInv
<1>5. CASE UNCHANGED <<inputs, outputs, caches, watches, auth, edits>>
  <2>1. run' \in [gateway : Uids, secrets : SecretStores, routes : RouteStores,
                  placeholder : NewKeys \cup {""}]
    BY <1>1, NoRunTyped DEF TypeInv, TypeOK
  <2>2. QED
    BY <1>1, <1>2, <1>5, <2>1 DEF TypeInv, TypeOK
<1>6. QED
  BY <1>3, <1>4, <1>5
     DEF Writes, RenderCredentials, RenderPolicy, DeletePolicyStep, DeleteCredentialsStep,
         WriteFails, AnswerLost

\* Every step of the renderer and its surroundings keeps everything well formed.
LEMMA TypeStep == TypeInv /\ [Next]_vars => TypeInv'
<1>1. TypeInv /\ UNCHANGED vars => TypeInv'
  BY DEF TypeInv, TypeOK, RunOK, vars, inputs, outputs, caches, watches, renderer
<1>2. QED
  BY <1>1, DeliverTyped, OthersTyped, CollectTyped, ReadsTyped, WritesTyped DEF Next

\* TypeInv holds throughout: the base of all that follows.
LEMMA TypeInvariant == Spec => []TypeInv
  BY TypeInit, TypeStep, PTL DEF Spec

\* Type correctness of the renderer for every set of Secrets, routes and contents.
THEOREM TypeCorrect == Spec => []TypeOK
<1>1. TypeInv => TypeOK
  BY DEF TypeInv
<1>2. QED
  BY <1>1, TypeInvariant, PTL

-----------------------------------------------------------------------------
(* What the outputs may contain. *)

\* Only four kinds of step touch the outputs.
OutputStep ==
    \/ UNCHANGED <<credentials, policy>>
    \/ credentials' = NoCredentials /\ UNCHANGED policy
    \/ policy' = NoPolicy /\ UNCHANGED credentials
    \/ pc \in {"credentials", "policy"} /\ (ApplyCredentials \/ ApplyPolicy)

\* Only the two applies and the removals touch the outputs.
LEMMA StepsTouchOutputs == [Next]_vars => OutputStep
<1> SUFFICES ASSUME [Next]_vars PROVE OutputStep
  OBVIOUS
<1> USE DEF inputs, outputs, OutputStep
<1>1. CASE UNCHANGED vars
  BY <1>1 DEF vars
<1>2. CASE Others
  BY <1>2 DEF Others, WriteSecret, DeleteSecret, WriteRoute, DeleteRoute, CreateGateway,
       DeleteGateway, DriftCredentials, DriftPolicy, RemoveCredentials, RemovePolicy, Restart
<1>3. CASE Deliver \/ Resync
  BY <1>3 DEF Deliver, DeliverSecret, DeliverRoute, DeliverGateway, DeliverPolicy, Resync
<1>4. CASE Collect
  BY <1>4 DEF Collect, CollectCredentials, CollectPolicy, RemoveCredentials, RemovePolicy
<1>5. CASE Reads
  BY <1>5 DEF Reads, Start, GetGateway, ListSecrets, ListRoutes, placeholderKey
<1>6. CASE Writes \/ WriteFails \/ AnswerLost
  BY <1>6 DEF Writes, RenderCredentials, RenderPolicy, DeletePolicyStep, DeleteCredentialsStep,
       RemoveCredentials, RemovePolicy, WriteFails, AnswerLost
<1>7. QED
  BY <1>1, <1>2, <1>3, <1>4, <1>5, <1>6 DEF Next

\* The invariant of the outputs holds while there are none.
LEMMA OutputsInit == Init => OutputsInv
BY DEF Init, OutputsInv, EnvoyAcceptsCredentials, RulesFailClosed, CredentialsHome, RulesHome,
       NoCredentials, NoPolicy, Empty

\* Each apply re-establishes the invariant of the outputs on its own.
LEMMA OutputsNext == TypeInv /\ OutputsInv /\ [Next]_vars => OutputsInv'
<1> SUFFICES ASSUME TypeInv, OutputsInv, [Next]_vars PROVE OutputsInv'
  OBVIOUS
<1>0. OutputStep
  BY StepsTouchOutputs
<1> USE DEF OutputsInv
<1>1. CASE UNCHANGED <<credentials, policy>>
  BY <1>1 DEF EnvoyAcceptsCredentials, RulesFailClosed, CredentialsHome, RulesHome
<1>2. CASE credentials' = NoCredentials /\ UNCHANGED policy
  BY <1>2 DEF EnvoyAcceptsCredentials, RulesFailClosed, CredentialsHome, RulesHome,
              NoCredentials, Empty
<1>3. CASE policy' = NoPolicy /\ UNCHANGED credentials
  BY <1>3 DEF EnvoyAcceptsCredentials, RulesFailClosed, CredentialsHome, RulesHome, NoPolicy
<1>4. CASE pc \in {"credentials", "policy"} /\ ApplyCredentials
  <2> DEFINE d == buildGatewayCredentials(run.placeholder, Keys)
  <2>1. run.secrets \in SecretStores /\ run.routes \in RouteStores /\ run.placeholder \in NewKeys
    BY <1>4 DEF TypeInv, TypeOK, RunOK
  <2>2. credentials'.data = d /\ policy' = policy
    BY <1>4 DEF ApplyCredentials
  <2>3. CredentialsFor(d, run.placeholder, Keys)
    BY CredentialsOf DEF Keys
  <2> HIDE DEF d
  <2>4. /\ d[Placeholder] = run.placeholder
        /\ \A i \in DOMAIN d \ {Placeholder} : \E k \in Keys : k.id = i /\ d[i] = k.value
    BY <2>3 DEF CredentialsFor
  <2>5. \A k \in Keys : k.value \notin NewKeys
    BY <2>1, KeysTyped DEF Keys
  <2>6. \A j, k \in Keys : j.value = k.value => j = k
    BY KeysDistinct DEF Keys
  <2>7. ASSUME NEW i \in DOMAIN d, NEW j \in DOMAIN d, d[i] = d[j] PROVE i = j
    BY <2>1, <2>4, <2>5, <2>6, <2>7
  <2>8. EnvoyAcceptsCredentials'
    BY <2>2, <2>7 DEF EnvoyAcceptsCredentials
  <2>9. CredentialsHome'
    <3>1. \A k \in Keys : \E s \in KeySecrets : k.id \in IdsOf(s[1]) /\ k.value \in ValuesOf(s[1])
      BY <2>1, KeysTyped DEF Keys
    <3>2. QED
      BY <2>2, <2>4, <3>1 DEF CredentialsHome
  <2>10. QED
    BY <2>2, <2>8, <2>9 DEF RulesFailClosed, RulesHome
<1>5. CASE pc \in {"credentials", "policy"} /\ ApplyPolicy
  <2>1. run.secrets \in SecretStores /\ run.routes \in RouteStores
    BY <1>5 DEF TypeInv, TypeOK
  <2>2. policy'.rules = {[id |-> k.id, models |-> k.models] : k \in Keys} /\ credentials' = credentials
    BY <1>5 DEF ApplyPolicy, buildGatewayAuthPolicy
  <2>3. \A k \in Keys : k.id \in ValidIds /\ k.models # {}
    BY <2>1, KeysTyped DEF Keys
  <2>4. \A j, k \in Keys : j.id = k.id => j = k
    BY KeysDistinct DEF Keys
  <2>5. RulesFailClosed'
    <3>1. \A q, r \in policy'.rules : q.id = r.id => q = r
      BY <2>2, <2>4
    <3>2. \A r \in policy'.rules : r.id \in ValidIds /\ r.models # {}
      BY <2>2, <2>3
    <3>3. \A r \in policy'.rules : r.id # Placeholder
      BY <3>2, ValidIdsAssumption
    <3>4. QED
      BY <3>1, <3>2, <3>3 DEF RulesFailClosed
  <2>6. RulesHome'
    <3>1. \A k \in Keys : \E s \in KeySecrets : k.id \in IdsOf(s[1]) /\ k.models \subseteq ModelsOf(s[1])
      BY <2>1, KeysTyped DEF Keys
    <3>2. QED
      BY <2>2, <3>1 DEF RulesHome
  <2>7. QED
    BY <2>2, <2>5, <2>6 DEF EnvoyAcceptsCredentials, CredentialsHome
<1>6. QED
  BY <1>0, <1>1, <1>2, <1>3, <1>4, <1>5 DEF OutputStep

\* The invariant of the outputs holds throughout.
LEMMA OutputsInvariant == Spec => []OutputsInv
  BY TypeInvariant, OutputsInit, OutputsNext, PTL DEF Spec

\* Envoy never gets two credentials with one value, so a collision between key
\* Secrets never costs the Gateway its policy.
THEOREM CredentialsAccepted == Spec => []EnvoyAcceptsCredentials
<1>1. OutputsInv => EnvoyAcceptsCredentials
  BY DEF OutputsInv
<1>2. QED
  BY <1>1, OutputsInvariant, PTL

\* One rule per id, none for the placeholder, none without models.
THEOREM RulesSafe == Spec => []RulesFailClosed
<1>1. OutputsInv => RulesFailClosed
  BY DEF OutputsInv
<1>2. QED
  BY <1>1, OutputsInvariant, PTL

\* If key writers keep ids unique to their namespace, no state between the two
\* writes lets a key reach a model of a namespace that does not hold the key.
THEOREM KeysConfined == ASSUME IdsPerNamespace PROVE Spec => []KeysStayInNamespace
<1>1. TypeInv /\ OutputsInv => KeysStayInNamespace
  <2> SUFFICES ASSUME TypeInv, OutputsInv,
                      NEW r \in policy.rules, r.id \in DOMAIN credentials.data
               PROVE  \E s \in KeySecrets :
                        /\ r.id \in IdsOf(s[1])
                        /\ credentials.data[r.id] \in ValuesOf(s[1])
                        /\ r.models \subseteq ModelsOf(s[1])
    BY DEF KeysStayInNamespace
  <2>1. r.id \in ValidIds
    <3>1. policy \in PolicyType
      BY DEF TypeInv, TypeOK
    <3>2. policy.rules \subseteq [id : Ids \cap ValidIds, models : SUBSET Models]
      BY <3>1 DEF PolicyType, NoPolicy
    <3>3. QED
      BY <3>2
  <2>2. r.id # Placeholder
    BY <2>1, ValidIdsAssumption
  <2>3. PICK s \in KeySecrets : r.id \in IdsOf(s[1]) /\ r.models \subseteq ModelsOf(s[1])
    BY DEF OutputsInv, RulesHome
  <2>4. PICK t \in KeySecrets : r.id \in IdsOf(t[1]) /\ credentials.data[r.id] \in ValuesOf(t[1])
    BY <2>2 DEF OutputsInv, CredentialsHome
  <2>5. s[1] = t[1]
    BY <2>1, <2>3, <2>4 DEF IdsPerNamespace
  <2>6. QED
    BY <2>3, <2>4, <2>5
<1>2. QED
  BY <1>1, TypeInvariant, OutputsInvariant, PTL

-----------------------------------------------------------------------------
(* The order of the two writes. *)

\* The order of the writes holds initially.
LEMMA OrderInit == Init => OneGateway /\ WritesOrdered
<1> SUFFICES ASSUME Init PROVE OneGateway /\ WritesOrdered
  OBVIOUS
<1>1. cGateway = gateway /\ run.gateway = NoGateway
      /\ credentials.owner = NoGateway /\ policy.owner = NoGateway /\ gatewayWatch = <<>>
  BY DEF Init, NoRun, NoCredentials, NoPolicy
<1>2. OneGateway
  BY <1>1 DEF OneGateway
<1>3. pc = "idle" /\ policy = NoPolicy
  BY DEF Init
<1>4. QED
  BY <1>2, <1>3 DEF WritesOrdered, PolicyHasCredentials

\* Who owns the outputs when nobody removes a Gateway.
LEMMA OwnedByGateway ==
    ASSUME TypeInv, OneGateway
    PROVE  /\ credentials # NoCredentials => credentials.owner = gateway
           /\ policy # NoPolicy => policy.owner = gateway
<1>1. credentials \in CredentialsType /\ policy \in PolicyType
  BY DEF TypeInv, TypeOK
<1>2. credentials # NoCredentials => credentials.owner # NoGateway
  BY <1>1 DEF CredentialsType
<1>3. policy # NoPolicy => policy.owner # NoGateway
  BY <1>1 DEF PolicyType
<1>4. QED
  BY <1>2, <1>3 DEF OneGateway

\* While nobody deletes the Gateway, everything read or written is about that one.
LEMMA OneGatewayNext ==
    ASSUME ~AllowRemoval, TypeInv, OneGateway, [Next]_vars
    PROVE  OneGateway'
<1> USE DEF inputs, outputs, caches, watches, renderer
<1>0. NoRun.gateway = NoGateway
  BY DEF NoRun
<1>1. CASE UNCHANGED vars
  BY <1>1 DEF vars, OneGateway
<1>2. CASE DeliverGateway
  <2>1. gatewayWatch \in Seq(Uids) /\ gatewayWatch # <<>>
    BY <1>2 DEF DeliverGateway, TypeInv, TypeOK
  <2>2. \A i \in DOMAIN Tail(gatewayWatch) : i + 1 \in DOMAIN gatewayWatch
                                             /\ Tail(gatewayWatch)[i] = gatewayWatch[i + 1]
    BY <2>1
  <2>3. 1 \in DOMAIN gatewayWatch /\ Head(gatewayWatch) = gatewayWatch[1]
    BY <2>1
  <2>4. cGateway' = Head(gatewayWatch) /\ gatewayWatch' = Tail(gatewayWatch)
        /\ UNCHANGED <<gateway, run, credentials, policy>>
    BY <1>2 DEF DeliverGateway
  <2>5. cGateway' \in {NoGateway, gateway}
    BY <2>3, <2>4 DEF OneGateway
  <2>6. \A i \in DOMAIN gatewayWatch' : gatewayWatch'[i] \in {NoGateway, gateway}
    BY <2>2, <2>4 DEF OneGateway
  <2>7. QED
    BY <2>4, <2>5, <2>6 DEF OneGateway
<1>3. CASE CreateGateway
  <2>1. gateway = NoGateway /\ UNCHANGED <<cGateway, run, credentials, policy>>
    BY <1>3 DEF CreateGateway
  <2>2. gatewayWatch \in Seq(Uids) /\ gatewayWatch' = Append(gatewayWatch, gateway')
    BY <1>3 DEF CreateGateway, EmitGateway, TypeInv, TypeOK
  <2>3. \A i \in DOMAIN gatewayWatch' : gatewayWatch'[i] = gateway'
                                        \/ (i \in DOMAIN gatewayWatch /\ gatewayWatch'[i] = gatewayWatch[i])
    <3>1. gateway' \in Uids
      BY TypeStep DEF TypeInv, TypeOK
    <3>2. gatewayWatch \in Seq(Uids)
      BY <2>2
    <3>3. gatewayWatch' = Append(gatewayWatch, gateway')
      BY <2>2
    <3>4. /\ DOMAIN gatewayWatch' = 1 .. Len(gatewayWatch) + 1
          /\ DOMAIN gatewayWatch = 1 .. Len(gatewayWatch) /\ Len(gatewayWatch) \in Nat
      BY <3>1, <3>2, <3>3
    <3>5. gatewayWatch'[Len(gatewayWatch) + 1] = gateway'
      BY <3>1, <3>2, <3>3
    <3>6. \A i \in 1 .. Len(gatewayWatch) : gatewayWatch'[i] = gatewayWatch[i]
      BY <3>1, <3>2, <3>3
    <3>7. QED
      BY <3>4, <3>5, <3>6
  <2>4. QED
    BY <2>1, <2>3 DEF OneGateway
<1>4. CASE \E a \in AuthModes : Restart(a)
  <2>1. cGateway' = gateway /\ gatewayWatch' = <<>> /\ run' = NoRun
        /\ UNCHANGED <<gateway, credentials, policy>>
    <3>1. PICK a \in AuthModes : Restart(a)
      BY <1>4
    <3>2. QED
      BY <3>1 DEF Restart
  <2>2. QED
    BY <1>0, <2>1 DEF OneGateway
<1>5. CASE Writes \/ WriteFails \/ AnswerLost
  <2>1. UNCHANGED <<gateway, cGateway, gatewayWatch>>
    BY <1>5 DEF Writes, RenderCredentials, RenderPolicy, DeletePolicyStep, DeleteCredentialsStep,
         WriteFails, AnswerLost, ApplyCredentials, ApplyPolicy, RemoveCredentials, RemovePolicy
  <2>2. run' = run \/ run' = NoRun
    BY <1>5 DEF Writes, RenderCredentials, RenderPolicy, DeletePolicyStep, DeleteCredentialsStep,
         WriteFails, AnswerLost, Goto, Finish, Retry
  <2>3. \/ UNCHANGED <<credentials, policy>>
        \/ credentials' = NoCredentials /\ UNCHANGED policy
        \/ policy' = NoPolicy /\ UNCHANGED credentials
        \/ credentials'.owner = run.gateway /\ UNCHANGED policy
        \/ policy'.owner = run.gateway /\ UNCHANGED credentials
    <3>1. OutputStep
      BY StepsTouchOutputs
    <3>2. CASE ApplyCredentials
      BY <3>2 DEF ApplyCredentials
    <3>3. CASE ApplyPolicy
      BY <3>3 DEF ApplyPolicy
    <3>4. QED
      BY <3>1, <3>2, <3>3 DEF OutputStep
  <2>4. /\ credentials'.owner \in {NoGateway, gateway}
        /\ policy'.owner \in {NoGateway, gateway}
    BY <2>3 DEF OneGateway, NoCredentials, NoPolicy
  <2>5. run'.gateway \in {NoGateway, gateway}
    BY <1>0, <2>2 DEF OneGateway
  <2>6. QED
    BY <2>1, <2>4, <2>5 DEF OneGateway
<1>6. CASE GetGateway
  <2>1. run'.gateway \in {NoGateway, cGateway}
    <3>1. CASE cGateway = NoGateway
      BY <1>0, <1>6, <3>1 DEF GetGateway, Retry
    <3>2. CASE cGateway # NoGateway
      BY <1>6, <3>2 DEF GetGateway, TypeInv, TypeOK
    <3>3. QED
      BY <3>1, <3>2
  <2>2. UNCHANGED <<gateway, cGateway, gatewayWatch, credentials, policy>>
    BY <1>6 DEF GetGateway
  <2>3. QED
    BY <2>1, <2>2 DEF OneGateway
<1>7. CASE Reads /\ ~GetGateway
  <2>1. run'.gateway = run.gateway /\ UNCHANGED <<gateway, cGateway, gatewayWatch, credentials, policy>>
    BY <1>7 DEF Reads, Start, ListSecrets, ListRoutes, placeholderKey, TypeInv, TypeOK
  <2>2. QED
    BY <2>1 DEF OneGateway
<1>8. CASE Collect
  <2>1. UNCHANGED <<gateway, cGateway, gatewayWatch, run>>
    BY <1>8 DEF Collect, CollectCredentials, CollectPolicy, RemoveCredentials, RemovePolicy
  <2>2. \/ credentials' = NoCredentials /\ UNCHANGED policy
        \/ policy' = NoPolicy /\ UNCHANGED credentials
    BY <1>8 DEF Collect, CollectCredentials, CollectPolicy, RemoveCredentials, RemovePolicy
  <2>3. QED
    BY <2>1, <2>2 DEF OneGateway, NoCredentials, NoPolicy
<1>9. CASE DeliverSecret \/ DeliverRoute \/ DeliverPolicy \/ Resync
  BY <1>9 DEF DeliverSecret, DeliverRoute, DeliverPolicy, Resync, OneGateway
<1>10. CASE \/ \E s \in KeySecrets : DeleteSecret(s) \/ \E c \in SecretContent[s] : WriteSecret(s, c)
            \/ \E r \in RouteNames : DeleteRoute(r) \/ \E c \in RouteContent[r] : WriteRoute(r, c)
  BY <1>10 DEF DeleteSecret, WriteSecret, DeleteRoute, WriteRoute, OneGateway
<1>11. ~DeleteGateway /\ ~DriftCredentials /\ ~DriftPolicy
  BY DEF DeleteGateway, DriftCredentials, DriftPolicy
<1>12. QED
  BY <1>1, <1>2, <1>3, <1>4, <1>5, <1>6, <1>7, <1>8, <1>9, <1>10, <1>11 DEF Next, Others, Deliver

\* Reconcile applies the Secret before the policy, deleteOutputs deletes it after.
LEMMA WritesOrderedNext ==
    ASSUME ~AllowRemoval, TypeInv, OneGateway, WritesOrdered, [Next]_vars
    PROVE  WritesOrdered'
<1> USE DEF inputs, outputs, caches, watches, renderer, PolicyHasCredentials
<1>1. CASE UNCHANGED <<credentials, policy>> /\ (pc' = pc \/ pc' \notin {"policy", "deleteCredentials"})
  BY <1>1 DEF WritesOrdered
<1>2. CASE Writes
  <2>1. CASE RenderCredentials
    <3>1. credentials'.owner = run.gateway /\ run.gateway # NoGateway
      BY <2>1 DEF RenderCredentials, ApplyCredentials, TypeInv, RunOK
    <3>2. credentials' # NoCredentials
      BY <3>1 DEF NoCredentials
    <3>3. pc' = "policy"
      BY <2>1 DEF RenderCredentials, Goto
    <3>4. QED
      BY <3>2, <3>3 DEF WritesOrdered
  <2>2. CASE RenderPolicy
    BY <2>2 DEF RenderPolicy, ApplyPolicy, Finish, WritesOrdered
  <2>3. CASE DeletePolicyStep
    BY <2>3 DEF DeletePolicyStep, RemovePolicy, Goto, WritesOrdered
  <2>4. CASE DeleteCredentialsStep
    BY <2>4 DEF DeleteCredentialsStep, RemoveCredentials, Finish, WritesOrdered
  <2>5. QED
    BY <1>2, <2>1, <2>2, <2>3, <2>4 DEF Writes
<1>3. CASE AnswerLost
  <2>1. pc' = "idle"
    BY <1>3 DEF AnswerLost, Retry
  <2>2. CASE pc = "credentials" /\ ApplyCredentials
    <3>1. credentials'.owner = run.gateway /\ run.gateway # NoGateway
      BY <2>2 DEF ApplyCredentials, TypeInv, RunOK
    <3>2. credentials' # NoCredentials
      BY <3>1 DEF NoCredentials
    <3>3. QED
      BY <2>1, <3>2 DEF WritesOrdered
  <2>3. CASE pc = "policy" /\ ApplyPolicy
    BY <2>1, <2>3 DEF ApplyPolicy, WritesOrdered
  <2>4. CASE pc = "deletePolicy" /\ RemovePolicy
    BY <2>1, <2>4 DEF RemovePolicy, WritesOrdered
  <2>5. CASE pc = "deleteCredentials" /\ RemoveCredentials
    BY <2>1, <2>5 DEF RemoveCredentials, WritesOrdered
  <2>6. QED
    BY <1>3, <2>2, <2>3, <2>4, <2>5 DEF AnswerLost
<1>4. ~Collect /\ ~DriftCredentials /\ ~DriftPolicy
  BY OwnedByGateway DEF Collect, CollectCredentials, CollectPolicy, DriftCredentials, DriftPolicy
<1>5. CASE UNCHANGED vars
  BY <1>1, <1>5 DEF vars
<1>6. CASE Deliver \/ Resync
  BY <1>1, <1>6 DEF Deliver, DeliverSecret, DeliverRoute, DeliverGateway, DeliverPolicy, Resync
<1>7. CASE Reads
  <2>1. UNCHANGED <<credentials, policy>>
    BY <1>7 DEF Reads, Start, GetGateway, ListSecrets, ListRoutes, placeholderKey
  <2>2. pc' \notin {"policy", "deleteCredentials"}
    BY <1>7 DEF Reads, Start, GetGateway, ListSecrets, ListRoutes, placeholderKey, Goto, Retry
  <2>3. QED
    BY <1>1, <2>1, <2>2
<1>8. CASE WriteFails
  BY <1>1, <1>8 DEF WriteFails, Retry
<1>9. CASE Others
  <2>1. UNCHANGED <<credentials, policy>> /\ (pc' = pc \/ pc' = "idle")
    BY <1>4, <1>9 DEF Others, WriteSecret, DeleteSecret, WriteRoute, DeleteRoute, CreateGateway,
         DeleteGateway, Restart
  <2>2. QED
    BY <1>1, <2>1
<1>10. QED
  BY <1>2, <1>3, <1>4, <1>5, <1>6, <1>7, <1>8, <1>9 DEF Next

\* If only the renderer removes its outputs and the Gateway stays, the policy
\* never stands without the credentials Secret it refers to.
THEOREM PolicyAfterCredentials == ASSUME ~AllowRemoval PROVE Spec => []PolicyHasCredentials
<1>1. Init => OneGateway /\ WritesOrdered
  BY OrderInit
<1>2. TypeInv /\ OneGateway /\ WritesOrdered /\ [Next]_vars => OneGateway' /\ WritesOrdered'
  BY OneGatewayNext, WritesOrderedNext
<1>3. WritesOrdered => PolicyHasCredentials
  BY DEF WritesOrdered
<1>4. QED
  BY <1>1, <1>2, <1>3, TypeInvariant, PTL DEF Spec

-----------------------------------------------------------------------------
(* No update is lost. *)

\* Is an event of a key Secret or of an output still under way behind the k oldest?
WakeBehind(k) == \E i \in DOMAIN secretWatch : i > k /\ secretWatch[i].wake

\* Will the renderer run again even if nothing else happens?
Woken == queued \/ WakeBehind(0) \/ routeWatch # <<>> \/ gatewayWatch # <<>> \/ policyWatch

\* The Secrets the cache shows once the k oldest events have arrived.
SecretView(k) == IF k = 0 THEN cSecrets ELSE secretWatch[k].secrets

\* A view may differ from the API server in labelled Secrets only while an event
\* that wakes the renderer is still to come.
SecretsAgree ==
    \A k \in 0 .. Len(secretWatch) :
        WakeBehind(k) \/ LabelledSecrets(SecretView(k)) = LabelledSecrets(secrets)

\* The newest route or Gateway event, or the cache when there is none, is current.
Newest(cache, watch) == IF watch = <<>> THEN cache ELSE watch[Len(watch)]
RoutesAgree == routes = Newest(cRoutes, routeWatch)
GatewayAgrees == gateway = Newest(cGateway, gatewayWatch)
ViewsAgree == SecretsAgree /\ RoutesAgree /\ GatewayAgrees

\* What the running Reconcile must have in hand at each step if it is the last
\* one: nothing will wake the renderer after it.
LastRun ==
    /\ pc = "idle" => UpToDate
    /\ pc \in {"gateway", "secrets", "routes", "placeholder", "credentials", "policy"} => auth
    /\ pc \in {"secrets", "routes", "placeholder", "credentials", "policy"} => run.gateway = gateway
    /\ pc \in {"routes", "placeholder", "credentials", "policy"} =>
           run.secrets = LabelledSecrets(secrets)
    /\ pc \in {"placeholder", "credentials", "policy"} => run.routes = routes
    /\ pc = "policy" =>
           /\ credentials.owner = gateway
           /\ credentials.data = buildGatewayCredentials(credentials.data[Placeholder], Keys)
    /\ pc \in {"deletePolicy", "deleteCredentials"} => ~auth
    /\ pc = "deleteCredentials" => policy = NoPolicy

\* Head is the first entry of a watch, Tail has the others.
LEMMA TailEntries ==
    ASSUME NEW T, NEW q \in Seq(T), q # <<>>
    PROVE  /\ Len(q) \in Nat \ {0} /\ Len(Tail(q)) = Len(q) - 1 /\ Head(q) = q[1]
           /\ \A i \in 1 .. Len(q) - 1 : Tail(q)[i] = q[i + 1]
OBVIOUS

\* A watch is empty when it has no entries.
LEMMA EmptyWatch == ASSUME NEW T, NEW q \in Seq(T) PROVE q = <<>> <=> Len(q) = 0
OBVIOUS

\* Append adds its entry behind the others.
LEMMA AppendEntries ==
    ASSUME NEW T, NEW q \in Seq(T), NEW e \in T
    PROVE  /\ Len(q) \in Nat /\ Len(Append(q, e)) = Len(q) + 1
           /\ Append(q, e)[Len(q) + 1] = e
           /\ \A i \in 1 .. Len(q) : Append(q, e)[i] = q[i]
OBVIOUS

\* Delivering the oldest Secret event shifts the views by one.
LEMMA DeliverViews ==
    ASSUME TypeInv, SecretsAgree, DeliverSecret
    PROVE  SecretsAgree' /\ (WakeBehind(0) => Head(secretWatch).wake \/ WakeBehind(0)')
<1>1. /\ secretWatch \in Seq(SecretEvents) /\ secretWatch # <<>>
      /\ secretWatch' = Tail(secretWatch) /\ cSecrets' = Head(secretWatch).secrets
      /\ secrets' = secrets
  BY DEF DeliverSecret, TypeInv, TypeOK, inputs
<1> DEFINE n == Len(secretWatch)
<1>2. /\ n \in Nat \ {0} /\ Len(secretWatch') = n - 1 /\ Head(secretWatch) = secretWatch[1]
      /\ \A i \in 1 .. n - 1 : secretWatch'[i] = secretWatch[i + 1]
      /\ DOMAIN secretWatch = 1 .. n
  BY <1>1, TailEntries
<1>3. DOMAIN secretWatch' = 1 .. n - 1
  BY <1>1, <1>2
<1> HIDE DEF n
<1>4. ASSUME NEW k \in Nat, WakeBehind(k + 1) PROVE WakeBehind(k)'
  <2>1. PICK i \in DOMAIN secretWatch : i > k + 1 /\ secretWatch[i].wake
    BY <1>4 DEF WakeBehind
  <2>2. i - 1 \in 1 .. n - 1 /\ i - 1 > k /\ secretWatch'[i - 1] = secretWatch[i]
    BY <1>2, <2>1
  <2>3. QED
    BY <1>3, <2>1, <2>2 DEF WakeBehind
<1>5. ASSUME NEW k \in 0 .. n - 1 PROVE SecretView(k)' = SecretView(k + 1)
  <2>1. CASE k = 0
    BY <1>1, <1>2, <2>1 DEF SecretView
  <2>2. CASE k # 0
    BY <1>2, <2>2 DEF SecretView
  <2>3. QED
    BY <2>1, <2>2
<1>6. SecretsAgree'
  <2> SUFFICES ASSUME NEW k \in 0 .. n - 1, ~WakeBehind(k)'
               PROVE  LabelledSecrets(SecretView(k)') = LabelledSecrets(secrets)
    BY <1>1, <1>2 DEF SecretsAgree, n
  <2>1. k + 1 \in 0 .. n /\ k \in Nat /\ ~WakeBehind(k + 1)
    BY <1>2, <1>4
  <2>2. QED
    BY <1>5, <2>1 DEF SecretsAgree, n
<1>7. WakeBehind(0) => Head(secretWatch).wake \/ WakeBehind(0)'
  <2> SUFFICES ASSUME NEW i \in DOMAIN secretWatch, secretWatch[i].wake, i # 1
               PROVE  WakeBehind(0)'
    BY <1>2 DEF WakeBehind
  <2>1. WakeBehind(0 + 1)
    BY <1>2 DEF WakeBehind
  <2>2. QED
    BY <1>4, <2>1
<1>8. QED
  BY <1>6, <1>7

\* A new Secret event is the newest view; unless it wakes the renderer, it must
\* show the labelled Secrets there were before.
LEMMA EmitViews ==
    ASSUME TypeInv, TypeInv', SecretsAgree, NEW w \in BOOLEAN, EmitSecret(w), cSecrets' = cSecrets,
           w \/ LabelledSecrets(secrets') = LabelledSecrets(secrets)
    PROVE  SecretsAgree' /\ (w => WakeBehind(0)') /\ (WakeBehind(0) => WakeBehind(0)')
<1>0. secretWatch \in Seq(SecretEvents) /\ secretWatch' \in Seq(SecretEvents)
  BY DEF TypeInv, TypeOK
<1>1. PICK e \in SecretEvents :
         /\ e = [secrets |-> secrets', credentials |-> credentials', wake |-> w]
         /\ secretWatch' = Append(secretWatch, e)
  BY DEF EmitSecret, TypeInv, TypeOK, SecretEvents
<1>2. PICK n \in Nat : n = Len(secretWatch)
  BY <1>0
<1>3. /\ Len(secretWatch') = n + 1 /\ secretWatch'[n + 1] = e
      /\ \A i \in 1 .. n : secretWatch'[i] = secretWatch[i]
  BY <1>0, <1>1, <1>2, AppendEntries
<1>4. /\ DOMAIN secretWatch = 1 .. n /\ DOMAIN secretWatch' = 1 .. n + 1
      /\ e.secrets = secrets' /\ (w => e.wake)
  BY <1>0, <1>1, <1>2, <1>3
<1>5. \A k \in Nat : WakeBehind(k) => WakeBehind(k)'
  BY <1>3, <1>4 DEF WakeBehind
<1>6. ASSUME w, NEW k \in 0 .. n PROVE WakeBehind(k)'
  <2>1. n + 1 \in DOMAIN secretWatch' /\ n + 1 > k /\ secretWatch'[n + 1].wake
    BY <1>3, <1>4, <1>6
  <2>2. QED
    BY <2>1 DEF WakeBehind
<1>7. ASSUME NEW k \in 0 .. n PROVE SecretView(k)' = SecretView(k)
  BY <1>3 DEF SecretView
<1>8. SecretView(n + 1)' = secrets'
  BY <1>2, <1>3, <1>4 DEF SecretView
<1>9. ASSUME NEW k \in 0 .. n + 1, ~WakeBehind(k)'
      PROVE  LabelledSecrets(SecretView(k)') = LabelledSecrets(secrets')
  <2>1. CASE k = n + 1
    BY <1>8, <2>1
  <2>2. CASE k # n + 1
    <3>1. k \in 0 .. n
      BY <1>2, <2>2
    <3>2. ~WakeBehind(k) /\ LabelledSecrets(secrets') = LabelledSecrets(secrets)
      BY <1>2, <1>5, <1>6, <1>9, <3>1
    <3>3. QED
      BY <1>2, <1>7, <3>1, <3>2 DEF SecretsAgree
  <2>3. QED
    BY <2>1, <2>2
<1>10. SecretsAgree'
  BY <1>3, <1>9 DEF SecretsAgree
<1>11. QED
  BY <1>2, <1>5, <1>6, <1>10

\* A writer that never takes the label off leaves the labelled Secrets alone when
\* its write passes the watch's predicate on neither side (WriteSecret, DeleteSecret).
LEMMA UnlabelledWrites ==
    ASSUME ~AllowUnlabel, NEW s
    PROVE  /\ \A c : WriteSecret(s, c) /\ ~isAIGatewayKeySecret(c)
                       => LabelledSecrets(secrets') = LabelledSecrets(secrets)
           /\ DeleteSecret(s) /\ ~isAIGatewayKeySecret(secrets[s])
                       => LabelledSecrets(secrets') = LabelledSecrets(secrets)
<1> DEFINE On(S) == {x \in DOMAIN S : isAIGatewayKeySecret(S[x])}
<1>1. ASSUME NEW S, NEW T, On(S) = On(T), \A x \in On(S) : S[x] = T[x]
      PROVE  LabelledSecrets(S) = LabelledSecrets(T)
  BY <1>1 DEF LabelledSecrets
<1>2. ASSUME NEW c, WriteSecret(s, c), ~isAIGatewayKeySecret(c)
      PROVE  LabelledSecrets(secrets') = LabelledSecrets(secrets)
  <2>1. s \in DOMAIN secrets => ~isAIGatewayKeySecret(secrets[s])
    BY <1>2 DEF WriteSecret, isAIGatewayKeySecret
  <2>2. /\ DOMAIN secrets' = DOMAIN secrets \cup {s} /\ secrets'[s] = c
        /\ \A x \in DOMAIN secrets \ {s} : secrets'[x] = secrets[x]
    BY <1>2 DEF WriteSecret, Put
  <2>3. On(secrets') = On(secrets) /\ \A x \in On(secrets) : secrets'[x] = secrets[x]
    BY <1>2, <2>1, <2>2
  <2> HIDE DEF On
  <2>4. QED
    BY <1>1, <2>3
<1>3. ASSUME DeleteSecret(s), ~isAIGatewayKeySecret(secrets[s])
      PROVE  LabelledSecrets(secrets') = LabelledSecrets(secrets)
  <2>1. /\ DOMAIN secrets' = DOMAIN secrets \ {s}
        /\ \A x \in DOMAIN secrets \ {s} : secrets'[x] = secrets[x]
    BY <1>3 DEF DeleteSecret, Remove
  <2>2. On(secrets') = On(secrets) /\ \A x \in On(secrets) : secrets'[x] = secrets[x]
    BY <1>3, <2>1
  <2> HIDE DEF On
  <2>3. QED
    BY <1>1, <2>2
<1>4. QED
  BY <1>2, <1>3

\* A Secret event is emitted; it wakes the renderer or is about no labelled Secret.
SecretEmitted ==
    \E w \in BOOLEAN :
        /\ EmitSecret(w) /\ cSecrets' = cSecrets
        /\ w \/ LabelledSecrets(secrets') = LabelledSecrets(secrets)

\* The four ways a step moves the Secrets, their cache and the events between.
LEMMA SecretSteps ==
    ASSUME ~AllowUnlabel, TypeInv, [Next]_vars
    PROVE  \/ UNCHANGED <<secrets, cSecrets, secretWatch>>
           \/ SecretEmitted
           \/ DeliverSecret
           \/ \E a \in AuthModes : Restart(a)
<1> USE DEF inputs, outputs, caches, watches, renderer
<1>1. RemoveCredentials => SecretEmitted
  <2>1. SUFFICES ASSUME RemoveCredentials PROVE EmitSecret(TRUE) /\ cSecrets' = cSecrets
    BY DEF SecretEmitted
  <2>2. QED
    BY <2>1 DEF RemoveCredentials
<1>2. ApplyCredentials => UNCHANGED <<secrets, cSecrets, secretWatch>> \/ SecretEmitted
  <2>1. SUFFICES ASSUME ApplyCredentials, credentials' # credentials
                 PROVE  EmitSecret(TRUE) /\ cSecrets' = cSecrets
    BY DEF SecretEmitted, ApplyCredentials
  <2>2. QED
    BY <2>1 DEF ApplyCredentials
<1>3. ApplyPolicy \/ RemovePolicy => UNCHANGED <<secrets, cSecrets, secretWatch>>
  BY DEF ApplyPolicy, RemovePolicy
<1>4. ASSUME NEW s \in KeySecrets, NEW c \in SecretContent[s], WriteSecret(s, c) PROVE SecretEmitted
  <2>1. isAIGatewayKeySecret(c) \in BOOLEAN
    BY LabelAssumption DEF isAIGatewayKeySecret
  <2>2. isAIGatewayKeySecret(c) \/ LabelledSecrets(secrets') = LabelledSecrets(secrets)
    BY <1>4, UnlabelledWrites
  <2>3. EmitSecret(isAIGatewayKeySecret(c)) /\ cSecrets' = cSecrets
    BY <1>4 DEF WriteSecret
  <2>4. QED
    BY <2>1, <2>2, <2>3 DEF SecretEmitted
<1>5. ASSUME NEW s \in KeySecrets, DeleteSecret(s) PROVE SecretEmitted
  <2>1. secrets[s] \in SecretContent[s]
    BY <1>5, StoreUse DEF DeleteSecret, TypeInv, TypeOK, SecretStores
  <2>2. isAIGatewayKeySecret(secrets[s]) \in BOOLEAN
    BY <2>1, LabelAssumption DEF isAIGatewayKeySecret
  <2>3. isAIGatewayKeySecret(secrets[s]) \/ LabelledSecrets(secrets') = LabelledSecrets(secrets)
    BY <1>5, UnlabelledWrites
  <2>4. EmitSecret(isAIGatewayKeySecret(secrets[s])) /\ cSecrets' = cSecrets
    BY <1>5 DEF DeleteSecret
  <2>5. QED
    BY <2>2, <2>3, <2>4 DEF SecretEmitted
<1>6. CASE UNCHANGED vars
  BY <1>6 DEF vars
<1>7. CASE Others
  <2>1. CASE \E s \in KeySecrets : DeleteSecret(s) \/ \E c \in SecretContent[s] : WriteSecret(s, c)
    BY <1>4, <1>5, <2>1
  <2>2. CASE \E r \in RouteNames : DeleteRoute(r) \/ \E c \in RouteContent[r] : WriteRoute(r, c)
    BY <2>2 DEF DeleteRoute, WriteRoute
  <2>3. CASE CreateGateway \/ DeleteGateway
    BY <2>3 DEF CreateGateway, DeleteGateway
  <2>4. CASE DriftCredentials \/ DriftPolicy
    BY <1>1, <1>3, <2>4 DEF DriftCredentials, DriftPolicy
  <2>5. QED
    BY <1>7, <2>1, <2>2, <2>3, <2>4 DEF Others
<1>8. CASE Deliver \/ Resync
  BY <1>8 DEF Deliver, DeliverRoute, DeliverGateway, DeliverPolicy, Resync
<1>9. CASE Collect
  BY <1>1, <1>3, <1>9 DEF Collect, CollectCredentials, CollectPolicy
<1>10. CASE Reads
  BY <1>10 DEF Reads, Start, GetGateway, ListSecrets, ListRoutes, placeholderKey
<1>11. CASE Writes \/ WriteFails \/ AnswerLost
  BY <1>1, <1>2, <1>3, <1>11 DEF Writes, RenderCredentials, RenderPolicy, DeletePolicyStep,
     DeleteCredentialsStep, WriteFails, AnswerLost
<1>12. QED
  BY <1>6, <1>7, <1>8, <1>9, <1>10, <1>11 DEF Next

\* No step makes a view of the Secrets stale without waking the renderer.
LEMMA SecretsAgreeNext ==
    ASSUME ~AllowUnlabel, TypeInv, TypeInv', SecretsAgree, [Next]_vars PROVE SecretsAgree'
<1>1. CASE UNCHANGED <<secrets, cSecrets, secretWatch>>
  BY <1>1 DEF SecretsAgree, SecretView, WakeBehind
<1>2. CASE SecretEmitted
  BY <1>2, EmitViews DEF SecretEmitted
<1>3. CASE DeliverSecret
  BY <1>3, DeliverViews
<1>4. CASE \E a \in AuthModes : Restart(a)
  BY <1>4 DEF Restart, inputs, SecretsAgree, SecretView
<1>5. QED
  BY <1>1, <1>2, <1>3, <1>4, SecretSteps

\* Delivering an event does not change the newest one; emitting an event does.
LEMMA NewestEntries ==
    ASSUME NEW T, NEW q \in Seq(T)
    PROVE  /\ \A c : q # <<>> => Newest(Head(q), Tail(q)) = Newest(c, q)
           /\ \A c, e : e \in T => Newest(c, Append(q, e)) = e
<1>1. ASSUME NEW c, q # <<>> PROVE Newest(Head(q), Tail(q)) = Newest(c, q)
  <2>1. PICK n \in Nat \ {0} : n = Len(q)
    BY <1>1, TailEntries
  <2>2. /\ Tail(q) \in Seq(T) /\ Len(Tail(q)) = n - 1 /\ Head(q) = q[1]
        /\ \A i \in 1 .. n - 1 : Tail(q)[i] = q[i + 1]
    BY <1>1, <2>1, TailEntries, TailTyped
  <2>3. CASE n = 1
    <3>1. ASSUME NEW t \in Seq(T), Len(t) = 0 PROVE t = <<>>
      BY <3>1, EmptyWatch
    <3>2. Len(Tail(q)) = 0
      BY <2>2, <2>3
    <3>3. Tail(q) = <<>>
      BY <2>2, <3>1, <3>2
    <3>4. QED
      BY <1>1, <2>1, <2>2, <2>3, <3>3 DEF Newest
  <2>4. CASE n # 1
    <3>1. Tail(q) # <<>> /\ n - 1 \in 1 .. n - 1 /\ (n - 1) + 1 = n
      <4>1. n - 1 # 0 /\ n - 1 \in 1 .. n - 1 /\ (n - 1) + 1 = n
        BY <2>1, <2>4
      <4>2. Len(Tail(q)) # 0 /\ Tail(q) \in Seq(T)
        BY <2>2, <4>1
      <4>3. Tail(q) # <<>>
        BY <4>2, EmptyWatch, Zenon
      <4>4. QED
        BY <4>1, <4>3
    <3>2. Tail(q)[n - 1] = q[n]
      BY <2>2, <3>1
    <3>3. QED
      BY <1>1, <2>1, <2>2, <3>1, <3>2 DEF Newest
  <2>5. QED
    BY <2>3, <2>4
<1>2. ASSUME NEW c, NEW e \in T PROVE Newest(c, Append(q, e)) = e
  <2>1. PICK n \in Nat : n = Len(q)
    OBVIOUS
  <2>2. Len(Append(q, e)) = n + 1 /\ Append(q, e)[n + 1] = e /\ Append(q, e) # <<>>
    BY <2>1, AppendEntries
  <2>3. QED
    BY <2>2 DEF Newest
<1>3. QED
  BY <1>1, <1>2

\* No step leaves the newest route event behind the API server.
LEMMA RoutesAgreeNext == ASSUME TypeInv, TypeInv', RoutesAgree, [Next]_vars PROVE RoutesAgree'
<1> USE DEF inputs, outputs, caches, watches, renderer
<1>0. routeWatch \in Seq(RouteStores) /\ routes' \in RouteStores
  BY DEF TypeInv, TypeOK
<1>1. CASE UNCHANGED <<routes, cRoutes, routeWatch>>
  BY <1>1 DEF RoutesAgree, Newest
<1>2. CASE EmitRoute
  BY <1>0, <1>2, NewestEntries DEF EmitRoute, RoutesAgree
<1>3. CASE DeliverRoute
  BY <1>0, <1>3, NewestEntries DEF DeliverRoute, RoutesAgree
<1>4. CASE \E a \in AuthModes : Restart(a)
  BY <1>4 DEF Restart, RoutesAgree, Newest
<1>5. QED
  BY <1>1, <1>2, <1>3, <1>4
     DEF Next, vars, Others, WriteSecret, DeleteSecret, WriteRoute, DeleteRoute, CreateGateway,
         DeleteGateway, DriftCredentials, DriftPolicy, Deliver, DeliverSecret, DeliverGateway,
         DeliverPolicy, Resync, Collect, CollectCredentials, CollectPolicy, RemoveCredentials,
         RemovePolicy, Reads, Start, GetGateway, ListSecrets, ListRoutes, placeholderKey,
         Writes, RenderCredentials, RenderPolicy, DeletePolicyStep, DeleteCredentialsStep,
         WriteFails, AnswerLost, ApplyCredentials, ApplyPolicy

\* No step leaves the newest Gateway event behind the API server.
LEMMA GatewayAgreesNext == ASSUME TypeInv, TypeInv', GatewayAgrees, [Next]_vars PROVE GatewayAgrees'
<1> USE DEF inputs, outputs, caches, watches, renderer
<1>0. gatewayWatch \in Seq(Uids) /\ gateway' \in Uids
  BY DEF TypeInv, TypeOK
<1>1. CASE UNCHANGED <<gateway, cGateway, gatewayWatch>>
  BY <1>1 DEF GatewayAgrees, Newest
<1>2. CASE EmitGateway
  BY <1>0, <1>2, NewestEntries DEF EmitGateway, GatewayAgrees
<1>3. CASE DeliverGateway
  BY <1>0, <1>3, NewestEntries DEF DeliverGateway, GatewayAgrees
<1>4. CASE \E a \in AuthModes : Restart(a)
  BY <1>4 DEF Restart, GatewayAgrees, Newest
<1>5. QED
  BY <1>1, <1>2, <1>3, <1>4
     DEF Next, vars, Others, WriteSecret, DeleteSecret, WriteRoute, DeleteRoute, CreateGateway,
         DeleteGateway, DriftCredentials, DriftPolicy, Deliver, DeliverSecret, DeliverRoute,
         DeliverPolicy, Resync, Collect, CollectCredentials, CollectPolicy, RemoveCredentials,
         RemovePolicy, Reads, Start, GetGateway, ListSecrets, ListRoutes, placeholderKey,
         Writes, RenderCredentials, RenderPolicy, DeletePolicyStep, DeleteCredentialsStep,
         WriteFails, AnswerLost, ApplyCredentials, ApplyPolicy

\* What puts the request in the queue or an event on a watch leaves the renderer awake.
LEMMA Waking ==
    ASSUME TypeInv, TypeInv', SecretsAgree
    PROVE  /\ Retry => Woken'
           /\ EmitSecret(TRUE) /\ cSecrets' = cSecrets => Woken'
           /\ EmitRoute \/ EmitGateway => Woken'
           /\ RemoveCredentials \/ RemovePolicy => Woken'
           /\ ApplyCredentials /\ credentials' # credentials => Woken'
           /\ ApplyPolicy /\ policy' # policy => Woken'
<1> USE DEF caches
<1>1. Retry => Woken'
  BY DEF Retry, Woken
<1>2. EmitSecret(TRUE) /\ cSecrets' = cSecrets => Woken'
  BY EmitViews DEF Woken
<1>3. EmitRoute => Woken'
  <2>1. SUFFICES ASSUME EmitRoute PROVE routeWatch' # <<>>
    BY DEF Woken
  <2>2. routeWatch \in Seq(RouteStores) /\ routes' \in RouteStores
    BY DEF TypeInv, TypeOK
  <2>3. Len(routeWatch) \in Nat /\ Len(routeWatch') = Len(routeWatch) + 1
    BY <2>1, <2>2, AppendEntries DEF EmitRoute
  <2>4. QED
    BY <2>3
<1>4. EmitGateway => Woken'
  <2>1. SUFFICES ASSUME EmitGateway PROVE gatewayWatch' # <<>>
    BY DEF Woken
  <2>2. gatewayWatch \in Seq(Uids) /\ gateway' \in Uids
    BY DEF TypeInv, TypeOK
  <2>3. Len(gatewayWatch) \in Nat /\ Len(gatewayWatch') = Len(gatewayWatch) + 1
    BY <2>1, <2>2, AppendEntries DEF EmitGateway
  <2>4. QED
    BY <2>3
<1>5. RemoveCredentials \/ RemovePolicy => Woken'
  BY <1>2 DEF RemoveCredentials, RemovePolicy, Woken
<1>6. ApplyCredentials /\ credentials' # credentials => Woken'
  BY <1>2 DEF ApplyCredentials
<1>7. ApplyPolicy /\ policy' # policy => Woken'
  BY DEF ApplyPolicy, Woken
<1>8. QED
  BY <1>1, <1>2, <1>3, <1>4, <1>5, <1>6, <1>7

\* LastRun looks at the Secrets through the label selector only.
LastRunView == <<LabelledSecrets(secrets), routes, gateway, credentials, policy, auth, pc, run>>

\* A step that leaves what LastRun looks at alone keeps it.
LEMMA LastRunKept == ASSUME LastRun, UNCHANGED LastRunView PROVE LastRun'
BY DEF LastRun, LastRunView, UpToDate, Keys

\* A render that leaves the outputs as they were leaves them built from what was read.
LEMMA RenderKeeps ==
    ASSUME ViewsAgree, ~Woken, ~Woken', LastRun, TypeInv, TypeInv', Writes
    PROVE  LastRun'
<1> USE DEF inputs, outputs, caches, watches
<1>1. CASE RenderCredentials
  <2>1. ApplyCredentials /\ pc = "credentials" /\ pc' = "policy" /\ run' = run
    BY <1>1 DEF RenderCredentials, Goto
  <2>2. credentials' = credentials
    BY <2>1, Waking DEF ViewsAgree
  <2>3. UNCHANGED <<secrets, routes, gateway, policy, auth>>
    BY <2>1, <2>2 DEF ApplyCredentials
  <2>4. credentials = [owner |-> run.gateway, data |-> buildGatewayCredentials(run.placeholder, Keys)]
    BY <2>1, <2>2 DEF ApplyCredentials
  <2>5. credentials.data[Placeholder] = run.placeholder
    <3>1. CredentialsFor(buildGatewayCredentials(run.placeholder, Keys), run.placeholder, Keys)
      BY CredentialsOf DEF Keys
    <3>2. QED
      BY <2>4, <3>1 DEF CredentialsFor
  <2>6. run.gateway = gateway /\ Keys' = Keys
    BY <2>1 DEF LastRun, Keys
  <2>7. QED
    BY <2>1, <2>2, <2>3, <2>4, <2>5, <2>6 DEF LastRun
<1>2. CASE RenderPolicy
  <2>1. ApplyPolicy /\ pc = "policy" /\ pc' = "idle"
    BY <1>2 DEF RenderPolicy, Finish
  <2>2. policy' = policy
    BY <2>1, Waking DEF ViewsAgree
  <2>3. UNCHANGED <<secrets, routes, gateway, credentials, auth>>
    BY <2>1 DEF ApplyPolicy
  <2>4. policy = [owner |-> run.gateway, rules |-> buildGatewayAuthPolicy(Keys)]
    BY <2>1, <2>2 DEF ApplyPolicy
  <2>5. /\ run.gateway = gateway /\ auth
        /\ Keys = resolveGatewayKeys(LabelledSecrets(secrets), routes)
        /\ credentials.owner = gateway
        /\ credentials.data = buildGatewayCredentials(credentials.data[Placeholder], Keys)
    BY <2>1 DEF LastRun, Keys
  <2>6. UpToDate'
    BY <2>2, <2>3, <2>4, <2>5 DEF UpToDate
  <2>7. QED
    BY <2>1, <2>6 DEF LastRun
<1>3. CASE DeletePolicyStep
  <2>1. pc = "deletePolicy" /\ pc' = "deleteCredentials"
    BY <1>3 DEF DeletePolicyStep, Goto
  <2>2. policy = NoPolicy /\ UNCHANGED <<inputs, outputs, caches, watches, auth, edits>>
    BY <1>3, Waking DEF DeletePolicyStep, ViewsAgree
  <2>3. QED
    BY <2>1, <2>2 DEF LastRun
<1>4. CASE DeleteCredentialsStep
  <2>1. pc = "deleteCredentials" /\ pc' = "idle"
    BY <1>4 DEF DeleteCredentialsStep, Finish
  <2>2. credentials = NoCredentials /\ UNCHANGED <<inputs, outputs, caches, watches, auth, edits>>
    BY <1>4, Waking DEF DeleteCredentialsStep, ViewsAgree
  <2>3. ~auth /\ policy = NoPolicy
    BY <2>1 DEF LastRun
  <2>4. UpToDate'
    BY <2>2, <2>3 DEF UpToDate
  <2>5. QED
    BY <2>1, <2>4 DEF LastRun
<1>5. QED
  BY <1>1, <1>2, <1>3, <1>4 DEF Writes

\* With no event under way every read returns what the API server holds.
LEMMA ReadsAreCurrent ==
    ASSUME ViewsAgree, ~Woken, ~Woken', LastRun, TypeInv, TypeInv', Reads
    PROVE  LastRun'
<1> USE DEF inputs, outputs, caches, watches
<1>0. /\ cGateway = gateway /\ cRoutes = routes
      /\ LabelledSecrets(cSecrets) = LabelledSecrets(secrets)
  <2>0. secretWatch \in Seq(SecretEvents)
    BY DEF TypeInv, TypeOK
  <2>1. 0 \in 0 .. Len(secretWatch)
    BY <2>0
  <2>2. QED
    BY <2>1 DEF ViewsAgree, SecretsAgree, RoutesAgree, GatewayAgrees, Newest, SecretView, Woken
<1>1. UNCHANGED <<secrets, routes, gateway, credentials, policy, auth>>
  BY DEF Reads, Start, GetGateway, ListSecrets, ListRoutes, placeholderKey
<1>2. ~Start /\ ~Retry
  BY Waking DEF Start, Woken, ViewsAgree
<1> DEFINE R == [gateway : Uids, secrets : SecretStores, routes : RouteStores,
                 placeholder : NewKeys \cup {""}]
<1>3. run \in R
  BY DEF TypeInv, TypeOK
<1>4. CASE GetGateway
  <2>1. pc = "gateway" /\ pc' = "secrets" /\ run'.gateway = cGateway
    BY <1>2, <1>3, <1>4 DEF GetGateway, Goto
  <2>2. QED
    BY <1>0, <1>1, <2>1 DEF LastRun
<1>5. CASE ListSecrets
  <2>1. /\ pc = "secrets" /\ pc' = "routes"
        /\ run'.gateway = run.gateway /\ run'.secrets = LabelledSecrets(cSecrets)
    BY <1>3, <1>5 DEF ListSecrets, Goto
  <2>2. QED
    BY <1>0, <1>1, <2>1 DEF LastRun
<1>6. CASE ListRoutes
  <2>1. /\ pc = "routes" /\ pc' = "placeholder"
        /\ run'.gateway = run.gateway /\ run'.secrets = run.secrets /\ run'.routes = cRoutes
    BY <1>3, <1>6 DEF ListRoutes, Goto
  <2>2. QED
    BY <1>0, <1>1, <2>1 DEF LastRun
<1>7. CASE placeholderKey
  <2>1. /\ pc = "placeholder" /\ pc' = "credentials"
        /\ run'.gateway = run.gateway /\ run'.secrets = run.secrets /\ run'.routes = run.routes
    BY <1>3, <1>7 DEF placeholderKey, Goto
  <2>2. QED
    BY <1>1, <2>1 DEF LastRun
<1>8. QED
  BY <1>2, <1>4, <1>5, <1>6, <1>7 DEF Reads

\* Only starting a Reconcile and restarting the process let a pending wake go.
LEMMA WokenUntilServed ==
    ASSUME ~AllowUnlabel, TypeInv, TypeInv', SecretsAgree, [Next]_vars, Woken, ~Woken'
    PROVE  Start \/ \E a \in AuthModes : Restart(a)
<1> USE DEF inputs, outputs, caches, watches, renderer
<1>1. queued' = FALSE /\ routeWatch' = <<>> /\ gatewayWatch' = <<>> /\ policyWatch' = FALSE
  BY DEF Woken, TypeInv, TypeOK
<1>2. CASE WakeBehind(0)
  <2>1. CASE UNCHANGED secretWatch
    BY <1>2, <2>1 DEF Woken, WakeBehind
  <2>2. CASE SecretEmitted
    BY <1>2, <2>2, EmitViews DEF SecretEmitted, Woken
  <2>3. CASE DeliverSecret
    BY <1>2, <2>3, DeliverViews DEF DeliverSecret, Woken
  <2>4. QED
    BY <2>1, <2>2, <2>3, SecretSteps
<1>3. CASE ~WakeBehind(0) /\ ~Start /\ ~\E a \in AuthModes : Restart(a)
  <2>1. ~Retry /\ ~EmitRoute /\ ~EmitGateway /\ ~RemovePolicy
    BY Waking
  <2>2. /\ queued' = queued \/ DeliverSecret
        /\ routeWatch' = routeWatch /\ gatewayWatch' = gatewayWatch
        /\ policyWatch' = policyWatch \/ ApplyPolicy
    <3>1. CASE UNCHANGED vars
      BY <3>1 DEF vars
    <3>2. CASE Others
      BY <1>3, <2>1, <3>2 DEF Others, WriteSecret, DeleteSecret, WriteRoute, DeleteRoute,
         CreateGateway, DeleteGateway, DriftCredentials, DriftPolicy, RemoveCredentials
    <3>3. CASE Deliver \/ Resync
      BY <1>1, <3>3 DEF Deliver, DeliverSecret, DeliverRoute, DeliverGateway, DeliverPolicy, Resync
    <3>4. CASE Collect
      BY <2>1, <3>4 DEF Collect, CollectCredentials, CollectPolicy, RemoveCredentials
    <3>5. CASE Reads
      BY <1>3, <2>1, <3>5 DEF Reads, GetGateway, ListSecrets, ListRoutes, placeholderKey, Goto
    <3>6. CASE Writes \/ WriteFails \/ AnswerLost
      BY <2>1, <3>6 DEF Writes, RenderCredentials, RenderPolicy, DeletePolicyStep,
         DeleteCredentialsStep, WriteFails, AnswerLost, ApplyCredentials, ApplyPolicy,
         RemoveCredentials, Goto, Finish
    <3>7. QED
      BY <3>1, <3>2, <3>3, <3>4, <3>5, <3>6 DEF Next
  <2>3. DeliverSecret => (queued => queued')
    BY DEF DeliverSecret, TypeInv, TypeOK
  <2>4. ApplyPolicy => (policyWatch => policyWatch')
    BY DEF ApplyPolicy, TypeInv, TypeOK
  <2>5. QED
    BY <1>1, <1>3, <2>2, <2>3, <2>4 DEF Woken
<1>4. QED
  BY <1>2, <1>3

\* If the step leaves nothing to wake the renderer, the Reconcile that runs, or
\* the one that has just ended, has the current inputs in hand.
LEMMA LastRunNext ==
    ASSUME ~AllowUnlabel, TypeInv, TypeInv', ViewsAgree, Woken \/ LastRun, [Next]_vars, ~Woken'
    PROVE  LastRun'
<1> USE DEF inputs, outputs, caches, watches, renderer
<1>1. CASE Start
  BY <1>1 DEF Start, LastRun
<1>2. CASE \E a \in AuthModes : Restart(a)
  <2>1. pc' = "idle" /\ (queued' = SomethingWatched) /\ gateway' = gateway
    BY <1>2 DEF Restart
  <2>2. gateway' = NoGateway
    BY <2>1 DEF SomethingWatched, Woken
  <2>3. QED
    BY <2>1, <2>2 DEF LastRun, UpToDate
<1>3. CASE ~Start /\ ~\E a \in AuthModes : Restart(a)
  <2>1. ~Woken /\ LastRun
    BY <1>3, WokenUntilServed DEF ViewsAgree
  <2>2. ~Retry /\ ~EmitRoute /\ ~EmitGateway /\ ~RemoveCredentials /\ ~RemovePolicy
    BY Waking DEF ViewsAgree
  <2>3. ~DeliverRoute /\ ~DeliverGateway /\ ~DeliverPolicy /\ ~Resync
    BY <2>1 DEF DeliverRoute, DeliverGateway, DeliverPolicy, Resync, Woken
  <2>4. CASE Reads
    BY <2>1, <2>4, ReadsAreCurrent
  <2>5. CASE Writes
    BY <2>1, <2>5, RenderKeeps
  <2>6. CASE UNCHANGED vars
    <3>1. UNCHANGED LastRunView
      BY <2>6 DEF vars, LastRunView
    <3>2. QED
      BY <2>1, <3>1, LastRunKept
  <2>7. CASE DeliverSecret
    <3>1. UNCHANGED LastRunView
      BY <2>7 DEF DeliverSecret, LastRunView
    <3>2. QED
      BY <2>1, <3>1, LastRunKept
  <2>8. ASSUME NEW s \in KeySecrets, NEW c \in SecretContent[s], WriteSecret(s, c) PROVE LastRun'
    <3>1. ~isAIGatewayKeySecret(c)
      BY <2>8, Waking, LabelAssumption DEF WriteSecret, isAIGatewayKeySecret, ViewsAgree
    <3>2. LabelledSecrets(secrets') = LabelledSecrets(secrets)
      BY <2>8, <3>1, UnlabelledWrites
    <3>3. UNCHANGED LastRunView
      BY <2>8, <3>2 DEF WriteSecret, LastRunView
    <3>4. QED
      BY <2>1, <3>3, LastRunKept
  <2>9. ASSUME NEW s \in KeySecrets, DeleteSecret(s) PROVE LastRun'
    <3>1. secrets[s].label \in BOOLEAN
      BY <2>9, StoreUse, LabelAssumption DEF DeleteSecret, TypeInv, TypeOK, SecretStores
    <3>2. ~isAIGatewayKeySecret(secrets[s])
      BY <2>9, <3>1, Waking DEF DeleteSecret, isAIGatewayKeySecret, ViewsAgree
    <3>3. LabelledSecrets(secrets') = LabelledSecrets(secrets)
      BY <2>9, <3>2, UnlabelledWrites
    <3>4. UNCHANGED LastRunView
      BY <2>9, <3>3 DEF DeleteSecret, LastRunView
    <3>5. QED
      BY <2>1, <3>4, LastRunKept
  <2>10. ~AnswerLost /\ ~WriteFails /\ ~Collect /\ ~DriftCredentials /\ ~DriftPolicy
    BY <2>2 DEF AnswerLost, WriteFails, Collect, CollectCredentials, CollectPolicy,
         DriftCredentials, DriftPolicy
  <2>11. ~\E r \in RouteNames : DeleteRoute(r) \/ \E c \in RouteContent[r] : WriteRoute(r, c)
    BY <2>2 DEF DeleteRoute, WriteRoute
  <2>12. ~CreateGateway /\ ~DeleteGateway
    BY <2>2 DEF CreateGateway, DeleteGateway
  <2>13. QED
    BY <1>3, <2>3, <2>4, <2>5, <2>6, <2>7, <2>8, <2>9, <2>10, <2>11, <2>12 DEF Next, Others, Deliver
<1>4. QED
  BY <1>1, <1>2, <1>3

NoUpdateLost == ViewsAgree /\ (Woken \/ LastRun)

\* Nothing is under way initially but the create event of a Gateway that exists.
LEMMA NoUpdateLostInit == Init => NoUpdateLost
<1> SUFFICES ASSUME Init PROVE NoUpdateLost
  OBVIOUS
<1>1. ViewsAgree
  BY DEF Init, ViewsAgree, SecretsAgree, RoutesAgree, GatewayAgrees, Newest, SecretView
<1>2. CASE gateway # NoGateway
  BY <1>1, <1>2 DEF Init, NoUpdateLost, Woken
<1>3. CASE gateway = NoGateway
  BY <1>1, <1>3 DEF Init, NoUpdateLost, LastRun, UpToDate
<1>4. QED
  BY <1>2, <1>3

\* No update is lost: through lagging caches, lost answers, partial renders, drift,
\* garbage collection and restarts, a renderer that rests with every event delivered
\* has rendered exactly the current Secrets and routes.  Key writers must not take
\* the label off a live Secret: that update passes no watch predicate.
THEOREM QuietIsUpToDate == ASSUME ~AllowUnlabel PROVE Spec => []QuietMeansUpToDate
<1>1. Init => NoUpdateLost
  BY NoUpdateLostInit
<1>2. TypeInv /\ TypeInv' /\ NoUpdateLost /\ [Next]_vars => NoUpdateLost'
  BY SecretsAgreeNext, RoutesAgreeNext, GatewayAgreesNext, LastRunNext DEF NoUpdateLost, ViewsAgree
<1>3. NoUpdateLost => QuietMeansUpToDate
  BY DEF NoUpdateLost, QuietMeansUpToDate, Quiet, Woken, WakeBehind, LastRun
<1>4. QED
  BY <1>1, <1>2, <1>3, TypeInvariant, PTL DEF Spec
=============================================================================
