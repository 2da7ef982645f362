----------------------------- MODULE ApiKeyProofs -----------------------------
(***************************************************************************)
(* Theorems about the API key Secret, for every number of draws, lag and      *)
(* edits: its type, that a key is never rewritten in place, and that the      *)
(* Secret implements the key lifetime.                                        *)
(***************************************************************************)
EXTENDS ApiKey, SequenceTheorems, TLAPS

-----------------------------------------------------------------------------
(* Types. *)

LEMMA NoSecretType == NoSecret \in SecretType /\ WellFormed(NoSecret)
  BY DEF NoSecret, SecretType, WellFormed

\* A Secret by its fields.
LEMMA SecretOf ==
    ASSUME NEW s, NEW l \in BOOLEAN, NEW i \in Draws, NEW k \in Draws,
           s = [exists |-> TRUE, label |-> l, id |-> i, key |-> k]
    PROVE  s \in SecretType
  BY DEF SecretType

LEMMA SecretFields ==
    ASSUME NEW s \in SecretType
    PROVE  /\ s.id \in Draws /\ s.key \in Draws /\ s.label \in BOOLEAN /\ s.exists \in BOOLEAN
           /\ s = [exists |-> s.exists, label |-> s.label, id |-> s.id, key |-> s.key]
           /\ ~s.exists => s = NoSecret
<1>1. CASE s = NoSecret
  BY <1>1, BoundsAssumption DEF NoSecret, Draws
<1>2. CASE s \in [exists : {TRUE}, label : BOOLEAN, id : Draws, key : Draws]
  BY <1>2
<1> QED
  BY <1>1, <1>2 DEF SecretType

LEMMA SecretThere ==
    ASSUME NEW s \in SecretType, s.exists
    PROVE  s \in [exists : {TRUE}, label : BOOLEAN, id : Draws, key : Draws]
<1>1. s # NoSecret
  <2>1. SUFFICES ASSUME s = NoSecret PROVE FALSE
    OBVIOUS
  <2>2. ~NoSecret.exists
    BY DEF NoSecret
  <2> QED
    BY <2>1, <2>2
<1> QED
  BY <1>1 DEF SecretType

LEMMA Relabelled ==
    ASSUME NEW s \in SecretType, s.exists
    PROVE  LET t == [s EXCEPT !.label = FALSE] IN
           t \in SecretType /\ t.id = s.id /\ t.key = s.key
<1>1. s \in [exists : {TRUE}, label : BOOLEAN, id : Draws, key : Draws]
  BY SecretThere
<1> QED
  BY <1>1 DEF SecretType

LEMMA Cleared ==
    ASSUME NEW s \in SecretType, s.exists, NEW f \in {"id", "key"}
    PROVE  [s EXCEPT ![f] = 0] \in SecretType
<1>1. s \in [exists : {TRUE}, label : BOOLEAN, id : Draws, key : Draws]
  BY SecretThere
<1>2. 0 \in Draws
  BY BoundsAssumption DEF Draws
<1> QED
  BY <1>1, <1>2 DEF SecretType

LEMMA UnusedDraw ==
    ASSUME Unused # {}
    PROVE  /\ (CHOOSE n \in Unused : TRUE) \in Draws \ {0}
           /\ (CHOOSE n \in Unused : TRUE) \notin past
  BY DEF Unused

\* Storing keeps the type of Secret, watch and history.
LEMMA StoreType ==
    ASSUME TypeOK, NEW new, WellFormed(new), NEW wake \in BOOLEAN, Store(new, wake), clears' = clears
    PROVE  /\ WellFormed(secret)'
           /\ watch' \in Seq([secret : SecretType, wake : BOOLEAN])
           /\ (\A i \in DOMAIN watch : WellFormed(watch[i].secret))'
           /\ past' \subseteq Draws \ {0}
<1> DEFINE event == [secret |-> new, wake |-> wake]
<1>1. secret' = new /\ watch' = Append(watch, event)
  BY DEF Store
<1>2. new \in SecretType /\ event \in [secret : SecretType, wake : BOOLEAN]
  BY DEF WellFormed
<1>3. ASSUME NEW s, WellFormed(s) PROVE s \in SecretType /\ (s.exists /\ ~clears' => s.id # 0 /\ s.key # 0)
  BY <1>3 DEF WellFormed
<1>4. WellFormed(secret)'
  BY <1>1, <1>3 DEF WellFormed
<1>5. watch' \in Seq([secret : SecretType, wake : BOOLEAN])
  BY <1>1, <1>2, AppendProperties DEF TypeOK
<1>6. ASSUME NEW i \in DOMAIN watch' PROVE watch'[i] = event \/ (i \in DOMAIN watch /\ watch'[i] = watch[i])
  BY <1>1, <1>2, <1>6 DEF TypeOK
<1>7. (\A i \in DOMAIN watch : WellFormed(watch[i].secret))'
  <2>1. ASSUME NEW i \in DOMAIN watch' PROVE WellFormed(watch'[i].secret)
    BY <1>6, <2>1 DEF TypeOK
  <2> QED
    BY <2>1, <1>3 DEF WellFormed
<1>8. past' \subseteq Draws \ {0}
  BY <1>2, SecretFields DEF Store, TypeOK
<1> QED
  BY <1>4, <1>5, <1>7, <1>8

\* The Secret a patch or a create stores is complete.
RunComplete ==
    pc \in {"create", "patch"} => run.desired.exists /\ run.desired.id # 0 /\ run.desired.key # 0

TypeInv == TypeOK /\ RunComplete

LEMMA InitTypeInv == Init => TypeInv
  BY NoSecretType, BoundsAssumption DEF Init, TypeInv, TypeOK, RunComplete, NoRun, Nothing, PCs, Draws,
     NoSecret

\* What ensureAIGatewayKey wants of a Secret that it has read.
LEMMA FilledType ==
    ASSUME NEW s \in SecretType, NEW draw \in Draws \ {0}
    PROVE  /\ Filled(s, draw) \in SecretType
           /\ Filled(s, draw).exists /\ Filled(s, draw).id # 0 /\ Filled(s, draw).key # 0
<1>1. PICK i \in Draws, k \in Draws :
         /\ i # 0 /\ k # 0
         /\ Filled(s, draw) = [exists |-> TRUE, label |-> TRUE, id |-> i, key |-> k]
  BY SecretFields DEF Filled
<1>2. Filled(s, draw) \in SecretType
  BY <1>1, SecretOf
<1> QED
  BY <1>1, <1>2

LEMMA MergedType ==
    ASSUME TypeInv, pc = "patch", secret.exists
    PROVE  WellFormed(Merged)
<1>1. run.desired \in SecretType /\ run.desired.id # 0 /\ run.desired.key # 0
  BY DEF TypeInv, TypeOK, RunComplete
<1>2. secret \in SecretType /\ (~clears => secret.id # 0 /\ secret.key # 0)
  BY DEF TypeInv, TypeOK, WellFormed
<1>3. PICK i \in Draws, k \in Draws :
         /\ ~clears => i # 0 /\ k # 0
         /\ Merged = [exists |-> TRUE, label |-> TRUE, id |-> i, key |-> k]
  BY <1>1, <1>2, SecretFields DEF Merged
<1>4. Merged \in SecretType
  BY <1>3, SecretOf
<1> QED
  BY <1>3, <1>4 DEF WellFormed

\* The three ways in which the provider itself writes the Secret.
LEMMA WriteType ==
    ASSUME TypeInv, Created \/ Patched \/ Deleted, clears' = clears
    PROVE  /\ WellFormed(secret)'
           /\ watch' \in Seq([secret : SecretType, wake : BOOLEAN])
           /\ (\A i \in DOMAIN watch : WellFormed(watch[i].secret))'
           /\ past' \subseteq Draws \ {0}
<1>1. CASE Created
  <2>1. WellFormed(run.desired)
    BY <1>1 DEF Created, TypeInv, TypeOK, RunComplete, WellFormed
  <2> QED
    BY <1>1, <2>1, StoreType DEF Created, TypeInv
<1>2. CASE Patched
  <2>1. CASE Merged = secret
    BY <1>2, <2>1 DEF Patched, TypeInv, TypeOK, WellFormed
  <2>2. CASE Merged # secret
    BY <1>2, <2>2, MergedType, StoreType DEF Patched, TypeInv
  <2> QED
    BY <2>1, <2>2
<1>3. CASE Deleted
  <2>1. secret.label \in BOOLEAN
    BY SecretFields DEF TypeInv, TypeOK, WellFormed
  <2> QED
    BY <1>3, <2>1, NoSecretType, StoreType DEF Deleted, TypeInv
<1> QED
  BY <1>1, <1>2, <1>3

\* No one but a writer of the Secret touches Secret, watch and history.
LEMMA NoStoreType ==
    ASSUME TypeInv, UNCHANGED <<secret, watch, past, clears>>
    PROVE  /\ WellFormed(secret)'
           /\ watch' \in Seq([secret : SecretType, wake : BOOLEAN])
           /\ (\A i \in DOMAIN watch : WellFormed(watch[i].secret))'
           /\ past' \subseteq Draws \ {0}
  BY DEF TypeInv, TypeOK, WellFormed

LEMMA EditType ==
    ASSUME TypeInv, Edit
    PROVE  edits' \in 0 .. MaxEdits
  BY BoundsAssumption DEF TypeInv, TypeOK, Edit

LEMMA RunType ==
    ASSUME TypeInv, UNCHANGED <<clears, run>>
    PROVE  /\ WellFormed(run.base)' /\ (run.desired \in SecretType)'
           /\ (run = [base |-> run.base, desired |-> run.desired])'
  BY DEF TypeInv, TypeOK, WellFormed

LEMMA NoRunType ==
    ASSUME run' = NoRun
    PROVE  /\ WellFormed(run.base)' /\ (run.desired \in SecretType)'
           /\ (run = [base |-> run.base, desired |-> run.desired])'
  BY NoSecretType DEF NoRun, WellFormed, NoSecret

LEMMA CacheType ==
    ASSUME TypeInv, UNCHANGED <<clears, cache>>
    PROVE  WellFormed(cache)'
  BY DEF TypeInv, TypeOK, WellFormed

\* A write by somebody else.
LEMMA OthersType ==
    ASSUME TypeInv, RotateKey \/ Unlabel \/ Clear
    PROVE  TypeInv'
<1>1. /\ WellFormed(secret)'
      /\ watch' \in Seq([secret : SecretType, wake : BOOLEAN])
      /\ (\A i \in DOMAIN watch : WellFormed(watch[i].secret))'
      /\ past' \subseteq Draws \ {0}
  <2>1. WellFormed(secret) /\ secret.label \in BOOLEAN /\ secret \in SecretType
    BY SecretFields DEF TypeInv, TypeOK, WellFormed
  <2>2. CASE RotateKey
    BY <2>1, <2>2, NoSecretType, StoreType DEF RotateKey, TypeInv
  <2>3. CASE Unlabel
    <3>1. WellFormed([secret EXCEPT !.label = FALSE])
      BY <2>1, <2>3, Relabelled DEF Unlabel, WellFormed
    <3> QED
      BY <2>3, <3>1, StoreType DEF Unlabel, TypeInv
  <2>4. CASE Clear
    <3>1. PICK f \in {"id", "key"} : Store([secret EXCEPT ![f] = 0], secret.label)
      BY <2>4 DEF Clear
    <3>2. WellFormed([secret EXCEPT ![f] = 0])
      BY <2>1, <2>4, Cleared DEF Clear, WellFormed
    <3> QED
      BY <2>1, <2>4, <3>1, <3>2, StoreType DEF Clear, TypeInv
  <2> QED
    BY <2>2, <2>3, <2>4
<1>2. Edit /\ UNCHANGED <<clears, cache, phase, exposed, provider>>
  BY DEF RotateKey, Unlabel, Clear
<1> QED
  BY <1>1, <1>2, EditType, RunType, CacheType DEF TypeInv, TypeOK, RunComplete, provider

\* What happens around the Secret.
LEMMA AroundType ==
    ASSUME TypeInv, SwitchAccess \/ DeleteInstance \/ Restart \/ Deliver \/ Resync
    PROVE  TypeInv'
<1>1. CASE SwitchAccess
  BY <1>1, NoStoreType, EditType, RunType, CacheType DEF SwitchAccess, TypeInv, TypeOK, RunComplete
<1>2. CASE DeleteInstance
  BY <1>2, NoStoreType, EditType, RunType, CacheType DEF DeleteInstance, TypeInv, TypeOK, RunComplete
<1>3. CASE Restart
  <2>1. /\ WellFormed(secret)' /\ WellFormed(cache)'
        /\ watch' \in Seq([secret : SecretType, wake : BOOLEAN])
        /\ (\A i \in DOMAIN watch : WellFormed(watch[i].secret))'
    BY <1>3 DEF Restart, TypeInv, TypeOK, WellFormed
  <2> QED
    BY <1>3, <2>1, EditType, NoRunType DEF Restart, TypeInv, TypeOK, RunComplete, PCs
<1>4. CASE Deliver
  <2>1. /\ watch \in Seq([secret : SecretType, wake : BOOLEAN]) /\ watch # <<>>
        /\ watch' = Tail(watch) /\ cache' = Head(watch).secret
    BY <1>4 DEF Deliver, TypeInv, TypeOK
  <2>2. 1 \in DOMAIN watch /\ Head(watch) = watch[1] /\ Head(watch).wake \in BOOLEAN
    <3>1. 1 \in DOMAIN watch /\ Head(watch) = watch[1]
      BY <2>1
    <3> DEFINE S == [secret : SecretType, wake : BOOLEAN]
    <3>2. Head(watch) \in S
      <4> HIDE DEF S
      <4> QED
        BY <2>1, HeadTailProperties DEF S
    <3> QED
      BY <3>1, <3>2
  <2>3. /\ watch' \in Seq([secret : SecretType, wake : BOOLEAN])
        /\ \A i \in DOMAIN watch' : i + 1 \in DOMAIN watch /\ watch'[i] = watch[i + 1]
    BY <2>1
  <2>4. WellFormed(cache)'
    BY <1>4, <2>1, <2>2 DEF Deliver, TypeInv, TypeOK, WellFormed
  <2>5. (\A i \in DOMAIN watch : WellFormed(watch[i].secret))'
    BY <1>4, <2>3 DEF Deliver, TypeInv, TypeOK, WellFormed
  <2>6. WellFormed(secret)'
    BY <1>4 DEF Deliver, TypeInv, TypeOK, WellFormed
  <2> QED
    BY <1>4, <2>2, <2>3, <2>4, <2>5, <2>6, RunType DEF Deliver, TypeInv, TypeOK, RunComplete
<1>5. CASE Resync
  BY <1>5, NoStoreType, RunType, CacheType DEF Resync, TypeInv, TypeOK, RunComplete
<1> QED
  BY <1>1, <1>2, <1>3, <1>4, <1>5

\* The steps of the reconcile.
LEMMA StepsType ==
    ASSUME TypeInv, Steps
    PROVE  TypeInv'
<1>1. CASE Start
  <2>1. pc' \in {"cleanup", "ensure", "status"}
    BY <1>1 DEF Start
  <2> QED
    BY <1>1, <2>1, NoStoreType, RunType, CacheType DEF Start, TypeInv, TypeOK, RunComplete, PCs
<1>2. CASE ensureAIGatewayKey
  <2> DEFINE draw == CHOOSE n \in Unused : TRUE
             desired == Filled(cache, draw)
  <2>1. desired \in SecretType /\ desired.exists /\ desired.id # 0 /\ desired.key # 0
    <3>1. cache \in SecretType /\ draw \in Draws \ {0}
      BY <1>2, UnusedDraw DEF ensureAIGatewayKey, TypeInv, TypeOK, WellFormed
    <3> QED
      BY <3>1, FilledType
  <2>2. CASE desired = cache
    <3>1. pc' = "status" /\ run' = run
      BY <1>2, <2>2 DEF ensureAIGatewayKey
    <3> QED
      BY <1>2, <3>1, NoStoreType, RunType, CacheType
         DEF ensureAIGatewayKey, TypeInv, TypeOK, RunComplete, PCs
  <2>3. CASE desired # cache
    <3>1. run' = [base |-> cache, desired |-> desired] /\ pc' \in {"patch", "create"}
      BY <1>2, <2>3 DEF ensureAIGatewayKey
    <3>2. /\ WellFormed(run.base)' /\ (run.desired \in SecretType)'
          /\ (run = [base |-> run.base, desired |-> run.desired])'
      BY <1>2, <2>1, <3>1 DEF ensureAIGatewayKey, TypeInv, TypeOK, WellFormed
    <3>3. RunComplete'
      BY <2>1, <3>1 DEF RunComplete
    <3> HIDE DEF desired
    <3> QED
      BY <1>2, <3>1, <3>2, <3>3, NoStoreType, CacheType DEF ensureAIGatewayKey, TypeInv, TypeOK, PCs
  <2> QED
    BY <2>2, <2>3
<1>3. CASE AlreadyExists \/ PatchNotFound
  BY <1>3, NoStoreType, NoRunType, CacheType
     DEF AlreadyExists, PatchNotFound, Retry, TypeInv, TypeOK, RunComplete, PCs
<1>4. CASE Report
  <2>1. reported' \in [id : Draws, key : Draws]
    BY <1>4, SecretFields, BoundsAssumption DEF Report, Nothing, Draws, TypeInv, TypeOK, WellFormed
  <2> QED
    BY <1>4, <2>1, NoStoreType, RunType, CacheType DEF Report, TypeInv, TypeOK, RunComplete, PCs
<1> QED
  BY <1>1, <1>2, <1>3, <1>4 DEF Steps

\* The writes, with their answers or without.
LEMMA WritesType ==
    ASSUME TypeInv, Writes \/ CallFails \/ AnswerLost
    PROVE  TypeInv'
<1>1. CASE createAIGatewayKey \/ patchKeySecret
  BY <1>1, WriteType, NoRunType, CacheType
     DEF createAIGatewayKey, patchKeySecret, TypeInv, TypeOK, RunComplete, PCs
<1>2. CASE Cleanup
  <2>1. /\ WellFormed(secret)'
        /\ watch' \in Seq([secret : SecretType, wake : BOOLEAN])
        /\ (\A i \in DOMAIN watch : WellFormed(watch[i].secret))'
        /\ past' \subseteq Draws \ {0}
    BY <1>2, WriteType, NoStoreType DEF Cleanup
  <2>2. reported' \in [id : Draws, key : Draws]
    BY <1>2, BoundsAssumption DEF Cleanup, Nothing, Draws
  <2> QED
    BY <1>2, <2>1, <2>2, RunType, CacheType DEF Cleanup, TypeInv, TypeOK, RunComplete, PCs
<1>3. CASE CallFails
  BY <1>3, NoStoreType, NoRunType, CacheType DEF CallFails, Retry, TypeInv, TypeOK, RunComplete, PCs
<1>4. CASE AnswerLost
  BY <1>4, WriteType, NoRunType, CacheType DEF AnswerLost, Retry, TypeInv, TypeOK, RunComplete, PCs
<1> QED
  BY <1>1, <1>2, <1>3, <1>4 DEF Writes

LEMMA TypeInvStep == TypeInv /\ [Next]_vars => TypeInv'
<1> SUFFICES ASSUME TypeInv, [Next]_vars PROVE TypeInv'
  OBVIOUS
<1>1. CASE UNCHANGED vars
  BY <1>1, NoStoreType, RunType, CacheType DEF vars, provider, TypeInv, TypeOK, RunComplete
<1>2. CASE Next
  BY <1>2, OthersType, AroundType, StepsType, WritesType DEF Next, Others, Answers, Steps
<1> QED
  BY <1>1, <1>2

\* Whatever the watch still has to deliver and whichever answers are lost, each copy
\* of the Secret is one that ensureAIGatewayKey can work on.
THEOREM TypeCorrect == Spec => []TypeOK
<1>1. TypeInv => TypeOK
  BY DEF TypeInv
<1> QED
  BY <1>1, InitTypeInv, TypeInvStep, PTL DEF Spec

-----------------------------------------------------------------------------
(* The key's life. *)

\* A stored id or key has been recorded; what createAIGatewayKey is about to store
\* has not; and what a patch is about to send changes neither, as both were there
\* when the Secret was read.
Recorded == {secret.id, secret.key} \ {0} \subseteq past
Fresh == pc = "create" => run.desired.id = run.desired.key /\ run.desired.key \notin past
Keeps == pc = "patch" /\ ~clears => run.desired.id = run.base.id /\ run.desired.key = run.base.key

KeyInv == TypeInv /\ Recorded /\ Fresh /\ Keeps

LEMMA SecretTyped ==
    ASSUME KeyInv
    PROVE  /\ secret \in SecretType /\ secret.id \in Draws /\ secret.key \in Draws
           /\ ~secret.exists => secret.id = 0 /\ secret.key = 0
           /\ secret.exists /\ ~clears => secret.id # 0 /\ secret.key # 0
  BY SecretFields DEF KeyInv, TypeInv, TypeOK, WellFormed, NoSecret

\* The three things that can happen to the key of an Instance.
Appears ==
    /\ secret.id = 0 /\ secret.key = 0
    /\ secret'.id = secret'.key /\ secret'.key \in (Draws \ {0}) \ past
    /\ past' = past \cup {secret'.key}
Vanishes ==
    /\ secret.key # 0 /\ secret'.id = 0 /\ secret'.key = 0
    /\ past' = past
Stays == secret'.id = secret.id /\ secret'.key = secret.key /\ past' = past

LEMMA CreatedEffect ==
    ASSUME KeyInv, Created
    PROVE  Appears
<1>1. /\ run.desired \in SecretType /\ run.desired.id \in Draws /\ run.desired.key \in Draws
      /\ run.desired.id # 0 /\ run.desired.key # 0
      /\ run.desired.id = run.desired.key /\ run.desired.key \notin past
  BY SecretFields DEF KeyInv, TypeInv, TypeOK, RunComplete, Fresh, Created
<1>2. secret.id = 0 /\ secret.key = 0
  BY SecretTyped DEF Created
<1> QED
  BY <1>1, <1>2 DEF Created, Store, Appears

\* The patch leaves id and key as they are, whatever the cache said.
LEMMA PatchedEffect ==
    ASSUME KeyInv, Patched, ~clears
    PROVE  Stays
<1>1. Merged.id = secret.id /\ Merged.key = secret.key
  BY DEF Merged, KeyInv, Keeps, Patched
<1>2. CASE Merged = secret
  BY <1>2 DEF Patched, Stays
<1>3. CASE Merged # secret
  BY <1>1, <1>3 DEF Patched, Store, Stays, KeyInv, Recorded
<1> QED
  BY <1>2, <1>3

\* Deletion by the provider or by a user.
LEMMA RemovedEffect ==
    ASSUME KeyInv, secret.exists, NEW wake, Store(NoSecret, wake)
    PROVE  past' = past /\ Recorded' /\ (~clears => Vanishes)
<1>1. secret'.id = 0 /\ secret'.key = 0 /\ past' = past
  BY DEF Store, NoSecret
<1> QED
  BY <1>1, SecretTyped DEF Recorded, Vanishes

LEMMA OthersEffect ==
    ASSUME KeyInv, RotateKey \/ Unlabel \/ Clear
    PROVE  past' = past /\ Recorded' /\ (~clears => Vanishes \/ Stays)
<1>1. CASE RotateKey
  BY <1>1, RemovedEffect DEF RotateKey
<1>2. CASE Unlabel
  <2>1. secret'.id = secret.id /\ secret'.key = secret.key
    BY <1>2, SecretTyped, Relabelled DEF Unlabel, Store
  <2>2. past' = past
    BY <1>2, <2>1 DEF Unlabel, Store, KeyInv, Recorded
  <2> QED
    BY <2>1, <2>2 DEF Stays, KeyInv, Recorded
<1>3. CASE Clear
  <2>1. PICK f \in {"id", "key"} : Store([secret EXCEPT ![f] = 0], secret.label)
    BY <1>3 DEF Clear
  <2>2. {secret'.id, secret'.key} \subseteq {secret.id, secret.key, 0}
    <3>1. secret \in [exists : {TRUE}, label : BOOLEAN, id : Draws, key : Draws]
      BY <1>3, SecretTyped, SecretThere DEF Clear
    <3>2. secret' = [secret EXCEPT ![f] = 0]
      BY <2>1 DEF Store
    <3>3. CASE f = "id"
      BY <3>1, <3>2, <3>3
    <3>4. CASE f = "key"
      BY <3>1, <3>2, <3>4
    <3> QED
      BY <3>3, <3>4
  <2>3. past' = past
    BY <2>1, <2>2 DEF Store, KeyInv, Recorded
  <2> QED
    BY <1>3, <2>2, <2>3 DEF Clear, KeyInv, Recorded
<1> QED
  BY <1>1, <1>2, <1>3

LEMMA InitKeyInv == Init => KeyInv
  BY InitTypeInv DEF Init, KeyInv, Recorded, Fresh, Keeps, NoSecret

LEMMA KeyInvStep == KeyInv /\ [Next]_vars => KeyInv'
<1> SUFFICES ASSUME KeyInv, [Next]_vars PROVE KeyInv'
  OBVIOUS
<1>1. TypeInv'
  BY TypeInvStep DEF KeyInv
<1>2. CASE UNCHANGED <<secret, past, clears, pc, run>>
  BY <1>1, <1>2 DEF KeyInv, Recorded, Fresh, Keeps
<1>3. CASE RotateKey \/ Unlabel \/ Clear
  <2>1. UNCHANGED <<clears, pc, run>>
    BY <1>3 DEF RotateKey, Unlabel, Clear, provider
  <2> QED
    BY <1>1, <1>3, <2>1, OthersEffect DEF KeyInv, Fresh, Keeps
<1>4. CASE Writes \/ AnswerLost
  <2>1. Created \/ Patched \/ Deleted \/ UNCHANGED <<secret, past>>
    BY <1>4 DEF Writes, createAIGatewayKey, patchKeySecret, Cleanup, AnswerLost
  <2>2. Recorded'
    <3>1. CASE Created
      BY <3>1, CreatedEffect DEF Appears, Recorded
    <3>2. CASE Patched
      BY <3>2 DEF Patched, Store, KeyInv, Recorded
    <3>3. CASE Deleted
      BY <3>3, RemovedEffect DEF Deleted
    <3>4. CASE UNCHANGED <<secret, past>>
      BY <3>4 DEF KeyInv, Recorded
    <3> QED
      BY <2>1, <3>1, <3>2, <3>3, <3>4
  <2>3. pc' \in {"status", "idle"}
    BY <1>4 DEF Writes, createAIGatewayKey, patchKeySecret, Cleanup, AnswerLost, Retry
  <2> QED
    BY <1>1, <2>2, <2>3 DEF KeyInv, Fresh, Keeps
<1>5. CASE SwitchAccess \/ DeleteInstance \/ Restart \/ Deliver \/ Resync
  <2>1. UNCHANGED <<secret, past, clears>> /\ (UNCHANGED <<pc, run>> \/ pc' = "idle")
    BY <1>5 DEF SwitchAccess, DeleteInstance, Restart, Deliver, Resync
  <2> QED
    BY <1>1, <1>2, <2>1 DEF KeyInv, Recorded, Fresh, Keeps
<1>6. CASE Start \/ AlreadyExists \/ PatchNotFound \/ Report \/ CallFails
  <2>1. UNCHANGED <<secret, past, clears>> /\ pc' \notin {"create", "patch"}
    BY <1>6 DEF Start, AlreadyExists, PatchNotFound, Report, CallFails, Retry
  <2> QED
    BY <1>1, <2>1 DEF KeyInv, Recorded, Fresh, Keeps
<1>7. CASE ensureAIGatewayKey
  <2> DEFINE draw == CHOOSE n \in Unused : TRUE
             desired == Filled(cache, draw)
  <2>1. UNCHANGED <<secret, past, clears>>
    BY <1>7 DEF ensureAIGatewayKey
  <2>2. CASE desired = cache
    BY <1>1, <1>7, <2>1, <2>2 DEF ensureAIGatewayKey, KeyInv, Recorded, Fresh, Keeps
  <2>3. CASE desired # cache
    <3>1. run'.base = cache /\ run'.desired = desired /\ pc' = IF cache.exists THEN "patch" ELSE "create"
      BY <1>7, <2>3 DEF ensureAIGatewayKey
    <3>2. draw \notin past
      BY <1>7, UnusedDraw DEF ensureAIGatewayKey
    <3>3. /\ cache.exists /\ ~clears => cache.id # 0 /\ cache.key # 0
          /\ ~cache.exists => cache.id = 0 /\ cache.key = 0
      BY SecretFields DEF KeyInv, TypeInv, TypeOK, WellFormed, NoSecret
    <3>4. /\ cache.exists /\ ~clears => desired.id = cache.id /\ desired.key = cache.key
          /\ ~cache.exists => desired.id = draw /\ desired.key = draw
      BY <3>3 DEF Filled
    <3> HIDE DEF draw, desired
    <3> QED
      BY <1>1, <2>1, <3>1, <3>2, <3>4 DEF KeyInv, Recorded, Fresh, Keeps
  <2> QED
    BY <2>2, <2>3
<1>8. CASE UNCHANGED vars
  BY <1>2, <1>8 DEF vars, provider
<1> QED
  BY <1>3, <1>4, <1>5, <1>6, <1>7, <1>8 DEF Next, Others, Steps, Answers

\* Where nobody empties fields, every step is one of the three.
LEMMA KeySteps ==
    ASSUME KeyInv, [Next]_vars, ~clears
    PROVE  Appears \/ Vanishes \/ Stays
<1>1. CASE RotateKey \/ Unlabel \/ Clear
  BY <1>1, OthersEffect
<1>2. CASE Writes \/ AnswerLost
  <2>1. Created \/ Patched \/ Deleted \/ UNCHANGED <<secret, past>>
    BY <1>2 DEF Writes, createAIGatewayKey, patchKeySecret, Cleanup, AnswerLost
  <2> QED
    BY <2>1, CreatedEffect, PatchedEffect, RemovedEffect DEF Deleted, Stays
<1>3. CASE UNCHANGED <<secret, past>>
  BY <1>3 DEF Stays
<1>4. CASE SwitchAccess \/ DeleteInstance \/ Restart \/ Deliver \/ Resync \/ Steps \/ CallFails
  BY <1>3, <1>4 DEF SwitchAccess, DeleteInstance, Restart, Deliver, Resync, Steps, Start,
        ensureAIGatewayKey, AlreadyExists, PatchNotFound, Report, CallFails
<1>5. CASE UNCHANGED vars
  BY <1>3, <1>5 DEF vars
<1> QED
  BY <1>1, <1>2, <1>4, <1>5 DEF Next, Others, Steps, Answers

LEMMA ClearsNever == [Next]_vars => clears' = clears
  BY DEF Next, vars, provider, Others, Steps, Writes, Answers, RotateKey, Unlabel, Clear, SwitchAccess,
     DeleteInstance, Restart, Deliver, Resync, Start, ensureAIGatewayKey, AlreadyExists, PatchNotFound,
     Report, createAIGatewayKey, patchKeySecret, Cleanup, CallFails, AnswerLost

\* A key "is generated once and never rewritten", however stale the cache on which
\* ensureAIGatewayKey decided and whoever wrote since.
THEOREM KeyStays == Spec => NeverRewritten
<1>1. KeyInv /\ [Next]_vars =>
        [~clears => \A f \in {"id", "key"} :
            secret[f] # 0 /\ secret'[f] # 0 => secret'[f] = secret[f]]_vars
  BY KeySteps DEF Appears, Vanishes, Stays
<1> QED
  BY <1>1, InitKeyInv, KeyInvStep, PTL DEF Spec, NeverRewritten

\* The Secret implements the key lifetime: ensureAIGatewayKey, rotation and Cleanup
\* are the only steps in which the stored key changes, and a removed key, even one
\* still in the cache of the reconcile that writes next, never comes back.
THEOREM ImplementsLifetime == Spec => KeepsLifetime
<1> DEFINE k == IF clears THEN 0 ELSE secret.key
           p == IF clears THEN {} ELSE past
<1>1. Init => Lifetime!Init
  BY DEF Init, Lifetime!Init, NoSecret
<1>2. KeyInv /\ [Next]_vars => [Lifetime!Next]_<<k, p>>
  <2> SUFFICES ASSUME KeyInv, [Next]_vars PROVE [Lifetime!Next]_<<k, p>>
    OBVIOUS
  <2>1. clears' = clears
    BY ClearsNever
  <2>2. CASE clears
    BY <2>1, <2>2
  <2>3. CASE ~clears
    <3>1. CASE Appears
      BY <2>1, <2>3, <3>1 DEF Appears, Lifetime!Next, Lifetime!Generate
    <3>2. CASE Vanishes
      BY <2>1, <2>3, <3>2 DEF Vanishes, Lifetime!Next, Lifetime!Remove
    <3>3. CASE Stays
      BY <2>1, <2>3, <3>3 DEF Stays
    <3> QED
      BY <2>3, <3>1, <3>2, <3>3, KeySteps
  <2> QED
    BY <2>2, <2>3
<1> QED
  BY <1>1, <1>2, InitKeyInv, KeyInvStep, PTL DEF Spec, KeepsLifetime, Lifetime!Spec
=============================================================================
