-------------------------------- MODULE ApiKey --------------------------------
(***************************************************************************)
(* The API key Secret of one Instance: ensureAIGatewayKey and                *)
(* createAIGatewayKey (apikey.go), which every Sync of an exposed Instance   *)
(* runs, the key that Status reports (readAIGatewayKey), the watch that      *)
(* regenerates a deleted Secret (provider.go) and the deletion in Cleanup.   *)
(*                                                                         *)
(* The provider reads the Secret through an informer cache that lags behind  *)
(* the API server and writes with Create and with a merge patch that carries *)
(* no resourceVersion.  Ids and keys are numbers, 0 for a field that is      *)
(* empty; a random draw never repeats a value that was stored before.        *)
(***************************************************************************)
EXTENDS Integers, Sequences

CONSTANTS
    MaxDraws,       \* bound: random ids and keys there are
    MaxLag,         \* bound: events the cache may be behind
    MaxEdits        \* bound: writes by others, restarts included

ASSUME BoundsAssumption == MaxDraws \in Nat /\ MaxLag \in Nat \ {0} /\ MaxEdits \in Nat

VARIABLES
    secret,     \* API server: [exists, label, id, key]
    cache,      \* informer cache of the same Secret
    watch,      \* [secret, wake]: states the cache has not seen yet
    clears,     \* does a writer ever empty the id or the key in place?
    phase,      \* the Instance: "live", "deleting" (finalizer held), "gone"
    exposed,    \* does its spec use the AI Gateway?
    queued,     \* is the Instance in the work queue?
    pc, run,    \* next step of the running reconcile; [base, desired] of ensureAIGatewayKey
    reported,   \* [id, key] of the connection details Status returned last
    past,       \* history: every id and key stored so far
    edits

provider == <<queued, pc, run, reported>>
vars == <<secret, cache, watch, clears, phase, exposed, provider, past, edits>>

Draws == 0 .. MaxDraws
NoSecret == [exists |-> FALSE, label |-> FALSE, id |-> 0, key |-> 0]
SecretType == {NoSecret} \cup [exists : {TRUE}, label : BOOLEAN, id : Draws, key : Draws]
NoRun == [base |-> NoSecret, desired |-> NoSecret]
Nothing == [id |-> 0, key |-> 0]
PCs == {"idle", "ensure", "create", "patch", "status", "cleanup"}

\* A write of the Secret: its event passes the watch when the new object (the
\* last one, for a deletion) has the label.
Store(new, wake) ==
    /\ Len(watch) < MaxLag
    /\ secret' = new
    /\ watch' = Append(watch, [secret |-> new, wake |-> wake])
    /\ past' = past \cup ({new.id, new.key} \ {0})

Deliver ==
    /\ watch # <<>>
    /\ watch' = Tail(watch)
    /\ cache' = Head(watch).secret
    /\ queued' = (queued \/ Head(watch).wake)
    /\ UNCHANGED <<clears, secret, phase, exposed, pc, run, reported, past, edits>>

\* The runtime requeues every Instance from time to time.
Resync ==
    /\ phase # "gone" /\ ~queued
    /\ queued' = TRUE
    /\ UNCHANGED <<clears, secret, cache, watch, phase, exposed, pc, run, reported, past, edits>>

-----------------------------------------------------------------------------
(* Others. *)

Edit == edits < MaxEdits /\ edits' = edits + 1

\* Rotation, as documented: delete the Secret.
RotateKey ==
    /\ Edit /\ secret.exists
    /\ Store(NoSecret, secret.label)
    /\ UNCHANGED <<clears, cache, phase, exposed, provider>>

Unlabel ==
    /\ Edit /\ secret.exists /\ secret.label
    /\ Store([secret EXCEPT !.label = FALSE], FALSE)
    /\ UNCHANGED <<clears, cache, phase, exposed, provider>>

Clear ==
    /\ Edit /\ clears /\ secret.exists
    /\ \E f \in {"id", "key"} : Store([secret EXCEPT ![f] = 0], secret.label)
    /\ UNCHANGED <<clears, cache, phase, exposed, provider>>

SwitchAccess ==
    /\ Edit /\ phase = "live"
    /\ exposed' = ~exposed
    /\ queued' = TRUE
    /\ UNCHANGED <<clears, secret, cache, watch, phase, pc, run, reported, past>>

DeleteInstance ==
    /\ Edit /\ phase = "live"
    /\ phase' = "deleting"
    /\ queued' = TRUE
    /\ UNCHANGED <<clears, secret, cache, watch, exposed, pc, run, reported, past>>

\* The provider stops at any point; its cache is filled before it works again
\* and every Instance is queued.
Restart ==
    /\ Edit
    /\ cache' = secret /\ watch' = <<>>
    /\ queued' = (phase # "gone")
    /\ pc' = "idle" /\ run' = NoRun
    /\ UNCHANGED <<clears, secret, phase, exposed, reported, past>>

-----------------------------------------------------------------------------
(* The reconcile: Sync (ensureAIGatewayKey), then Status; or Cleanup. *)

Retry == pc' = "idle" /\ run' = NoRun /\ queued' = TRUE

Start ==
    /\ pc = "idle" /\ queued /\ phase # "gone"
    /\ queued' = FALSE
    /\ pc' = CASE phase = "deleting" -> "cleanup"
               [] phase = "live" /\ exposed -> "ensure"
               [] OTHER -> "status"
    /\ UNCHANGED <<clears, secret, cache, watch, phase, exposed, run, reported, past, edits>>

\* A draw of the id that forgets the key.
FilledMutant(s, draw) ==
    [exists |-> TRUE, label |-> TRUE, id |-> IF s.id = 0 THEN draw ELSE s.id, key |-> s.key]

\* setAIGatewayKeyFields: the label always, id and key only when missing.
Filled(s, draw) ==
    [exists |-> TRUE, label |-> TRUE,
     id |-> IF s.id = 0 THEN draw ELSE s.id,
     key |-> IF s.key = 0 THEN draw ELSE s.key]

Unused == (Draws \ {0}) \ past

\* Takes any Secret that exists for a finished one.
ensureAIGatewayKeyMutant ==
    /\ pc = "ensure"
    /\ Unused # {}
    /\ LET desired == Filled(cache, CHOOSE n \in Unused : TRUE) IN
       IF cache.exists
       THEN pc' = "status" /\ UNCHANGED run
       ELSE run' = [base |-> cache, desired |-> desired] /\ pc' = "create"
    /\ UNCHANGED <<clears, secret, cache, watch, phase, exposed, queued, reported, past, edits>>

ensureAIGatewayKey ==
    /\ pc = "ensure"
    /\ Unused # {}
    /\ LET desired == Filled(cache, CHOOSE n \in Unused : TRUE) IN
       IF desired = cache
       THEN pc' = "status" /\ UNCHANGED run
       ELSE /\ run' = [base |-> cache, desired |-> desired]
            /\ pc' = IF cache.exists THEN "patch" ELSE "create"
    /\ UNCHANGED <<clears, secret, cache, watch, phase, exposed, queued, reported, past, edits>>

Created ==
    /\ pc = "create"
    /\ ~secret.exists
    /\ Store(run.desired, TRUE)

createAIGatewayKey ==
    /\ Created
    /\ pc' = "status" /\ run' = NoRun
    /\ UNCHANGED <<clears, cache, phase, exposed, queued, reported, edits>>

\* The Secret exists but is not cached yet: never regenerate, retry.
AlreadyExists ==
    /\ pc = "create" /\ secret.exists
    /\ Retry
    /\ UNCHANGED <<clears, secret, cache, watch, phase, exposed, reported, past, edits>>

\* An Update of the whole object in place of the merge patch.
MergedMutant == run.desired

\* Patch(desired, MergeFrom(existing)): the fields in which the two differ, on
\* whatever the API server holds by now.
Merged ==
    [exists |-> TRUE, label |-> TRUE,
     id |-> IF run.base.id = run.desired.id THEN secret.id ELSE run.desired.id,
     key |-> IF run.base.key = run.desired.key THEN secret.key ELSE run.desired.key]

Patched ==
    /\ pc = "patch"
    /\ secret.exists
    /\ IF Merged = secret THEN UNCHANGED <<secret, watch, past>> ELSE Store(Merged, TRUE)

patchKeySecret ==
    /\ Patched
    /\ pc' = "status" /\ run' = NoRun
    /\ UNCHANGED <<clears, cache, phase, exposed, queued, reported, edits>>

PatchNotFound ==
    /\ pc = "patch" /\ ~secret.exists
    /\ Retry
    /\ UNCHANGED <<clears, secret, cache, watch, phase, exposed, reported, past, edits>>

\* Status: the key that is cached, or waiting while there is none.
Report ==
    /\ pc = "status"
    /\ reported' = IF exposed /\ cache.key # 0 THEN [id |-> cache.id, key |-> cache.key] ELSE Nothing
    /\ pc' = "idle"
    /\ UNCHANGED <<clears, secret, cache, watch, phase, exposed, queued, run, past, edits>>

Deleted == pc = "cleanup" /\ secret.exists /\ Store(NoSecret, secret.label)

\* Cleanup deletes the Secret (no error when it is absent) and the finalizer goes;
\* nothing is left for the owner reference to collect.
Cleanup ==
    /\ Deleted \/ (pc = "cleanup" /\ ~secret.exists /\ UNCHANGED <<secret, watch, past>>)
    /\ phase' = "gone"
    /\ reported' = Nothing /\ pc' = "idle"
    /\ UNCHANGED <<clears, cache, exposed, queued, run, edits>>

\* A call of the API server fails, or only its answer is lost.
CallFails ==
    /\ pc \in {"create", "patch", "cleanup"}
    /\ Retry
    /\ UNCHANGED <<clears, secret, cache, watch, phase, exposed, reported, past, edits>>

AnswerLost ==
    /\ Created \/ Patched \/ Deleted
    /\ Retry
    /\ UNCHANGED <<clears, cache, phase, exposed, reported, edits>>

-----------------------------------------------------------------------------
Init ==
    /\ secret = NoSecret /\ cache = NoSecret /\ watch = <<>>
    /\ clears \in BOOLEAN /\ phase = "live" /\ exposed \in BOOLEAN
    /\ queued = TRUE /\ pc = "idle" /\ run = NoRun
    /\ reported = Nothing /\ past = {} /\ edits = 0

Others == RotateKey \/ Unlabel \/ Clear \/ SwitchAccess \/ DeleteInstance \/ Restart
Writes == createAIGatewayKey \/ patchKeySecret \/ Cleanup
Answers == AlreadyExists \/ PatchNotFound \/ CallFails \/ AnswerLost
Steps == Start \/ ensureAIGatewayKey \/ AlreadyExists \/ PatchNotFound \/ Report

Next == Others \/ Deliver \/ Resync \/ Steps \/ Writes \/ Answers

Spec == Init /\ [][Next]_vars

\* The worker works, the watch delivers, the resync comes round, and a call that
\* is retried is answered some day.
FairSpec ==
    /\ Spec
    /\ WF_vars(Steps) /\ WF_vars(Deliver) /\ WF_vars(Resync)
    /\ SF_vars(createAIGatewayKey) /\ SF_vars(patchKeySecret) /\ SF_vars(Cleanup)

-----------------------------------------------------------------------------
(* Properties. *)

\* The Secret is complete wherever it is stored, cached or under way, unless a
\* writer may empty its fields.
WellFormed(s) == s \in SecretType /\ (s.exists /\ ~clears => s.id # 0 /\ s.key # 0)

\* Every copy of the Secret has the shape the code gives it, and only a writer
\* that empties a field leaves one without id or key (createAIGatewayKey stores
\* both at once).
TypeOK ==
    /\ WellFormed(secret) /\ WellFormed(cache)
    /\ watch \in Seq([secret : SecretType, wake : BOOLEAN])
    /\ \A i \in DOMAIN watch : WellFormed(watch[i].secret)
    /\ clears \in BOOLEAN /\ phase \in {"live", "deleting", "gone"} /\ exposed \in BOOLEAN
    /\ queued \in BOOLEAN /\ pc \in PCs
    /\ WellFormed(run.base) /\ run.desired \in SecretType
    /\ run = [base |-> run.base, desired |-> run.desired]
    /\ reported \in [id : Draws, key : Draws]
    /\ past \subseteq Draws \ {0} /\ edits \in 0 .. MaxEdits

\* "The key is generated once and never rewritten": as long as nobody empties its
\* fields, no step replaces a stored id or key by another one in place, however
\* stale the cache it was decided on.
NeverRewritten ==
    [][~clears => \A f \in {"id", "key"} :
          secret[f] # 0 /\ secret'[f] # 0 => secret'[f] = secret[f]]_vars

\* The Secret implements the key lifetime: a fresh key, then none, then a fresh
\* key again, and a removed key never comes back.  (Where a writer empties fields
\* there is no such promise; the mapping leaves the abstract state at rest there.)
Lifetime == INSTANCE KeyLifetime WITH Values <- Draws \ {0}, NoKey <- 0,
                key  <- IF clears THEN 0 ELSE secret.key,
                past <- IF clears THEN {} ELSE past
KeepsLifetime == Lifetime!Spec

\* When others stop, the Secret of a live exposed Instance is complete and
\* labelled again and the reported key is the stored one, so a deleted Secret is
\* regenerated and published; a deleted Instance ends up without a Secret.  (A model
\* that has used up its MaxDraws draws owes nothing.)
Settled ==
    /\ phase = "live" /\ exposed =>
          secret.label /\ secret.key # 0 /\ reported = [id |-> secret.id, key |-> secret.key]
    /\ phase # "live" => ~secret.exists
KeySettles == <>[](Settled \/ Unused = {})
=============================================================================
