----------------------------- MODULE KeyLifetime -----------------------------
(***************************************************************************)
(* What the provider promises about an Instance's API key: it "is generated  *)
(* once and never rewritten, like a database password" (apikey.go).  A key   *)
(* appears when there is none, is never changed in place, and once removed   *)
(* (rotation, or deletion with the Instance) never comes back.               *)
(***************************************************************************)
EXTENDS Naturals

CONSTANTS Values,   \* what newAPIKey can return
          NoKey     \* no key Secret

VARIABLES key,      \* the stored key
          past      \* every key stored so far

Init == key = NoKey /\ past = {}

Generate ==
    /\ key = NoKey
    /\ key' \in Values \ past
    /\ past' = past \cup {key'}

Remove ==
    /\ key # NoKey
    /\ key' = NoKey
    /\ UNCHANGED past

Next == Generate \/ Remove

Spec == Init /\ [][Next]_<<key, past>>
=============================================================================
