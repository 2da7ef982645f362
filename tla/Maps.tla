---------------------------------- MODULE Maps ----------------------------------
(***************************************************************************)
(* The maps of Go as functions: one entry, and two maps one over the other.   *)
(* The operators :> and @@ of TLC say the same, but the provers cannot expand *)
(* them.                                                                       *)
(***************************************************************************)

One(key, value) == [k \in {key} |-> value]

f ++ g == [k \in DOMAIN f \cup DOMAIN g |-> IF k \in DOMAIN f THEN f[k] ELSE g[k]]
=============================================================================
