----------------------------- MODULE MC_ModelNames -----------------------------
(***************************************************************************)
(* Small instances of ModelNames: two Instances that share their name across *)
(* namespaces, as two predictors may, and two model names.                   *)
(***************************************************************************)
EXTENDS ModelNames

MCInstances == {<<"a", "x">>, <<"b", "x">>}
=============================================================================
