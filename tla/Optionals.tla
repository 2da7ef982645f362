------------------------------- MODULE Optionals -------------------------------
(***************************************************************************)
(* A pointer of the code: <<>> is nil, <<v>> points at v.                    *)
(***************************************************************************)
EXTENDS Integers, Sequences

IsSet(o) == o # <<>>
Val(o) == o[1]

\* A pointer to a member of S, or nil.
OptionOf(o, S) == o \in Seq(S) /\ Len(o) <= 1

Above(o, n) == IsSet(o) /\ Val(o) > n
Below(o, n) == IsSet(o) /\ Val(o) < n

\* The first of two pointers that is set.
Either(o, other) == IF IsSet(o) THEN o ELSE other

When(condition, x) == IF condition THEN <<x>> ELSE <<>>
=============================================================================
