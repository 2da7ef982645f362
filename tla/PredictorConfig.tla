---------------------------- MODULE PredictorConfig ----------------------------
(***************************************************************************)
(* The inline config of a predictor merged into the generated spec            *)
(* (predictor_config.go).                                                     *)
(*                                                                         *)
(* A spec is a function from the paths of its leaves to their values, below   *)
(* spec.predictor.  A list is a leaf, except the named ones: their items are  *)
(* reached by name, and the order of the names is the leaf "items".            *)
(***************************************************************************)
EXTENDS Integers, Sequences, SequencesExt

namedLists == {"containers", "volumes", "volumeMounts", "imagePullSecrets"}

Items(list) == <<list, "items">>

\* The names in a list that is merged by name.
IsNamedList(p) == Len(p) > 1 /\ p[Len(p)] = "items" /\ p[Len(p) - 1] \in namedLists

\* The names that others lack, in their order.
Without(names, others) ==
    LET first[n \in 0 .. Len(names)] ==     \* of the first n names
            CASE n = 0 -> <<>>
              [] n > 0 /\ Contains(others, names[n]) -> first[n - 1]
              [] OTHER -> Append(first[n - 1], names[n])
    IN  first[Len(names)]

\* Mutant: what the config lists stays in front.
mergeNamedListsMutant(config, generated) == config \o Without(generated, config)

\* Generated items come first; those of the config that were not met follow.
mergeNamedLists(config, generated) == generated \o Without(config, generated)

\* Of two paths, one leads to the other: both cannot be leaves of one spec.
Clash(p, q) == IsPrefix(p, q) \/ IsPrefix(q, p)

mergeSpecMaps(config, generated) ==
    LET kept == {p \in DOMAIN config : \A q \in DOMAIN generated : ~Clash(p, q)}
        Merged(p) == p \in DOMAIN config /\ IsNamedList(p) IN
    [p \in kept \cup DOMAIN generated |->
        CASE p \in kept -> config[p]
          [] p \notin kept /\ Merged(p) -> mergeNamedLists(config[p], generated[p])
          [] OTHER -> generated[p]]
=============================================================================
