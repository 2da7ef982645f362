---------------------------- MODULE MC_GatewayAuth ----------------------------
(***************************************************************************)
(* Small instances of GatewayAuth.  Two namespaces; in "a" two key Secrets   *)
(* that can share an id or a value, in "b" one that refers across the        *)
(* namespaces, to a malformed ref and, at times, carries a's value.          *)
(***************************************************************************)
EXTENDS GatewayAuth

Gw == "gw"
GwNs == "sys"
MCValidIds == {"k_1", "k_2", "k_3"}

SecretA == <<"a", "x-key">>
SecretB == <<"b", "y-key">>
SecretA2 == <<"a", "z-key">>
RouteA == <<"a", "x">>
RouteB == <<"b", "y">>
RouteA2 == <<"a", "z">>

Secret(label, id, value, refs) == [label |-> label, id |-> id, value |-> value, refs |-> refs]

Parent == [name |-> Gw, namespace |-> GwNs, kind |-> "Gateway"]
Elsewhere == [name |-> Gw, namespace |-> "", kind |-> ""]
Header(v) == [name |-> ModelHeader, type |-> "Exact", value |-> v]
Other == [name |-> "x-other", type |-> "Exact", value |-> "n"]
Regex == [name |-> ModelHeader, type |-> "RegularExpression", value |-> "r"]
Route(p, hs) == [parents |-> {p}, headers |-> hs]

\* Three Secrets.  In "a" two that share an id or a value at times, one with
\* "placeholder" as its id; the one of "b" refers to a's Instance, to its own and to
\* a malformed ref, or carries a's value.  Their routes share the model "m" at times.
SharedSecrets == {SecretA, SecretA2, SecretB}
SharedSecretContent ==
    [s \in SharedSecrets |->
       CASE s = SecretA  -> {Secret(TRUE, "k_1", "v1", {RouteA, <<"", "">>})}
         [] s = SecretA2 -> {Secret(TRUE, "k_1", "v2", {RouteA2}), Secret(TRUE, "k_2", "v1", {RouteA}),
                             Secret(TRUE, "placeholder", "v2", {RouteA})}
         [] s = SecretB  -> {Secret(TRUE, "k_3", "v2", {RouteA, RouteB, <<"b", "">>}),
                             Secret(TRUE, "k_3", "v1", {RouteB})}]
SharedRoutes == {RouteA, RouteA2, RouteB}
SharedRouteContent ==
    [r \in SharedRoutes |->
       CASE r = RouteA  -> {Route(Parent, {Header("m"), Header("l")})}
         [] r = RouteA2 -> {Route(Parent, {Header("z")})}
         [] r = RouteB  -> {Route(Parent, {Header("m"), Other}), Route(Parent, {Header("n"), Regex}),
                            Route(Elsewhere, {Header("n")})}]

LabelRoutes == {RouteA}
LabelRouteContent == [r \in LabelRoutes |-> {Route(Parent, {Header("m")})}]

\* One Secret whose label comes and goes.
LabelSecrets == {SecretA}
LabelSecretContent ==
    [s \in LabelSecrets |->
       {Secret(TRUE, "k_1", "v1", {RouteA}), Secret(FALSE, "k_1", "v1", {RouteA})}]
=============================================================================
