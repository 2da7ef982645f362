-------------------------- MODULE PredictorSpecProofs --------------------------
(***************************************************************************)
(* What buildInferenceService makes of an accepted predictor, path by path,    *)
(* and what the inline config may change of it: the lemmas that PredictorProofs *)
(* cites.                                                                      *)
(***************************************************************************)
EXTENDS WorkloadsProofs, SequenceTheorems, WellFoundedInduction

-----------------------------------------------------------------------------
(* Paths.  The provers do not count the words of a module among the strings, so    *)
(* the words that the builder uses are named.                                       *)

Words ==
    STRING \cup {"model", "modelFormat", "name", "storageUri", "args", "resources", "limits",
                 "requests", "nvidia", "amd", "containers", kserveContainer, "items", "volumes",
                 "imagePullSecrets", "image", "env", "ports", "volumeMounts", sharedMemory, "labels",
                 "instance", transformerContainer, "minReplicas", "maxReplicas",
                 "storageContainerName", "serviceAccountName", "tolerations", "deploymentStrategy", "maxSurge", "maxUnavailable"}

Paths == Seq(Words)

LEMMA Path1 ==
    ASSUME NEW S, NEW a \in S, NEW s, s = <<a>>
    PROVE  s \in Seq(S) /\ Len(s) = 1 /\ s[1] = a
  OBVIOUS

LEMMA Path2 ==
    ASSUME NEW S, NEW a \in S, NEW b \in S, NEW s, s = <<a, b>>
    PROVE  s \in Seq(S) /\ Len(s) = 2 /\ s[1] = a /\ s[2] = b
  OBVIOUS

LEMMA Path3 ==
    ASSUME NEW S, NEW a \in S, NEW b \in S, NEW c \in S, NEW s, s = <<a, b, c>>
    PROVE  s \in Seq(S) /\ Len(s) = 3 /\ s[1] = a /\ s[2] = b /\ s[3] = c
  OBVIOUS

LEMMA SeqOfMore ==
    ASSUME NEW S, NEW T, S \subseteq T, NEW s \in Seq(S)
    PROVE  s \in Seq(T)
  OBVIOUS

\* Two paths joined, position by position.
LEMMA Joined ==
    ASSUME NEW S, NEW s \in Seq(S), NEW t \in Seq(S), NEW u \in Seq(S),
           Len(u) = Len(s) + Len(t),
           \A n \in 1 .. Len(u) : u[n] = IF n <= Len(s) THEN s[n] ELSE t[n - Len(s)]
    PROVE  s \o t = u
<1>1. s \o t \in Seq(S) /\ Len(s \o t) = Len(u)
  BY ConcatProperties
<1>2. \A n \in 1 .. Len(s \o t) : (s \o t)[n] = u[n]
  BY <1>1, ConcatProperties
<1> QED
  BY <1>1, <1>2, SeqEqual

LEMMA JoinedLen ==
    ASSUME NEW S, NEW s \in Seq(S), NEW t \in Seq(S)
    PROVE  Len(s \o t) = Len(s) + Len(t) /\ Len(t) \in Nat
  BY ConcatProperties

LEMMA JoinedStart ==
    ASSUME NEW S, NEW s \in Seq(S), NEW t \in Seq(S), NEW n \in 1 .. Len(s)
    PROVE  s \o t \in Seq(S) /\ (s \o t)[n] = s[n]
  BY ConcatProperties

LEMMA Join11 ==
    ASSUME NEW S, NEW a \in S, NEW b \in S
    PROVE  <<a>> \o <<b>> = <<a, b>>
<1> DEFINE s == <<a>>
           t == <<b>>
           u == <<a, b>>
<1>1. s \in Seq(S) /\ Len(s) = 1 /\ s[1] = a /\ t \in Seq(S) /\ Len(t) = 1 /\ t[1] = b
  BY Path1
<1>2. u \in Seq(S) /\ Len(u) = 2 /\ u[1] = a /\ u[2] = b
  BY Path2
<1> HIDE DEF s, t, u
<1>3. Len(u) = Len(s) + Len(t) /\ \A n \in 1 .. Len(u) : u[n] = IF n <= Len(s) THEN s[n] ELSE t[n - Len(s)]
  BY <1>1, <1>2
<1>4. s \o t = u
  BY <1>1, <1>2, <1>3, Joined
<1> QED
  BY <1>4 DEF s, t, u

LEMMA Join12 ==
    ASSUME NEW S, NEW a \in S, NEW b \in S, NEW c \in S
    PROVE  <<a>> \o <<b, c>> = <<a, b, c>>
<1> DEFINE s == <<a>>
           t == <<b, c>>
           u == <<a, b, c>>
<1>1. s \in Seq(S) /\ Len(s) = 1 /\ s[1] = a
  BY Path1
<1>2. t \in Seq(S) /\ Len(t) = 2 /\ t[1] = b /\ t[2] = c
  BY Path2
<1>3. u \in Seq(S) /\ Len(u) = 3 /\ u[1] = a /\ u[2] = b /\ u[3] = c
  BY Path3
<1> HIDE DEF s, t, u
<1>4. Len(u) = Len(s) + Len(t) /\ \A n \in 1 .. Len(u) : u[n] = IF n <= Len(s) THEN s[n] ELSE t[n - Len(s)]
  BY <1>1, <1>2, <1>3
<1>5. s \o t = u
  BY <1>1, <1>2, <1>3, <1>4, Joined
<1> QED
  BY <1>5 DEF s, t, u

\* Of two maps the first wins.
LEMMA Overlay ==
    ASSUME NEW f, NEW g
    PROVE  /\ DOMAIN (f ++ g) = DOMAIN f \cup DOMAIN g
           /\ \A k \in DOMAIN f : (f ++ g)[k] = f[k]
           /\ \A k \in DOMAIN g \ DOMAIN f : (f ++ g)[k] = g[k]
  BY DEF ++

\* What is said below a prefix is what the part says.
LEMMA PrefixedDomain ==
    ASSUME NEW prefix, NEW spec
    PROVE  DOMAIN Prefixed(prefix, spec) = {prefix \o q : q \in DOMAIN spec}
  BY DEF Prefixed

LEMMA PrefixedAt ==
    ASSUME NEW S, NEW prefix \in Seq(S), NEW spec, NEW q \in DOMAIN spec, q \in Seq(S)
    PROVE  /\ prefix \o q \in DOMAIN Prefixed(prefix, spec)
           /\ Prefixed(prefix, spec)[prefix \o q] = spec[q]
<1>1. SubSeq(prefix \o q, Len(prefix) + 1, Len(prefix \o q)) = q
  <2>1. prefix \o q \in Seq(S) /\ Len(prefix \o q) = Len(prefix) + Len(q)
    OBVIOUS
  <2> QED
    BY <2>1
<1> QED
  BY <1>1 DEF Prefixed

-----------------------------------------------------------------------------
(* The merge.  *)

LEMMA ClashesWithItself == ASSUME NEW S, NEW p \in Seq(S) PROVE Clash(p, p)
  BY DEF Clash, IsPrefix

\* A generated field wins wherever it is, unless both sides list names there.
LEMMA GeneratedWins ==
    ASSUME NEW S, NEW config, NEW generated, NEW p \in DOMAIN generated, p \in Seq(S)
    PROVE  LET spec == mergeSpecMaps(config, generated) IN
           /\ p \in DOMAIN spec
           /\ ~IsNamedList(p) \/ p \notin DOMAIN config => spec[p] = generated[p]
           /\ IsNamedList(p) /\ p \in DOMAIN config =>
                spec[p] = mergeNamedLists(config[p], generated[p])
<1>1. Clash(p, p)
  BY ClashesWithItself
<1> QED
  BY <1>1 DEF mergeSpecMaps

\* A field that the merged spec has and the generated one has not is the config's.
LEMMA ElseConfig ==
    ASSUME NEW config, NEW generated, NEW p \in DOMAIN mergeSpecMaps(config, generated),
           p \notin DOMAIN generated
    PROVE  p \in DOMAIN config /\ mergeSpecMaps(config, generated)[p] = config[p]
  BY DEF mergeSpecMaps

-----------------------------------------------------------------------------
(* What is generated, and where.                                                  *)

\* The catalog changes the model's source and its task, not the rest.
LEMMA ResolvedModel ==
    ASSUME NEW i \in Insts, i.topology = "predictor", IsSet(resolveCatalogModel(i)),
           NEW r, r = Val(resolveCatalogModel(i))
    PROVE  /\ r.image = i.image /\ r.args = i.args /\ r.res = i.res /\ r.config = i.config
           /\ r.port = i.port /\ r.tolerations = i.tolerations
           /\ r.access = i.access /\ r.legacy = i.legacy /\ r.topology = i.topology
           /\ \/ r = i
              \/ /\ i.format = "" /\ i.scheme = "" /\ ~UsesCustomContainer(i)
                 /\ r.format = Models[i.model].format /\ r.scheme = Models[i.model].scheme
<1>1. PredictorFields \subseteq DOMAIN i
  BY PredictorsAssumption
<1>2. CASE i.model = "" \/ i.format # "" \/ i.scheme # "" \/ UsesCustomContainer(i)
  <2>1. resolveCatalogModel(i) = <<i>>
    BY <1>2 DEF resolveCatalogModel
  <2> QED
    BY <2>1, PointerTo
<1>3. CASE ~(i.model = "" \/ i.format # "" \/ i.scheme # "" \/ UsesCustomContainer(i))
  <2> DEFINE entry == Models[i.model]
             n == [i EXCEPT !.format = entry.format, !.scheme = entry.scheme,
                            !.task = IF @ = "" THEN entry.task ELSE @,
                            !.gpuCount = IF ~IsSet(@) /\ entry.gpuCount > 0
                                         THEN <<entry.gpuCount>> ELSE @]
  <2>1. resolveCatalogModel(i) = <<n>>
    BY <1>3 DEF resolveCatalogModel, IsSet
  <2>2. r = n
    BY <2>1, PointerTo
  <2>3. /\ n.image = i.image /\ n.args = i.args /\ n.res = i.res /\ n.config = i.config
        /\ n.port = i.port /\ n.tolerations = i.tolerations
        /\ n.access = i.access /\ n.legacy = i.legacy /\ n.topology = i.topology
        /\ n.format = entry.format /\ n.scheme = entry.scheme
    BY <1>1 DEF PredictorFields
  <2> QED
    BY <1>3, <2>2, <2>3
<1> QED
  BY <1>2, <1>3

ResourceType(r) == IsSet(r.res) => DOMAIN Val(r.res) \subseteq {"limits", "requests"} \X STRING

LEMMA ResourceNames ==
    ASSUME NEW r, ResourceType(r), IsSet(predictorResources(r)),
           NEW q \in DOMAIN Val(predictorResources(r))
    PROVE  \E a \in {"limits", "requests"}, b \in Words : q = <<a, b>>
<1> DEFINE given == IF IsSet(r.res) THEN Val(r.res) ELSE None
           out == IF Above(r.gpuCount, 0)
                  THEN One(<<"limits", "nvidia">>, Val(r.gpuCount)) ++ given ELSE given
           Limited == {p[2] : p \in {p \in DOMAIN out : p[1] = "limits"}}
           names == {"limits", "requests"} \X Words
<1>1. DOMAIN given \subseteq names
  BY DEF None, ResourceType, Words
<1>2. <<"limits", "nvidia">> \in names
  BY DEF Words
<1> HIDE DEF given
<1>3. DOMAIN out \subseteq names
  <2> DEFINE one == One(<<"limits", "nvidia">>, Val(r.gpuCount))
  <2>1. DOMAIN one \subseteq names
    BY <1>2 DEF One
  <2> HIDE DEF one, names
  <2>2. DOMAIN (one ++ given) \subseteq names
    BY <1>1, <2>1, Overlay
  <2> QED
    BY <1>1, <2>2 DEF one
<1> HIDE DEF out
<1>4. Limited \subseteq Words
  BY <1>3
<1> HIDE DEF Limited
<1>5. {"requests"} \X Limited \subseteq names
  BY <1>4
<1>6. predictorResources(r) = <<out ++ [p \in {"requests"} \X Limited |-> out[<<"limits", p[2]>>]]>>
  BY DEF predictorResources, IsSet, out, given, Limited
<1> DEFINE mirror == [p \in {"requests"} \X Limited |-> out[<<"limits", p[2]>>]]
<1>7. Val(predictorResources(r)) = out ++ mirror
  BY <1>6, PointerTo
<1>8. DOMAIN mirror \subseteq names
  BY <1>5
<1>9. q \in names
  <2> HIDE DEF mirror, names
  <2> QED
    BY <1>3, <1>7, <1>8 DEF ++
<1> QED
  BY <1>9

LEMMA ResourcesSaid ==
    ASSUME NEW r, ResourceType(r)
    PROVE  /\ \A p \in DOMAIN ResourcesOf(r) : p \in Paths /\ Len(p) = 3 /\ p[1] = "resources"
           /\ IsSet(predictorResources(r)) =>
                \A a \in {"limits", "requests"}, b \in Words :
                    <<a, b>> \in DOMAIN Val(predictorResources(r)) =>
                        /\ <<"resources", a, b>> \in DOMAIN ResourcesOf(r)
                        /\ ResourcesOf(r)[<<"resources", a, b>>] = Val(predictorResources(r))[<<a, b>>]
<1>1. CASE ~IsSet(predictorResources(r))
  BY <1>1 DEF ResourcesOf, None
<1>2. CASE IsSet(predictorResources(r))
  <2> DEFINE res == Val(predictorResources(r))
             under == <<"resources">>
  <2>1. ResourcesOf(r) = Prefixed(under, res)
    BY <1>2 DEF ResourcesOf
  <2>2. \A q \in DOMAIN res : \E a \in {"limits", "requests"}, b \in Words : q = <<a, b>>
    BY <1>2, ResourceNames
  <2>3. \A a \in {"limits", "requests"}, b \in Words :
            /\ <<a, b>> \in Paths /\ under \o <<a, b>> = <<"resources", a, b>>
            /\ <<"resources", a, b>> \in Paths /\ Len(<<"resources", a, b>>) = 3
            /\ <<"resources", a, b>>[1] = "resources"
    <3> SUFFICES ASSUME NEW a \in {"limits", "requests"}, NEW b \in Words
                 PROVE  /\ <<a, b>> \in Paths /\ under \o <<a, b>> = <<"resources", a, b>>
                        /\ <<"resources", a, b>> \in Paths /\ Len(<<"resources", a, b>>) = 3
                        /\ <<"resources", a, b>>[1] = "resources"
      OBVIOUS
    <3>1. a \in Words /\ "resources" \in Words
      BY DEF Words
    <3> QED
      BY <3>1, Path2, Path3, Join12 DEF Paths
  <2>4. under \in Paths
    <3>1. "resources" \in Words
      BY DEF Words
    <3> QED
      BY <3>1, Path1 DEF Paths
  <2>5. DOMAIN res \subseteq Seq(Words)
    BY <2>2, <2>3 DEF Paths
  <2> HIDE DEF res, under
  <2>6. /\ DOMAIN Prefixed(under, res) = {under \o q : q \in DOMAIN res}
        /\ \A q \in DOMAIN res : /\ under \o q \in DOMAIN Prefixed(under, res)
                                 /\ Prefixed(under, res)[under \o q] = res[q]
    <3>1. under \in Seq(Words)
      BY <2>4 DEF Paths
    <3>2. DOMAIN Prefixed(under, res) = {under \o q : q \in DOMAIN res}
      BY PrefixedDomain
    <3>3. ASSUME NEW q \in DOMAIN res
          PROVE  /\ under \o q \in DOMAIN Prefixed(under, res)
                 /\ Prefixed(under, res)[under \o q] = res[q]
      <4>1. q \in Seq(Words)
        BY <2>5
      <4> QED
        BY <3>1, <4>1, PrefixedAt
    <3> QED
      BY <3>2, <3>3
  <2>7. \A p \in DOMAIN ResourcesOf(r) : p \in Paths /\ Len(p) = 3 /\ p[1] = "resources"
    <3>0. DOMAIN ResourcesOf(r) = {under \o q : q \in DOMAIN res}
      BY <2>1, <2>6
    <3> SUFFICES ASSUME NEW q \in DOMAIN res
                 PROVE  under \o q \in Paths /\ Len(under \o q) = 3 /\ (under \o q)[1] = "resources"
      BY <3>0
    <3>1. PICK a \in {"limits", "requests"}, b \in Words : q = <<a, b>>
      BY <2>2
    <3>2. under \o q = <<"resources", a, b>>
      BY <2>3, <3>1
    <3> QED
      BY <2>3, <3>2
  <2>8. ASSUME NEW a \in {"limits", "requests"}, NEW b \in Words, <<a, b>> \in DOMAIN res
        PROVE  /\ <<"resources", a, b>> \in DOMAIN ResourcesOf(r)
               /\ ResourcesOf(r)[<<"resources", a, b>>] = res[<<a, b>>]
    <3>1. under \o <<a, b>> = <<"resources", a, b>>
      BY <2>3
    <3> QED
      BY <2>1, <2>6, <2>8, <3>1
  <2> QED
    BY <2>7, <2>8 DEF res
<1> QED
  BY <1>1, <1>2

\* A leaf that is given is there, and nothing else is.
LEMMA LeafSays ==
    ASSUME NEW path, NEW o
    PROVE  /\ IsSet(o) => DOMAIN Leaf(path, o) = {path} /\ Leaf(path, o)[path] = Val(o)
           /\ ~IsSet(o) => DOMAIN Leaf(path, o) = {}
  BY DEF Leaf, One, None

LEMMA TwoLeaves ==
    ASSUME NEW a \in Words, NEW b \in Words, NEW x, NEW y,
           NEW p \in DOMAIN (Leaf(<<a>>, x) ++ Leaf(<<b>>, y))
    PROVE  p[1] \in {a, b}
<1>1. p = <<a>> \/ p = <<b>>
  <2>1. DOMAIN Leaf(<<a>>, x) \subseteq {<<a>>} /\ DOMAIN Leaf(<<b>>, y) \subseteq {<<b>>}
    BY LeafSays
  <2> QED
    BY <2>1, Overlay
<1> QED
  BY <1>1, Path1

LEMMA NonEmptySays ==
    ASSUME NEW x
    PROVE  /\ x # <<>> => IsSet(NonEmpty(x)) /\ Val(NonEmpty(x)) = x
           /\ x = <<>> => ~IsSet(NonEmpty(x))
<1>1. x # <<>> => NonEmpty(x) = <<x>>
  BY DEF NonEmpty, When
<1>2. x = <<>> => NonEmpty(x) = <<>>
  BY DEF NonEmpty, When
<1> QED
  BY <1>1, <1>2, PointerTo DEF IsSet

LEMMA RuntimeSays ==
    ASSUME NEW r, ResourceType(r), NEW m, m = runtimeModel(r)
    PROVE  /\ DOMAIN m \subseteq Seq(Words)
           /\ <<"modelFormat", "name">> \in DOMAIN m /\ m[<<"modelFormat", "name">>] = r.format
           /\ <<"storageUri">> \in DOMAIN m /\ m[<<"storageUri">>] = r.scheme
           /\ predictorArgs(r) # <<>> =>
                <<"args">> \in DOMAIN m /\ m[<<"args">>] = predictorArgs(r)
           /\ \A p \in DOMAIN ResourcesOf(r) : p \in DOMAIN m /\ m[p] = ResourcesOf(r)[p]
<1> DEFINE k1 == <<"modelFormat", "name">>
           k2 == <<"storageUri">>
           k3 == <<"args">>
           a == One(k1, r.format)
           b == One(k2, r.scheme)
           c == Leaf(k3, NonEmpty(predictorArgs(r)))
           d == ResourcesOf(r)
<1>1. /\ k1 \in Seq(Words) /\ Len(k1) = 2
      /\ k2 \in Seq(Words) /\ Len(k2) = 1 /\ k2[1] = "storageUri"
      /\ k3 \in Seq(Words) /\ Len(k3) = 1 /\ k3[1] = "args"
  <2>1. {"modelFormat", "name", "storageUri", "args"} \subseteq Words
    BY DEF Words
  <2> QED
    BY <2>1, Path1, Path2
<1>2. DOMAIN a = {k1} /\ a[k1] = r.format /\ DOMAIN b = {k2} /\ b[k2] = r.scheme
  BY DEF One
<1>3. /\ DOMAIN c \subseteq {k3}
      /\ predictorArgs(r) # <<>> => k3 \in DOMAIN c /\ c[k3] = predictorArgs(r)
  <2> DEFINE args == predictorArgs(r)
             o == NonEmpty(args)
  <2>1. args # <<>> => IsSet(o) /\ Val(o) = args
    BY NonEmptySays
  <2> HIDE DEF args, o
  <2>2. IsSet(o) => DOMAIN Leaf(k3, o) = {k3} /\ Leaf(k3, o)[k3] = Val(o)
    BY LeafSays
  <2>3. ~IsSet(o) => DOMAIN Leaf(k3, o) = {}
    BY LeafSays
  <2> QED
    BY <2>1, <2>2, <2>3 DEF args, o
<1>4. \A p \in DOMAIN d : p \in Seq(Words) /\ Len(p) = 3
  BY ResourcesSaid DEF Paths
<1>5. m = a ++ b ++ c ++ d
  BY DEF runtimeModel
<1> HIDE DEF k1, k2, k3, a, b, c, d
<1>6. k1 # k2 /\ k1 # k3 /\ k2 # k3 /\ k1 \notin DOMAIN d /\ k2 \notin DOMAIN d /\ k3 \notin DOMAIN d
  BY SMTT(30), <1>1, <1>4
<1>7. DOMAIN m = DOMAIN a \cup DOMAIN b \cup DOMAIN c \cup DOMAIN d
  BY <1>5 DEF ++
<1>8. DOMAIN m \subseteq Seq(Words)
  BY <1>1, <1>2, <1>3, <1>4, <1>7
<1>9. k1 \in DOMAIN m /\ m[k1] = r.format /\ k2 \in DOMAIN m /\ m[k2] = r.scheme
  BY <1>2, <1>5, <1>6 DEF ++
<1>10. predictorArgs(r) # <<>> => k3 \in DOMAIN m /\ m[k3] = predictorArgs(r)
  BY <1>2, <1>3, <1>5, <1>6 DEF ++
<1>11. \A p \in DOMAIN d : p \in DOMAIN m /\ m[p] = d[p]
  BY <1>2, <1>3, <1>5, <1>6 DEF ++
<1> QED
  BY <1>8, <1>9, <1>10, <1>11 DEF k1, k2, k3, d

LEMMA ContainerSays ==
    ASSUME NEW r, ResourceType(r), NEW m, m = customPredictorContainer(r)
    PROVE  /\ DOMAIN m \subseteq Seq(Words)
           /\ <<"image">> \in DOMAIN m /\ m[<<"image">>] = r.image
           /\ <<"ports">> \in DOMAIN m /\ m[<<"ports">>] = <<ContainerPort(r)>>
           /\ \A p \in DOMAIN ResourcesOf(r) : p \in DOMAIN m /\ m[p] = ResourcesOf(r)[p]
<1> DEFINE k1 == <<"image">>
           k2 == <<"args">>
           k3 == <<"env">>
           k4 == <<"ports">>
           k5 == Items("volumeMounts")
           a == One(k1, r.image)
           b == Leaf(k2, NonEmpty(r.args))
           c == Leaf(k3, NonEmpty(When(r.scheme # "", [name |-> "STORAGE_URI", value |-> r.scheme])))
           d == One(k4, <<ContainerPort(r)>>)
           e == One(k5, <<sharedMemory>>)
           f == ResourcesOf(r)
<1>1. /\ k1 \in Seq(Words) /\ Len(k1) = 1 /\ k1[1] = "image"
      /\ k2 \in Seq(Words) /\ Len(k2) = 1 /\ k2[1] = "args"
      /\ k3 \in Seq(Words) /\ Len(k3) = 1 /\ k3[1] = "env"
      /\ k4 \in Seq(Words) /\ Len(k4) = 1 /\ k4[1] = "ports"
      /\ k5 \in Seq(Words) /\ Len(k5) = 2
  <2>1. {"image", "args", "env", "ports", "volumeMounts", "items"} \subseteq Words
    BY DEF Words
  <2>2. k5 = <<"volumeMounts", "items">>
    BY DEF Items
  <2> QED
    BY <2>1, <2>2, Path1, Path2
<1>2. /\ DOMAIN a = {k1} /\ a[k1] = r.image /\ DOMAIN d = {k4} /\ d[k4] = <<ContainerPort(r)>>
      /\ DOMAIN e = {k5}
  BY DEF One
<1>3. DOMAIN b \subseteq {k2} /\ DOMAIN c \subseteq {k3}
  BY LeafSays
<1>4. \A p \in DOMAIN f : p \in Seq(Words) /\ Len(p) = 3
  BY ResourcesSaid DEF Paths
<1>5. m = a ++ b ++ c ++ d ++ e ++ f
  BY DEF customPredictorContainer
<1> HIDE DEF k1, k2, k3, k4, k5, a, b, c, d, e, f
<1>6. k1 # k4 /\ k2 # k4 /\ k3 # k4
  BY <1>1
<1>7. \A p \in DOMAIN f : p # k1 /\ p # k2 /\ p # k3 /\ p # k4 /\ p # k5
  BY <1>1, <1>4
<1>8. DOMAIN m = DOMAIN a \cup DOMAIN b \cup DOMAIN c \cup DOMAIN d \cup DOMAIN e \cup DOMAIN f
  BY <1>5 DEF ++
<1>9. DOMAIN m \subseteq Seq(Words)
  BY <1>1, <1>2, <1>3, <1>4, <1>8
<1>10. k1 \in DOMAIN m /\ m[k1] = r.image
  BY <1>2, <1>5 DEF ++
<1>11. k4 \in DOMAIN m /\ m[k4] = <<ContainerPort(r)>>
  BY <1>2, <1>3, <1>5, <1>6 DEF ++
<1>12. \A p \in DOMAIN f : p \in DOMAIN m /\ m[p] = f[p]
  BY <1>2, <1>3, <1>5, <1>7 DEF ++
<1> QED
  BY <1>9, <1>10, <1>11, <1>12 DEF k1, k4, f

\* The first word of what the source of the model sets.
SourceTops == {"model", "containers", "volumes", "imagePullSecrets"}

LEMMA RuntimeSource ==
    ASSUME NEW r, ResourceType(r), ~UsesCustomContainer(r)
    PROVE  /\ \A p \in DOMAIN SourceOf(r) : p \in Seq(Words) /\ p[1] = "model"
           /\ \A q \in DOMAIN runtimeModel(r) :
                 /\ <<"model">> \o q \in DOMAIN SourceOf(r)
                 /\ SourceOf(r)[<<"model">> \o q] = runtimeModel(r)[q]
<1> DEFINE k == <<"model">>
           m == runtimeModel(r)
<1>1. SourceOf(r) = Prefixed(k, m)
  BY DEF SourceOf
<1>2. k \in Seq(Words) /\ Len(k) = 1 /\ k[1] = "model"
  <2>1. "model" \in Words
    BY DEF Words
  <2> QED
    BY <2>1, Path1
<1>3. DOMAIN m \subseteq Seq(Words)
  BY RuntimeSays
<1> HIDE DEF k, m
<1>4. DOMAIN Prefixed(k, m) = {k \o q : q \in DOMAIN m}
  BY PrefixedDomain
<1>5. ASSUME NEW q \in DOMAIN m
      PROVE  /\ k \o q \in Seq(Words) /\ (k \o q)[1] = "model"
             /\ k \o q \in DOMAIN Prefixed(k, m) /\ Prefixed(k, m)[k \o q] = m[q]
  <2>1. q \in Seq(Words)
    BY <1>3
  <2>2. 1 \in 1 .. Len(k)
    BY <1>2
  <2>3. k \o q \in Seq(Words) /\ (k \o q)[1] = k[1]
    BY <1>2, <2>1, <2>2, JoinedStart
  <2> QED
    BY <1>2, <2>1, <2>3, PrefixedAt
<1>6. \A p \in DOMAIN SourceOf(r) : p \in Seq(Words) /\ p[1] = "model"
  <2>1. DOMAIN SourceOf(r) = {k \o q : q \in DOMAIN m}
    BY <1>1, <1>4
  <2> QED
    BY <1>5, <2>1
<1>7. \A q \in DOMAIN m : /\ k \o q \in DOMAIN SourceOf(r)
                          /\ SourceOf(r)[k \o q] = m[q]
  BY <1>1, <1>5
<1> QED
  BY <1>6, <1>7 DEF k, m

LEMMA CustomSource ==
    ASSUME NEW r, ResourceType(r), UsesCustomContainer(r)
    PROVE  /\ \A p \in DOMAIN SourceOf(r) : p \in Seq(Words) /\ p[1] \in SourceTops
           /\ \A p \in DOMAIN SourceOf(r) : Len(p) = 3 =>
                 \E q \in DOMAIN customPredictorContainer(r) :
                     p = <<"containers", kserveContainer>> \o q
           /\ Items("containers") \in DOMAIN SourceOf(r)
           /\ SourceOf(r)[Items("containers")] = <<kserveContainer>>
           /\ Items("volumes") \in DOMAIN SourceOf(r)
           /\ SourceOf(r)[Items("volumes")] = <<sharedMemory>>
           /\ \A q \in DOMAIN customPredictorContainer(r) :
                 /\ <<"containers", kserveContainer>> \o q \in DOMAIN SourceOf(r)
                 /\ SourceOf(r)[<<"containers", kserveContainer>> \o q] = customPredictorContainer(r)[q]
<1> DEFINE k == <<"containers", kserveContainer>>
           m == customPredictorContainer(r)
           k1 == Items("containers")
           k2 == Items("volumes")
           k3 == Items("imagePullSecrets")
           a == One(k1, <<kserveContainer>>)
           b == Prefixed(k, m)
           c == One(k2, <<sharedMemory>>)
           d == Leaf(k3, When(r.pull # "", <<r.pull>>))
<1>1. SourceOf(r) = a ++ b ++ c ++ d
  BY DEF SourceOf
<1>2. /\ k \in Seq(Words) /\ Len(k) = 2 /\ k[1] = "containers" /\ k[2] = kserveContainer
      /\ k1 \in Seq(Words) /\ Len(k1) = 2 /\ k1[1] = "containers" /\ k1[2] = "items"
      /\ k2 \in Seq(Words) /\ Len(k2) = 2 /\ k2[1] = "volumes"
      /\ k3 \in Seq(Words) /\ Len(k3) = 2 /\ k3[1] = "imagePullSecrets"
  <2>1. {"containers", kserveContainer, "items", "volumes", "imagePullSecrets"} \subseteq Words
    BY DEF Words
  <2>2. k1 = <<"containers", "items">> /\ k2 = <<"volumes", "items">> /\ k3 = <<"imagePullSecrets", "items">>
    BY DEF Items
  <2> QED
    BY <2>1, <2>2, Path2
<1>3. DOMAIN m \subseteq Seq(Words)
  BY ContainerSays
<1>4. /\ DOMAIN a = {k1} /\ a[k1] = <<kserveContainer>>
      /\ DOMAIN c = {k2} /\ c[k2] = <<sharedMemory>>
  BY DEF One
<1>5. DOMAIN d \subseteq {k3}
  BY LeafSays
<1>6. kserveContainer # "items"
  BY DEF kserveContainer
<1> HIDE DEF k, m, k1, k2, k3, a, c, d
<1>7. DOMAIN b = {k \o q : q \in DOMAIN m}
  BY PrefixedDomain
<1>8. ASSUME NEW q \in DOMAIN m
      PROVE  /\ k \o q \in Seq(Words) /\ (k \o q)[1] = "containers" /\ k \o q # k1
             /\ k \o q \in DOMAIN b /\ b[k \o q] = m[q]
  <2>1. q \in Seq(Words)
    BY <1>3
  <2>2. \A n \in 1 .. Len(k) : k \o q \in Seq(Words) /\ (k \o q)[n] = k[n]
    BY <1>2, <2>1, JoinedStart, Zenon
  <2>3. k \o q \in Seq(Words) /\ (k \o q)[1] = k[1] /\ (k \o q)[2] = k[2]
    <3>1. 1 \in 1 .. Len(k) /\ 2 \in 1 .. Len(k)
      BY <1>2
    <3> QED
      BY <2>2, <3>1, Zenon
  <2>4. k \o q # k1
    BY <1>2, <1>6, <2>3
  <2> QED
    BY <1>2, <2>1, <2>3, <2>4, PrefixedAt
<1> HIDE DEF b
<1>9. DOMAIN SourceOf(r) = DOMAIN a \cup DOMAIN b \cup DOMAIN c \cup DOMAIN d
  BY <1>1 DEF ++
<1>10. \A p \in DOMAIN b : p \in Seq(Words) /\ p[1] = "containers"
  BY ZenonT(30), <1>7, <1>8
<1>11. \A p \in DOMAIN SourceOf(r) : p \in Seq(Words) /\ p[1] \in SourceTops
  BY <1>2, <1>4, <1>5, <1>9, <1>10 DEF SourceTops
<1>12. k1 \in DOMAIN SourceOf(r) /\ SourceOf(r)[k1] = <<kserveContainer>>
  BY <1>1, <1>4 DEF ++
<1>13. k2 # k1 /\ k2 \notin DOMAIN b
  BY <1>2, <1>10
<1>14. k2 \in DOMAIN SourceOf(r) /\ SourceOf(r)[k2] = <<sharedMemory>>
  BY <1>1, <1>4, <1>13 DEF ++
<1>15. \A q \in DOMAIN m : k \o q \in DOMAIN SourceOf(r) /\ SourceOf(r)[k \o q] = m[q]
  BY <1>1, <1>4, <1>8 DEF ++
<1>16. ASSUME NEW p \in DOMAIN SourceOf(r), Len(p) = 3 PROVE \E q \in DOMAIN m : p = k \o q
  <2>1. p # k1 /\ p # k2 /\ p # k3
    <3>1. Len(p) # Len(k1) /\ Len(p) # Len(k2) /\ Len(p) # Len(k3)
      BY <1>2, <1>16
    <3> QED
      BY <3>1
  <2>2. p \in DOMAIN b
    BY <1>4, <1>5, <1>9, <2>1
  <2> QED
    BY <1>7, <2>2
<1> QED
  BY <1>11, <1>12, <1>14, <1>15, <1>16 DEF k, k1, k2, m

LEMMA SourceWords ==
    ASSUME NEW r, ResourceType(r), NEW p \in DOMAIN SourceOf(r)
    PROVE  p \in Seq(Words) /\ p[1] \in SourceTops
  BY RuntimeSource, CustomSource DEF SourceTops

\* What the GPUs ask of the placement is the placement's alone.
LEMMA PlacementSays ==
    ASSUME NEW r, ResourceType(r)
    PROVE  /\ \A p \in DOMAIN Placement(r) : /\ p \in Seq(Words) /\ Len(p) <= 2
                                             /\ p[1] \in {"tolerations", "deploymentStrategy"}
           /\ LET tolerations == ScheduledWith(r.tolerations, predictorResources(r)) IN
              tolerations # {} => /\ <<"tolerations">> \in DOMAIN Placement(r)
                                  /\ Placement(r)[<<"tolerations">>] = tolerations
           /\ requestsGPU(predictorResources(r)) =>
                /\ <<"deploymentStrategy", "maxSurge">> \in DOMAIN Placement(r)
                /\ Placement(r)[<<"deploymentStrategy", "maxSurge">>] = 0
<1> DEFINE k1 == <<"tolerations">>
           k2 == <<"deploymentStrategy", "maxSurge">>
           k3 == <<"deploymentStrategy", "maxUnavailable">>
           gpu == requestsGPU(predictorResources(r))
           tolerations == ScheduledWith(r.tolerations, predictorResources(r))
           a == Leaf(k1, When(tolerations # {}, tolerations))
           b == Leaf(k2, When(gpu, 0))
           c == Leaf(k3, When(gpu, 1))
<1>1. Placement(r) = a ++ b ++ c
  BY DEF Placement
<1>2. /\ k1 \in Seq(Words) /\ Len(k1) = 1 /\ k1[1] = "tolerations"
      /\ k2 \in Seq(Words) /\ Len(k2) = 2 /\ k2[1] = "deploymentStrategy"
      /\ k3 \in Seq(Words) /\ Len(k3) = 2 /\ k3[1] = "deploymentStrategy"
  <2>1. {"tolerations", "deploymentStrategy", "maxSurge", "maxUnavailable"} \subseteq Words
    BY DEF Words
  <2> QED
    BY <2>1, Path1, Path2
<1>3. DOMAIN a \subseteq {k1} /\ DOMAIN b \subseteq {k2} /\ DOMAIN c \subseteq {k3}
  BY LeafSays
<1>4. tolerations # {} => k1 \in DOMAIN a /\ a[k1] = tolerations
  <2> HIDE DEF tolerations
  <2>1. tolerations # {} => When(tolerations # {}, tolerations) = <<tolerations>>
    BY DEF When
  <2> QED
    BY <2>1 DEF Leaf, One, IsSet, Val
<1>5. ASSUME gpu PROVE k2 \in DOMAIN b /\ b[k2] = 0
  <2>1. b = Leaf(k2, <<0>>)
    BY <1>5 DEF When
  <2> HIDE DEF b, k2
  <2> QED
    BY <2>1 DEF Leaf, One, IsSet, Val
<1> HIDE DEF k1, k2, k3, gpu, tolerations, a, b, c
<1>6. k1 # k2 /\ Len(k1) <= 2 /\ Len(k2) <= 2 /\ Len(k3) <= 2
  <2>1. k1 # k2
    BY <1>2
  <2>2. ASSUME NEW n, n = 1 \/ n = 2 PROVE n <= 2
    BY <2>2
  <2> QED
    BY <1>2, <2>1, <2>2
<1>7. DOMAIN Placement(r) = DOMAIN a \cup DOMAIN b \cup DOMAIN c
  BY <1>1 DEF ++
<1>8. \A p \in DOMAIN Placement(r) :
          p \in Seq(Words) /\ Len(p) <= 2 /\ p[1] \in {"tolerations", "deploymentStrategy"}
  <2> SUFFICES ASSUME NEW p \in {k1, k2, k3}
               PROVE  p \in Seq(Words) /\ Len(p) <= 2 /\ p[1] \in {"tolerations", "deploymentStrategy"}
    BY <1>3, <1>7
  <2>1. CASE p = k1
    BY <1>2, <1>6, <2>1
  <2>2. CASE p \in {k2, k3}
    BY <1>2, <1>6, <2>2
  <2> QED
    BY <2>1, <2>2
<1>9. tolerations # {} => k1 \in DOMAIN Placement(r) /\ Placement(r)[k1] = tolerations
  BY <1>1, <1>4 DEF ++
<1>10. ASSUME gpu PROVE k2 \in DOMAIN Placement(r) /\ Placement(r)[k2] = 0
  BY <1>1, <1>3, <1>5, <1>6, <1>10 DEF ++
<1> QED
  BY <1>8, <1>9, <1>10 DEF k1, k2, gpu, tolerations

LEMMA GeneratedSays ==
    ASSUME NEW r, ResourceType(r), NEW g, g = Generated(r)
    PROVE  /\ \A p \in DOMAIN SourceOf(r) : p \in DOMAIN g /\ g[p] = SourceOf(r)[p]
           /\ \A p \in DOMAIN Placement(r) : p \in DOMAIN g /\ g[p] = Placement(r)[p]
           /\ \A p \in DOMAIN g : p[1] \in SourceTops => p \in DOMAIN SourceOf(r)
<1> DEFINE k == <<"labels", "instance">>
           a == One(k, r.name)
           b == SourceOf(r)
           c == Placement(r)
           d == ScalingOf(r)
           e == Accounts(r)
<1>1. g = a ++ b ++ c ++ d ++ e
  BY DEF Generated
<1>2. k[1] = "labels" /\ DOMAIN a = {k}
  BY DEF One
<1>3. \A p \in DOMAIN b : p[1] \in SourceTops
  BY SourceWords
<1>4. \A p \in DOMAIN c : p[1] \in {"tolerations", "deploymentStrategy"}
  BY PlacementSays
<1>8. \A p \in DOMAIN d : p[1] \in {"minReplicas", "maxReplicas"}
  <2>1. "minReplicas" \in Words /\ "maxReplicas" \in Words
    BY DEF Words
  <2> QED
    BY <2>1, TwoLeaves DEF ScalingOf
<1>9. \A p \in DOMAIN e : p[1] \in {"storageContainerName", "serviceAccountName"}
  <2>1. "storageContainerName" \in Words /\ "serviceAccountName" \in Words
    BY DEF Words
  <2> QED
    BY <2>1, TwoLeaves DEF Accounts
<1> HIDE DEF k, a, b, c, d, e
<1>5. k \notin DOMAIN b /\ k \notin DOMAIN c /\ DOMAIN b \cap DOMAIN c = {}
  BY <1>2, <1>3, <1>4 DEF SourceTops
<1>6. \A p \in DOMAIN b : p \in DOMAIN g /\ g[p] = b[p]
  BY <1>1, <1>2, <1>5 DEF ++
<1>7. \A p \in DOMAIN c : p \in DOMAIN g /\ g[p] = c[p]
  BY <1>1, <1>2, <1>5 DEF ++
<1>10. \A p \in DOMAIN g : p[1] \in SourceTops => p \in DOMAIN b
  <2>1. DOMAIN g = DOMAIN a \cup DOMAIN b \cup DOMAIN c \cup DOMAIN d \cup DOMAIN e
    BY <1>1 DEF ++
  <2> QED
    BY <1>2, <1>4, <1>8, <1>9, <2>1 DEF SourceTops
<1> QED
  BY <1>6, <1>7, <1>10 DEF b, c

-----------------------------------------------------------------------------
(* What the stored spec says.                                                     *)

LEMMA NotNamed ==
    ASSUME NEW S, NEW s \in Seq(S), NEW q \in Seq(S), Len(q) >= 1, q[Len(q)] # "items"
    PROVE  ~IsNamedList(s \o q)
<1>1. /\ s \o q \in Seq(S) /\ Len(s \o q) = Len(s) + Len(q) /\ Len(s) \in Nat /\ Len(q) \in Nat
  BY ConcatProperties
<1>2. (s \o q)[Len(s \o q)] = q[Len(q)]
  <2>1. Len(s \o q) \in 1 .. Len(s) + Len(q) /\ ~(Len(s \o q) <= Len(s))
        /\ Len(s \o q) - Len(s) = Len(q)
    BY <1>1
  <2> QED
    BY <2>1, ConcatProperties
<1> QED
  BY <1>2 DEF IsNamedList

\* The Instance the builder works on: accepted, with the catalog's values.
Resolves(i, r) ==
    /\ i \in Insts /\ i.topology = "predictor" /\ validatePredictor(i)
    /\ r = Val(resolveCatalogModel(i))

LEMMA ResolvedType ==
    ASSUME NEW i, NEW r, Resolves(i, r)
    PROVE  /\ ResourceType(r)
           /\ IsSet(r.config) => SpecType(Val(r.config))
           /\ r.args \in Seq([flag : STRING, value : STRING]) /\ OptionOf(r.port, Int)
           /\ UsesCustomContainer(r) <=> UsesCustomContainer(i)
           /\ UsesCustomContainer(i) => r = i
<1>1. i \in Insts /\ i.topology = "predictor" /\ IsSet(resolveCatalogModel(i)) /\ r = Val(resolveCatalogModel(i))
  BY DEF Resolves, validatePredictor
<1>2. /\ r.image = i.image /\ r.args = i.args /\ r.res = i.res /\ r.config = i.config
      /\ r.port = i.port /\ (r = i \/ ~UsesCustomContainer(i))
  BY <1>1, ResolvedModel
<1>3. /\ i.args \in Seq([flag : STRING, value : STRING]) /\ OptionOf(i.port, Int)
      /\ IsSet(i.res) => DOMAIN Val(i.res) \subseteq {"limits", "requests"} \X STRING
      /\ IsSet(i.config) => SpecType(Val(i.config))
  BY <1>1, PredictorsAssumption
<1> QED
  BY <1>2, <1>3 DEF ResourceType, UsesCustomContainer

SpecOf(i) == buildInferenceService(i).spec

LEMMA SpecIs ==
    ASSUME NEW i, NEW r, Resolves(i, r)
    PROVE  SpecOf(i) = IF IsSet(r.config) THEN mergeSpecMaps(Val(r.config), Generated(r))
                       ELSE Generated(r)
  BY DEF SpecOf, buildInferenceService, Resolves

\* A generated field that is no list of names is stored as it is generated.
LEMMA SpecSays ==
    ASSUME NEW i, NEW r, Resolves(i, r), NEW p \in DOMAIN Generated(r), p \in Seq(Words),
           ~IsNamedList(p), NEW else
    PROVE  At(SpecOf(i), p, else) = Generated(r)[p]
<1>1. CASE IsSet(r.config)
  <2> DEFINE spec == mergeSpecMaps(Val(r.config), Generated(r))
  <2>1. SpecOf(i) = spec
    BY <1>1, SpecIs
  <2>2. p \in DOMAIN spec /\ spec[p] = Generated(r)[p]
    BY GeneratedWins
  <2> QED
    BY <2>1, <2>2 DEF At
<1>2. CASE ~IsSet(r.config)
  BY <1>2, SpecIs DEF At
<1> QED
  BY <1>1, <1>2

LEMMA SourceSays ==
    ASSUME NEW i, NEW r, Resolves(i, r), NEW p \in DOMAIN SourceOf(r), ~IsNamedList(p), NEW else
    PROVE  At(SpecOf(i), p, else) = SourceOf(r)[p]
<1>1. ResourceType(r)
  BY ResolvedType
<1>2. p \in DOMAIN Generated(r) /\ Generated(r)[p] = SourceOf(r)[p] /\ p \in Seq(Words)
  BY <1>1, GeneratedSays, SourceWords
<1> QED
  BY <1>2, SpecSays

\* Below model: the runtime, whatever the config says there.
LEMMA ModelSays ==
    ASSUME NEW i, NEW r, Resolves(i, r), ~UsesCustomContainer(r),
           NEW q \in DOMAIN runtimeModel(r), Len(q) >= 1, q[Len(q)] # "items", NEW else
    PROVE  At(SpecOf(i), <<"model">> \o q, else) = runtimeModel(r)[q]
<1>1. ResourceType(r)
  BY ResolvedType
<1>2. q \in Seq(Words)
  BY <1>1, RuntimeSays
<1>3. <<"model">> \in Seq(Words)
  <2>1. "model" \in Words
    BY DEF Words
  <2> QED
    BY <2>1, Path1
<1>4. ~IsNamedList(<<"model">> \o q)
  BY <1>2, <1>3, NotNamed
<1>5. /\ <<"model">> \o q \in DOMAIN SourceOf(r)
      /\ SourceOf(r)[<<"model">> \o q] = runtimeModel(r)[q]
  BY <1>1, RuntimeSource
<1> QED
  BY <1>4, <1>5, SourceSays

\* Below the model server: the user's image, whatever the config says there.
LEMMA ServerSays ==
    ASSUME NEW i, NEW r, Resolves(i, r), UsesCustomContainer(r),
           NEW q \in DOMAIN customPredictorContainer(r), Len(q) >= 1, q[Len(q)] # "items", NEW else
    PROVE  At(SpecOf(i), <<"containers", kserveContainer>> \o q, else) = customPredictorContainer(r)[q]
<1> DEFINE server == <<"containers", kserveContainer>>
<1>1. ResourceType(r)
  BY ResolvedType
<1>2. q \in Seq(Words)
  BY <1>1, ContainerSays
<1>3. server \in Seq(Words)
  <2>1. "containers" \in Words /\ kserveContainer \in Words
    BY DEF Words
  <2> QED
    BY <2>1, Path2
<1>4. ~IsNamedList(server \o q)
  BY <1>2, <1>3, NotNamed
<1>5. /\ server \o q \in DOMAIN SourceOf(r)
      /\ SourceOf(r)[server \o q] = customPredictorContainer(r)[q]
  BY <1>1, CustomSource
<1> QED
  BY <1>4, <1>5, SourceSays

\* Format and source are stored as the Instance or the catalog says them.
LEMMA FormatAndSource ==
    ASSUME NEW i, NEW r, Resolves(i, r), ~UsesCustomContainer(r)
    PROVE  /\ At(SpecOf(i), <<"model", "modelFormat", "name">>, "") = r.format
           /\ At(SpecOf(i), <<"model", "storageUri">>, "") = r.scheme
<1> DEFINE k1 == <<"modelFormat", "name">>
           k2 == <<"storageUri">>
<1>1. {"model", "modelFormat", "name", "storageUri"} \subseteq Words
  BY DEF Words
<1>2. /\ <<"model">> \o k1 = <<"model", "modelFormat", "name">>
      /\ <<"model">> \o k2 = <<"model", "storageUri">>
  BY <1>1, Join11, Join12
<1>3. Len(k1) >= 1 /\ k1[Len(k1)] # "items" /\ Len(k2) >= 1 /\ k2[Len(k2)] # "items"
  <2>1. Len(k1) = 2 /\ k1[2] = "name" /\ Len(k2) = 1 /\ k2[1] = "storageUri"
    BY <1>1, Path1, Path2
  <2> QED
    BY <2>1
<1>4. /\ k1 \in DOMAIN runtimeModel(r) /\ runtimeModel(r)[k1] = r.format
      /\ k2 \in DOMAIN runtimeModel(r) /\ runtimeModel(r)[k2] = r.scheme
  BY ResolvedType, RuntimeSays
<1> HIDE DEF k1, k2
<1>5. At(SpecOf(i), <<"model">> \o k1, "") = r.format
  BY <1>3, <1>4, ModelSays
<1>6. At(SpecOf(i), <<"model">> \o k2, "") = r.scheme
  BY <1>3, <1>4, ModelSays
<1> QED
  BY <1>2, <1>5, <1>6

-----------------------------------------------------------------------------
(* GPUs.                                                                          *)

\* Every GPU resource that is limited is tolerated, by the user's toleration or else.
LEMMA Tolerated ==
    ASSUME NEW tolerations, NEW res, requestsGPU(res), NEW g \in Claimed(res)
    PROVE  \E t \in ScheduledWith(tolerations, res) : Covers(t, g)
<1>1. ScheduledWith(tolerations, res) = withGPUTolerations(tolerations, res)
  BY DEF ScheduledWith
<1>2. CASE \E t \in tolerations : Covers(t, g)
  BY <1>1, <1>2 DEF withGPUTolerations
<1>3. CASE \A t \in tolerations : ~Covers(t, g)
  <2>1. Toleration(g) \in withGPUTolerations(tolerations, res)
    BY <1>3 DEF withGPUTolerations
  <2>2. Covers(Toleration(g), g)
    BY DEF Covers, Toleration
  <2> QED
    BY <1>1, <2>1, <2>2
<1> QED
  BY <1>2, <1>3

\* What asks for GPUs is in the container that serves the model.
LEMMA AsksForGPU ==
    ASSUME NEW i, NEW r, Resolves(i, r), requestsGPU(predictorResources(r))
    PROVE  \E source \in {<<"model">>, <<"containers", kserveContainer>>}, g \in GPUs :
               \/ At(SpecOf(i), source \o <<"resources", "limits", g>>, 0) # 0
               \/ At(SpecOf(i), source \o <<"resources", "requests", g>>, 0) # 0
<1> DEFINE res == Val(predictorResources(r))
<1>1. IsSet(predictorResources(r)) /\ \E q \in DOMAIN res : q[2] \in GPUs /\ res[q] # 0
  BY DEF requestsGPU
<1>2. PICK q \in DOMAIN res : q[2] \in GPUs /\ res[q] # 0
  BY <1>1
<1>3. PICK a \in {"limits", "requests"}, b \in Words : q = <<a, b>>
  BY <1>1, ResolvedType, ResourceNames
<1>4. b \in GPUs /\ b # "items"
  BY <1>2, <1>3 DEF GPUs
<1> DEFINE path == <<"resources", a, b>>
<1>5. path \in DOMAIN ResourcesOf(r) /\ ResourcesOf(r)[path] = res[q]
  BY <1>1, <1>2, <1>3, ResolvedType, ResourcesSaid
<1>6. Len(path) >= 1 /\ path[Len(path)] # "items"
  <2>1. {"resources", "limits", "requests"} \subseteq Words
    BY DEF Words
  <2>2. Len(path) = 3 /\ path[3] = b
    BY <1>3, <2>1, Path3
  <2> QED
    BY <1>4, <2>2
<1> HIDE DEF res
<1>7. \E source \in {<<"model">>, <<"containers", kserveContainer>>} :
          At(SpecOf(i), source \o path, 0) # 0
  <2>1. CASE UsesCustomContainer(r)
    <3>1. path \in DOMAIN customPredictorContainer(r) /\ customPredictorContainer(r)[path] = res[q]
      BY <1>5, ResolvedType, ContainerSays
    <3> HIDE DEF path
    <3>2. At(SpecOf(i), <<"containers", kserveContainer>> \o path, 0) = res[q]
      BY <1>6, <2>1, <3>1, ServerSays
    <3> QED
      BY <1>2, <3>2
  <2>2. CASE ~UsesCustomContainer(r)
    <3>1. path \in DOMAIN runtimeModel(r) /\ runtimeModel(r)[path] = res[q]
      BY <1>5, ResolvedType, RuntimeSays
    <3> HIDE DEF path
    <3>2. At(SpecOf(i), <<"model">> \o path, 0) = res[q]
      BY <1>6, <2>2, <3>1, ModelSays
    <3> QED
      BY <1>2, <3>2
  <2> QED
    BY <2>1, <2>2
<1> QED
  BY <1>4, <1>7

LEMMA PlacedAs ==
    ASSUME NEW i, NEW r, Resolves(i, r), NEW p \in DOMAIN Placement(r), NEW else
    PROVE  At(SpecOf(i), p, else) = Placement(r)[p]
<1>1. ResourceType(r)
  BY ResolvedType
<1>2. p \in DOMAIN Generated(r) /\ Generated(r)[p] = Placement(r)[p] /\ p \in Seq(Words)
  BY <1>1, GeneratedSays, PlacementSays
<1>3. ~IsNamedList(p)
  <2>1. p[1] \in {"tolerations", "deploymentStrategy"} /\ Len(p) \in Nat /\ Len(p) <= 2
    BY <1>1, <1>2, PlacementSays
  <2>2. ASSUME IsNamedList(p) PROVE FALSE
    BY <2>1, <2>2 DEF IsNamedList, namedLists
  <2> QED
    BY <2>2
<1> QED
  BY <1>2, <1>3, SpecSays

-----------------------------------------------------------------------------
(* Embeddings.                                                                    *)

LEMMA ContainsLeft ==
    ASSUME NEW S, NEW s \in Seq(S), NEW t \in Seq(S), NEW x, Contains(s, x)
    PROVE  Contains(s \o t, x)
<1>1. PICK n \in 1 .. Len(s) : s[n] = x
  BY DEF Contains
<1>2. n \in 1 .. Len(s \o t) /\ (s \o t)[n] = x
  BY <1>1, ConcatProperties
<1> QED
  BY <1>2 DEF Contains

LEMMA ContainsRight ==
    ASSUME NEW S, NEW s \in Seq(S), NEW t \in Seq(S), NEW x, Contains(t, x)
    PROVE  Contains(s \o t, x)
<1>1. PICK n \in 1 .. Len(t) : t[n] = x
  BY DEF Contains
<1>2. Len(s) \in Nat /\ Len(t) \in Nat
  OBVIOUS
<1>3. /\ Len(s) + n \in 1 .. Len(s) + Len(t) /\ ~(Len(s) + n <= Len(s))
      /\ Len(s) + n - Len(s) = n
  BY <1>1, <1>2
<1>4. Len(s) + n \in 1 .. Len(s \o t) /\ (s \o t)[Len(s) + n] = x
  BY <1>1, <1>3, ConcatProperties
<1> QED
  BY <1>4 DEF Contains

LEMMA WhenSays ==
    ASSUME NEW S, NEW x \in S, NEW condition \in BOOLEAN
    PROVE  /\ When(condition, x) \in Seq(S)
           /\ condition => Contains(When(condition, x), x)
<1>1. CASE condition
  <2>1. When(condition, x) = <<x>>
    BY <1>1 DEF When
  <2>2. When(condition, x) \in Seq(S) /\ Len(When(condition, x)) = 1 /\ When(condition, x)[1] = x
    BY <2>1, Path1
  <2> QED
    BY <2>2 DEF Contains
<1>2. CASE ~condition
  BY <1>2 DEF When
<1> QED
  BY <1>1, <1>2

\* What the huggingface runtime is told for an embedding model.
LEMMA EmbeddingArgs ==
    ASSUME NEW r, r.args \in Seq([flag : STRING, value : STRING]),
           r.format \in HuggingFace, r.task = TextEmbedding, ~hasFlag(r.args, "task"),
           NEW gpu \in BOOLEAN, gpu <=> requestsGPU(predictorResources(r))
    PROVE  /\ Contains(predictorArgs(r), [flag |-> "task", value |-> TextEmbedding])
           /\ gpu /\ ~hasFlag(r.args, "runner") =>
                Contains(predictorArgs(r), [flag |-> "runner", value |-> "pooling"])
           /\ ~gpu /\ ~hasFlag(r.args, "backend") =>
                Contains(predictorArgs(r), [flag |-> "backend", value |-> "huggingface"])
<1> DEFINE task == [flag |-> "task", value |-> TextEmbedding]
           backend == [flag |-> "backend", value |-> "huggingface"]
           runner == [flag |-> "runner", value |-> "pooling"]
           Flags == [flag : STRING, value : STRING] \cup {task, backend, runner}
           asked == ~gpu /\ ~hasFlag(r.args, "backend")
           pooled == gpu /\ ~hasFlag(r.args, "runner")
           a == <<task>>
           b == r.args
           c == When(asked, backend)
           d == When(pooled, runner)
<1>1. predictorArgs(r) = a \o b \o c \o d
  <2>1. r.task # ""
    BY DEF TextEmbedding
  <2>2. When(r.task # "" /\ ~hasFlag(r.args, "task"), [flag |-> "task", value |-> r.task]) = a
    BY <2>1 DEF When
  <2>3. a # <<>>
    OBVIOUS
  <2> QED
    BY <2>2, <2>3 DEF predictorArgs
<1>2. task \in Flags /\ backend \in Flags /\ runner \in Flags
  OBVIOUS
<1>3. b \in Seq(Flags)
  <2>1. [flag : STRING, value : STRING] \subseteq Flags
    OBVIOUS
  <2> HIDE DEF Flags
  <2> QED
    BY <2>1, SeqOfMore
<1> HIDE DEF task, backend, runner, Flags
<1>4. a \in Seq(Flags) /\ Contains(a, task)
  <2>1. a \in Seq(Flags) /\ Len(a) = 1 /\ a[1] = task
    BY <1>2, Path1
  <2> QED
    BY <2>1 DEF Contains
<1>5. asked \in BOOLEAN /\ pooled \in BOOLEAN
  OBVIOUS
<1> HIDE DEF asked, pooled
<1>6. c \in Seq(Flags) /\ (asked => Contains(c, backend))
  BY <1>2, <1>5, WhenSays
<1>7. d \in Seq(Flags) /\ (pooled => Contains(d, runner))
  BY <1>2, <1>5, WhenSays
<1> HIDE DEF a, b, c, d
<1>8. a \o b \in Seq(Flags) /\ a \o b \o c \in Seq(Flags)
  BY <1>3, <1>4, <1>6, ConcatProperties
<1>9. Contains(predictorArgs(r), task)
  <2>1. Contains(a \o b, task)
    BY <1>3, <1>4, ContainsLeft
  <2>2. Contains(a \o b \o c, task)
    BY <1>6, <1>8, <2>1, ContainsLeft
  <2> QED
    BY <1>1, <1>7, <1>8, <2>2, ContainsLeft
<1>10. asked => Contains(predictorArgs(r), backend)
  <2>1. asked => Contains(a \o b \o c, backend)
    BY <1>6, <1>8, ContainsRight
  <2> QED
    BY <1>1, <1>7, <1>8, <2>1, ContainsLeft
<1>11. pooled => Contains(predictorArgs(r), runner)
  BY <1>1, <1>7, <1>8, ContainsRight
<1> QED
  BY <1>9, <1>10, <1>11 DEF task, backend, runner, asked, pooled

-----------------------------------------------------------------------------
(* Lists of names.                                                                *)

LEMMA NatMin ==
    ASSUME NEW T \in SUBSET Nat, T # {}
    PROVE  \E n \in T : \A m \in T : n <= m
<1> DEFINE R == OpToRel(<, Nat)
<1>1. IsWellFoundedOn(R, Nat)
  BY NatLessThanWellFounded
<1>2. R = {ss \in Nat \X Nat : ss[1] < ss[2]}
  BY DEF OpToRel
<1> HIDE DEF R
<1>3. PICK n \in T : \A m \in T : ~(<<m, n>> \in R)
  BY <1>1, WFMin
<1>4. ASSUME NEW m \in T PROVE n <= m
  <2>1. m \in Nat /\ n \in Nat /\ <<m, n>> \in Nat \X Nat
    OBVIOUS
  <2>2. ~(m < n)
    BY <1>2, <1>3, <2>1
  <2> QED
    BY <2>1, <2>2
<1> QED
  BY <1>4

LEMMA CountUp ==
    ASSUME NEW L \in Nat, NEW T, 0 \in T, \A m \in 1 .. L : m - 1 \in T => m \in T
    PROVE  \A m \in 0 .. L : m \in T
<1> DEFINE U == {m \in 0 .. L : m \notin T}
<1> SUFFICES ASSUME U # {} PROVE FALSE
  OBVIOUS
<1>1. U \in SUBSET Nat
  OBVIOUS
<1>2. PICK m \in U : \A k \in U : m <= k
  BY <1>1, NatMin
<1>3. m \in 1 .. L /\ m - 1 \notin U /\ m - 1 \in 0 .. L
  BY <1>2
<1> QED
  BY <1>2, <1>3

LEMMA WithoutSays ==
    ASSUME NEW S, NEW names \in Seq(S), NEW others
    PROVE  /\ Without(names, others) \in Seq(S)
           /\ \A n \in 1 .. Len(names) :
                 Contains(others, names[n]) \/ Contains(Without(names, others), names[n])
<1> DEFINE L == Len(names)
           body(f, n) == CASE n = 0 -> <<>>
              [] n > 0 /\ Contains(others, names[n]) -> f[n - 1]
              [] OTHER -> Append(f[n - 1], names[n])
           Upto(m) == \E f : f = [n \in 0 .. m |-> body(f, n)]
           first == CHOOSE f : f = [n \in 0 .. L |-> body(f, n)]
<1>0. L \in Nat
  OBVIOUS
<1>1. Without(names, others) = first[L]
  BY DEF Without
<1>2. Upto(L)
  <2>1. Upto(0)
    <3> DEFINE f == [n \in 0 .. 0 |-> <<>>]
    <3>1. f = [n \in 0 .. 0 |-> body(f, n)]
      OBVIOUS
    <3> QED
      BY <3>1
  <2>2. ASSUME NEW m \in 1 .. L, Upto(m - 1) PROVE Upto(m)
    <3>1. PICK g : g = [n \in 0 .. m - 1 |-> body(g, n)]
      BY <2>2
    <3> DEFINE f == [n \in 0 .. m |-> body(g, n)]
    <3>2. ASSUME NEW n \in 0 .. m PROVE body(f, n) = body(g, n)
      <4>1. n > 0 => n - 1 \in 0 .. m - 1 /\ n - 1 \in 0 .. m
        OBVIOUS
      <4>2. n > 0 => f[n - 1] = body(g, n - 1) /\ g[n - 1] = body(g, n - 1)
        <5> HIDE DEF body
        <5> QED
          BY <3>1, <4>1
      <4>3. n > 0 => f[n - 1] = g[n - 1]
        BY <4>2
      <4> HIDE DEF f
      <4> QED
        BY <4>3
    <3>3. f = [n \in 0 .. m |-> body(f, n)]
      <4> HIDE DEF body
      <4> QED
        BY <3>2
    <3> QED
      BY <3>3
  <2> DEFINE T == {m \in 0 .. L : Upto(m)}
  <2> HIDE DEF Upto
  <2>3. 0 \in T /\ \A m \in 1 .. L : m - 1 \in T => m \in T
    BY <1>0, <2>1, <2>2
  <2>4. L \in T
    <3> HIDE DEF T, L
    <3>1. \A m \in 0 .. L : m \in T
      BY <1>0, <2>3, CountUp
    <3> QED
      BY <1>0, <3>1
  <2> QED
    BY <2>4
<1>3. first = [n \in 0 .. L |-> body(first, n)]
  <2> HIDE DEF body
  <2> QED
    BY <1>2
<1> HIDE DEF first
<1>4. \A n \in 0 .. L : first[n] = body(first, n)
  <2> HIDE DEF body
  <2> QED
    BY <1>3
<1> DEFINE Kept(n) == /\ first[n] \in Seq(S)
                      /\ \A k \in 1 .. n : Contains(others, names[k]) \/ Contains(first[n], names[k])
<1>5. Kept(0)
  <2>1. first[0] = <<>>
    BY <1>0, <1>4
  <2> QED
    BY <2>1
<1>6. ASSUME NEW m \in 1 .. L, Kept(m - 1) PROVE Kept(m)
  <2>1. \A k \in 1 .. m : k = m \/ k \in 1 .. m - 1
    OBVIOUS
  <2>2. CASE Contains(others, names[m])
    <3>1. first[m] = first[m - 1]
      BY <1>4, <2>2
    <3> QED
      BY <1>6, <2>1, <2>2, <3>1
  <2>3. CASE ~Contains(others, names[m])
    <3> DEFINE s == first[m - 1]
               e == names[m]
    <3>1. first[m] = Append(s, e) /\ e \in S /\ s \in Seq(S)
      <4>1. m \in 0 .. L /\ m # 0 /\ m > 0
        OBVIOUS
      <4>2. first[m] = body(first, m)
        BY <1>4, <4>1
      <4>3. body(first, m) = Append(s, e)
        BY <2>3, <4>1
      <4> QED
        BY <1>6, <4>2, <4>3
    <3> HIDE DEF s, e
    <3>2. Append(s, e) \in Seq(S) /\ Contains(Append(s, e), e)
      <4>1. Len(Append(s, e)) = Len(s) + 1 /\ Append(s, e)[Len(s) + 1] = e /\ Len(s) + 1 \in 1 .. Len(s) + 1
        BY <3>1, AppendProperties
      <4> QED
        BY <3>1, <4>1, AppendProperties DEF Contains
    <3>3. ASSUME NEW c, Contains(s, c) PROVE Contains(Append(s, e), c)
      <4>1. PICK k \in 1 .. Len(s) : s[k] = c
        BY <3>3 DEF Contains
      <4>2. k \in 1 .. Len(Append(s, e)) /\ Append(s, e)[k] = c
        BY <3>1, <4>1, AppendProperties
      <4> QED
        BY <4>2 DEF Contains
    <3>4. \A k \in 1 .. m - 1 : Contains(others, names[k]) \/ Contains(s, names[k])
      BY <1>6 DEF s
    <3>5. \A k \in 1 .. m : Contains(others, names[k]) \/ Contains(Append(s, e), names[k])
      BY <2>1, <3>2, <3>3, <3>4 DEF e
    <3> QED
      BY <3>1, <3>2, <3>5
  <2> QED
    BY <2>2, <2>3
<1>7. Kept(L)
  <2> DEFINE T == {m \in 0 .. L : Kept(m)}
  <2> HIDE DEF Kept
  <2>1. 0 \in T /\ \A m \in 1 .. L : m - 1 \in T => m \in T
    BY <1>0, <1>5, <1>6
  <2>2. L \in T
    <3> HIDE DEF T, L
    <3>1. \A m \in 0 .. L : m \in T
      BY <1>0, <2>1, CountUp
    <3> QED
      BY <1>0, <3>1
  <2> QED
    BY <2>2
<1> QED
  BY <1>1, <1>7

\* What is merged by name: the generated names stay in front, and none of the config's
\* is lost.
LEMMA ListSays ==
    ASSUME NEW i, NEW r, Resolves(i, r), NEW p \in DOMAIN Generated(r), p \in Seq(Words),
           IsNamedList(p), NEW list \in Seq(Words), list = Generated(r)[p]
    PROVE  LET stored == At(SpecOf(i), p, <<>>) IN
           /\ stored \in Seq(Words) /\ Len(list) <= Len(stored)
           /\ \A n \in 1 .. Len(list) : stored[n] = list[n]
           /\ \A c \in Range(At(Val(Either(r.config, <<None>>)), p, <<>>)) : Contains(stored, c)
<1> DEFINE stored == At(SpecOf(i), p, <<>>)
           config == Val(r.config)
           theirs == config[p]
<1>1. Len(list) \in Nat
  OBVIOUS
<1>2. CASE IsSet(r.config) /\ p \in DOMAIN config
  <2>1. theirs \in Seq(STRING)
    <3>1. SpecType(config)
      BY <1>2, ResolvedType
    <3>2. ASSUME NEW spec, SpecType(spec), p \in DOMAIN spec PROVE spec[p] \in Seq(STRING)
      BY <3>2 DEF SpecType
    <3> QED
      BY <1>2, <3>1, <3>2
  <2>2. SpecOf(i) = mergeSpecMaps(config, Generated(r))
    BY <1>2, SpecIs
  <2>3. stored = mergeNamedLists(theirs, list)
    BY <1>2, <2>2, GeneratedWins DEF At
  <2>4. At(Val(Either(r.config, <<None>>)), p, <<>>) = theirs
    BY <1>2 DEF At, Either
  <2> HIDE DEF stored, config, theirs
  <2>5. theirs \in Seq(Words)
    BY <2>1, SeqOfMore DEF Words
  <2> DEFINE rest == Without(theirs, list)
  <2>6. /\ rest \in Seq(Words)
        /\ \A n \in 1 .. Len(theirs) : Contains(list, theirs[n]) \/ Contains(rest, theirs[n])
    BY <2>5, WithoutSays
  <2> HIDE DEF rest
  <2>7. stored = list \o rest
    BY <2>3 DEF mergeNamedLists, rest
  <2>8. /\ stored \in Seq(Words) /\ Len(list) <= Len(stored)
        /\ \A n \in 1 .. Len(list) : stored[n] = list[n]
    BY <2>6, <2>7, ConcatProperties
  <2>9. ASSUME NEW c \in Range(theirs) PROVE Contains(stored, c)
    <3>1. PICK n \in 1 .. Len(theirs) : c = theirs[n]
      BY <2>5 DEF Range
    <3>2. Contains(list, c) \/ Contains(rest, c)
      BY <2>6, <3>1
    <3> QED
      BY <2>6, <2>7, <3>2, ContainsLeft, ContainsRight
  <2> QED
    BY <2>4, <2>8, <2>9 DEF stored
<1>3. CASE ~(IsSet(r.config) /\ p \in DOMAIN config)
  <2>1. stored = list
    <3>1. CASE IsSet(r.config)
      <4> DEFINE spec == mergeSpecMaps(config, Generated(r))
      <4>1. p \in DOMAIN spec /\ spec[p] = list
        BY <1>3, <3>1, GeneratedWins
      <4> HIDE DEF spec
      <4>2. SpecOf(i) = spec
        BY <3>1, SpecIs DEF spec
      <4> QED
        BY <4>1, <4>2 DEF At
    <3>2. CASE ~IsSet(r.config)
      BY <3>2, SpecIs DEF At
    <3> QED
      BY <3>1, <3>2
  <2>2. At(Val(Either(r.config, <<None>>)), p, <<>>) = <<>>
    <3>1. CASE IsSet(r.config)
      BY <1>3, <3>1 DEF At, Either
    <3>2. CASE ~IsSet(r.config)
      <4>1. Val(Either(r.config, <<None>>)) = None
        BY <3>2 DEF Either, Val
      <4> QED
        BY <4>1 DEF At, None
    <3> QED
      BY <3>1, <3>2
  <2>3. Range(<<>>) = {}
    BY DEF Range
  <2> QED
    BY <1>1, <2>1, <2>2, <2>3 DEF stored
<1> QED
  BY <1>2, <1>3

LEMMA ItemsNamed ==
    ASSUME NEW list \in {"containers", "volumes"}
    PROVE  Items(list) \in Seq(Words) /\ IsNamedList(Items(list))
<1> DEFINE p == Items(list)
<1>1. p \in Seq(Words) /\ Len(p) = 2 /\ p[1] = list /\ p[2] = "items"
  <2>1. list \in Words /\ "items" \in Words
    BY DEF Words
  <2>2. p = <<list, "items">>
    BY DEF Items
  <2> QED
    BY <2>1, <2>2, Path2
<1> HIDE DEF p
<1>2. IsNamedList(p)
  <2>1. Len(p) > 1 /\ p[Len(p)] = "items" /\ p[Len(p) - 1] = list
    BY <1>1
  <2>2. list \in namedLists
    BY DEF namedLists
  <2> QED
    BY <2>1, <2>2 DEF IsNamedList
<1> QED
  BY <1>1, <1>2 DEF p

\* The image of the Instance is the first container, and its volume is there.
LEMMA ServerFirst ==
    ASSUME NEW i, NEW r, Resolves(i, r), UsesCustomContainer(r),
           NEW containers, containers = At(SpecOf(i), Items("containers"), <<>>),
           NEW volumes, volumes = At(SpecOf(i), Items("volumes"), <<>>)
    PROVE  /\ containers # <<>> /\ Head(containers) = kserveContainer
           /\ Contains(volumes, sharedMemory)
           /\ \A c \in Range(At(Val(Either(r.config, <<None>>)), Items("containers"), <<>>)) :
                 Contains(containers, c)
<1>1. ResourceType(r)
  BY ResolvedType
<1> DEFINE k1 == Items("containers")
           k2 == Items("volumes")
           theirs == At(Val(Either(r.config, <<None>>)), k1, <<>>)
<1>2. /\ k1 \in DOMAIN SourceOf(r) /\ SourceOf(r)[k1] = <<kserveContainer>>
      /\ k2 \in DOMAIN SourceOf(r) /\ SourceOf(r)[k2] = <<sharedMemory>>
  BY <1>1, CustomSource
<1>3. k1 \in Seq(Words) /\ IsNamedList(k1) /\ k2 \in Seq(Words) /\ IsNamedList(k2)
  BY ItemsNamed
<1> HIDE DEF k1, k2
<1>4. /\ k1 \in DOMAIN Generated(r) /\ Generated(r)[k1] = <<kserveContainer>>
      /\ k2 \in DOMAIN Generated(r) /\ Generated(r)[k2] = <<sharedMemory>>
  BY <1>1, <1>2, GeneratedSays
<1>5. PICK one : one = <<kserveContainer>>
  OBVIOUS
<1>6. PICK two : two = <<sharedMemory>>
  OBVIOUS
<1>7. /\ one \in Seq(Words) /\ Len(one) = 1 /\ one[1] = kserveContainer
      /\ two \in Seq(Words) /\ Len(two) = 1 /\ two[1] = sharedMemory
  <2>1. kserveContainer \in Words /\ sharedMemory \in Words
    BY DEF Words
  <2> QED
    BY <1>5, <1>6, <2>1, Path1
<1>8. /\ containers \in Seq(Words) /\ 1 <= Len(containers) /\ containers[1] = kserveContainer
      /\ \A c \in Range(theirs) : Contains(containers, c)
  <2>1. Generated(r)[k1] = one
    BY <1>4, <1>5
  <2>2. LET stored == At(SpecOf(i), k1, <<>>) IN
        /\ stored \in Seq(Words) /\ Len(one) <= Len(stored)
        /\ \A n \in 1 .. Len(one) : stored[n] = one[n]
        /\ \A c \in Range(At(Val(Either(r.config, <<None>>)), k1, <<>>)) : Contains(stored, c)
    BY SMTT(30), <1>3, <1>4, <1>7, <2>1, ListSays
  <2> QED
    BY <1>7, <2>2 DEF k1
<1>9. volumes \in Seq(Words) /\ 1 <= Len(volumes) /\ volumes[1] = sharedMemory
  <2>1. Generated(r)[k2] = two
    BY <1>4, <1>6
  <2>2. LET stored == At(SpecOf(i), k2, <<>>) IN
        /\ stored \in Seq(Words) /\ Len(two) <= Len(stored)
        /\ \A n \in 1 .. Len(two) : stored[n] = two[n]
    BY <1>3, <1>4, <1>7, <2>1, ListSays
  <2> QED
    BY <1>7, <2>2 DEF k2
<1>10. containers # <<>> /\ Head(containers) = kserveContainer
  BY <1>8
<1>11. Contains(volumes, sharedMemory)
  BY <1>9 DEF Contains
<1> QED
  BY <1>8, <1>10, <1>11 DEF k1

-----------------------------------------------------------------------------
(* The port behind the Service.                                                   *)

\* Below the containers, only the model server's own port is generated.
LEMMA PortGenerated ==
    ASSUME NEW i, NEW r, Resolves(i, r), NEW t \in Words,
           NEW p, p = <<"containers", t, "ports">>, p \in DOMAIN Generated(r)
    PROVE  Generated(r)[p] = <<ContainerPort(r)>> /\ ContainerPort(r) \in Ports
<1>1. ResourceType(r)
  BY ResolvedType
<1>2. p \in Seq(Words) /\ Len(p) = 3 /\ p[1] = "containers" /\ p[2] = t /\ p[3] = "ports"
  <2>1. "containers" \in Words /\ "ports" \in Words
    BY DEF Words
  <2> QED
    BY <2>1, Path3
<1>3. p \in DOMAIN SourceOf(r) /\ Generated(r)[p] = SourceOf(r)[p]
  BY <1>1, <1>2, GeneratedSays DEF SourceTops
<1>4. UsesCustomContainer(r)
  BY <1>1, <1>2, <1>3, RuntimeSource
<1> DEFINE k == <<"containers", kserveContainer>>
           m == customPredictorContainer(r)
<1>5. PICK q \in DOMAIN m : p = k \o q
  BY ZenonT(30), <1>1, <1>2, <1>3, <1>4, CustomSource
<1>6. SourceOf(r)[p] = m[q]
  BY <1>1, <1>4, <1>5, CustomSource
<1>7. q \in Seq(Words)
  BY <1>1, ContainerSays
<1>8. k \in Seq(Words) /\ Len(k) = 2
  <2>1. "containers" \in Words /\ kserveContainer \in Words
    BY DEF Words
  <2> QED
    BY <2>1, Path2
<1>9. <<"ports">> \in DOMAIN m /\ m[<<"ports">>] = <<ContainerPort(r)>>
  BY <1>1, ContainerSays
<1>10. PICK u : u = <<"ports">>
  OBVIOUS
<1>11. u \in Seq(Words) /\ Len(u) = 1 /\ u[1] = "ports"
  <2>1. "ports" \in Words
    BY DEF Words
  <2> QED
    BY <1>10, <2>1, Path1
<1> HIDE DEF k, m
<1>12. Len(q) = 1 /\ q[1] = "ports"
  <2>1. Len(k \o q) = 2 + Len(q) /\ Len(q) \in Nat
    <3>1. Len(k \o q) = Len(k) + Len(q) /\ Len(q) \in Nat
      BY <1>7, <1>8, JoinedLen
    <3> QED
      BY <1>8, <3>1
  <2>2. Len(q) = 1
    <3>1. Len(p) = 3
      BY <1>2
    <3>2. Len(p) = 2 + Len(q)
      BY ONLY <1>5, <2>1
    <3>3. PICK n \in Nat : n = Len(q)
      BY <2>1
    <3>4. 3 = 2 + n
      BY ONLY <3>1, <3>2, <3>3
    <3>5. n = 1
      BY ONLY n \in Nat, <3>4
    <3> QED
      BY ONLY <3>3, <3>5
  <2>3. (k \o q)[3] = q[1]
    BY <1>7, <1>8, <2>1, <2>2, ConcatProperties
  <2> QED
    BY <1>2, <1>5, <2>2, <2>3
<1>13. q = u
  BY <1>7, <1>11, <1>12, SeqEqual
<1>14. ContainerPort(r) \in Ports
  BY <1>4 DEF Resolves, validatePredictor, validateCustomContainer
<1> QED
  BY <1>3, <1>6, <1>9, <1>10, <1>13, <1>14

\* What is stored where nothing is generated.
LEMMA OnlyConfig ==
    ASSUME NEW i, NEW r, Resolves(i, r), NEW p, p \notin DOMAIN Generated(r), p \in DOMAIN SpecOf(i)
    PROVE  /\ IsSet(r.config) /\ SpecType(Val(r.config))
           /\ p \in DOMAIN Val(r.config) /\ SpecOf(i)[p] = Val(r.config)[p]
<1>1. IsSet(r.config)
  BY SpecIs
<1>2. SpecType(Val(r.config))
  BY <1>1, ResolvedType
<1>3. SpecOf(i) = mergeSpecMaps(Val(r.config), Generated(r))
  BY <1>1, SpecIs
<1> QED
  BY <1>1, <1>2, <1>3, ElseConfig

LEMMA PortsStored ==
    ASSUME NEW i, NEW r, Resolves(i, r), NEW t \in Words
    PROVE  At(SpecOf(i), <<"containers", t, "ports">>, <<>>) \in Seq(Ports)
<1> DEFINE p == <<"containers", t, "ports">>
<1>1. p \in Seq(Words) /\ Len(p) = 3 /\ p[3] = "ports"
  <2>1. "containers" \in Words /\ "ports" \in Words
    BY DEF Words
  <2> QED
    BY <2>1, Path3
<1>2. p \in DOMAIN Generated(r) => Generated(r)[p] = <<ContainerPort(r)>> /\ ContainerPort(r) \in Ports
  BY PortGenerated
<1> HIDE DEF p
<1>3. ~IsNamedList(p)
  BY <1>1 DEF IsNamedList
<1>4. CASE p \in DOMAIN Generated(r)
  <2>1. At(SpecOf(i), p, <<>>) = <<ContainerPort(r)>>
    BY <1>1, <1>2, <1>3, <1>4, SpecSays
  <2> QED
    BY <1>2, <1>4, <2>1, Path1 DEF p
<1>5. CASE p \notin DOMAIN Generated(r) /\ p \in DOMAIN SpecOf(i)
  <2>1. /\ SpecType(Val(r.config)) /\ p \in DOMAIN Val(r.config)
        /\ SpecOf(i)[p] = Val(r.config)[p]
    BY <1>5, OnlyConfig
  <2>2. ASSUME NEW spec, SpecType(spec), p \in DOMAIN spec PROVE spec[p] \in Seq(Ports)
    BY <1>1, <2>2 DEF SpecType
  <2> QED
    BY <1>5, <2>1, <2>2 DEF At, p
<1>6. CASE p \notin DOMAIN SpecOf(i)
  BY <1>6 DEF At, p
<1> QED
  BY <1>4, <1>5, <1>6

LEMMA ContainersStored ==
    ASSUME NEW i, NEW r, Resolves(i, r)
    PROVE  At(SpecOf(i), Items("containers"), <<>>) \in Seq(Words)
<1> DEFINE p == Items("containers")
<1>1. p \in Seq(Words) /\ IsNamedList(p) /\ p[1] = "containers"
  <2>1. p = <<"containers", "items">> /\ "containers" \in Words /\ "items" \in Words
    BY DEF Items, Words
  <2> QED
    BY <2>1, ItemsNamed, Path2
<1>2. ResourceType(r)
  BY ResolvedType
<1>3. UsesCustomContainer(r) => SourceOf(r)[p] = <<kserveContainer>>
  BY <1>2, CustomSource
<1> HIDE DEF p
<1>4. CASE p \in DOMAIN Generated(r)
  <2>1. p \in DOMAIN SourceOf(r) /\ Generated(r)[p] = SourceOf(r)[p]
    BY <1>1, <1>2, <1>4, GeneratedSays DEF SourceTops
  <2>2. UsesCustomContainer(r)
    BY <1>1, <1>2, <2>1, RuntimeSource
  <2>3. PICK list : list = <<kserveContainer>>
    OBVIOUS
  <2>4. list \in Seq(Words)
    <3>1. kserveContainer \in Words
      BY DEF Words
    <3> QED
      BY <2>3, <3>1, Path1
  <2>5. list = Generated(r)[p]
    BY <1>3, <2>1, <2>2, <2>3
  <2>6. LET stored == At(SpecOf(i), p, <<>>) IN stored \in Seq(Words) /\ Len(list) <= Len(stored)
    BY <1>1, <1>4, <2>4, <2>5, ListSays
  <2> QED
    BY <2>6 DEF p
<1>5. CASE p \notin DOMAIN Generated(r) /\ p \in DOMAIN SpecOf(i)
  <2>1. /\ SpecType(Val(r.config)) /\ p \in DOMAIN Val(r.config)
        /\ SpecOf(i)[p] = Val(r.config)[p]
    BY <1>5, OnlyConfig
  <2>2. ASSUME NEW spec, SpecType(spec), p \in DOMAIN spec PROVE spec[p] \in Seq(STRING)
    BY <1>1, <2>2 DEF SpecType
  <2>3. Val(r.config)[p] \in Seq(STRING) /\ STRING \subseteq Words
    BY <2>1, <2>2 DEF Words
  <2>4. Val(r.config)[p] \in Seq(Words)
    BY <2>3, SeqOfMore
  <2> QED
    BY <1>5, <2>1, <2>4 DEF At, p
<1>6. CASE p \notin DOMAIN SpecOf(i)
  BY <1>6 DEF At, p
<1> QED
  BY <1>4, <1>5, <1>6

\* Wherever the pods listen, the Service is given a port.
LEMMA TargetStored ==
    ASSUME NEW i, NEW r, Resolves(i, r)
    PROVE  predictorTargetPort(SpecOf(i)) \in Ports
<1> DEFINE containers == At(SpecOf(i), Items("containers"), <<>>)
           target == IF Contains(containers, transformerContainer) THEN transformerContainer
                     ELSE Head(containers)
           ports == At(SpecOf(i), <<"containers", target, "ports">>, <<>>)
<1>1. containers \in Seq(Words)
  BY ContainersStored
<1>2. predictorTargetPort(SpecOf(i)) =
          IF containers = <<>> \/ ports = <<>> THEN predictorContainerPort ELSE Head(ports)
  BY DEF predictorTargetPort
<1>3. predictorContainerPort \in Ports
  BY DEF predictorContainerPort, Ports
<1>4. ASSUME containers # <<>> PROVE ports \in Seq(Ports)
  <2>1. transformerContainer \in Words
    BY DEF Words
  <2> HIDE DEF containers
  <2>2. Head(containers) \in Words
    BY <1>1, <1>4
  <2>3. target \in Words
    BY <2>1, <2>2
  <2> HIDE DEF target
  <2> QED
    BY <2>3, PortsStored
<1> HIDE DEF containers, ports
<1>5. containers # <<>> /\ ports # <<>> => Head(ports) \in Ports
  BY <1>4
<1> QED
  BY <1>2, <1>3, <1>5

=============================================================================
