--------------------------- MODULE InstanceSyncProofs ---------------------------
(***************************************************************************)
(* Theorems about Sync and Cleanup, for every set of specs and charts, every  *)
(* number of edits, restarts and failures: the order of the calls.            *)
(***************************************************************************)
EXTENDS InstanceSync, SequenceTheorems, TLAPS

-----------------------------------------------------------------------------
(* Sequences of calls.  What the order of calls is about can be said with two    *)
(* operators, and both can be computed piece by piece.                           *)

Texts == STRING \cup {"", "puller", "LoadBalancer", "NodePort"}
ProviderCalls ==
    {c \in [op : {"apply", "delete", "ensure"}, kind : Kinds, content : Seq(Texts)] :
        /\ c.op = "ensure" => c.kind = "key"
        /\ c.op = "apply" /\ c.kind = "service" => c.content \in {<<"LoadBalancer">>, <<"NodePort">>}}
Calls == ProviderCalls \cup {Release}

\* The sequence has a call of the set A.
Has(q, A) == \E n \in 1 .. Len(q) : q[n] \in A

\* Each call of A has one of B before it.
After(q, A, B) ==
    \A n \in 1 .. Len(q) : q[n] \in A => \E m \in 1 .. n - 1 : q[m] \in B

LEMMA EmptyCalls ==
    /\ <<>> \in Seq(Calls)
    /\ \A A : ~Has(<<>>, A)
    /\ \A A, B : After(<<>>, A, B)
  BY DEF Has, After

LEMMA OneCall ==
    ASSUME NEW c \in Calls
    PROVE  /\ <<c>> \in Seq(Calls)
           /\ \A A : Has(<<c>>, A) <=> c \in A
           /\ \A A, B :
                 After(<<c>>, A, B) <=> c \notin A
<1>1. Len(<<c>>) = 1 /\ <<c>>[1] = c
  OBVIOUS
<1> QED
  BY <1>1 DEF Has, After

LEMMA HasConcat ==
    ASSUME NEW s \in Seq(Calls), NEW t \in Seq(Calls), NEW A
    PROVE  Has(s \o t, A) <=> Has(s, A) \/ Has(t, A)
<1>1. /\ Len(s \o t) = Len(s) + Len(t) /\ Len(s) \in Nat /\ Len(t) \in Nat
      /\ \A n \in 1 .. Len(s) + Len(t) : (s \o t)[n] = IF n <= Len(s) THEN s[n] ELSE t[n - Len(s)]
  BY ConcatProperties, LenProperties
<1>2. ASSUME Has(s, A) PROVE Has(s \o t, A)
  BY <1>1, <1>2 DEF Has
<1>3. ASSUME Has(t, A) PROVE Has(s \o t, A)
  <2>1. PICK n \in 1 .. Len(t) : t[n] \in A
    BY <1>3 DEF Has
  <2>2. n + Len(s) \in 1 .. Len(s \o t) /\ (s \o t)[n + Len(s)] = t[n]
    BY <1>1
  <2> QED
    BY <2>1, <2>2 DEF Has
<1>4. ASSUME Has(s \o t, A) PROVE Has(s, A) \/ Has(t, A)
  <2>1. PICK n \in 1 .. Len(s) + Len(t) : (s \o t)[n] \in A
    BY <1>1, <1>4 DEF Has
  <2>2. CASE n <= Len(s)
    BY <1>1, <2>1, <2>2 DEF Has
  <2>3. CASE n > Len(s)
    <3>1. n - Len(s) \in 1 .. Len(t) /\ (s \o t)[n] = t[n - Len(s)]
      BY <1>1, <2>3
    <3> QED
      BY <2>1, <3>1 DEF Has
  <2> QED
    BY <1>1, <2>2, <2>3
<1> QED
  BY <1>2, <1>3, <1>4

LEMMA AfterConcat ==
    ASSUME NEW s \in Seq(Calls), NEW t \in Seq(Calls), NEW A, NEW B
    PROVE  After(s \o t, A, B) <=>
              /\ After(s, A, B)
              /\ Has(s, B) \/ After(t, A, B)
<1> DEFINE u == s \o t
           k == Len(s)
<1>1. /\ Len(u) = k + Len(t) /\ k \in Nat /\ Len(t) \in Nat
      /\ \A n \in 1 .. k : n \in 1 .. Len(u) /\ u[n] = s[n]
      /\ \A n \in 1 .. Len(t) : n + k \in 1 .. Len(u) /\ u[n + k] = t[n]
      /\ \A n \in 1 .. Len(u) : n \in 1 .. k \/ n - k \in 1 .. Len(t)
  BY ConcatProperties, LenProperties
<1> HIDE DEF u, k
<1>2. ASSUME After(u, A, B) PROVE After(s, A, B)
  <2> SUFFICES ASSUME NEW n \in 1 .. k, s[n] \in A
               PROVE  \E m \in 1 .. n - 1 : s[m] \in B
    BY DEF After, k
  <2>1. PICK m \in 1 .. n - 1 : u[m] \in B
    BY <1>1, <1>2 DEF After
  <2>2. m \in 1 .. k
    BY <1>1
  <2> QED
    BY <1>1, <2>1, <2>2
<1>3. ASSUME After(u, A, B), ~Has(s, B)
      PROVE  After(t, A, B)
  <2> SUFFICES ASSUME NEW n \in 1 .. Len(t), t[n] \in A
               PROVE  \E m \in 1 .. n - 1 : t[m] \in B
    BY DEF After
  <2>1. PICK m \in 1 .. n + k - 1 : u[m] \in B
    BY <1>1, <1>3 DEF After
  <2>2. m \notin 1 .. k
    BY <1>1, <1>3, <2>1 DEF Has, k
  <2>3. m - k \in 1 .. n - 1 /\ m - k \in 1 .. Len(t)
    <3>1. k \in Nat /\ Len(t) \in Nat
      BY <1>1
    <3>2. \A i, l \in Nat : n \in 1 .. l /\ m \in 1 .. n + i - 1 /\ m \notin 1 .. i =>
              m - i \in 1 .. n - 1 /\ m - i \in 1 .. l
      OBVIOUS
    <3> QED
      BY <2>1, <2>2, <3>1, <3>2
  <2>4. u[m] = t[m - k]
    <3>1. (m - k) + k = m
      BY <1>1, <2>1
    <3>2. u[(m - k) + k] = t[m - k]
      BY <1>1, <2>3, Zenon
    <3> QED
      BY <3>1, <3>2
  <2> QED
    BY <2>1, <2>3, <2>4
<1>4. ASSUME After(s, A, B), Has(s, B) \/ After(t, A, B)
      PROVE  After(u, A, B)
  <2> SUFFICES ASSUME NEW n \in 1 .. Len(u), u[n] \in A
               PROVE  \E m \in 1 .. n - 1 : u[m] \in B
    BY DEF After
  <2>1. CASE n \in 1 .. k
    <3>1. PICK m \in 1 .. n - 1 : s[m] \in B
      BY <1>1, <1>4, <2>1 DEF After, k
    <3> QED
      BY <1>1, <2>1, <3>1
  <2>2. CASE n - k \in 1 .. Len(t)
    <3>1. u[n] = t[n - k] /\ n > k
      BY SMTT(30), <1>1, <2>2
    <3>2. CASE Has(s, B)
      <4>1. PICK m \in 1 .. k : s[m] \in B
        BY <3>2 DEF Has, k
      <4>2. m \in 1 .. n - 1 /\ u[m] = s[m]
        BY <1>1, <3>1
      <4> QED
        BY <4>1, <4>2
    <3>3. CASE After(t, A, B)
      <4>1. PICK m \in 1 .. n - k - 1 : t[m] \in B
        BY <2>2, <3>1, <3>3 DEF After
      <4>2. m \in 1 .. Len(t) /\ m + k \in 1 .. n - 1
        BY <1>1, <2>2, <4>1
      <4> QED
        BY <1>1, <4>1, <4>2
    <3> QED
      BY <1>4, <3>2, <3>3
  <2> QED
    BY <1>1, <2>1, <2>2
<1> QED
  BY <1>2, <1>3, <1>4 DEF u

\* What is left after the first call.
LEMMA FirstCall ==
    ASSUME NEW q \in Seq(Calls), q # <<>>
    PROVE  /\ Head(q) \in Calls /\ Tail(q) \in Seq(Calls)
           /\ \A A :
                 Has(q, A) <=>
                    Head(q) \in A \/ Has(Tail(q), A)
           /\ \A A, B :
                 After(q, A, B) <=>
                    /\ Head(q) \notin A
                    /\ \/ Head(q) \in B
                       \/ After(Tail(q), A, B)
<1> DEFINE h == <<Head(q)>>
           t == Tail(q)
<1>1. Head(q) \in Calls /\ t \in Seq(Calls) /\ q = h \o t
  BY HeadTailProperties
<1>2. /\ h \in Seq(Calls)
      /\ \A A : Has(h, A) <=> Head(q) \in A
      /\ \A A, B :
            After(h, A, B) <=> Head(q) \notin A
  BY <1>1, OneCall
<1> HIDE DEF h, t
<1>3. ASSUME NEW A
      PROVE  Has(q, A) <=> Head(q) \in A \/ Has(t, A)
  <2>1. Has(h \o t, A) <=> Has(h, A) \/ Has(t, A)
    BY <1>1, <1>2, HasConcat
  <2> QED
    BY <1>1, <1>2, <2>1
<1>4. ASSUME NEW A, NEW B
      PROVE  After(q, A, B) <=>
                /\ Head(q) \notin A
                /\ Head(q) \in B \/ After(t, A, B)
  <2>1. After(h \o t, A, B) <=>
           After(h, A, B) /\ (Has(h, B) \/ After(t, A, B))
    BY <1>1, <1>2, AfterConcat
  <2> QED
    BY <1>1, <1>2, <2>1
<1> QED
  BY <1>1, <1>3, <1>4 DEF t

LEMMA NoneAfter ==
    ASSUME NEW q, NEW A, NEW B, ~Has(q, A)
    PROVE  After(q, A, B)
  BY DEF Has, After

LEMMA Concat ==
    ASSUME NEW s \in Seq(Calls), NEW t \in Seq(Calls)
    PROVE  /\ s \o t \in Seq(Calls)
           /\ \A A : Has(s \o t, A) <=> Has(s, A) \/ Has(t, A)
           /\ \A A, B :
                 After(s \o t, A, B) <=> After(s, A, B) /\ (Has(s, B) \/ After(t, A, B))
<1>1. s \o t \in Seq(Calls)
  BY ConcatProperties
<1>2. ASSUME NEW A PROVE Has(s \o t, A) <=> Has(s, A) \/ Has(t, A)
  BY HasConcat
<1>3. ASSUME NEW A, NEW B
      PROVE  After(s \o t, A, B) <=> After(s, A, B) /\ (Has(s, B) \/ After(t, A, B))
  BY AfterConcat
<1> QED
  BY <1>1, <1>2, <1>3

LEMMA WhenCall ==
    ASSUME NEW b \in BOOLEAN, NEW c \in Calls
    PROVE  /\ When(b, c) \in Seq(Calls)
           /\ \A A : Has(When(b, c), A) <=> b /\ c \in A
           /\ \A A, B : After(When(b, c), A, B) <=> ~(b /\ c \in A)
<1>1. CASE b
  BY <1>1, OneCall DEF When
<1>2. CASE ~b
  BY <1>2, EmptyCalls DEF When
<1> QED
  BY <1>1, <1>2

-----------------------------------------------------------------------------
(* The calls of the code. *)

\* What brings a kind into being, and what removes it.
Makes(kind) == {c \in Calls : c.op \in {"apply", "ensure"} /\ c.kind = kind}
Deletes(kind) == {c \in Calls : c.op = "delete" /\ c.kind = kind}

\* The workload as it is applied with a config (2) or a ServiceAccount (3).
Refers(f) == {c \in Calls : c.op = "apply" /\ c.kind = "workload" /\ c.content[f] # ""}

LEMMA Member ==
    /\ \A kind, x, k : /\ Apply(kind, x) \in Makes(k) <=> Apply(kind, x) \in Calls /\ kind = k
                       /\ Apply(kind, x) \notin Deletes(k) /\ Apply(kind, x) # Release
    /\ \A kind, k : /\ Delete(kind) \in Deletes(k) <=> Delete(kind) \in Calls /\ kind = k
                    /\ Delete(kind) \notin Makes(k) /\ Delete(kind) # Release
    /\ \A kind, k : /\ Ensure(kind) \in Makes(k) <=> Ensure(kind) \in Calls /\ kind = k
                    /\ Ensure(kind) \notin Deletes(k) /\ Ensure(kind) # Release
    /\ \A k : Release \notin Makes(k) /\ Release \notin Deletes(k)
<1>1. /\ \A kind, x : Apply(kind, x).op = "apply" /\ Apply(kind, x).kind = kind
      /\ \A kind : Delete(kind).op = "delete" /\ Delete(kind).kind = kind
      /\ \A kind : Ensure(kind).op = "ensure" /\ Ensure(kind).kind = kind
      /\ Release.op = "release"
  BY DEF Apply, Delete, Ensure, Release
<1> QED
  BY <1>1 DEF Makes, Deletes

LEMMA CallTypes ==
    /\ \A kind \in Kinds : Delete(kind) \in Calls
    /\ Ensure("key") \in Calls /\ Release \in Calls
    /\ \A kind \in Kinds \ {"service"}, content \in Seq(Texts) : Apply(kind, content) \in Calls
    /\ \A type \in {"LoadBalancer", "NodePort"} : Apply("service", <<type>>) \in Calls
<1>1. ASSUME NEW kind \in Kinds PROVE Delete(kind) \in Calls /\ Ensure("key") \in Calls
  <2>1. <<>> \in Seq(Texts) /\ "key" \in Kinds
    BY DEF Kinds
  <2> QED
    BY <2>1 DEF Delete, Ensure, Calls, ProviderCalls
<1>2. ASSUME NEW kind \in Kinds \ {"service"}, NEW content \in Seq(Texts)
      PROVE  Apply(kind, content) \in Calls
  BY DEF Apply, Calls, ProviderCalls
<1>3. ASSUME NEW type \in {"LoadBalancer", "NodePort"} PROVE Apply("service", <<type>>) \in Calls
  <2>1. "service" \in Kinds
    BY DEF Kinds
  <2>2. type \in Texts
    BY DEF Texts
  <2>3. <<type>> \in Seq(Texts)
    BY <2>2
  <2> QED
    BY <2>1, <2>3 DEF Apply, Calls, ProviderCalls
<1>4. "key" \in Kinds
  BY DEF Kinds
<1> QED
  BY <1>1, <1>2, <1>3, <1>4 DEF Calls

LEMMA ServiceTypes ==
    ASSUME NEW s \in Specs
    PROVE  resolveServiceType(s) \in {"ClusterIP", "LoadBalancer", "NodePort"}
<1>1. s.service \in {"", "ClusterIP", "LoadBalancer", "NodePort"}
  BY SpecsAssumption
<1> QED
  BY <1>1 DEF resolveServiceType, ResolvedServiceType

\* reconcileExternalService and syncPodMonitor are one call each.
LEMMA ServiceCalls ==
    ASSUME NEW s \in Specs
    PROVE  LET q == reconcileExternalService(s)
               t == resolveServiceType(s) IN
           /\ q \in Seq(Calls)
           /\ \A A : Has(q, A) <=> IF t = "ClusterIP" THEN Delete("service") \in A
                                   ELSE Apply("service", <<t>>) \in A
           /\ \A A, B : After(q, A, B) <=> ~Has(q, A)
<1>1. CASE resolveServiceType(s) = "ClusterIP"
  <2>1. Delete("service") \in Calls
    BY CallTypes DEF Kinds
  <2> QED
    BY <1>1, <2>1, OneCall DEF reconcileExternalService
<1>2. CASE resolveServiceType(s) # "ClusterIP"
  <2>1. Apply("service", <<resolveServiceType(s)>>) \in Calls
    BY <1>2, ServiceTypes, CallTypes
  <2> QED
    BY <1>2, <2>1, OneCall DEF reconcileExternalService
<1> QED
  BY <1>1, <1>2

LEMMA PodMonitorCalls ==
    ASSUME NEW s, NEW ch
    PROVE  LET q == syncPodMonitor(s, ch) IN
           /\ q \in Seq(Calls)
           /\ \A A : Has(q, A) <=> IF ch.podMonitor /\ s.metrics THEN Apply("podMonitor", <<>>) \in A
                                   ELSE Delete("podMonitor") \in A
           /\ \A A, B : After(q, A, B) <=> ~Has(q, A)
<1>1. Apply("podMonitor", <<>>) \in Calls /\ Delete("podMonitor") \in Calls
  <2>1. <<>> \in Seq(Texts) /\ "podMonitor" \in Kinds \ {"service"}
    BY DEF Kinds
  <2> QED
    BY <2>1, CallTypes
<1> QED
  BY <1>1, OneCall DEF syncPodMonitor

LEMMA GatewayCleanupCalls ==
    LET q == cleanupAIGateway IN
    /\ q \in Seq(Calls)
    /\ \A A : Has(q, A) <=> Delete("route") \in A \/ Delete("tokenLimit") \in A
    /\ \A A, B : After(q, A, B) <=>
                    /\ Delete("route") \notin A
                    /\ Delete("route") \in B \/ Delete("tokenLimit") \notin A
<1> DEFINE r == <<Delete("route")>>
           t == <<Delete("tokenLimit")>>
<1>1. Delete("route") \in Calls /\ Delete("tokenLimit") \in Calls
  BY CallTypes DEF Kinds
<1>2. /\ r \in Seq(Calls)
      /\ \A A : Has(r, A) <=> Delete("route") \in A
      /\ \A A, B : After(r, A, B) <=> Delete("route") \notin A
  BY <1>1, OneCall
<1>3. /\ t \in Seq(Calls)
      /\ \A A : Has(t, A) <=> Delete("tokenLimit") \in A
      /\ \A A, B : After(t, A, B) <=> Delete("tokenLimit") \notin A
  BY <1>1, OneCall
<1>4. cleanupAIGateway = r \o t
  BY DEF cleanupAIGateway
<1> HIDE DEF r, t
<1> QED
  BY <1>2, <1>3, <1>4, Concat

\* syncAIGateway: the key, the backends, the route, the quota.
LEMMA GatewayCalls ==
    ASSUME NEW s \in Specs, NEW ch \in Charts, NEW backends \in Seq(Calls)
    PROVE  LET q == syncAIGateway(s, ch, backends)
               route == Apply("route", <<s.model>>)
               quota == IF ch.redis THEN Apply("tokenLimit", <<s.model>>) ELSE Delete("tokenLimit") IN
           /\ q \in Seq(Calls) /\ route \in Calls
           /\ \A A : Has(q, A) <=> \/ ch.auth /\ Ensure("key") \in A
                                   \/ Has(backends, A)
                                   \/ route \in A \/ quota \in A
           /\ \A A, B :
                 Ensure("key") \notin A /\ quota \notin A =>
                   (After(q, A, B) <=> \/ ch.auth /\ Ensure("key") \in B
                                       \/ /\ After(backends, A, B)
                                          /\ Has(backends, B) \/ route \notin A)
<1> DEFINE r == Apply("route", <<s.model>>)
           t == IF ch.redis THEN Apply("tokenLimit", <<s.model>>) ELSE Delete("tokenLimit")
           key == When(ch.auth, Ensure("key"))
           first == key \o backends
           all == first \o <<r>>
<1>1. Ensure("key") \in Calls /\ r \in Calls /\ t \in Calls
  <2>1. s.model \in Texts
    BY SpecsAssumption DEF Texts
  <2>2. <<s.model>> \in Seq(Texts)
    BY <2>1
  <2> QED
    BY <2>2, CallTypes DEF Kinds
<1>2. syncAIGateway(s, ch, backends) = all \o <<t>>
  BY DEF syncAIGateway
<1>3. /\ key \in Seq(Calls)
      /\ \A A : Has(key, A) <=> ch.auth /\ Ensure("key") \in A
      /\ \A A, B : After(key, A, B) <=> ~(ch.auth /\ Ensure("key") \in A)
  <2>1. ch.auth \in BOOLEAN
    BY ChartsAssumption
  <2> QED
    BY <1>1, <2>1, WhenCall
<1> HIDE DEF r, t, key
<1>4. /\ first \in Seq(Calls)
      /\ \A A : Has(first, A) <=> Has(key, A) \/ Has(backends, A)
      /\ \A A, B :
            After(first, A, B) <=> After(key, A, B) /\ (Has(key, B) \/ After(backends, A, B))
  BY <1>3, Concat
<1> HIDE DEF first
<1>5. /\ all \in Seq(Calls)
      /\ \A A : Has(all, A) <=> Has(first, A) \/ r \in A
      /\ \A A, B : After(all, A, B) <=> After(first, A, B) /\ (Has(first, B) \/ r \notin A)
  <2>1. /\ <<r>> \in Seq(Calls)
        /\ \A A : Has(<<r>>, A) <=> r \in A
        /\ \A A, B : After(<<r>>, A, B) <=> r \notin A
    BY <1>1, OneCall
  <2> QED
    BY <1>4, <2>1, Concat
<1> HIDE DEF all
<1>6. /\ all \o <<t>> \in Seq(Calls)
      /\ \A A : Has(all \o <<t>>, A) <=> Has(all, A) \/ t \in A
      /\ \A A, B : t \notin A => (After(all \o <<t>>, A, B) <=> After(all, A, B))
  <2>1. /\ <<t>> \in Seq(Calls)
        /\ \A A : Has(<<t>>, A) <=> t \in A
        /\ \A A, B : After(<<t>>, A, B) <=> t \notin A
    BY <1>1, OneCall
  <2> QED
    BY <1>5, <2>1, Concat
<1> QED
  BY SMTT(30), <1>1, <1>2, <1>3, <1>4, <1>5, <1>6 DEF r, t

LEMMA Triple ==
    ASSUME NEW S, NEW x \in S, NEW y \in S, NEW z \in S PROVE <<x, y, z>> \in Seq(S)
  OBVIOUS

\* What the builders write.
LEMMA Contents ==
    ASSUME NEW s \in Specs
    PROVE  /\ Apply("config", <<s.config>>) \in Calls
           /\ Apply("backendKey", <<s.secret>>) \in Calls
           /\ \A c \in {"", s.config}, sa \in {"", "puller"} :
                 Apply("workload", <<s.model, c, sa>>) \in Calls
           /\ \A kind \in Kinds \ {"service"} : Apply(kind, <<>>) \in Calls
<1>1. s.model \in Texts /\ s.config \in Texts /\ s.secret \in Texts
  BY SpecsAssumption DEF Texts
<1>2. <<s.config>> \in Seq(Texts) /\ <<s.secret>> \in Seq(Texts) /\ <<>> \in Seq(Texts)
  BY <1>1
<1>3. ASSUME NEW c \in {"", s.config}, NEW sa \in {"", "puller"}
      PROVE  <<s.model, c, sa>> \in Seq(Texts)
  <2>1. c \in Texts /\ sa \in Texts
    BY <1>1 DEF Texts
  <2> QED
    BY <1>1, <2>1, Triple
<1>4. {"config", "backendKey", "workload"} \subseteq Kinds \ {"service"}
  BY DEF Kinds
<1> QED
  BY <1>2, <1>3, <1>4, CallTypes

\* No call of the sequence comes after another that matters.
Unordered(q) == q \in Seq(Calls) /\ \A A, B : After(q, A, B) <=> ~Has(q, A)

\* The calls before the way in: ServiceAccount, config, workload, PodMonitor.
LEMMA FirstCalls ==
    ASSUME NEW a \in Seq(Calls), NEW b \in Seq(Calls), NEW workload \in Calls,
           NEW pm, Unordered(pm)
    PROVE  LET q == a \o b \o <<workload>> \o pm IN
           /\ q \in Seq(Calls)
           /\ \A A : Has(q, A) <=> Has(a, A) \/ Has(b, A) \/ workload \in A \/ Has(pm, A)
           /\ \A A, B :
                 /\ ~Has(a, A) /\ ~Has(b, A) /\ ~Has(pm, A)
                 /\ workload \in A => Has(a, B) \/ Has(b, B)
                 => After(q, A, B)
<1> DEFINE ab == a \o b
           abc == ab \o <<workload>>
<1>1. /\ ab \in Seq(Calls)
      /\ \A A : Has(ab, A) <=> Has(a, A) \/ Has(b, A)
      /\ \A A, B : After(ab, A, B) <=> After(a, A, B) /\ (Has(a, B) \/ After(b, A, B))
  BY Concat
<1> HIDE DEF ab
<1>2. /\ <<workload>> \in Seq(Calls)
      /\ \A A : Has(<<workload>>, A) <=> workload \in A
      /\ \A A, B : After(<<workload>>, A, B) <=> workload \notin A
  BY OneCall
<1>3. /\ abc \in Seq(Calls)
      /\ \A A : Has(abc, A) <=> Has(ab, A) \/ workload \in A
      /\ \A A, B : After(abc, A, B) <=> After(ab, A, B) /\ (Has(ab, B) \/ workload \notin A)
  BY <1>1, <1>2, Concat
<1> HIDE DEF abc
<1>4. /\ abc \o pm \in Seq(Calls)
      /\ \A A : Has(abc \o pm, A) <=> Has(abc, A) \/ Has(pm, A)
      /\ \A A, B : ~Has(pm, A) => (After(abc \o pm, A, B) <=> After(abc, A, B))
  BY <1>3, Concat DEF Unordered
<1>5. ASSUME NEW A, NEW B, ~Has(a, A), ~Has(b, A), ~Has(pm, A),
             workload \in A => Has(a, B) \/ Has(b, B)
      PROVE  After(abc \o pm, A, B)
  <2>1. After(a, A, B) /\ After(b, A, B)
    BY <1>5, NoneAfter
  <2>2. After(ab, A, B) /\ (workload \in A => Has(ab, B))
    BY <1>1, <1>5, <2>1
  <2>3. After(abc, A, B)
    BY <1>3, <2>2
  <2> QED
    BY <1>4, <1>5, <2>3
<1> QED
  BY <1>1, <1>3, <1>4, <1>5 DEF abc, ab

-----------------------------------------------------------------------------
(* The order of the calls.                                                     *)

\* What A brings in leans on b: b comes first, and goes, after D, when nothing
\* leans on it any more.
LinkedCalls(q, A, D, b) ==
    /\ After(q, A, Makes(b))
    /\ After(q, Deletes(b), D)
    /\ Has(q, A) => ~Has(q, Deletes(b))

\* Each of the two ways in comes after the other has gone.
ApartCalls(q) ==
    /\ After(q, Makes("route"), Deletes("service"))
    /\ After(q, Makes("service"), Deletes("route"))
    /\ Has(q, Makes("route")) => ~Has(q, Makes("service"))

Ordered(q, topology, auth) ==
    /\ LinkedCalls(q, Refers(2), Deletes("workload"), "config")
    /\ LinkedCalls(q, Refers(3), Deletes("workload"), "serviceAccount")
    /\ auth => LinkedCalls(q, Makes("route"), Deletes("workload"), "key")
    /\ topology = "llm" => ApartCalls(q)
    /\ topology = "predictor" =>
         /\ LinkedCalls(q, Makes("route"), Deletes("route"), "aiBackend")
         /\ LinkedCalls(q, Makes("aiBackend"), Deletes("aiBackend"), "backend")
         /\ LinkedCalls(q, Makes("backendKey"), Deletes("backendKey"), "aiBackend")
         /\ ~Has(q, Makes("config"))

\* The kinds that Sync writes first, and those of the ways in.
Base == {"serviceAccount", "config", "workload"}
Ways == {"service", "key", "backend", "aiBackend", "backendKey", "route", "tokenLimit"}

\* Server, then ways in: the first part of Sync writes the base and never deletes of it.
FirstPart(q) ==
    /\ q \in Seq(Calls) /\ ~Has(q, {Release})
    /\ \A k \in Ways : ~Has(q, Makes(k))
    /\ \A k \in Base \cup Ways : ~Has(q, Deletes(k))
    /\ After(q, Refers(2), Makes("config"))
    /\ After(q, Refers(3), Makes("serviceAccount"))

WayIn(q, topology, auth) ==
    /\ q \in Seq(Calls) /\ ~Has(q, {Release})
    /\ \A k \in Base : ~Has(q, Makes(k)) /\ ~Has(q, Deletes(k))
    /\ ~Has(q, Deletes("key"))
    /\ auth => After(q, Makes("route"), Makes("key"))
    /\ topology = "llm" => ApartCalls(q)
    /\ topology = "predictor" =>
         /\ LinkedCalls(q, Makes("route"), Deletes("route"), "aiBackend")
         /\ LinkedCalls(q, Makes("aiBackend"), Deletes("aiBackend"), "backend")
         /\ LinkedCalls(q, Makes("backendKey"), Deletes("backendKey"), "aiBackend")

LEMMA HasRefers ==
    ASSUME NEW q, NEW f, ~Has(q, Makes("workload"))
    PROVE  ~Has(q, Refers(f))
  BY DEF Has, Refers, Makes

LEMMA Both ==
    ASSUME NEW p, NEW w, NEW topology, NEW auth \in BOOLEAN,
           FirstPart(p), WayIn(w, topology, auth),
           topology = "predictor" => ~Has(p, Makes("config"))
    PROVE  /\ p \o w \in Seq(Calls) /\ ~Has(p \o w, {Release})
           /\ Ordered(p \o w, topology, auth)
<1> DEFINE q == p \o w
<1>1. p \in Seq(Calls) /\ w \in Seq(Calls)
  BY DEF FirstPart, WayIn
<1>2. /\ q \in Seq(Calls)
      /\ \A A : Has(q, A) <=> Has(p, A) \/ Has(w, A)
      /\ \A A, B : After(q, A, B) <=> After(p, A, B) /\ (Has(p, B) \/ After(w, A, B))
  BY <1>1, Concat
<1> HIDE DEF q
<1>3. \A A, B : ~Has(w, A) => (After(q, A, B) <=> After(p, A, B))
  BY <1>2, NoneAfter
<1>4. \A A, B : ~Has(p, A) => (After(w, A, B) => After(q, A, B))
  BY <1>2, NoneAfter
<1>5. \A A, B : ~Has(p, A) /\ ~Has(w, A) => ~Has(q, A) /\ After(q, A, B)
  BY <1>2, NoneAfter
<1>6. \A f : ~Has(w, Refers(f))
  BY HasRefers DEF WayIn, Base
<1>7. \A k \in Base : ~Has(q, Deletes(k)) /\ (\A B : After(q, Deletes(k), B))
  BY <1>5 DEF FirstPart, WayIn
<1>8. ~Has(q, Deletes("key")) /\ (\A B : After(q, Deletes("key"), B))
  BY <1>5 DEF FirstPart, WayIn, Ways
<1>9. \A k \in Ways : /\ Has(q, Makes(k)) <=> Has(w, Makes(k))
                      /\ Has(q, Deletes(k)) <=> Has(w, Deletes(k))
                      /\ \A B : After(w, Makes(k), B) => After(q, Makes(k), B)
                      /\ \A B : After(w, Deletes(k), B) => After(q, Deletes(k), B)
  BY <1>2, <1>4 DEF FirstPart
<1>10. LinkedCalls(q, Refers(2), Deletes("workload"), "config")
  BY <1>3, <1>6, <1>7 DEF LinkedCalls, FirstPart, Base
<1>11. LinkedCalls(q, Refers(3), Deletes("workload"), "serviceAccount")
  BY <1>3, <1>6, <1>7 DEF LinkedCalls, FirstPart, Base
<1>12. auth => LinkedCalls(q, Makes("route"), Deletes("workload"), "key")
  BY <1>8, <1>9 DEF LinkedCalls, WayIn, Ways
<1>13. topology = "llm" => ApartCalls(q)
  BY <1>9 DEF ApartCalls, WayIn, Ways
<1>14. ASSUME NEW a \in Ways, NEW b \in Ways, LinkedCalls(w, Makes(a), Deletes(a), b)
       PROVE  LinkedCalls(q, Makes(a), Deletes(a), b)
  BY <1>9, <1>14 DEF LinkedCalls
<1>15. topology = "predictor" =>
         /\ LinkedCalls(q, Makes("route"), Deletes("route"), "aiBackend")
         /\ LinkedCalls(q, Makes("aiBackend"), Deletes("aiBackend"), "backend")
         /\ LinkedCalls(q, Makes("backendKey"), Deletes("backendKey"), "aiBackend")
         /\ ~Has(q, Makes("config"))
  BY <1>2, <1>14 DEF WayIn, Ways, Base
<1>16. ~Has(q, {Release})
  BY <1>2 DEF FirstPart, WayIn
<1> QED
  BY <1>2, <1>10, <1>11, <1>12, <1>13, <1>15, <1>16 DEF Ordered, q

\* What FirstCalls and PodMonitorCalls say of the first part, kind by kind.
LEMMA FirstParts ==
    ASSUME NEW s \in Specs, NEW ch \in Charts, NEW hf \in BOOLEAN, NEW cf \in BOOLEAN,
           NEW content, content = <<s.model, IF cf THEN s.config ELSE "", IF hf THEN "puller" ELSE "">>
    PROVE  LET q == When(hf, Apply("serviceAccount", <<>>)) \o When(cf, Apply("config", <<s.config>>))
                      \o <<Apply("workload", content)>> \o syncPodMonitor(s, ch) IN
           FirstPart(q) /\ (~cf => ~Has(q, Makes("config")))
<1> DEFINE sa == Apply("serviceAccount", <<>>)
           config == Apply("config", <<s.config>>)
           workload == Apply("workload", content)
           pm == syncPodMonitor(s, ch)
           q == When(hf, sa) \o When(cf, config) \o <<workload>> \o pm
<1>1. sa \in Calls /\ config \in Calls /\ workload \in Calls
  BY Contents DEF Kinds
<1>2. /\ pm \in Seq(Calls)
      /\ \A A : Has(pm, A) => Apply("podMonitor", <<>>) \in A \/ Delete("podMonitor") \in A
      /\ \A A, B : After(pm, A, B) <=> ~Has(pm, A)
  BY PodMonitorCalls
<1>3. /\ sa.op = "apply" /\ sa.kind = "serviceAccount"
      /\ config.op = "apply" /\ config.kind = "config"
      /\ workload.op = "apply" /\ workload.kind = "workload" /\ workload.content = content
  BY DEF Apply
<1>4. pm \in Seq(Calls) /\ \A k \in Base \cup Ways : ~Has(pm, Makes(k)) /\ ~Has(pm, Deletes(k))
  <2>1. PICK a, d : a = Apply("podMonitor", <<>>) /\ d = Delete("podMonitor")
    OBVIOUS
  <2>2. a.kind = "podMonitor" /\ d.kind = "podMonitor"
    BY <2>1 DEF Apply, Delete
  <2>3. \A k \in Base \cup Ways : a \notin Makes(k) \cup Deletes(k) /\ d \notin Makes(k) \cup Deletes(k)
    BY <2>2 DEF Base, Ways, Makes, Deletes
  <2> QED
    BY <1>2, <2>1, <2>3
<1>5. ~Has(pm, {Release})
  <2>1. Apply("podMonitor", <<>>) # Release /\ Delete("podMonitor") # Release
    BY DEF Apply, Delete, Release
  <2> QED
    BY <1>2, <2>1
<1>6. (workload \in Refers(2) => cf) /\ (workload \in Refers(3) => hf)
  <2>1. content[2] = (IF cf THEN s.config ELSE "") /\ content[3] = (IF hf THEN "puller" ELSE "")
    OBVIOUS
  <2>2. workload \in Refers(2) => content[2] # ""
    BY <1>3 DEF Refers
  <2>3. workload \in Refers(3) => content[3] # ""
    BY <1>3 DEF Refers
  <2> QED
    BY <2>1, <2>2, <2>3
<1> DEFINE a == When(hf, sa)
           b == When(cf, config)
<1>7. /\ q \in Seq(Calls)
      /\ \A A : Has(q, A) <=> Has(a, A) \/ Has(b, A) \/ workload \in A \/ Has(pm, A)
      /\ \A A, B :
            /\ ~Has(a, A) /\ ~Has(b, A) /\ ~Has(pm, A)
            /\ workload \in A => Has(a, B) \/ Has(b, B)
            => After(q, A, B)
  <2>1. Unordered(pm)
    BY <1>2 DEF Unordered
  <2>2. a \in Seq(Calls) /\ b \in Seq(Calls)
    BY <1>1, WhenCall
  <2> HIDE DEF sa, config, workload, pm, a, b
  <2>3. q = a \o b \o <<workload>> \o pm
    BY DEF a, b
  <2> HIDE DEF q
  <2>4. q \in Seq(Calls)
    BY <1>1, <2>1, <2>2, <2>3, FirstCalls
  <2>5. ASSUME NEW A PROVE Has(q, A) <=> Has(a, A) \/ Has(b, A) \/ workload \in A \/ Has(pm, A)
    BY <1>1, <2>1, <2>2, <2>3, FirstCalls
  <2>6. ASSUME NEW A, NEW B, ~Has(a, A), ~Has(b, A), ~Has(pm, A),
               workload \in A => Has(a, B) \/ Has(b, B)
        PROVE  After(q, A, B)
    BY <1>1, <2>1, <2>2, <2>3, <2>6, FirstCalls
  <2> QED
    BY <2>4, <2>5, <2>6
<1>17. \A A : Has(a, A) <=> hf /\ sa \in A
  BY <1>1, WhenCall
<1>18. \A A : Has(b, A) <=> cf /\ config \in A
  BY <1>1, WhenCall
<1> HIDE DEF a, b
<1> HIDE DEF sa, config, workload, pm, q
<1>14. /\ \A k \in Ways : sa \notin Makes(k) /\ config \notin Makes(k) /\ workload \notin Makes(k)
       /\ \A k : sa \notin Deletes(k) /\ config \notin Deletes(k) /\ workload \notin Deletes(k)
  BY <1>3 DEF Makes, Deletes, Ways
<1>15. /\ sa \in Makes("serviceAccount") /\ config \in Makes("config")
       /\ sa \notin Makes("config") /\ workload \notin Makes("config")
  BY <1>1, <1>3 DEF Makes
<1>16. \A f : sa \notin Refers(f) /\ config \notin Refers(f)
  BY <1>3 DEF Refers
<1>8. ~Has(q, {Release})
  <2>1. sa # Release /\ config # Release /\ workload # Release
    <3>1. Release.op = "release"
      BY DEF Release
    <3> QED
      BY <1>3, <3>1
  <2> QED
    BY <1>5, <1>7, <1>17, <1>18, <2>1
<1>9. /\ \A k \in Ways : ~Has(q, Makes(k))
      /\ \A k \in Base \cup Ways : ~Has(q, Deletes(k))
  BY <1>4, <1>7, <1>17, <1>18, <1>14
<1>10. ~Has(pm, Refers(2)) /\ ~Has(pm, Refers(3))
  BY <1>4, HasRefers DEF Base
<1>11. After(q, Refers(2), Makes("config"))
  <2>1. workload \in Refers(2) => Has(b, Makes("config"))
    BY <1>6, <1>15, <1>18
  <2>2. ~Has(a, Refers(2)) /\ ~Has(b, Refers(2))
    BY <1>16, <1>17, <1>18
  <2> QED
    BY <1>7, <1>10, <2>1, <2>2
<1>12. After(q, Refers(3), Makes("serviceAccount"))
  <2>1. workload \in Refers(3) => Has(a, Makes("serviceAccount"))
    BY <1>6, <1>15, <1>17
  <2>2. ~Has(a, Refers(3)) /\ ~Has(b, Refers(3))
    BY <1>16, <1>17, <1>18
  <2> QED
    BY <1>7, <1>10, <2>1, <2>2
<1>13. ~cf => ~Has(q, Makes("config"))
  BY <1>4, <1>7, <1>17, <1>18, <1>15 DEF Base
<1> QED
  BY <1>7, <1>8, <1>9, <1>11, <1>12, <1>13 DEF FirstPart, q, sa, config, workload, pm

\* Three calls in a row.
LEMMA ThreeCalls ==
    ASSUME NEW x \in Calls, NEW y \in Calls, NEW z \in Calls
    PROVE  LET q == <<x, y, z>> IN
           /\ q \in Seq(Calls)
           /\ \A A : Has(q, A) <=> x \in A \/ y \in A \/ z \in A
           /\ \A A, B : After(q, A, B) <=> /\ x \notin A
                                           /\ y \in A => x \in B
                                           /\ z \in A => x \in B \/ y \in B
<1> DEFINE q == <<x, y, z>>
<1>1. q \in Seq(Calls)
  BY Triple
<1>2. Len(q) = 3 /\ q[1] = x /\ q[2] = y /\ q[3] = z
  OBVIOUS
<1> HIDE DEF q
<1>3. \A A : Has(q, A) <=> x \in A \/ y \in A \/ z \in A
  BY <1>2 DEF Has
<1>4. ASSUME NEW A, NEW B
      PROVE  After(q, A, B) <=> /\ x \notin A
                                /\ y \in A => x \in B
                                /\ z \in A => x \in B \/ y \in B
  <2>1. After(q, A, B) <=> /\ q[1] \in A => \E m \in 1 .. 0 : q[m] \in B
                           /\ q[2] \in A => \E m \in 1 .. 1 : q[m] \in B
                           /\ q[3] \in A => \E m \in 1 .. 2 : q[m] \in B
    BY <1>2 DEF After
  <2> QED
    BY <1>2, <2>1
<1> QED
  BY <1>1, <1>3, <1>4 DEF q

\* One call by its kind.
LEMMA Applied ==
    ASSUME NEW kind, NEW x, Apply(kind, x) \in Calls
    PROVE  /\ \A k : Apply(kind, x) \in Makes(k) <=> k = kind
           /\ \A k : Apply(kind, x) \notin Deletes(k)
           /\ Apply(kind, x) # Release
<1>1. PICK c : c = Apply(kind, x)
  OBVIOUS
<1>2. c.op = "apply" /\ c.kind = kind /\ c \in Calls
  BY <1>1 DEF Apply
<1>3. Release.op = "release"
  BY DEF Release
<1>4. /\ \A k : c \in Makes(k) <=> k = kind
      /\ \A k : c \notin Deletes(k)
      /\ c # Release
  BY <1>2, <1>3 DEF Makes, Deletes
<1> QED
  BY <1>1, <1>4

LEMMA Deleted ==
    ASSUME NEW kind \in Kinds
    PROVE  /\ Delete(kind) \in Calls
           /\ \A k : Delete(kind) \in Deletes(k) <=> k = kind
           /\ \A k : Delete(kind) \notin Makes(k)
           /\ Delete(kind) # Release
<1>1. PICK c : c = Delete(kind)
  OBVIOUS
<1>2. c.op = "delete" /\ c.kind = kind /\ c \in Calls
  BY <1>1, CallTypes DEF Delete
<1>3. Release.op = "release"
  BY DEF Release
<1>4. /\ \A k : c \in Deletes(k) <=> k = kind
      /\ \A k : c \notin Makes(k)
      /\ c # Release
  BY <1>2, <1>3 DEF Makes, Deletes
<1> QED
  BY <1>1, <1>2, <1>4

LEMMA Ensured ==
    /\ Ensure("key") \in Calls
    /\ \A k : Ensure("key") \in Makes(k) <=> k = "key"
    /\ \A k : Ensure("key") \notin Deletes(k)
    /\ Ensure("key") # Release
<1>1. PICK c : c = Ensure("key")
  OBVIOUS
<1>2. c.op = "ensure" /\ c.kind = "key" /\ c \in Calls
  BY <1>1, CallTypes DEF Ensure
<1>3. Release.op = "release"
  BY DEF Release
<1>4. /\ \A k : c \in Makes(k) <=> k = "key"
      /\ \A k : c \notin Deletes(k)
      /\ c # Release
  BY <1>2, <1>3 DEF Makes, Deletes
<1> QED
  BY <1>1, <1>2, <1>4

\* The Gateway's part, kind by kind.
LEMMA GatewayPart ==
    ASSUME NEW s \in Specs, NEW ch \in Charts, NEW backends \in Seq(Calls),
           ~Has(backends, Makes("route"))
    PROVE  LET q == syncAIGateway(s, ch, backends) IN
           /\ q \in Seq(Calls)
           /\ \A k : Has(q, Makes(k)) => Has(backends, Makes(k)) \/ k \in {"key", "route", "tokenLimit"}
           /\ \A k : Has(q, Deletes(k)) => Has(backends, Deletes(k)) \/ k = "tokenLimit"
           /\ Has(q, {Release}) => Has(backends, {Release})
           /\ Has(q, Makes("route"))
           /\ ch.auth => After(q, Makes("route"), Makes("key"))
           /\ \A k : Has(backends, Makes(k)) => After(q, Makes("route"), Makes(k))
           /\ \A l : \A k \in {"aiBackend", "backendKey"} :
                 After(backends, Makes(k), Makes(l)) => After(q, Makes(k), Makes(l))
<1> DEFINE q == syncAIGateway(s, ch, backends)
           key == Ensure("key")
           route == Apply("route", <<s.model>>)
           quota == IF ch.redis THEN Apply("tokenLimit", <<s.model>>) ELSE Delete("tokenLimit")
<1>1. /\ q \in Seq(Calls) /\ route \in Calls
      /\ \A A : Has(q, A) <=> \/ ch.auth /\ key \in A
                              \/ Has(backends, A)
                              \/ route \in A \/ quota \in A
      /\ \A A, B :
            key \notin A /\ quota \notin A =>
              (After(q, A, B) <=> \/ ch.auth /\ key \in B
                                  \/ /\ After(backends, A, B)
                                     /\ Has(backends, B) \/ route \notin A)
  BY GatewayCalls
<1>2. /\ \A k : quota \in Makes(k) => k = "tokenLimit"
      /\ \A k : quota \in Deletes(k) => k = "tokenLimit"
      /\ quota # Release
  <2>1. CASE ch.redis
    <3>1. Apply("tokenLimit", <<s.model>>) \in Calls
      <4>1. s.model \in Texts
        BY SpecsAssumption DEF Texts
      <4>2. <<s.model>> \in Seq(Texts)
        BY <4>1
      <4> QED
        BY <4>2, CallTypes DEF Kinds
    <3> QED
      BY <2>1, <3>1, Applied
  <2>2. CASE ~ch.redis
    <3>1. "tokenLimit" \in Kinds
      BY DEF Kinds
    <3> QED
      BY <2>2, <3>1, Deleted
  <2> QED
    BY <2>1, <2>2
<1>3. /\ \A k : route \in Makes(k) <=> k = "route"
      /\ \A k : route \notin Deletes(k)
      /\ route # Release
  BY <1>1, Applied
<1>4. /\ \A k : key \in Makes(k) <=> k = "key"
      /\ \A k : key \notin Deletes(k)
      /\ key # Release
  BY Ensured
<1> HIDE DEF q, key, route, quota
<1>5. /\ \A k : Has(q, Makes(k)) => Has(backends, Makes(k)) \/ k \in {"key", "route", "tokenLimit"}
      /\ \A k : Has(q, Deletes(k)) => Has(backends, Deletes(k)) \/ k = "tokenLimit"
      /\ Has(q, {Release}) => Has(backends, {Release})
      /\ Has(q, Makes("route"))
  BY <1>1, <1>2, <1>3, <1>4
<1>6. ASSUME ch.auth PROVE After(q, Makes("route"), Makes("key"))
  BY <1>1, <1>2, <1>3, <1>4, <1>6
<1>7. ASSUME NEW k, Has(backends, Makes(k)) PROVE After(q, Makes("route"), Makes(k))
  <2>1. After(backends, Makes("route"), Makes(k))
    BY NoneAfter
  <2>2. key \notin Makes("route") /\ quota \notin Makes("route")
    BY <1>2, <1>4
  <2> QED
    BY <1>1, <1>7, <2>1, <2>2
<1>8. ASSUME NEW k \in {"aiBackend", "backendKey"}, NEW l, After(backends, Makes(k), Makes(l))
      PROVE  After(q, Makes(k), Makes(l))
  <2>1. key \notin Makes(k) /\ quota \notin Makes(k) /\ route \notin Makes(k)
    BY <1>2, <1>3, <1>4
  <2> QED
    BY <1>1, <1>8, <2>1
<1> QED
  BY <1>1, <1>5, <1>6, <1>7, <1>8 DEF q

LEMMA NoCalls ==
    /\ <<>> \in Seq(Calls) /\ ~Has(<<>>, {Release})
    /\ \A k : ~Has(<<>>, Makes(k)) /\ ~Has(<<>>, Deletes(k))
  BY EmptyCalls

\* The external Service and the Gateway's cleanup, kind by kind.
LEMMA ServicePart ==
    ASSUME NEW s \in Specs
    PROVE  LET q == reconcileExternalService(s) IN
           /\ q \in Seq(Calls) /\ ~Has(q, {Release})
           /\ \A k : Has(q, Makes(k)) \/ Has(q, Deletes(k)) => k = "service"
<1> DEFINE q == reconcileExternalService(s)
           t == resolveServiceType(s)
           d == Delete("service")
           a == Apply("service", <<t>>)
<1>1. q \in Seq(Calls) /\ \A A : Has(q, A) <=> IF t = "ClusterIP" THEN d \in A ELSE a \in A
  BY ServiceCalls
<1>2. /\ \A k : d \in Deletes(k) <=> k = "service"
      /\ \A k : d \notin Makes(k)
      /\ d # Release
  BY Deleted DEF Kinds
<1>3. t # "ClusterIP" => /\ \A k : a \in Makes(k) <=> k = "service"
                         /\ \A k : a \notin Deletes(k)
                         /\ a # Release
  <2>1. SUFFICES ASSUME t # "ClusterIP" PROVE a \in Calls
    BY Applied
  <2> QED
    BY <2>1, ServiceTypes, CallTypes
<1> HIDE DEF q, t, d, a
<1>4. ~Has(q, {Release}) /\ \A k : Has(q, Makes(k)) \/ Has(q, Deletes(k)) => k = "service"
  BY <1>1, <1>2, <1>3
<1> QED
  BY <1>1, <1>4 DEF q

LEMMA CleanupPart ==
    LET q == cleanupAIGateway IN
    /\ q \in Seq(Calls) /\ ~Has(q, {Release})
    /\ \A k : ~Has(q, Makes(k))
    /\ \A k : Has(q, Deletes(k)) <=> k \in {"route", "tokenLimit"}
<1> DEFINE q == cleanupAIGateway
           r == Delete("route")
           t == Delete("tokenLimit")
<1>1. q \in Seq(Calls) /\ \A A : Has(q, A) <=> r \in A \/ t \in A
  BY GatewayCleanupCalls
<1>2. /\ \A k : r \in Deletes(k) <=> k = "route"
      /\ \A k : r \notin Makes(k)
      /\ r # Release
  BY Deleted DEF Kinds
<1>3. /\ \A k : t \in Deletes(k) <=> k = "tokenLimit"
      /\ \A k : t \notin Makes(k)
      /\ t # Release
  BY Deleted DEF Kinds
<1> HIDE DEF q, r, t
<1>4. /\ ~Has(q, {Release}) /\ \A k : ~Has(q, Makes(k))
      /\ \A k : Has(q, Deletes(k)) <=> k \in {"route", "tokenLimit"}
  BY <1>1, <1>2, <1>3
<1> QED
  BY <1>1, <1>4 DEF q

LEMMA WayInLLM ==
    ASSUME NEW s \in Specs, NEW ch \in Charts, s.topology = "llm", ch.gateway,
           NEW w, w = IF UsesAIGateway(s)
                      THEN <<Delete("service")>> \o syncAIGateway(s, ch, <<>>)
                      ELSE (IF ch.gateway THEN cleanupAIGateway ELSE <<>>) \o reconcileExternalService(s)
    PROVE  WayIn(w, "llm", ch.auth)
<1>1. CASE UsesAIGateway(s)
  <2> DEFINE d == <<Delete("service")>>
             g == syncAIGateway(s, ch, <<>>)
  <2>1. /\ d \in Seq(Calls)
        /\ \A A : Has(d, A) <=> Delete("service") \in A
        /\ \A A, B : After(d, A, B) <=> ~Has(d, A)
    BY Deleted, OneCall DEF Kinds
  <2>2. /\ \A k : Has(d, Deletes(k)) <=> k = "service"
        /\ \A k : ~Has(d, Makes(k))
        /\ ~Has(d, {Release})
    BY <2>1, Deleted DEF Kinds
  <2>3. /\ g \in Seq(Calls)
        /\ \A k : Has(g, Makes(k)) => k \in {"key", "route", "tokenLimit"}
        /\ \A k : Has(g, Deletes(k)) => k = "tokenLimit"
        /\ ~Has(g, {Release})
        /\ ch.auth => After(g, Makes("route"), Makes("key"))
    BY NoCalls, GatewayPart
  <2> HIDE DEF d, g
  <2>4. /\ w = d \o g /\ w \in Seq(Calls)
        /\ \A A : Has(w, A) <=> Has(d, A) \/ Has(g, A)
        /\ \A A, B : After(w, A, B) <=> After(d, A, B) /\ (Has(d, B) \/ After(g, A, B))
    BY <1>1, <2>1, <2>3, Concat DEF d, g
  <2>5. /\ ~Has(w, {Release}) /\ ~Has(w, Deletes("key"))
        /\ \A k \in Base : ~Has(w, Makes(k)) /\ ~Has(w, Deletes(k))
    <3>1. \A k : /\ k \notin {"key", "route", "tokenLimit"} => ~Has(w, Makes(k))
                 /\ k \notin {"service", "tokenLimit"} => ~Has(w, Deletes(k))
      BY <2>2, <2>3, <2>4
    <3>2. \A k \in Base : k \notin {"key", "service", "route", "tokenLimit"}
      BY DEF Base
    <3>3. ~Has(w, {Release})
      BY <2>2, <2>3, <2>4
    <3> QED
      BY <3>1, <3>2, <3>3
  <2>6. ch.auth => After(w, Makes("route"), Makes("key"))
    BY <2>1, <2>2, <2>3, <2>4
  <2>7. ApartCalls(w)
    <3>1. After(w, Makes("route"), Deletes("service"))
      BY <2>1, <2>2, <2>4
    <3>2. ~Has(w, Makes("service"))
      BY <2>2, <2>3, <2>4
    <3> QED
      BY <3>1, <3>2, NoneAfter DEF ApartCalls
  <2> QED
    BY <2>4, <2>5, <2>6, <2>7 DEF WayIn
<1>2. CASE ~UsesAIGateway(s)
  <2> DEFINE c == cleanupAIGateway
             v == reconcileExternalService(s)
  <2>1. /\ c \in Seq(Calls) /\ ~Has(c, {Release})
        /\ \A k : ~Has(c, Makes(k))
        /\ \A k : Has(c, Deletes(k)) <=> k \in {"route", "tokenLimit"}
    BY CleanupPart
  <2>2. /\ v \in Seq(Calls) /\ ~Has(v, {Release})
        /\ \A k : Has(v, Makes(k)) \/ Has(v, Deletes(k)) => k = "service"
    BY ServicePart
  <2> HIDE DEF c, v
  <2>3. /\ w = c \o v /\ w \in Seq(Calls)
        /\ \A A : Has(w, A) <=> Has(c, A) \/ Has(v, A)
        /\ \A A, B : After(w, A, B) <=> After(c, A, B) /\ (Has(c, B) \/ After(v, A, B))
    BY <1>2, <2>1, <2>2, Concat DEF c, v
  <2>4. /\ ~Has(w, {Release}) /\ ~Has(w, Deletes("key")) /\ ~Has(w, Makes("route"))
        /\ \A k \in Base : ~Has(w, Makes(k)) /\ ~Has(w, Deletes(k))
    <3>1. \A k : k \notin {"service", "route", "tokenLimit"} => ~Has(w, Makes(k)) /\ ~Has(w, Deletes(k))
      BY <2>1, <2>2, <2>3
    <3>2. \A k \in Base \cup {"key"} : k \notin {"service", "route", "tokenLimit"}
      BY DEF Base
    <3>3. ~Has(w, {Release})
      BY <2>1, <2>2, <2>3
    <3>4. ~Has(w, Makes("route"))
      BY <2>1, <2>2, <2>3
    <3> QED
      BY <3>1, <3>2, <3>3, <3>4
  <2>5. After(w, Makes("service"), Deletes("route"))
    BY <2>1, <2>3, NoneAfter
  <2> QED
    BY <2>3, <2>4, <2>5, NoneAfter DEF WayIn, ApartCalls
<1> QED
  BY <1>1, <1>2

LEMMA TwoCalls ==
    ASSUME NEW x \in Calls, NEW y \in Calls
    PROVE  LET q == <<x, y>> IN
           /\ q \in Seq(Calls)
           /\ \A A : Has(q, A) <=> x \in A \/ y \in A
           /\ \A A, B : After(q, A, B) <=> x \notin A /\ (y \in A => x \in B)
<1> DEFINE q == <<x, y>>
<1>1. q \in Seq(Calls)
  OBVIOUS
<1>2. Len(q) = 2 /\ q[1] = x /\ q[2] = y
  OBVIOUS
<1> HIDE DEF q
<1>3. \A A : Has(q, A) <=> x \in A \/ y \in A
  BY <1>2 DEF Has
<1>4. ASSUME NEW A, NEW B
      PROVE  After(q, A, B) <=> x \notin A /\ (y \in A => x \in B)
  <2>1. After(q, A, B) <=> /\ q[1] \in A => \E m \in 1 .. 0 : q[m] \in B
                           /\ q[2] \in A => \E m \in 1 .. 1 : q[m] \in B
    BY <1>2 DEF After
  <2> QED
    BY <1>2, <2>1
<1> QED
  BY <1>1, <1>3, <1>4 DEF q

\* The backends of a predictor.
LEMMA BackendsPart ==
    ASSUME NEW s \in Specs,
           NEW q, q = <<Apply("backend", <<>>), Apply("aiBackend", <<>>)>>
                      \o When(s.secret # "", Apply("backendKey", <<s.secret>>))
    PROVE  /\ q \in Seq(Calls) /\ ~Has(q, {Release})
           /\ \A k : Has(q, Makes(k)) => k \in {"backend", "aiBackend", "backendKey"}
           /\ \A k : ~Has(q, Deletes(k))
           /\ Has(q, Makes("aiBackend"))
           /\ After(q, Makes("aiBackend"), Makes("backend"))
           /\ After(q, Makes("backendKey"), Makes("aiBackend"))
<1> DEFINE b == Apply("backend", <<>>)
           a == Apply("aiBackend", <<>>)
           k3 == Apply("backendKey", <<s.secret>>)
           more == When(s.secret # "", k3)
           two == <<b, a>>
<1>1. b \in Calls /\ a \in Calls /\ k3 \in Calls
  BY Contents DEF Kinds
<1>2. /\ \A k : b \in Makes(k) <=> k = "backend"
      /\ \A k : a \in Makes(k) <=> k = "aiBackend"
      /\ \A k : k3 \in Makes(k) <=> k = "backendKey"
      /\ \A k : b \notin Deletes(k) /\ a \notin Deletes(k) /\ k3 \notin Deletes(k)
      /\ b # Release /\ a # Release /\ k3 # Release
  BY <1>1, Applied
<1>3. q = two \o more
  OBVIOUS
<1>6. /\ more \in Seq(Calls)
      /\ \A A : Has(more, A) => k3 \in A
  BY <1>1, WhenCall
<1> HIDE DEF b, a, k3, more
<1>7. /\ two \in Seq(Calls)
      /\ \A A : Has(two, A) <=> b \in A \/ a \in A
      /\ \A A, B : After(two, A, B) <=> b \notin A /\ (a \in A => b \in B)
  BY <1>1, TwoCalls
<1> HIDE DEF two
<1>8. /\ q \in Seq(Calls)
      /\ \A A : Has(q, A) <=> Has(two, A) \/ Has(more, A)
      /\ \A A, B : After(q, A, B) <=> After(two, A, B) /\ (Has(two, B) \/ After(more, A, B))
  <2>1. /\ two \o more \in Seq(Calls)
        /\ \A A : Has(two \o more, A) <=> Has(two, A) \/ Has(more, A)
        /\ \A A, B : After(two \o more, A, B) <=>
                          After(two, A, B) /\ (Has(two, B) \/ After(more, A, B))
    BY <1>6, <1>7, Concat
  <2> QED
    BY <1>3, <2>1, Zenon
<1>9. /\ \A k : Has(q, Makes(k)) => k \in {"backend", "aiBackend", "backendKey"}
      /\ \A k : ~Has(q, Deletes(k))
      /\ ~Has(q, {Release})
      /\ Has(q, Makes("aiBackend"))
  BY <1>2, <1>6, <1>7, <1>8
<1>10. After(q, Makes("aiBackend"), Makes("backend"))
  <2>1. After(two, Makes("aiBackend"), Makes("backend")) /\ Has(two, Makes("backend"))
    BY <1>2, <1>7
  <2> QED
    BY <1>8, <2>1
<1>11. After(q, Makes("backendKey"), Makes("aiBackend"))
  <2>1. After(two, Makes("backendKey"), Makes("aiBackend")) /\ Has(two, Makes("aiBackend"))
    BY <1>2, <1>7
  <2> QED
    BY <1>8, <2>1
<1> QED
  BY <1>8, <1>9, <1>10, <1>11

LEMMA PredictorGateway ==
    ASSUME NEW s \in Specs, NEW ch \in Charts, ch.gateway,
           NEW q, q = syncPredictorAIGateway(s, ch)
    PROVE  /\ WayIn(q, "predictor", ch.auth)
           /\ ~Has(q, Makes("service"))
<1>1. CASE UsesAIGateway(s)
  <2> DEFINE d == When(s.secret = "", Delete("backendKey"))
             bs == <<Apply("backend", <<>>), Apply("aiBackend", <<>>)>>
                   \o When(s.secret # "", Apply("backendKey", <<s.secret>>))
             g == syncAIGateway(s, ch, bs)
  <2>1. d \in Seq(Calls) /\ \A A : Has(d, A) => Delete("backendKey") \in A
    BY Deleted, WhenCall DEF Kinds
  <2>2. /\ \A k : Has(d, Deletes(k)) => k = "backendKey"
        /\ \A k : ~Has(d, Makes(k))
        /\ ~Has(d, {Release})
    BY <2>1, Deleted DEF Kinds
  <2>3. /\ bs \in Seq(Calls) /\ ~Has(bs, {Release})
        /\ \A k : Has(bs, Makes(k)) => k \in {"backend", "aiBackend", "backendKey"}
        /\ \A k : ~Has(bs, Deletes(k))
        /\ Has(bs, Makes("aiBackend"))
        /\ After(bs, Makes("aiBackend"), Makes("backend"))
        /\ After(bs, Makes("backendKey"), Makes("aiBackend"))
    BY BackendsPart
  <2> HIDE DEF d, bs
  <2>4. /\ g \in Seq(Calls) /\ ~Has(g, {Release})
        /\ \A k : Has(g, Makes(k)) =>
                    k \in {"backend", "aiBackend", "backendKey", "key", "route", "tokenLimit"}
        /\ \A k : Has(g, Deletes(k)) => k = "tokenLimit"
        /\ ch.auth => After(g, Makes("route"), Makes("key"))
        /\ After(g, Makes("route"), Makes("aiBackend"))
        /\ After(g, Makes("aiBackend"), Makes("backend"))
        /\ After(g, Makes("backendKey"), Makes("aiBackend"))
    <3>1. ~Has(bs, Makes("route"))
      BY <2>3
    <3>2. /\ g \in Seq(Calls)
          /\ \A k : Has(g, Makes(k)) => Has(bs, Makes(k)) \/ k \in {"key", "route", "tokenLimit"}
          /\ \A k : Has(g, Deletes(k)) => Has(bs, Deletes(k)) \/ k = "tokenLimit"
          /\ Has(g, {Release}) => Has(bs, {Release})
          /\ ch.auth => After(g, Makes("route"), Makes("key"))
      BY <2>3, <3>1, GatewayPart
    <3>3. \A k : Has(bs, Makes(k)) => After(g, Makes("route"), Makes(k))
      BY <2>3, <3>1, GatewayPart
    <3>4. \A l : \A k \in {"aiBackend", "backendKey"} :
             After(bs, Makes(k), Makes(l)) => After(g, Makes(k), Makes(l))
      BY <2>3, <3>1, GatewayPart
    <3> HIDE DEF g
    <3> QED
      BY <2>3, <3>2, <3>3, <3>4
  <2>5. q = d \o g
    BY <1>1 DEF syncPredictorAIGateway, d, bs
  <2> HIDE DEF g
  <2>6. /\ q \in Seq(Calls)
        /\ \A A : Has(q, A) <=> Has(d, A) \/ Has(g, A)
        /\ \A A, B : After(q, A, B) <=> After(d, A, B) /\ (Has(d, B) \/ After(g, A, B))
    BY <2>1, <2>4, <2>5, Concat
  <2>7. /\ \A k : /\ Has(q, Makes(k)) =>
                       k \in {"backend", "aiBackend", "backendKey", "key", "route", "tokenLimit"}
                  /\ Has(q, Deletes(k)) => k \in {"backendKey", "tokenLimit"}
        /\ ~Has(q, {Release})
    BY <2>2, <2>4, <2>6
  <2>8. \A k, B : After(g, Makes(k), B) => After(q, Makes(k), B)
    BY <2>2, <2>6, NoneAfter
  <2>9. \A k \in Base : /\ k \notin {"backend", "aiBackend", "backendKey", "key", "route", "tokenLimit"}
                        /\ k # "service"
    BY DEF Base
  <2>10. \A B : After(q, Deletes("aiBackend"), B) /\ After(q, Deletes("backend"), B)
    BY <2>7, NoneAfter
  <2> QED
    BY <2>4, <2>6, <2>7, <2>8, <2>9, <2>10 DEF WayIn, LinkedCalls
<1>2. CASE ~UsesAIGateway(s)
  <2> DEFINE c == cleanupAIGateway
             x == Delete("backendKey")
             y == Delete("aiBackend")
             z == Delete("backend")
             t == <<x, y, z>>
  <2>1. /\ c \in Seq(Calls) /\ ~Has(c, {Release})
        /\ \A k : ~Has(c, Makes(k))
        /\ \A k : Has(c, Deletes(k)) <=> k \in {"route", "tokenLimit"}
    BY CleanupPart
  <2>2. /\ x \in Calls /\ y \in Calls /\ z \in Calls
        /\ \A k : x \in Deletes(k) <=> k = "backendKey"
        /\ \A k : y \in Deletes(k) <=> k = "aiBackend"
        /\ \A k : z \in Deletes(k) <=> k = "backend"
        /\ \A k : x \notin Makes(k) /\ y \notin Makes(k) /\ z \notin Makes(k)
        /\ x # Release /\ y # Release /\ z # Release
    BY Deleted DEF Kinds
  <2>3. q = c \o t
    BY <1>2 DEF syncPredictorAIGateway
  <2> HIDE DEF c, x, y, z
  <2>4. /\ t \in Seq(Calls)
        /\ \A A : Has(t, A) <=> x \in A \/ y \in A \/ z \in A
        /\ \A A, B : After(t, A, B) <=> /\ x \notin A
                                        /\ y \in A => x \in B
                                        /\ z \in A => x \in B \/ y \in B
    BY <2>2, ThreeCalls
  <2> HIDE DEF t
  <2>5. /\ q \in Seq(Calls)
        /\ \A A : Has(q, A) <=> Has(c, A) \/ Has(t, A)
        /\ \A A, B : After(q, A, B) <=> After(c, A, B) /\ (Has(c, B) \/ After(t, A, B))
    BY <2>1, <2>3, <2>4, Concat
  <2>6. /\ \A k : ~Has(q, Makes(k))
        /\ \A k : Has(q, Deletes(k)) =>
                    k \in {"route", "tokenLimit", "backendKey", "aiBackend", "backend"}
        /\ ~Has(q, {Release})
    BY <2>1, <2>2, <2>4, <2>5
  <2>7. \A k \in Base \cup {"key"} :
           k \notin {"route", "tokenLimit", "backendKey", "aiBackend", "backend"}
    BY DEF Base
  <2>8. After(q, Deletes("aiBackend"), Deletes("route"))
    BY <2>1, <2>5, NoneAfter
  <2>9. After(q, Deletes("aiBackend"), Deletes("backendKey"))
    <3>1. After(t, Deletes("aiBackend"), Deletes("backendKey"))
      BY <2>2, <2>4
    <3> QED
      BY <2>1, <2>5, <3>1, NoneAfter
  <2>10. After(q, Deletes("backend"), Deletes("aiBackend"))
    <3>1. After(t, Deletes("backend"), Deletes("aiBackend"))
      BY <2>2, <2>4
    <3> QED
      BY <2>1, <2>5, <3>1, NoneAfter
  <2>11. \A k, B : After(q, Makes(k), B)
    BY <2>6, NoneAfter
  <2> QED
    BY <2>5, <2>6, <2>7, <2>8, <2>9, <2>10, <2>11 DEF WayIn, LinkedCalls
<1> QED
  BY <1>1, <1>2

\* The external Service comes last and changes nothing of the rest.
LEMMA ThenService ==
    ASSUME NEW s \in Specs, NEW auth, NEW p, WayIn(p, "predictor", auth),
           NEW w, w = p \o reconcileExternalService(s)
    PROVE  WayIn(w, "predictor", auth)
<1> DEFINE v == reconcileExternalService(s)
<1>1. /\ v \in Seq(Calls) /\ ~Has(v, {Release})
      /\ \A k : Has(v, Makes(k)) \/ Has(v, Deletes(k)) => k = "service"
  BY ServicePart
<1>2. p \in Seq(Calls)
  BY DEF WayIn
<1> HIDE DEF v
<1>3. /\ w \in Seq(Calls)
      /\ \A A : Has(w, A) <=> Has(p, A) \/ Has(v, A)
      /\ \A A, B : After(w, A, B) <=> After(p, A, B) /\ (Has(p, B) \/ After(v, A, B))
  BY <1>1, <1>2, Concat DEF v
<1>4. \A A, B : ~Has(v, A) => (After(w, A, B) <=> After(p, A, B)) /\ (Has(w, A) <=> Has(p, A))
  BY <1>3, NoneAfter
<1>5. \A k \in Base \cup {"key", "route", "aiBackend", "backend", "backendKey"} :
         ~Has(v, Makes(k)) /\ ~Has(v, Deletes(k))
  BY <1>1 DEF Base
<1>6. ~Has(w, {Release}) /\ ~Has(w, Deletes("key"))
  BY <1>1, <1>4, <1>5 DEF WayIn
<1>7. \A k \in Base : ~Has(w, Makes(k)) /\ ~Has(w, Deletes(k))
  BY <1>4, <1>5 DEF WayIn
<1>8. auth => After(w, Makes("route"), Makes("key"))
  BY <1>4, <1>5 DEF WayIn
<1>9. ASSUME NEW a \in {"route", "aiBackend", "backendKey"}, NEW b \in {"aiBackend", "backend"},
             LinkedCalls(p, Makes(a), Deletes(a), b)
      PROVE  LinkedCalls(w, Makes(a), Deletes(a), b)
  BY <1>4, <1>5, <1>9 DEF LinkedCalls
<1> QED
  BY <1>3, <1>6, <1>7, <1>8, <1>9 DEF WayIn

-----------------------------------------------------------------------------
(* Sync and Cleanup as a whole.                                                 *)

LEMMA Topologies == \A s \in Specs : s.topology = "llm" \/ s.topology = "predictor"
  BY SpecsAssumption

LEMMA ChartTypes ==
    \A ch \in Charts : ch.gateway \in BOOLEAN /\ ch.auth \in BOOLEAN /\ ch.hfToken \in BOOLEAN
  BY ChartsAssumption

\* Sync is its first part and then the ways in.
LEMMA SyncParts ==
    ASSUME NEW s \in Specs, NEW ch \in Charts
    PROVE  \E p : /\ FirstPart(p)
                  /\ s.topology = "predictor" => ~Has(p, Makes("config"))
                  /\ s.topology = "llm" =>
                       Sync(s, ch) = p \o (IF UsesAIGateway(s)
                                           THEN <<Delete("service")>> \o syncAIGateway(s, ch, <<>>)
                                           ELSE (IF ch.gateway THEN cleanupAIGateway ELSE <<>>)
                                                \o reconcileExternalService(s))
                  /\ s.topology = "predictor" =>
                       Sync(s, ch) = (p \o syncPredictorAIGateway(s, ch)) \o reconcileExternalService(s)
<1>1. CASE s.topology = "llm"
  <2> DEFINE p == When(ch.hfToken, Apply("serviceAccount", <<>>))
                  \o When(s.config # "", Apply("config", <<s.config>>))
                  \o <<Apply("workload", <<s.model, s.config, IF ch.hfToken THEN "puller" ELSE "">>)>>
                  \o syncPodMonitor(s, ch)
  <2>1. FirstPart(p)
    <3> DEFINE content == <<s.model, s.config, IF ch.hfToken THEN "puller" ELSE "">>
               cf == s.config # ""
    <3>1. content = <<s.model, IF cf THEN s.config ELSE "", IF ch.hfToken THEN "puller" ELSE "">>
      OBVIOUS
    <3>2. cf \in BOOLEAN /\ ch.hfToken \in BOOLEAN
      BY ChartTypes
    <3> QED
      BY <3>1, <3>2, FirstParts
  <2>2. Sync(s, ch) = p \o (IF UsesAIGateway(s)
                            THEN <<Delete("service")>> \o syncAIGateway(s, ch, <<>>)
                            ELSE (IF ch.gateway THEN cleanupAIGateway ELSE <<>>)
                                 \o reconcileExternalService(s))
    BY <1>1 DEF Sync, syncLLM
  <2> QED
    BY <1>1, <2>1, <2>2
<1>2. CASE s.topology = "predictor"
  <2> DEFINE hf == usesHFTokenServiceAccount(s, ch)
             content == <<s.model, "", IF hf THEN "puller" ELSE "">>
             a == When(hf, Apply("serviceAccount", <<>>))
             b == When(FALSE, Apply("config", <<s.config>>))
             workload == <<Apply("workload", content)>>
             pm == syncPodMonitor(s, ch)
             p == a \o b \o workload \o pm
  <2>1. FirstPart(p) /\ ~Has(p, Makes("config"))
    <3>1. hf \in BOOLEAN
      BY DEF usesHFTokenServiceAccount
    <3>2. content = <<s.model, IF FALSE THEN s.config ELSE "", IF hf THEN "puller" ELSE "">>
      OBVIOUS
    <3> HIDE DEF hf, content
    <3> QED
      BY <3>1, <3>2, FirstParts
  <2>2. a \o b = a
    <3>1. a \in Seq(Calls)
      <4>1. hf \in BOOLEAN
        BY DEF usesHFTokenServiceAccount
      <4>2. Apply("serviceAccount", <<>>) \in Calls
        BY Contents DEF Kinds
      <4> HIDE DEF hf
      <4> QED
        BY <4>1, <4>2, WhenCall
    <3>2. b = <<>>
      BY DEF When
    <3> HIDE DEF a, b
    <3> QED
      BY <3>1, <3>2, ConcatEmptySeq
  <2>3. Sync(s, ch) = (a \o workload \o pm \o syncPredictorAIGateway(s, ch)) \o reconcileExternalService(s)
    BY <1>2 DEF Sync, syncPredictor
  <2>4. Sync(s, ch) = (p \o syncPredictorAIGateway(s, ch)) \o reconcileExternalService(s)
    <3> HIDE DEF a, b, workload, pm
    <3> QED
      BY <2>2, <2>3
  <2> QED
    BY <1>2, <2>1, <2>4
<1> QED
  BY <1>1, <1>2, Topologies

LEMMA SyncOrdered ==
    ASSUME NEW s \in Specs, NEW ch \in Charts, ch.gateway
    PROVE  /\ Sync(s, ch) \in Seq(Calls) /\ ~Has(Sync(s, ch), {Release})
           /\ Ordered(Sync(s, ch), s.topology, ch.auth)
<1>1. PICK p : /\ FirstPart(p)
               /\ s.topology = "predictor" => ~Has(p, Makes("config"))
               /\ s.topology = "llm" =>
                    Sync(s, ch) = p \o (IF UsesAIGateway(s)
                                        THEN <<Delete("service")>> \o syncAIGateway(s, ch, <<>>)
                                        ELSE (IF ch.gateway THEN cleanupAIGateway ELSE <<>>)
                                             \o reconcileExternalService(s))
               /\ s.topology = "predictor" =>
                    Sync(s, ch) = (p \o syncPredictorAIGateway(s, ch)) \o reconcileExternalService(s)
  BY SyncParts
<1>2. CASE s.topology = "llm"
  <2>1. PICK w : w = IF UsesAIGateway(s)
                     THEN <<Delete("service")>> \o syncAIGateway(s, ch, <<>>)
                     ELSE (IF ch.gateway THEN cleanupAIGateway ELSE <<>>) \o reconcileExternalService(s)
    OBVIOUS
  <2>2. WayIn(w, "llm", ch.auth)
    BY <1>2, <2>1, WayInLLM
  <2>3. Sync(s, ch) = p \o w
    BY <1>1, <1>2, <2>1
  <2>4. ch.auth \in BOOLEAN
    BY ChartTypes
  <2> QED
    BY <1>1, <1>2, <2>2, <2>3, <2>4, Both
<1>3. CASE s.topology = "predictor"
  <2>1. PICK g, v, w : g = syncPredictorAIGateway(s, ch) /\ v = reconcileExternalService(s) /\ w = g \o v
    OBVIOUS
  <2>2. WayIn(g, "predictor", ch.auth)
    BY <2>1, PredictorGateway
  <2>3. WayIn(w, "predictor", ch.auth)
    BY <2>1, <2>2, ThenService
  <2>4. Sync(s, ch) = p \o w
    <3>1. p \in Seq(Calls) /\ g \in Seq(Calls) /\ v \in Seq(Calls)
      BY <1>1, <2>1, <2>2, ServicePart DEF FirstPart, WayIn
    <3>2. (p \o g) \o v = p \o (g \o v)
      BY <3>1, ConcatAssociative
    <3> QED
      BY <1>1, <1>3, <2>1, <3>2
  <2>5. ch.auth \in BOOLEAN
    BY ChartTypes
  <2> QED
    BY <1>1, <1>3, <2>3, <2>4, <2>5, Both
<1> QED
  BY <1>2, <1>3, Topologies

\* What holds of Sync whatever the chart.
LEMMA SyncCalls ==
    ASSUME NEW s \in Specs, NEW ch \in Charts, Validate(s, ch)
    PROVE  /\ Sync(s, ch) \in Seq(Calls) /\ ~Has(Sync(s, ch), {Release})
           /\ s.topology = "predictor" => ~Has(Sync(s, ch), Makes("config"))
<1>1. CASE ch.gateway
  BY <1>1, SyncOrdered DEF Ordered
<1>2. CASE ~ch.gateway
  <2> DEFINE v == reconcileExternalService(s)
  <2>1. ~UsesAIGateway(s)
    BY <1>2 DEF Validate
  <2>2. PICK p : /\ FirstPart(p)
                 /\ s.topology = "predictor" => ~Has(p, Makes("config"))
                 /\ s.topology = "llm" => Sync(s, ch) = p \o (<<>> \o v)
                 /\ s.topology = "predictor" => Sync(s, ch) = (p \o syncPredictorAIGateway(s, ch)) \o v
    BY <1>2, <2>1, SyncParts
  <2>3. /\ v \in Seq(Calls) /\ ~Has(v, {Release})
        /\ \A k : Has(v, Makes(k)) => k = "service"
    BY ServicePart
  <2>4. syncPredictorAIGateway(s, ch) = <<>>
    BY <1>2, <2>1 DEF syncPredictorAIGateway
  <2> HIDE DEF v
  <2>5. p \in Seq(Calls) /\ p \o <<>> = p /\ <<>> \o v = v
    BY <2>2, <2>3, ConcatEmptySeq DEF FirstPart
  <2>6. Sync(s, ch) = p \o v
    BY <2>2, <2>4, <2>5, Topologies
  <2>7. /\ p \o v \in Seq(Calls)
        /\ \A A : Has(p \o v, A) <=> Has(p, A) \/ Has(v, A)
    BY <2>3, <2>5, Concat
  <2> QED
    BY <2>2, <2>3, <2>6, <2>7 DEF FirstPart
<1> QED
  BY <1>1, <1>2

\* Cleanup, and the finalizer after it.
LEMMA CleanupCalls ==
    ASSUME NEW s \in Specs, NEW auth,
           NEW q, q = Cleanup(s) \o <<Release>>
    PROVE  /\ q \in Seq(Calls)
           /\ \A k : ~Has(q, Makes(k))
           /\ Ordered(q, s.topology, auth)
           /\ After(q, {Release}, Deletes("workload"))
           /\ After(q, {Release}, Deletes("key"))
           /\ s.topology = "llm" => After(q, {Release}, Deletes("config"))
<1> DEFINE llm == s.topology = "llm"
           w == <<Delete("workload")>>
           c == When(llm, Delete("config"))
           k3 == <<Delete("key")>>
           wc == w \o c
           all == wc \o k3
           r == <<Release>>
<1>1. Delete("workload") \in Calls /\ Delete("config") \in Calls /\ Delete("key") \in Calls /\ Release \in Calls
  BY CallTypes DEF Kinds
<1>2. /\ w \in Seq(Calls)
      /\ \A A : Has(w, A) <=> Delete("workload") \in A
      /\ \A A, B : After(w, A, B) <=> Delete("workload") \notin A
  BY <1>1, OneCall
<1>3. /\ c \in Seq(Calls)
      /\ \A A : Has(c, A) <=> llm /\ Delete("config") \in A
      /\ \A A, B : After(c, A, B) <=> ~(llm /\ Delete("config") \in A)
  BY <1>1, WhenCall
<1>4. /\ k3 \in Seq(Calls)
      /\ \A A : Has(k3, A) <=> Delete("key") \in A
      /\ \A A, B : After(k3, A, B) <=> Delete("key") \notin A
  BY <1>1, OneCall
<1>5. /\ r \in Seq(Calls)
      /\ \A A : Has(r, A) <=> Release \in A
      /\ \A A, B : After(r, A, B) <=> Release \notin A
  BY <1>1, OneCall
<1>6. q = all \o r
  BY DEF Cleanup
<1> HIDE DEF w, c, k3, r, llm
<1>7. /\ wc \in Seq(Calls)
      /\ \A A : Has(wc, A) <=> Has(w, A) \/ Has(c, A)
      /\ \A A, B : After(wc, A, B) <=> After(w, A, B) /\ (Has(w, B) \/ After(c, A, B))
  BY <1>2, <1>3, Concat
<1> HIDE DEF wc
<1>8. /\ all \in Seq(Calls)
      /\ \A A : Has(all, A) <=> Has(wc, A) \/ Has(k3, A)
      /\ \A A, B : After(all, A, B) <=> After(wc, A, B) /\ (Has(wc, B) \/ After(k3, A, B))
  BY <1>4, <1>7, Concat
<1> HIDE DEF all
<1>9. /\ q \in Seq(Calls)
      /\ \A A : Has(q, A) <=> Has(all, A) \/ Has(r, A)
      /\ \A A, B : After(q, A, B) <=> After(all, A, B) /\ (Has(all, B) \/ After(r, A, B))
  <2>1. /\ all \o r \in Seq(Calls)
        /\ \A A : Has(all \o r, A) <=> Has(all, A) \/ Has(r, A)
        /\ \A A, B : After(all \o r, A, B) <=> After(all, A, B) /\ (Has(all, B) \/ After(r, A, B))
    BY <1>5, <1>8, Concat
  <2> QED
    BY <1>6, <2>1, Zenon
<1>10. /\ \A k : Delete("workload") \in Deletes(k) <=> k = "workload"
       /\ \A k : Delete("config") \in Deletes(k) <=> k = "config"
       /\ \A k : Delete("key") \in Deletes(k) <=> k = "key"
       /\ \A k : Delete("workload") \notin Makes(k) /\ Delete("config") \notin Makes(k) /\ Delete("key") \notin Makes(k)
       /\ Delete("workload") # Release /\ Delete("config") # Release /\ Delete("key") # Release
  BY Deleted DEF Kinds
<1>11. \A k : Release \notin Makes(k) /\ Release \notin Deletes(k)
  BY Member
<1>12. /\ \A k : ~Has(q, Makes(k))
       /\ \A k : k \notin {"workload", "config", "key"} => ~Has(q, Deletes(k))
  BY <1>2, <1>3, <1>4, <1>5, <1>7, <1>8, <1>9, <1>10, <1>11
<1>13. ~Has(all, {Release})
  BY <1>2, <1>3, <1>4, <1>7, <1>8, <1>10
<1>14. \A B : Has(all, B) => After(q, {Release}, B)
  BY <1>9, <1>13, NoneAfter
<1>15. /\ Has(all, Deletes("workload")) /\ Has(all, Deletes("key"))
       /\ llm => Has(all, Deletes("config"))
  BY <1>2, <1>3, <1>4, <1>7, <1>8, <1>10
<1>16. After(q, Deletes("config"), Deletes("workload")) /\ After(q, Deletes("key"), Deletes("workload"))
  <2>1. ASSUME NEW A, NEW B, Delete("workload") \notin A, Delete("workload") \in B, Release \notin A
        PROVE  After(q, A, B)
    <3>1. After(w, A, B) /\ Has(w, B) /\ After(r, A, B)
      BY <1>2, <1>5, <2>1
    <3>2. After(wc, A, B) /\ Has(wc, B)
      BY <1>7, <3>1
    <3>3. After(all, A, B)
      BY <1>8, <3>2
    <3> QED
      BY <1>9, <3>1, <3>3
  <2>2. /\ Delete("workload") \in Deletes("workload")
        /\ Delete("workload") \notin Deletes("config") /\ Delete("workload") \notin Deletes("key")
    BY <1>10
  <2> QED
    BY <1>11, <2>1, <2>2
<1>17. \A f : ~Has(q, Refers(f))
  BY <1>12, HasRefers
<1>18. LinkedCalls(q, Refers(2), Deletes("workload"), "config")
  BY <1>16, <1>17, NoneAfter DEF LinkedCalls
<1>19. LinkedCalls(q, Refers(3), Deletes("workload"), "serviceAccount")
  <2>1. ~Has(q, Deletes("serviceAccount"))
    BY <1>12
  <2> QED
    BY <2>1, <1>17, NoneAfter DEF LinkedCalls
<1>20. LinkedCalls(q, Makes("route"), Deletes("workload"), "key")
  BY <1>12, <1>16, NoneAfter DEF LinkedCalls
<1>21. ApartCalls(q)
  BY <1>12, NoneAfter DEF ApartCalls
<1>22. ASSUME NEW a, NEW b \in {"aiBackend", "backend"}
       PROVE  LinkedCalls(q, Makes(a), Deletes(a), b)
  BY <1>12, NoneAfter DEF LinkedCalls
<1>23. Ordered(q, s.topology, auth)
  BY <1>12, <1>18, <1>19, <1>20, <1>21, <1>22 DEF Ordered
<1> QED
  BY <1>9, <1>12, <1>14, <1>15, <1>23 DEF llm

-----------------------------------------------------------------------------
(* From the order of the calls to what exists.  p says that the one object is       *)
(* there and leans on b, e that b is there.                                       *)

Linked(p, e, q, A, D, b) ==
    /\ p => e
    /\ e \/ After(q, A, Makes(b))
    /\ p => After(q, Deletes(b), D)
    /\ Has(q, A) => ~Has(q, Deletes(b))

LEMMA LinkedStart ==
    ASSUME NEW p, NEW e, NEW q, NEW A, NEW D, NEW b, p => e, LinkedCalls(q, A, D, b)
    PROVE  Linked(p, e, q, A, D, b)
  BY DEF Linked, LinkedCalls

LEMMA LinkedStop ==
    ASSUME NEW p, NEW e, NEW A, NEW D, NEW b, p => e
    PROVE  Linked(p, e, <<>>, A, D, b)
  BY EmptyCalls DEF Linked

\* One call, at any place.
LEMMA LinkedCall ==
    ASSUME NEW p, NEW e, NEW q \in Seq(Calls), NEW A, NEW D, NEW b, NEW p1, NEW e1,
           q # <<>>, Linked(p, e, q, A, D, b),
           p1 => Head(q) \in A \/ (p /\ Head(q) \notin D),
           e1 <=> Head(q) \in Makes(b) \/ (e /\ Head(q) \notin Deletes(b)),
           Head(q) \in A => Head(q) \notin Deletes(b)
    PROVE  Linked(p1, e1, Tail(q), A, D, b)
<1> DEFINE h == Head(q)
           t == Tail(q)
<1>1. /\ \A S : Has(q, S) <=> h \in S \/ Has(t, S)
      /\ \A S, T : After(q, S, T) <=> h \notin S /\ (h \in T \/ After(t, S, T))
  BY FirstCall
<1> HIDE DEF h, t
<1>2. p1 => e1
  BY <1>1 DEF Linked, h
<1>3. e1 \/ After(t, A, Makes(b))
  BY <1>1, NoneAfter DEF Linked, h
<1>4. p1 => After(t, Deletes(b), D)
  BY <1>1, NoneAfter DEF Linked, h
<1>5. Has(t, A) => ~Has(t, Deletes(b))
  BY <1>1 DEF Linked
<1> QED
  BY <1>2, <1>3, <1>4, <1>5 DEF Linked, t

\* The answer may be lost: the reconcile then gives up what it has left.
LEMMA LinkedStep ==
    ASSUME NEW p, NEW e, NEW q \in Seq(Calls), NEW A, NEW D, NEW b, NEW p1, NEW e1, NEW q1,
           q # <<>>, Linked(p, e, q, A, D, b),
           p1 => Head(q) \in A \/ (p /\ Head(q) \notin D),
           e1 <=> Head(q) \in Makes(b) \/ (e /\ Head(q) \notin Deletes(b)),
           Head(q) \in A => Head(q) \notin Deletes(b),
           q1 = Tail(q) \/ q1 = <<>>
    PROVE  Linked(p1, e1, q1, A, D, b)
<1>1. Linked(p1, e1, Tail(q), A, D, b)
  BY LinkedCall
<1>2. p1 => e1
  BY <1>1 DEF Linked
<1>3. Linked(p1, e1, <<>>, A, D, b)
  BY <1>2, LinkedStop
<1> QED
  BY <1>1, <1>3

Apart(r, v, q) ==
    /\ ~(r /\ v)
    /\ v => After(q, Makes("route"), Deletes("service"))
    /\ r => After(q, Makes("service"), Deletes("route"))
    /\ Has(q, Makes("route")) => ~Has(q, Makes("service"))

LEMMA ApartStart ==
    ASSUME NEW r, NEW v, NEW q, ~(r /\ v), ApartCalls(q)
    PROVE  Apart(r, v, q)
  BY DEF Apart, ApartCalls

LEMMA ApartStop ==
    ASSUME NEW r, NEW v, ~(r /\ v)
    PROVE  Apart(r, v, <<>>)
  BY EmptyCalls DEF Apart

LEMMA ApartCall ==
    ASSUME NEW r, NEW v, NEW q \in Seq(Calls), NEW r1, NEW v1, q # <<>>, Apart(r, v, q),
           r1 <=> Head(q) \in Makes("route") \/ (r /\ Head(q) \notin Deletes("route")),
           v1 <=> Head(q) \in Makes("service") \/ (v /\ Head(q) \notin Deletes("service"))
    PROVE  Apart(r1, v1, Tail(q))
<1> DEFINE h == Head(q)
           t == Tail(q)
<1>1. /\ \A S : Has(q, S) <=> h \in S \/ Has(t, S)
      /\ \A S, T : After(q, S, T) <=> h \notin S /\ (h \in T \/ After(t, S, T))
  BY FirstCall
<1> HIDE DEF h, t
<1>2. ~(r1 /\ v1)
  BY <1>1 DEF Apart, h
<1>3. v1 => After(t, Makes("route"), Deletes("service"))
  BY <1>1, NoneAfter DEF Apart, h
<1>4. r1 => After(t, Makes("service"), Deletes("route"))
  BY <1>1, NoneAfter DEF Apart, h
<1>5. Has(t, Makes("route")) => ~Has(t, Makes("service"))
  BY <1>1 DEF Apart
<1> QED
  BY <1>2, <1>3, <1>4, <1>5 DEF Apart, t

LEMMA ApartStep ==
    ASSUME NEW r, NEW v, NEW q \in Seq(Calls), NEW r1, NEW v1, NEW q1, q # <<>>, Apart(r, v, q),
           r1 <=> Head(q) \in Makes("route") \/ (r /\ Head(q) \notin Deletes("route")),
           v1 <=> Head(q) \in Makes("service") \/ (v /\ Head(q) \notin Deletes("service")),
           q1 = Tail(q) \/ q1 = <<>>
    PROVE  Apart(r1, v1, q1)
<1>1. Apart(r1, v1, Tail(q))
  BY ApartCall
<1>2. ~(r1 /\ v1)
  BY <1>1 DEF Apart
<1>3. Apart(r1, v1, <<>>)
  BY <1>2, ApartStop
<1> QED
  BY <1>1, <1>3

-----------------------------------------------------------------------------
(* The invariant.  What is said of the objects is not inductive: it is the order of  *)
(* the calls still to be made that keeps it, so the invariant relates the two.      *)

TypeInv ==
    /\ spec \in Specs /\ phase \in {"live", "deleting", "gone"} /\ chart \in ChartsOf(calm)
    /\ DOMAIN objects \subseteq Kinds
    /\ Exists("service") => objects["service"] \in {<<"LoadBalancer">>, <<"NodePort">>}
    /\ calls \in Seq(Calls)
    /\ phase = "gone" => calls = <<>> /\ ~queued
    /\ queued \in BOOLEAN /\ edits \in 0 .. MaxEdits

\* The workload refers to a config (2) or a ServiceAccount (3).
Leans(f) == Exists("workload") /\ objects["workload"][f] # ""

\* While the finalizer is held.
LinksKept ==
    /\ Linked(Leans(2), Exists("config"), calls, Refers(2), Deletes("workload"), "config")
    /\ Linked(Leans(3), Exists("serviceAccount"), calls, Refers(3), Deletes("workload"), "serviceAccount")
    /\ chart.auth => Linked(FALSE, Exists("key"), calls, Makes("route"), Deletes("workload"), "key")
    /\ spec.topology = "predictor" =>
         /\ Linked(Exists("route"), Exists("aiBackend"), calls,
                   Makes("route"), Deletes("route"), "aiBackend")
         /\ Linked(Exists("aiBackend"), Exists("backend"), calls,
                   Makes("aiBackend"), Deletes("aiBackend"), "backend")
         /\ Linked(Exists("backendKey"), Exists("aiBackend"), calls,
                   Makes("backendKey"), Deletes("backendKey"), "aiBackend")

OrderInv ==
    calm => /\ phase # "gone" => LinksKept
            /\ spec.topology = "llm" => Apart(Exists("route"), Exists("service"), calls)

Removed == {"workload", "config", "key"}

RemovalInv ==
    /\ Has(calls, {Release}) => phase = "deleting" /\ \A k \in Removed : ~Has(calls, Makes(k))
    /\ \A k \in Removed : Exists(k) => After(calls, {Release}, Deletes(k))
    /\ spec.topology = "predictor" => ~Exists("config") /\ ~Has(calls, Makes("config"))
    /\ phase = "gone" => \A k \in Removed : ~Exists(k)

LEMMA HeadTyped ==
    ASSUME TypeInv, calls # <<>>
    PROVE  /\ Head(calls) \in Calls /\ Tail(calls) \in Seq(Calls)
           /\ Head(calls) # Release => Head(calls) \in ProviderCalls
<1>1. Head(calls) \in Calls /\ Tail(calls) \in Seq(Calls)
  BY FirstCall DEF TypeInv
<1> QED
  BY <1>1 DEF Calls

\* What a call that takes effect does to the objects.
LEMMA Effect ==
    ASSUME TypeInv, Performed
    PROVE  LET h == Head(calls) IN
           /\ \A k : Exists(k)' <=> h \in Makes(k) \/ (Exists(k) /\ h \notin Deletes(k))
           /\ \A f : Leans(f)' => h \in Refers(f) \/ (Leans(f) /\ h \notin Deletes("workload"))
           /\ DOMAIN objects' \subseteq Kinds
           /\ Exists("service")' => objects'["service"] \in {<<"LoadBalancer">>, <<"NodePort">>}
<1> DEFINE h == Head(calls)
<1>1. h \in ProviderCalls /\ h \in Calls
  BY HeadTyped DEF Performed
<1>2. /\ h.op \in {"apply", "delete", "ensure"} /\ h.kind \in Kinds
      /\ h.op = "ensure" => h.kind = "key"
      /\ h.op = "apply" /\ h.kind = "service" => h.content \in {<<"LoadBalancer">>, <<"NodePort">>}
  BY <1>1 DEF ProviderCalls
<1>3. objects' = CASE h.op = "delete" -> Without(h.kind)
                   [] h.op = "ensure" /\ h.kind \in DOMAIN objects -> objects
                   [] OTHER -> [k \in DOMAIN objects \cup {h.kind} |->
                                  IF k = h.kind THEN h.content ELSE objects[k]]
  BY DEF Performed
<1>4. /\ \A k : h \in Makes(k) <=> h.op \in {"apply", "ensure"} /\ h.kind = k
      /\ \A k : h \in Deletes(k) <=> h.op = "delete" /\ h.kind = k
      /\ \A f : h \in Refers(f) <=> h.op = "apply" /\ h.kind = "workload" /\ h.content[f] # ""
  BY <1>1 DEF Makes, Deletes, Refers
<1> HIDE DEF h
<1>5. CASE h.op = "delete"
  <2>1. objects' = [k \in DOMAIN objects \ {h.kind} |-> objects[k]]
    BY <1>3, <1>5 DEF Without
  <2>2. DOMAIN objects' = DOMAIN objects \ {h.kind} /\ \A k \in DOMAIN objects' : objects'[k] = objects[k]
    BY <2>1
  <2>3. \A k : Exists(k)' <=> h \in Makes(k) \/ (Exists(k) /\ h \notin Deletes(k))
    BY <1>4, <1>5, <2>2 DEF Exists
  <2>4. ASSUME NEW f, Leans(f)' PROVE Leans(f) /\ h \notin Deletes("workload")
    BY <1>4, <2>2, <2>4 DEF Leans, Exists
  <2> QED
    BY <2>2, <2>3, <2>4 DEF TypeInv, Exists, h
<1>6. CASE h.op = "ensure" /\ h.kind \in DOMAIN objects
  <2>1. objects' = objects
    BY <1>3, <1>6
  <2>2. \A k : Exists(k)' <=> h \in Makes(k) \/ (Exists(k) /\ h \notin Deletes(k))
    BY <1>4, <1>6, <2>1 DEF Exists
  <2>3. ASSUME NEW f, Leans(f)' PROVE Leans(f) /\ h \notin Deletes("workload")
    BY <1>4, <1>6, <2>1, <2>3 DEF Leans, Exists
  <2> QED
    BY <2>1, <2>2, <2>3 DEF TypeInv, Exists, h
<1>7. CASE h.op = "apply" \/ (h.op = "ensure" /\ h.kind \notin DOMAIN objects)
  <2>1. objects' = [k \in DOMAIN objects \cup {h.kind} |-> IF k = h.kind THEN h.content ELSE objects[k]]
    BY <1>3, <1>7
  <2>2. /\ DOMAIN objects' = DOMAIN objects \cup {h.kind}
        /\ \A k \in DOMAIN objects' : objects'[k] = IF k = h.kind THEN h.content ELSE objects[k]
    BY <2>1
  <2>3. \A k : Exists(k)' <=> h \in Makes(k) \/ (Exists(k) /\ h \notin Deletes(k))
    BY <1>4, <1>7, <2>2 DEF Exists
  <2>4. ASSUME NEW f, Leans(f)' PROVE h \in Refers(f) \/ (Leans(f) /\ h \notin Deletes("workload"))
    <3>1. "workload" \in DOMAIN objects' /\ objects'["workload"][f] # ""
      BY <2>4 DEF Leans, Exists
    <3>2. CASE h.kind = "workload"
      <4>1. h.content[f] # "" /\ h.op = "apply"
        BY <1>2, <1>7, <2>2, <3>1, <3>2
      <4> QED
        BY <1>4, <3>2, <4>1
    <3>3. CASE h.kind # "workload"
      <4>1. Leans(f)
        BY <2>2, <3>1, <3>3 DEF Leans, Exists
      <4> QED
        BY <1>4, <3>3, <4>1
    <3> QED
      BY <3>2, <3>3
  <2>5. Exists("service")' => objects'["service"] \in {<<"LoadBalancer">>, <<"NodePort">>}
    BY <1>2, <1>7, <2>2 DEF TypeInv, Exists
  <2> QED
    BY <1>2, <2>2, <2>3, <2>4, <2>5 DEF TypeInv, h
<1> QED
  BY <1>2, <1>5, <1>6, <1>7

Inv == TypeInv /\ OrderInv /\ RemovalInv

LEMMA InitInv == Init => Inv
<1> SUFFICES ASSUME Init PROVE Inv
  OBVIOUS
<1>1. \A k : ~Exists(k)
  BY DEF Init, Nothing, Exists
<1>2. calls = <<>> /\ calls \in Seq(Calls) /\ phase = "live" /\ DOMAIN objects = {}
  BY EmptyCalls DEF Init, Nothing
<1>3. TypeInv
  BY <1>1, <1>2, MaxEditsAssumption DEF Init, TypeInv
<1>4. ~Leans(2) /\ ~Leans(3)
  BY <1>1 DEF Leans
<1>5. LinksKept
  BY <1>1, <1>2, <1>4, LinkedStop DEF LinksKept
<1>6. Apart(Exists("route"), Exists("service"), calls)
  BY <1>1, <1>2, ApartStop
<1>7. RemovalInv
  BY <1>1, <1>2, EmptyCalls DEF RemovalInv
<1> QED
  BY <1>3, <1>5, <1>6, <1>7 DEF Inv, OrderInv

-----------------------------------------------------------------------------
(* The steps. *)

LEMMA EditTyped == ASSUME TypeInv, Edit PROVE edits' \in 0 .. MaxEdits
  BY MaxEditsAssumption DEF TypeInv, Edit

\* Edits: objects and pending calls stay as they are.
LEMMA EditsInv ==
    ASSUME Inv, WriteSpec \/ DeleteInstance \/ Resync \/ UNCHANGED vars
    PROVE  Inv'
<1>1. /\ objects' = objects /\ calls' = calls /\ chart' = chart /\ calm' = calm
      /\ spec' \in Specs /\ spec'.topology = spec.topology
      /\ phase' = phase \/ (phase = "live" /\ phase' = "deleting")
  BY DEF Inv, TypeInv, WriteSpec, DeleteInstance, Resync, vars
<1>2. queued' \in BOOLEAN /\ edits' \in 0 .. MaxEdits /\ (phase' = "gone" => ~queued')
  <2>1. edits' \in 0 .. MaxEdits
    BY EditTyped DEF Inv, TypeInv, WriteSpec, DeleteInstance, Resync, vars
  <2>2. CASE WriteSpec \/ DeleteInstance \/ Resync
    <3>1. queued' = TRUE /\ phase' # "gone"
      BY <2>2 DEF WriteSpec, DeleteInstance, Resync
    <3> QED
      BY <2>1, <3>1
  <2>3. CASE UNCHANGED vars
    BY <2>1, <2>3 DEF Inv, TypeInv, vars
  <2> QED
    BY <2>2, <2>3
<1>3. TypeInv'
  BY <1>1, <1>2 DEF Inv, TypeInv, Exists, ChartsOf
<1>4. OrderInv'
  BY <1>1 DEF Inv, OrderInv, LinksKept, Leans, Exists
<1>5. RemovalInv'
  BY <1>1 DEF Inv, RemovalInv, Exists
<1> QED
  BY <1>3, <1>4, <1>5 DEF Inv

\* Objects go by the hands of others only where nothing is said of their order.
LEMMA GoneInv ==
    ASSUME Inv, NEW kind, Drift(kind) \/ Collect(kind)
    PROVE  Inv'
<1>1. /\ objects' = Without(kind) /\ calls' = calls /\ chart' = chart /\ calm' = calm
      /\ spec' = spec /\ phase' = phase
      /\ calm => phase = "gone"
  BY DEF Drift, Collect
<1>2. /\ DOMAIN objects' \subseteq DOMAIN objects
      /\ \A k \in DOMAIN objects' : objects'[k] = objects[k]
  BY <1>1 DEF Without
<1>3. queued' \in BOOLEAN /\ edits' \in 0 .. MaxEdits /\ (phase' = "gone" => ~queued')
  <2>1. edits' \in 0 .. MaxEdits
    BY EditTyped DEF Inv, TypeInv, Drift, Collect
  <2>2. CASE Drift(kind)
    <3>1. queued' = (queued \/ (phase # "gone" /\ kind \in WatchedKinds(chart))) /\ phase' = phase
      BY <2>2 DEF Drift
    <3>2. queued \in BOOLEAN /\ (phase = "gone" => ~queued)
      BY DEF Inv, TypeInv
    <3> QED
      BY <2>1, <3>1, <3>2
  <2>3. CASE Collect(kind)
    BY <2>1, <2>3 DEF Inv, TypeInv, Collect
  <2> QED
    BY <2>2, <2>3
<1>4. \A k : Exists(k)' => Exists(k)
  BY <1>2 DEF Exists
<1>5. TypeInv'
  BY <1>1, <1>2, <1>3 DEF Inv, TypeInv, Exists, ChartsOf
<1>6. OrderInv'
  <2> SUFFICES ASSUME calm, spec.topology = "llm"
               PROVE  Apart(Exists("route"), Exists("service"), calls)'
    BY <1>1 DEF OrderInv
  <2>1. calls' = <<>>
    BY <1>1 DEF Inv, TypeInv
  <2>2. ~(Exists("route")' /\ Exists("service")')
    BY <1>4 DEF Inv, OrderInv, Apart
  <2> QED
    BY <2>1, <2>2, ApartStop
<1>7. RemovalInv'
  BY <1>1, <1>4 DEF Inv, RemovalInv
<1> QED
  BY <1>5, <1>6, <1>7 DEF Inv

\* The reconcile gives up, or the provider stops: what exists is in order without it.
LEMMA StopInv ==
    ASSUME Inv, Restart \/ CallFails
    PROVE  Inv'
<1>1. /\ objects' = objects /\ calls' = <<>> /\ calm' = calm
      /\ spec' = spec /\ phase' = phase /\ chart' \in ChartsOf(calm)
  BY DEF Inv, TypeInv, Restart, CallFails, Retry
<1>2. queued' \in BOOLEAN /\ edits' \in 0 .. MaxEdits
  <2>1. edits' \in 0 .. MaxEdits
    BY EditTyped DEF Inv, TypeInv, Restart, CallFails, Retry
  <2>2. queued' = (phase # "gone") \/ queued' = TRUE
    BY DEF Restart, CallFails, Retry
  <2> QED
    BY <2>1, <2>2
<1>3. phase' = "gone" => ~queued'
  BY <1>1 DEF Inv, TypeInv, Restart, CallFails, Retry
<1>4. TypeInv'
  BY <1>1, <1>2, <1>3, EmptyCalls DEF Inv, TypeInv, Exists, ChartsOf
<1>5. ASSUME calm, phase # "gone" PROVE LinksKept'
  <2>1. /\ Leans(2) => Exists("config")
        /\ Leans(3) => Exists("serviceAccount")
        /\ spec.topology = "predictor" =>
             /\ Exists("route") => Exists("aiBackend")
             /\ Exists("aiBackend") => Exists("backend")
             /\ Exists("backendKey") => Exists("aiBackend")
    BY <1>5 DEF Inv, OrderInv, LinksKept, Linked
  <2>2. /\ Leans(2)' => Exists("config")'
        /\ Leans(3)' => Exists("serviceAccount")'
        /\ spec'.topology = "predictor" =>
             /\ Exists("route")' => Exists("aiBackend")'
             /\ Exists("aiBackend")' => Exists("backend")'
             /\ Exists("backendKey")' => Exists("aiBackend")'
    BY <1>1, <2>1 DEF Leans, Exists
  <2>3. Linked(FALSE, Exists("key")', <<>>, Makes("route"), Deletes("workload"), "key")
    BY LinkedStop
  <2> QED
    BY <1>1, <2>2, <2>3, LinkedStop DEF LinksKept
<1>6. ASSUME calm, spec.topology = "llm" PROVE Apart(Exists("route"), Exists("service"), calls)'
  <2>1. ~(Exists("route") /\ Exists("service"))
    BY <1>6 DEF Inv, OrderInv, Apart
  <2>2. ~(Exists("route")' /\ Exists("service")')
    BY <1>1, <2>1 DEF Exists
  <2> QED
    BY <1>1, <2>2, ApartStop
<1>7. OrderInv'
  BY <1>1, <1>5, <1>6 DEF OrderInv
<1>8. RemovalInv'
  BY <1>1, EmptyCalls DEF Inv, RemovalInv, Exists
<1> QED
  BY <1>4, <1>7, <1>8 DEF Inv

\* A reconcile starts: between reconciles the objects are in order, and so are the calls
\* that it is going to make.
LEMMA StartInv == Inv /\ Start => Inv'
<1> SUFFICES ASSUME Inv, Start PROVE Inv'
  OBVIOUS
<1>1. /\ objects' = objects /\ calls = <<>> /\ calm' = calm /\ chart' = chart
      /\ spec' = spec /\ phase' = phase /\ phase # "gone" /\ edits' = edits /\ queued' = FALSE
  BY DEF Start
<1>2. /\ spec \in Specs /\ chart \in Charts /\ (calm => chart.gateway)
      /\ phase \in {"live", "deleting", "gone"}
  BY DEF Inv, TypeInv, ChartsOf
<1>3. \/ phase = "deleting" /\ calls' = Cleanup(spec) \o <<Release>>
      \/ phase = "live" /\ Validate(spec, chart) /\ calls' = Sync(spec, chart)
      \/ calls' = <<>>
  BY DEF Start
<1>4. ASSUME phase = "deleting", calls' = Cleanup(spec) \o <<Release>>
      PROVE  /\ calls' \in Seq(Calls)
             /\ Ordered(calls', spec.topology, chart.auth)
             /\ RemovalInv'
  <2>1. /\ calls' \in Seq(Calls)
        /\ \A k : ~Has(calls', Makes(k))
        /\ Ordered(calls', spec.topology, chart.auth)
        /\ After(calls', {Release}, Deletes("workload"))
        /\ After(calls', {Release}, Deletes("key"))
        /\ spec.topology = "llm" => After(calls', {Release}, Deletes("config"))
    BY <1>2, <1>4, CleanupCalls
  <2>2. RemovalInv'
    BY <1>1, <1>2, <1>4, <2>1, Topologies DEF Inv, RemovalInv, Removed, Exists
  <2> QED
    BY <2>1, <2>2
<1>5. ASSUME phase = "live", Validate(spec, chart), calls' = Sync(spec, chart)
      PROVE  /\ calls' \in Seq(Calls)
             /\ calm => Ordered(calls', spec.topology, chart.auth)
             /\ RemovalInv'
  <2>1. /\ calls' \in Seq(Calls) /\ ~Has(calls', {Release})
        /\ spec.topology = "predictor" => ~Has(calls', Makes("config"))
        /\ calm => Ordered(calls', spec.topology, chart.auth)
    BY <1>2, <1>5, SyncCalls, SyncOrdered
  <2>2. RemovalInv'
    BY <1>1, <1>5, <2>1, NoneAfter DEF Inv, RemovalInv, Exists
  <2> QED
    BY <2>1, <2>2
<1>6. ASSUME calls' = <<>>
      PROVE  calls' \in Seq(Calls) /\ Ordered(calls', spec.topology, chart.auth) /\ RemovalInv'
  <2>1. RemovalInv'
    BY <1>1, <1>6, EmptyCalls DEF Inv, RemovalInv, Exists
  <2>2. Ordered(calls', spec.topology, chart.auth)
    BY <1>6, EmptyCalls DEF Ordered, LinkedCalls, ApartCalls
  <2> QED
    BY <1>6, <2>1, <2>2, EmptyCalls
<1>7. /\ calls' \in Seq(Calls) /\ RemovalInv'
      /\ calm => Ordered(calls', spec.topology, chart.auth)
  BY <1>3, <1>4, <1>5, <1>6
<1>8. TypeInv'
  BY <1>1, <1>7 DEF Inv, TypeInv, Exists
<1>9. OrderInv'
  <2> SUFFICES ASSUME calm
               PROVE  /\ LinksKept'
                      /\ spec.topology = "llm" => Apart(Exists("route"), Exists("service"), calls)'
    BY <1>1 DEF OrderInv
  <2>1. /\ Leans(2) => Exists("config")
        /\ Leans(3) => Exists("serviceAccount")
        /\ spec.topology = "predictor" =>
             /\ Exists("route") => Exists("aiBackend")
             /\ Exists("aiBackend") => Exists("backend")
             /\ Exists("backendKey") => Exists("aiBackend")
        /\ spec.topology = "llm" => ~(Exists("route") /\ Exists("service"))
    BY <1>1 DEF Inv, OrderInv, LinksKept, Linked, Apart
  <2>2. /\ Leans(2)' => Exists("config")'
        /\ Leans(3)' => Exists("serviceAccount")'
        /\ spec'.topology = "predictor" =>
             /\ Exists("route")' => Exists("aiBackend")'
             /\ Exists("aiBackend")' => Exists("backend")'
             /\ Exists("backendKey")' => Exists("aiBackend")'
        /\ spec.topology = "llm" => ~(Exists("route")' /\ Exists("service")')
    BY <1>1, <2>1 DEF Leans, Exists
  <2>3. Ordered(calls', spec'.topology, chart'.auth)
    BY <1>1, <1>7
  <2>4. LinksKept'
    BY <2>2, <2>3, LinkedStart DEF LinksKept, Ordered
  <2>5. spec.topology = "llm" => Apart(Exists("route"), Exists("service"), calls)'
    BY <1>1, <2>2, <2>3, ApartStart DEF Ordered
  <2> QED
    BY <2>4, <2>5
<1> QED
  BY <1>7, <1>8, <1>9 DEF Inv

\* One call that takes effect.
LEMMA CallInv ==
    ASSUME Inv, Call \/ AnswerLost
    PROVE  Inv'
<1> DEFINE h == Head(calls)
<1>1. /\ Performed /\ calm' = calm /\ chart' = chart /\ spec' = spec /\ phase' = phase /\ edits' = edits
      /\ calls' = Tail(calls) \/ calls' = <<>>
      /\ queued' = queued \/ queued' = TRUE
  BY DEF Call, AnswerLost, Retry
<1>2. calls \in Seq(Calls) /\ calls # <<>> /\ h # Release /\ phase # "gone"
  BY <1>1 DEF Inv, TypeInv, Performed
<1>3. /\ \A k : Exists(k)' <=> h \in Makes(k) \/ (Exists(k) /\ h \notin Deletes(k))
      /\ \A f : Leans(f)' => h \in Refers(f) \/ (Leans(f) /\ h \notin Deletes("workload"))
      /\ DOMAIN objects' \subseteq Kinds
      /\ Exists("service")' => objects'["service"] \in {<<"LoadBalancer">>, <<"NodePort">>}
  BY <1>1, Effect DEF Inv
<1>4. /\ \A k, l : h \in Makes(k) => h \notin Deletes(l)
      /\ \A f, l : h \in Refers(f) => h \notin Deletes(l)
  BY DEF Makes, Deletes, Refers
<1>5. calls' \in Seq(Calls)
  BY ZenonT(30), <1>1, <1>2, FirstCall, EmptyCalls
<1> HIDE DEF h
<1>6. TypeInv'
  BY <1>1, <1>2, <1>3, <1>5 DEF Inv, TypeInv
<1>7. ASSUME calm PROVE LinksKept'
  <2>1. LinksKept
    BY <1>2, <1>7 DEF Inv, OrderInv
  <2>2. Linked(Leans(2), Exists("config"), calls, Refers(2), Deletes("workload"), "config")'
    <3>1. Linked(Leans(2), Exists("config"), calls, Refers(2), Deletes("workload"), "config")
      BY <2>1 DEF LinksKept
    <3>2. Leans(2)' => h \in Refers(2) \/ (Leans(2) /\ h \notin Deletes("workload"))
      BY <1>3
    <3>3. Exists("config")' <=> h \in Makes("config") \/ (Exists("config") /\ h \notin Deletes("config"))
      BY <1>3
    <3>4. h \in Refers(2) => h \notin Deletes("config")
      BY <1>4
    <3> QED
      <4>1. Linked(Leans(2)', Exists("config")', Tail(calls), Refers(2), Deletes("workload"), "config")
        BY <1>2, <3>1, <3>2, <3>3, <3>4, LinkedCall DEF h
      <4>2. Leans(2)' => Exists("config")'
        BY <4>1 DEF Linked
      <4>3. Linked(Leans(2)', Exists("config")', <<>>, Refers(2), Deletes("workload"), "config")
        BY <4>2, LinkedStop
      <4> QED
        BY <1>1, <4>1, <4>3
  <2>3. Linked(Leans(3), Exists("serviceAccount"), calls, Refers(3), Deletes("workload"), "serviceAccount")'
    BY <1>1, <1>2, <1>3, <1>4, <2>1, LinkedStep DEF LinksKept, h
  <2>4. chart'.auth => Linked(FALSE, Exists("key")', calls', Makes("route"), Deletes("workload"), "key")
    BY <1>1, <1>2, <1>3, <1>4, <2>1, LinkedStep DEF LinksKept, h
  <2>5. ASSUME spec.topology = "predictor"
        PROVE  Linked(Exists("route"), Exists("aiBackend"), calls,
                      Makes("route"), Deletes("route"), "aiBackend")'
    BY <1>1, <1>2, <1>3, <1>4, <2>1, <2>5, LinkedStep DEF LinksKept, h
  <2>6. ASSUME spec.topology = "predictor"
        PROVE  Linked(Exists("aiBackend"), Exists("backend"), calls,
                      Makes("aiBackend"), Deletes("aiBackend"), "backend")'
    BY <1>1, <1>2, <1>3, <1>4, <2>1, <2>6, LinkedStep DEF LinksKept, h
  <2>7. ASSUME spec.topology = "predictor"
        PROVE  Linked(Exists("backendKey"), Exists("aiBackend"), calls,
                      Makes("backendKey"), Deletes("backendKey"), "aiBackend")'
    BY <1>1, <1>2, <1>3, <1>4, <2>1, <2>7, LinkedStep DEF LinksKept, h
  <2> QED
    BY <1>1, <2>2, <2>3, <2>4, <2>5, <2>6, <2>7 DEF LinksKept
<1>8. ASSUME calm, spec.topology = "llm" PROVE Apart(Exists("route"), Exists("service"), calls)'
  <2>1. Apart(Exists("route"), Exists("service"), calls)
    BY <1>8 DEF Inv, OrderInv
  <2> QED
    BY <1>1, <1>2, <1>3, <2>1, ApartStep DEF h
<1>9. OrderInv'
  BY <1>1, <1>7, <1>8 DEF OrderInv
<1>10. RemovalInv'
  <2>1. /\ \A S : Has(calls', S) => Has(calls, S)
        /\ \A S : h \in S => Has(calls, S)
        /\ \A S, T : After(calls, S, T) /\ h \notin T => After(calls', S, T)
    <3>1. CASE calls' = Tail(calls)
      BY <1>2, <3>1, FirstCall DEF h
    <3>2. CASE calls' = <<>>
      <4>1. \A S : h \in S => Has(calls, S)
        BY <1>2, FirstCall DEF h
      <4> QED
        BY <3>2, <4>1, EmptyCalls
    <3> QED
      BY <1>1, <3>1, <3>2
  <2>2. Has(calls', {Release}) => phase' = "deleting" /\ \A k \in Removed : ~Has(calls', Makes(k))
    BY <1>1, <2>1 DEF Inv, RemovalInv
  <2>3. ASSUME NEW k \in Removed, Exists(k)' PROVE After(calls', {Release}, Deletes(k))
    <3>1. CASE h \in Makes(k)
      <4>1. ~Has(calls, {Release})
        BY <2>1, <3>1 DEF Inv, RemovalInv
      <4> QED
        BY <2>1, <4>1, NoneAfter
    <3>2. CASE Exists(k) /\ h \notin Deletes(k)
      BY <2>1, <3>2 DEF Inv, RemovalInv
    <3> QED
      BY <1>3, <2>3, <3>1, <3>2
  <2>4. spec'.topology = "predictor" => ~Exists("config")' /\ ~Has(calls', Makes("config"))
    BY <1>1, <1>3, <2>1 DEF Inv, RemovalInv
  <2> QED
    BY <1>1, <1>2, <2>2, <2>3, <2>4 DEF RemovalInv
<1> QED
  BY <1>6, <1>9, <1>10 DEF Inv

\* The last call: nothing of what Cleanup deletes is left.
LEMMA ReleaseInv == Inv /\ ReleaseFinalizer => Inv'
<1> SUFFICES ASSUME Inv, ReleaseFinalizer PROVE Inv'
  OBVIOUS
<1>1. /\ calls = <<Release>> /\ calls' = <<>> /\ phase' = "gone" /\ queued' = FALSE
      /\ objects' = objects /\ calm' = calm /\ chart' = chart /\ spec' = spec /\ edits' = edits
  BY DEF ReleaseFinalizer
<1>2. \A B : ~After(calls, {Release}, B)
  BY <1>1, CallTypes, OneCall
<1>3. TypeInv'
  BY <1>1, EmptyCalls DEF Inv, TypeInv, Exists
<1>4. OrderInv'
  <2> SUFFICES ASSUME calm, spec.topology = "llm"
               PROVE  Apart(Exists("route"), Exists("service"), calls)'
    BY <1>1 DEF OrderInv
  <2>1. ~(Exists("route")' /\ Exists("service")')
    BY <1>1 DEF Inv, OrderInv, Apart, Exists
  <2> QED
    BY <1>1, <2>1, ApartStop
<1>5. RemovalInv'
  BY <1>1, <1>2, EmptyCalls DEF Inv, RemovalInv, Exists
<1> QED
  BY <1>3, <1>4, <1>5 DEF Inv

LEMMA NextInv == Inv /\ [Next]_vars => Inv'
<1> SUFFICES ASSUME Inv, [Next]_vars PROVE Inv'
  OBVIOUS
<1> QED
  BY EditsInv, GoneInv, StopInv, StartInv, CallInv, ReleaseInv DEF Next

LEMMA AlwaysInv == Spec => []Inv
  BY InitInv, NextInv, PTL DEF Spec

-----------------------------------------------------------------------------
(* One of the two ways in closes. *)

\* The calls delete one of the two ways in and bring nothing of it back.
Closes(q, k) == ~Has(q, Makes(k)) /\ Has(q, Deletes(k))

\* One piece that closes it is enough if the other pieces do not make it.
LEMMA ClosesConcat ==
    ASSUME NEW s \in Seq(Calls), NEW t \in Seq(Calls), NEW k,
           \/ Closes(s, k) /\ ~Has(t, Makes(k))
           \/ Closes(t, k) /\ ~Has(s, Makes(k))
    PROVE  Closes(s \o t, k)
  BY Concat DEF Closes

\* reconcileExternalService and cleanupAIGateway delete what they are about.
LEMMA ClosingPieces ==
    /\ \A s \in Specs : resolveServiceType(s) = "ClusterIP" => Closes(reconcileExternalService(s), "service")
    /\ Closes(cleanupAIGateway, "route")
    /\ Closes(<<Delete("service")>>, "service")
<1>1. Closes(<<Delete("service")>>, "service")
  BY Deleted, OneCall DEF Kinds, Closes
<1>2. ASSUME NEW s \in Specs, resolveServiceType(s) = "ClusterIP"
      PROVE  Closes(reconcileExternalService(s), "service")
  BY <1>1, <1>2 DEF reconcileExternalService
<1>3. Closes(cleanupAIGateway, "route")
  BY CleanupPart DEF Closes
<1> QED
  BY <1>1, <1>2, <1>3

\* Every Sync that is made closes the way in that the spec does not ask for.
LEMMA SyncCloses ==
    ASSUME NEW s \in Specs, NEW ch \in Charts, ch.gateway
    PROVE  Closes(Sync(s, ch), IF UsesAIGateway(s) THEN "service" ELSE "route")
<1> DEFINE k == IF UsesAIGateway(s) THEN "service" ELSE "route"
           v == reconcileExternalService(s)
<1>1. PICK p : /\ FirstPart(p)
               /\ s.topology = "llm" =>
                    Sync(s, ch) = p \o (IF UsesAIGateway(s)
                                        THEN <<Delete("service")>> \o syncAIGateway(s, ch, <<>>)
                                        ELSE (IF ch.gateway THEN cleanupAIGateway ELSE <<>>) \o v)
               /\ s.topology = "predictor" =>
                    Sync(s, ch) = (p \o syncPredictorAIGateway(s, ch)) \o v
  BY SyncParts
<1>2. p \in Seq(Calls) /\ ~Has(p, Makes("service")) /\ ~Has(p, Makes("route"))
  BY <1>1 DEF FirstPart, Ways
<1>3. v \in Seq(Calls) /\ ~Has(v, Makes("route"))
  BY ServicePart
<1> HIDE DEF v
<1>4. CASE s.topology = "llm" /\ UsesAIGateway(s)
  <2> DEFINE d == <<Delete("service")>>
             g == syncAIGateway(s, ch, <<>>)
  <2>1. d \in Seq(Calls) /\ Closes(d, "service")
    BY Deleted, OneCall, ClosingPieces DEF Kinds
  <2>2. g \in Seq(Calls) /\ \A l : Has(g, Makes(l)) => l \in {"key", "route", "tokenLimit"}
    BY NoCalls, GatewayPart
  <2>3. Sync(s, ch) = p \o (d \o g)
    BY <1>1, <1>4
  <2> HIDE DEF d, g
  <2>4. d \o g \in Seq(Calls) /\ Closes(d \o g, "service")
    BY <2>1, <2>2, Concat, ClosesConcat
  <2>5. PICK w : w = d \o g
    OBVIOUS
  <2>6. Closes(p \o w, "service")
    BY <1>2, <2>4, <2>5, ClosesConcat
  <2> QED
    BY <1>4, <2>3, <2>5, <2>6
<1>5. CASE s.topology = "llm" /\ ~UsesAIGateway(s)
  <2> DEFINE c == cleanupAIGateway
  <2>1. c \in Seq(Calls) /\ Closes(c, "route")
    BY CleanupPart, ClosingPieces
  <2>2. Sync(s, ch) = p \o (c \o v)
    BY <1>1, <1>5
  <2> HIDE DEF c
  <2>3. c \o v \in Seq(Calls) /\ Closes(c \o v, "route")
    BY <1>3, <2>1, Concat, ClosesConcat
  <2>4. PICK w : w = c \o v
    OBVIOUS
  <2>5. Closes(p \o w, "route")
    BY <1>2, <2>3, <2>4, ClosesConcat
  <2> QED
    BY <1>5, <2>2, <2>4, <2>5
<1>6. CASE s.topology = "predictor" /\ UsesAIGateway(s)
  <2>1. s.access = "EnvoyAIGateway"
    BY <1>6 DEF UsesAIGateway
  <2>2. resolveServiceType(s) = "ClusterIP"
    BY <2>1 DEF resolveServiceType, ResolvedServiceType
  <2>3. Closes(v, "service")
    BY <2>2, ClosingPieces DEF v
  <2>4. PICK g : g = syncPredictorAIGateway(s, ch)
    OBVIOUS
  <2>5. g \in Seq(Calls) /\ ~Has(g, Makes("service"))
    BY <2>4, PredictorGateway DEF WayIn
  <2>6. p \o g \in Seq(Calls) /\ ~Has(p \o g, Makes("service"))
    BY <1>2, <2>5, Concat
  <2>7. PICK w : w = p \o g
    OBVIOUS
  <2>8. Closes(w \o v, "service")
    BY <1>3, <2>3, <2>6, <2>7, ClosesConcat
  <2> QED
    BY <1>1, <1>6, <2>4, <2>7, <2>8
<1>7. CASE s.topology = "predictor" /\ ~UsesAIGateway(s)
  <2> DEFINE c == cleanupAIGateway
             t == <<Delete("backendKey"), Delete("aiBackend"), Delete("backend")>>
  <2>1. c \in Seq(Calls) /\ Closes(c, "route")
    BY CleanupPart, ClosingPieces
  <2>2. t \in Seq(Calls) /\ ~Has(t, Makes("route"))
    BY Deleted, ThreeCalls DEF Kinds
  <2>3. syncPredictorAIGateway(s, ch) = c \o t
    BY <1>7 DEF syncPredictorAIGateway
  <2> HIDE DEF c, t
  <2>4. PICK g : g = c \o t
    OBVIOUS
  <2>5. g \in Seq(Calls) /\ Closes(g, "route")
    BY <2>1, <2>2, <2>4, Concat, ClosesConcat
  <2>6. PICK w : w = p \o g
    OBVIOUS
  <2>7. w \in Seq(Calls) /\ Closes(w, "route")
    BY <1>2, <2>5, <2>6, Concat, ClosesConcat
  <2>8. Closes(w \o v, "route")
    BY <1>3, <2>7, ClosesConcat
  <2> QED
    BY <1>1, <1>7, <2>3, <2>4, <2>6, <2>8
<1> QED
  BY <1>4, <1>5, <1>6, <1>7, Topologies

\* The reconcile under way, or the one that ended last without a failure, deletes one
\* of the two ways in if it is there and does not bring it back.
ClosingInv ==
    calm /\ phase = "live" /\ ~queued /\ Validate(spec, chart) =>
        \E k \in {"route", "service"} :
            ~Has(calls, Makes(k)) /\ (Exists(k) => Has(calls, Deletes(k)))

\* A new reconcile closes one way in; a call on the way keeps to it; whatever fails or
\* changes in between puts the Instance back in the queue.
LEMMA ClosingNext == Inv /\ ClosingInv /\ [Next]_vars => ClosingInv'
<1> SUFFICES ASSUME Inv, ClosingInv, [Next]_vars,
                    calm', phase' = "live", ~queued', Validate(spec, chart)'
             PROVE  \E k \in {"route", "service"} :
                       ~Has(calls', Makes(k)) /\ (Exists(k)' => Has(calls', Deletes(k)))
  BY DEF ClosingInv
<1>1. CASE UNCHANGED vars
  BY <1>1 DEF vars, ClosingInv, Validate, UsesAIGateway, Exists
<1>2. CASE Start
  <2>1. /\ spec \in Specs /\ chart \in Charts /\ chart.gateway /\ Validate(spec, chart)
        /\ phase = "live" /\ calls' = Sync(spec, chart)
    BY <1>2 DEF Start, Inv, TypeInv, ChartsOf, Validate, UsesAIGateway
  <2> DEFINE k == IF UsesAIGateway(spec) THEN "service" ELSE "route"
  <2>2. Closes(calls', k)
    BY <2>1, SyncCloses
  <2> QED
    BY <2>2 DEF Closes
<1>3. CASE Call
  <2>1. /\ Performed /\ calls' = Tail(calls)
        /\ UNCHANGED <<spec, phase, chart, queued, calm>>
    BY <1>3 DEF Call
  <2>2. PICK k \in {"route", "service"} :
           ~Has(calls, Makes(k)) /\ (Exists(k) => Has(calls, Deletes(k)))
    BY <2>1 DEF ClosingInv, Validate, UsesAIGateway
  <2>3. calls \in Seq(Calls) /\ calls # <<>>
    BY <2>1 DEF Inv, TypeInv, Performed
  <2>4. Head(calls) \notin Makes(k) /\ ~Has(calls', Makes(k))
    BY <2>1, <2>2, <2>3, FirstCall
  <2>5. ASSUME Exists(k)' PROVE Has(calls', Deletes(k))
    <3>1. Exists(k) /\ Head(calls) \notin Deletes(k)
      BY <2>1, <2>4, <2>5, Effect DEF Inv
    <3> QED
      BY <2>1, <2>2, <2>3, <3>1, FirstCall
  <2> QED
    BY <2>4, <2>5
<1>4. ~WriteSpec /\ ~DeleteInstance /\ ~Resync /\ ~ReleaseFinalizer
  BY DEF WriteSpec, DeleteInstance, Resync, ReleaseFinalizer
<1>5. ~Restart /\ ~CallFails /\ ~AnswerLost
  BY DEF Restart, CallFails, AnswerLost, Retry
<1>6. ASSUME NEW k PROVE ~Drift(k) /\ ~Collect(k)
  BY DEF Drift, Collect
<1> QED
  BY <1>1, <1>2, <1>3, <1>4, <1>5, <1>6 DEF Next

-----------------------------------------------------------------------------
(* The theorems. *)

\* "Materialize the inline Advanced config before the workload", "Provision the
\* HuggingFace token ServiceAccount before the workload": no reference of the workload
\* dangles, through any edits, failures and restarts, up to the end of Cleanup.
THEOREM ReferencesKept == Spec => []ReferencesExist
<1>1. Inv => ReferencesExist
  BY DEF Inv, OrderInv, LinksKept, Linked, Leans, ReferencesExist
<1> QED
  BY <1>1, AlwaysInv, PTL

\* syncPredictorAIGateway: a route has its backends whichever way access is switched.
THEOREM BackendsBehindRoute == Spec => []RouteHasBackends
<1>1. Inv => RouteHasBackends
  BY DEF Inv, OrderInv, LinksKept, Linked, RouteHasBackends
<1> QED
  BY <1>1, AlwaysInv, PTL

\* "AI Gateway replaces it": a language model has never both ways in.
THEOREM NeverBothWays == Spec => []OneWayIn
<1>1. Inv => OneWayIn
  BY DEF Inv, OrderInv, Apart, OneWayIn
<1> QED
  BY <1>1, AlwaysInv, PTL

\* A predictor is open both ways only while a reconcile that closes one of them is
\* under way or queued: no failure, edit or restart leaves the overlap behind, unless
\* Validate refuses what is then asked for.
THEOREM OverlapIsPassing == Spec => []OverlapPasses
<1>1. Init => ClosingInv
  BY DEF Init, ClosingInv
<1>2. ClosingInv => OverlapPasses
  <2> SUFFICES ASSUME ClosingInv, calm, phase = "live", Exists("route"), Exists("service"),
                      calls = <<>>, ~queued, Validate(spec, chart)
               PROVE  FALSE
    BY DEF OverlapPasses
  <2>1. PICK k \in {"route", "service"} : Exists(k) => Has(calls, Deletes(k))
    BY DEF ClosingInv
  <2> QED
    BY <2>1, NoCalls
<1> QED
  BY <1>1, <1>2, ClosingNext, AlwaysInv, PTL DEF Spec

\* "The key is removed with the Instance": the finalizer goes last.
THEOREM RemovedWithInstance == Spec => []GoneMeansRemoved
<1>1. Inv => GoneMeansRemoved
  BY DEF Inv, RemovalInv, Removed, Exists, GoneMeansRemoved
<1> QED
  BY <1>1, AlwaysInv, PTL

\* "The key must exist before the route": the step that brings the route into being
\* finds the key.
THEOREM KeyBeforeRoute == Spec => RouteComesAfterKey
<1>1. Inv /\ [Next]_vars =>
        [calm /\ ~Exists("route") /\ "route" \in DOMAIN objects' /\ chart.auth => Exists("key")]_vars
  <2> SUFFICES ASSUME Inv, Next, calm, ~Exists("route"), "route" \in DOMAIN objects', chart.auth
               PROVE  Exists("key")
    BY DEF vars
  <2>1. CASE Performed
    <3>1. Head(calls) \in Makes("route")
      BY <2>1, Effect DEF Inv, Exists
    <3>2. calls \in Seq(Calls) /\ calls # <<>> /\ phase # "gone"
      BY <2>1 DEF Inv, TypeInv, Performed
    <3>3. ~After(calls, Makes("route"), Makes("key"))
      BY <3>1, <3>2, FirstCall
    <3> QED
      BY <3>2, <3>3 DEF Inv, OrderInv, LinksKept, Linked
  <2>2. CASE ~Performed
    <3>1. DOMAIN objects' \subseteq DOMAIN objects
      BY <2>2 DEF Next, WriteSpec, DeleteInstance, Restart, Resync, Drift, Collect, Without, Start,
                  Call, ReleaseFinalizer, CallFails, AnswerLost
    <3> QED
      BY <3>1 DEF Exists
  <2> QED
    BY <2>1, <2>2
<1> QED
  BY <1>1, AlwaysInv, PTL DEF Spec, RouteComesAfterKey

\* Every object and call is one of the provider's own kinds.
THEOREM TypeCorrect == Spec => []TypeOK
<1>1. Inv => TypeOK
  <2> SUFFICES ASSUME Inv PROVE TypeOK
    OBVIOUS
  <2>1. ASSUME NEW i \in DOMAIN calls
        PROVE  \/ calls[i].op \in {"apply", "delete", "ensure"} /\ calls[i].kind \in Kinds
               \/ calls[i] = Release
    <3>1. calls[i] \in Calls
      BY DEF Inv, TypeInv
    <3> QED
      BY <3>1 DEF Calls, ProviderCalls
  <2> QED
    BY <2>1 DEF Inv, TypeInv, TypeOK
<1> QED
  BY <1>1, AlwaysInv, PTL

=============================================================================
