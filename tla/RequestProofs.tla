------------------------------ MODULE RequestProofs ------------------------------
(***************************************************************************)
(* What a request meets on its way: the plugin pipeline, the process log   *)
(* its lines go to, and the matchers that give it a certificate and a      *)
(* route, proved for every value of the constants.                         *)
(***************************************************************************)
EXTENDS PluginPipeline, LogWriter, Routing, FiniteSetTheorems, SequenceTheorems, WellFoundedInduction, TLAPS

\* A set of numbers has a least member.
LEMMA LeastOfNat ==
  ASSUME NEW T \in SUBSET Nat, T # {}
  PROVE  \E m \in T : \A n \in T : m <= n
<1> DEFINE R == OpToRel(<, Nat)
<1>1. \A x, y \in Nat : x < y => <<x, y>> \in R
  BY DEF OpToRel
<1>2. IsWellFoundedOn(R, Nat)
  BY NatLessThanWellFounded
<1> HIDE DEF R
<1>3. \E x \in T : \A y \in T : ~ (<<y, x>> \in R)
  BY <1>2, WFMin
<1>4. PICK x \in T : \A y \in T : ~ (<<y, x>> \in R)
  BY <1>3
<1>5. \A y \in T : ~(y < x)
  BY <1>1, <1>4
<1> QED BY <1>5

\* Induction, for sets: what contains zero and with each number the next.
LEMMA Induction ==
  ASSUME NEW S, 0 \in S, \A n \in Nat : n \in S => n + 1 \in S
  PROVE  \A n \in Nat : n \in S
<1> DEFINE T == {n \in Nat : n \notin S}
<1>1. SUFFICES ASSUME T # {} PROVE FALSE
  OBVIOUS
<1>0. T \in SUBSET Nat
  OBVIOUS
<1> HIDE DEF T
<1>2. PICK m \in T : \A n \in T : m <= n
  BY <1>0, <1>1, LeastOfNat
<1> USE DEF T
<1>3. m - 1 \in Nat /\ m - 1 \notin T
  BY <1>2
<1> QED BY <1>2, <1>3

\* A function defined by recursion up to some length exists: step says what follows
\* the value at n - 1.
Follows(f, len, base, step) ==
  f[0] = base /\ \A n \in 1..len : f[n] = step[<<n, f[n - 1]>>]
\* Such a function exists.
LEMMA RecursionExists ==
  ASSUME NEW S, NEW base \in S, NEW len \in Nat, NEW step \in [(1..len) \X S -> S]
  PROVE  \E f \in [0..len -> S] : Follows(f, len, base, step)
<1> DEFINE Good(f, m) == /\ f \in [0..m -> S] /\ f[0] = base
                         /\ \A n \in 1..m : f[n] = step[<<n, f[n - 1]>>]
           I == {m \in Nat : m <= len => \E f \in [0..m -> S] : Good(f, m)}
<1>1. 0 \in I
  <2> DEFINE g == [k \in 0..0 |-> base]
  <2>1. g \in [0..0 -> S] /\ g[0] = base
    OBVIOUS
  <2> HIDE DEF g
  <2>2. Good(g, 0)
    BY <2>1
  <2> QED BY <2>1, <2>2
<1>2. ASSUME NEW m \in Nat, m \in I PROVE m + 1 \in I
  <2> SUFFICES ASSUME m + 1 <= len PROVE \E f \in [0..(m + 1) -> S] : Good(f, m + 1)
    OBVIOUS
  <2>1. PICK f \in [0..m -> S] : Good(f, m)
    BY <1>2
  <2> DEFINE v == step[<<m + 1, f[m]>>]
  <2>2. v \in S
    BY <2>1
  <2> HIDE DEF v
  <2> DEFINE g == [k \in 0..(m + 1) |-> IF k = m + 1 THEN v ELSE f[k]]
  <2>3. g \in [0..(m + 1) -> S] /\ g[m + 1] = v /\ (\A k \in 0..m : g[k] = f[k])
    BY <2>1, <2>2
  <2> HIDE DEF g
  <2>4. g[0] = base
    BY <2>1, <2>3
  <2>5. ASSUME NEW n \in 1..(m + 1) PROVE g[n] = step[<<n, g[n - 1]>>]
    <3>1. CASE n = m + 1
      <4>1. g[n - 1] = f[m]
        BY <3>1, <2>3
      <4> QED BY <3>1, <4>1, <2>3 DEF v
    <3>2. CASE n # m + 1
      <4>1. n \in 1..m /\ n - 1 \in 0..m /\ n \in 0..m
        BY <3>2
      <4> QED BY <4>1, <2>1, <2>3
    <3> QED BY <3>1, <3>2
  <2> QED BY <2>3, <2>4, <2>5
<1> HIDE DEF I
<1>3. \A m \in Nat : m \in I
  BY <1>1, <1>2, Induction
<1>4. len \in I
  BY <1>3
<1>5. \E f \in [0..len -> S] : Good(f, len)
  BY <1>4 DEF I
<1> QED BY <1>5 DEF Follows

\* A finite set that an irreflexive, transitive and total relation R orders has a
\* greatest member.
LEMMA GreatestExists ==
  ASSUME NEW S, NEW R,
         \A x, y, z \in S : <<x, y>> \in R /\ <<y, z>> \in R => <<x, z>> \in R,
         \A x, y \in S : x = y \/ <<x, y>> \in R \/ <<y, x>> \in R,
         IsFiniteSet(S), S # {}
  PROVE  \E x \in S : \A y \in S \ {x} : <<y, x>> \in R
<1> DEFINE I == {n \in Nat : \A T \in SUBSET S : IsFiniteSet(T) /\ Cardinality(T) = n + 1
                               => \E x \in T : \A y \in T \ {x} : <<y, x>> \in R}
<1>1. 0 \in I
  <2> SUFFICES ASSUME NEW T \in SUBSET S, IsFiniteSet(T), Cardinality(T) = 1
               PROVE  \E x \in T : \A y \in T \ {x} : <<y, x>> \in R
    OBVIOUS
  <2>1. PICK x : T = {x}
    BY FS_Singleton
  <2> QED BY <2>1
<1>2. ASSUME NEW n \in Nat, n \in I PROVE n + 1 \in I
  <2> SUFFICES ASSUME NEW T \in SUBSET S, IsFiniteSet(T), Cardinality(T) = n + 2
               PROVE  \E x \in T : \A y \in T \ {x} : <<y, x>> \in R
    OBVIOUS
  <2>1. T # {}
    BY FS_EmptySet
  <2>2. PICK a \in T : TRUE
    BY <2>1
  <2> DEFINE U == T \ {a}
  <2>3. IsFiniteSet(U) /\ Cardinality(U) = n + 1 /\ U \in SUBSET S
    BY FS_RemoveElement
  <2>4. PICK x \in U : \A y \in U \ {x} : <<y, x>> \in R
    BY <2>3, <1>2
  <2>5. CASE <<a, x>> \in R
    BY <2>4, <2>5
  <2>6. CASE <<x, a>> \in R
    <3>1. \A y \in T \ {a} : <<y, a>> \in R
      BY <2>4, <2>6
    <3> QED BY <3>1
  <2> QED BY <2>4, <2>5, <2>6
<1> HIDE DEF I
<1>3. \A n \in Nat : n \in I
  BY <1>1, <1>2, Induction
<1>4. Cardinality(S) \in Nat /\ Cardinality(S) # 0
  BY FS_CardinalityType, FS_EmptySet
<1>5. Cardinality(S) - 1 \in I
  BY <1>3, <1>4
<1> QED BY <1>4, <1>5 DEF I

\* It has an enumeration in that order.
LEMMA OrderExists ==
  ASSUME NEW S, NEW R,
         \A x, y, z \in S : <<x, y>> \in R /\ <<y, z>> \in R => <<x, z>> \in R,
         \A x, y \in S : x = y \/ <<x, y>> \in R \/ <<y, x>> \in R,
         IsFiniteSet(S)
  PROVE  \E s \in [1..Cardinality(S) -> S] :
           \A i, j \in 1..Cardinality(S) : i < j => <<s[i], s[j]>> \in R
<1> DEFINE Sorted(T, n) == \E s \in [1..n -> T] : \A i, j \in 1..n : i < j => <<s[i], s[j]>> \in R
           I == {n \in Nat : \A T \in SUBSET S : IsFiniteSet(T) /\ Cardinality(T) = n => Sorted(T, n)}
<1>1. 0 \in I
  <2> SUFFICES ASSUME NEW T \in SUBSET S PROVE Sorted(T, 0)
    OBVIOUS
  <2>1. [i \in 1..0 |-> i] \in [1..0 -> T]
    OBVIOUS
  <2>2. \A i \in 1..0 : FALSE
    OBVIOUS
  <2> QED BY <2>1, <2>2, Zenon
<1>2. ASSUME NEW n \in Nat, n \in I PROVE n + 1 \in I
  <2> SUFFICES ASSUME NEW T \in SUBSET S, IsFiniteSet(T), Cardinality(T) = n + 1
               PROVE  Sorted(T, n + 1)
    OBVIOUS
  <2>1. T # {}
    BY FS_EmptySet
  <2>2. PICK x \in T : \A y \in T \ {x} : <<y, x>> \in R
    <3>1. /\ \A u, v, w \in T : <<u, v>> \in R /\ <<v, w>> \in R => <<u, w>> \in R
          /\ \A u, v \in T : u = v \/ <<u, v>> \in R \/ <<v, u>> \in R
      OBVIOUS
    <3> QED BY <2>1, <3>1, GreatestExists
  <2> DEFINE U == T \ {x}
  <2>3. IsFiniteSet(U) /\ Cardinality(U) = n /\ U \in SUBSET S
    <3>1. IsFiniteSet(U) /\ Cardinality(U) = Cardinality(T) - 1
      BY FS_RemoveElement
    <3> HIDE DEF U
    <3> QED BY <3>1 DEF U
  <2>4. PICK s \in [1..n -> U] : \A i, j \in 1..n : i < j => <<s[i], s[j]>> \in R
    BY <2>3, <1>2
  <2> DEFINE t == [i \in 1..(n + 1) |-> IF i = n + 1 THEN x ELSE s[i]]
  <2>5. t \in [1..(n + 1) -> T] /\ t[n + 1] = x /\ \A i \in 1..n : t[i] = s[i] /\ s[i] \in T \ {x}
    BY <2>4
  <2> HIDE DEF t
  <2>6. ASSUME NEW i \in 1..(n + 1), NEW j \in 1..(n + 1), i < j PROVE <<t[i], t[j]>> \in R
    <3>1. i \in 1..n
      BY <2>6
    <3>2. CASE j = n + 1
      BY <3>1, <3>2, <2>2, <2>5
    <3>3. CASE j # n + 1
      <4>1. j \in 1..n
        BY <3>3
      <4> QED BY <3>1, <4>1, <2>4, <2>5, <2>6
    <3> QED BY <3>2, <3>3
  <2> QED BY <2>5, <2>6
<1> HIDE DEF I
<1>3. \A n \in Nat : n \in I
  BY <1>1, <1>2, Induction
<1>4. Cardinality(S) \in I /\ Cardinality(S) \in Nat
  BY <1>3, FS_CardinalityType
<1> QED BY <1>4 DEF I

\* What is kept of a sequence is a sequence of its members.
LEMMA KeepingType ==
  ASSUME NEW S, NEW seq \in Seq(S), NEW keep
  PROVE  Keeping(seq, keep) \in Seq(S)
<1> DEFINE len == Len(seq)
           Kept(f) == [n \in 0..len |->
                         IF n = 0 THEN <<>>
                         ELSE IF seq[n] \in keep THEN Append(f[n - 1], seq[n]) ELSE f[n - 1]]
           kept == CHOOSE f : f = Kept(f)
           step == [p \in (1..len) \X Seq(S) |->
                      IF seq[p[1]] \in keep THEN Append(p[2], seq[p[1]]) ELSE p[2]]
<1>1. len \in Nat /\ \A n \in 1..len : seq[n] \in S
  OBVIOUS
<1> HIDE DEF len
<1>2. step \in [(1..len) \X Seq(S) -> Seq(S)]
  BY <1>1
<1>3. \A n \in 1..len, q \in Seq(S) :
        step[<<n, q>>] = IF seq[n] \in keep THEN Append(q, seq[n]) ELSE q
  OBVIOUS
<1> HIDE DEF step
<1>4. PICK f \in [0..len -> Seq(S)] : f[0] = <<>> /\ \A n \in 1..len : f[n] = step[<<n, f[n - 1]>>]
  <2> DEFINE Q == Seq(S)
             none == <<>>
  <2>1. none \in Q /\ step \in [(1..len) \X Q -> Q]
    BY <1>2
  <2> HIDE DEF Q, none
  <2>2. \E f \in [0..len -> Q] : Follows(f, len, none, step)
    <3>1. len \in Nat /\ none \in Q /\ step \in [(1..len) \X Q -> Q]
      BY <1>1, <2>1
    <3> QED BY ONLY <3>1, RecursionExists
  <2> QED BY <2>2 DEF Q, none, Follows
<1>5. f = Kept(f)
  <2>1. ASSUME NEW n \in 0..len PROVE f[n] = Kept(f)[n]
    <3>1. CASE n = 0
      BY <3>1, <1>4
    <3>2. CASE n # 0
      <4>1. n \in 1..len /\ n - 1 \in 0..len
        BY <1>1, <3>2
      <4>2. f[n - 1] \in Seq(S)
        BY <4>1, <1>4
      <4> QED BY <4>1, <4>2, <1>3, <1>4, <3>2
    <3> QED BY <3>1, <3>2
  <2>2. DOMAIN f = 0..len /\ f = [n \in 0..len |-> f[n]]
    BY <1>4
  <2> QED BY <2>1, <2>2
<1>6. kept = Kept(kept)
  BY <1>5
<1> HIDE DEF kept
<1>7. \A n \in 0..len :
        kept[n] = IF n = 0 THEN <<>>
                  ELSE IF seq[n] \in keep THEN Append(kept[n - 1], seq[n]) ELSE kept[n - 1]
  BY <1>6
<1> DEFINE I == {n \in Nat : n <= len => kept[n] \in Seq(S)}
<1>8. 0 \in I
  <2>1. 0 \in 0..len
    BY <1>1
  <2>2. kept[0] = <<>>
    BY <2>1, <1>7
  <2>3. kept[0] \in Seq(S)
    BY <2>2
  <2> QED BY <2>3
<1>9. ASSUME NEW n \in Nat, n \in I PROVE n + 1 \in I
  <2> SUFFICES ASSUME n + 1 <= len PROVE kept[n + 1] \in Seq(S)
    OBVIOUS
  <2>1. n + 1 \in 0..len /\ n + 1 \in 1..len /\ kept[n] \in Seq(S) /\ n + 1 - 1 = n /\ n + 1 # 0
    BY <1>1, <1>9
  <2>2. kept[n + 1] = IF seq[n + 1] \in keep THEN Append(kept[n], seq[n + 1]) ELSE kept[n]
    BY <2>1, <1>7
  <2> QED BY <2>1, <2>2, <1>1
<1> HIDE DEF I
<1>10. len \in I
  BY <1>1, <1>8, <1>9, Induction
<1>11. kept[len] \in Seq(S)
  BY <1>1, <1>10 DEF I
<1>12. Keeping(seq, keep) = kept[len]
  BY DEF Keeping, kept, len
<1> QED BY <1>11, <1>12

--------------------------------------------------------------------------------
(*****************************************************************************)
(* The plugin pipeline: RequestSettled.                                      *)
(*                                                                           *)
(* Settled relates the stage of a request, what is left of the phase and what *)
(* ran so far to the plan its snapshot prescribes: what ran is a beginning of *)
(* the plan and what is left its end.                                        *)
(*****************************************************************************)

\* Every plugin that a published snapshot may have.
Plugins ==
  UNION {Snapshots[v].global \cup Snapshots[v].route \cup Snapshots[v].service : v \in 1..Len(Snapshots)}

\* The layers are sequences of plugins.
LEMMA GlobalLayerType ==
  ASSUME NEW v \in 1..Len(Snapshots)
  PROVE  GlobalLayer(Snapshots[v]) \in Seq(Plugins)
<1> DEFINE S == Snapshots[v].global
           R == {p \in S \X S : GlobalBefore(p[1], p[2])}
           n == Cardinality(S)
<1>1. IsFiniteSet(S) /\ n \in Nat /\ S \subseteq Plugins
  <2>1. IsFiniteSet(S)
    BY PipelineAssumption
  <2>2. S \subseteq Plugins
    BY DEF Plugins
  <2> QED BY <2>1, <2>2, FS_CardinalityType
<1>2. \A x \in S : x.name \in Int /\ x.priority \in Int /\ x.rule \in Int
  BY PipelineAssumption
<1>3. \A x, y \in S : x.name = y.name /\ x.rule = y.rule => x = y
  BY PipelineAssumption
<1> HIDE DEF S, n
<1>4. \A x, y \in S : <<x, y>> \in R <=> GlobalBefore(x, y)
  OBVIOUS
<1> HIDE DEF R
<1>5. \A x, y, z \in S : <<x, y>> \in R /\ <<y, z>> \in R => <<x, z>> \in R
  BY <1>2, <1>4 DEF GlobalBefore, BeforeInLayer
<1>6. \A x, y \in S : x = y \/ <<x, y>> \in R \/ <<y, x>> \in R
  <2> SUFFICES ASSUME NEW x \in S, NEW y \in S, x # y
               PROVE  GlobalBefore(x, y) \/ GlobalBefore(y, x)
    BY <1>4
  <2>1. x.name # y.name \/ x.rule # y.rule
    BY <1>3
  <2>2. /\ x.name \in Int /\ x.priority \in Int /\ x.rule \in Int
        /\ y.name \in Int /\ y.priority \in Int /\ y.rule \in Int
    BY <1>2
  <2> QED BY ONLY <2>1, <2>2 DEF GlobalBefore, BeforeInLayer
<1>7. \E s \in [1..n -> S] : \A i, j \in 1..n : i < j => <<s[i], s[j]>> \in R
  BY <1>1, <1>5, <1>6, OrderExists DEF n
<1>8. \E s \in [1..n -> S] : \A i, j \in 1..n : i < j => GlobalBefore(s[i], s[j])
  BY <1>4, <1>7
<1>9. GlobalLayer(Snapshots[v]) \in [1..n -> S]
  BY <1>8 DEF GlobalLayer, build_global_plugin_executor, InOrderOf, n, S
<1>10. [1..n -> S] \subseteq Seq(S)
  BY <1>1
<1> QED BY <1>1, <1>9, <1>10

\* The merged plugins of a route and its service are a sequence of plugins.
LEMMA RouteLayerType ==
  ASSUME NEW v \in 1..Len(Snapshots)
  PROVE  RouteLayer(Snapshots[v]) \in Seq(Plugins)
<1> DEFINE route == Snapshots[v].route
           service == Snapshots[v].service
           S == route \cup {s \in service : \A r \in route : r.name # s.name}
           R == {p \in S \X S : MergedBefore(p[1], p[2])}
           n == Cardinality(S)
<1>1. IsFiniteSet(S) /\ n \in Nat /\ S \subseteq Plugins
  <2>1. IsFiniteSet(route) /\ IsFiniteSet(service)
    BY PipelineAssumption
  <2>2. IsFiniteSet({s \in service : \A r \in route : r.name # s.name})
    BY <2>1, FS_Subset
  <2>3. IsFiniteSet(S)
    BY <2>1, <2>2, FS_Union
  <2>4. S \subseteq Plugins
    BY DEF Plugins
  <2> QED BY <2>3, <2>4, FS_CardinalityType
<1>2. \A x \in S : x.name \in Int /\ x.priority \in Int /\ x.of \in {"route", "service"}
  BY PipelineAssumption
<1>3. \A x, y \in S : x.name = y.name => x = y
  BY PipelineAssumption
<1> HIDE DEF S, n
<1>4. \A x, y \in S : <<x, y>> \in R <=> MergedBefore(x, y)
  OBVIOUS
<1> HIDE DEF R
<1>5. \A x, y, z \in S : <<x, y>> \in R /\ <<y, z>> \in R => <<x, z>> \in R
  BY <1>2, <1>4 DEF MergedBefore
<1>6. \A x, y \in S : x = y \/ <<x, y>> \in R \/ <<y, x>> \in R
  <2> SUFFICES ASSUME NEW x \in S, NEW y \in S, x # y
               PROVE  MergedBefore(x, y) \/ MergedBefore(y, x)
    BY <1>4
  <2>1. x.name # y.name
    BY <1>3
  <2>2. /\ x.name \in Int /\ x.priority \in Int /\ x.of \in {"route", "service"}
        /\ y.name \in Int /\ y.priority \in Int /\ y.of \in {"route", "service"}
    BY <1>2
  <2> QED BY ONLY <2>1, <2>2 DEF MergedBefore
<1>7. \E s \in [1..n -> S] : \A i, j \in 1..n : i < j => <<s[i], s[j]>> \in R
  BY <1>1, <1>5, <1>6, OrderExists DEF n
<1>8. \E s \in [1..n -> S] : \A i, j \in 1..n : i < j => MergedBefore(s[i], s[j])
  BY <1>4, <1>7
<1>9. merge_route_and_service_plugins(route, service) \in [1..n -> S]
  BY <1>8 DEF merge_route_and_service_plugins, InOrderOf, n, S
<1>10. [1..n -> S] \subseteq Seq(S)
  BY <1>1
<1>11. merge_route_and_service_plugins(route, service) \in Seq(Plugins)
  BY <1>1, <1>9, <1>10
<1>12. <<>> \in Seq(Plugins)
  OBVIOUS
<1> QED BY <1>11, <1>12 DEF RouteLayer

\* What a snapshot prescribes for a phase is a sequence of its plugins.
LEMMA PhaseType ==
  ASSUME NEW pipeline, pipeline.global \in Seq(Plugins), pipeline.route \in Seq(Plugins), NEW phase
  PROVE  PhasePlugins(pipeline, phase) \in Seq(Plugins)
  BY KeepingType DEF PhasePlugins, InPhase

Stages == PluginStages \cup {"new", "connect", "exchange", "done"}
Once == {"early_request", "request", "response", "logging"}
UpstreamPhases == {"upstream_peer", "upstream_request", "response"}

\* The plugins snapshot v prescribes for a phase, and the calls of a phase.
PinnedTo(v) == [global |-> GlobalLayer(Snapshots[v]), route |-> RouteLayer(Snapshots[v])]
Plan(v, phase) == PhasePlugins(PinnedTo(v), phase)
CallOf(phase, v, plugin) ==
  [phase |-> phase, name |-> plugin.name, of |-> plugin.of, version |-> v]
CallSet == {CallOf(p, v, e) : p \in PluginStages, v \in 0..Len(Snapshots), e \in Plugins}

\* The types; what a response is does not matter.
RequestShape(r) ==
  r \in [stage : Stages, todo : Seq(Plugins),
         pipeline : [global : Seq(Plugins), route : Seq(Plugins)],
         version : 0..Len(Snapshots), routed : BOOLEAN, tries : Nat,
         chunks : [request : Nat, response : Nat], headerSent : BOOLEAN,
         ran : [PluginStages -> Seq(CallSet)], sent : {r.sent}, error : Failures \cup {None}]

Pinning(stage, version, pipeline) ==
  IF stage = "new" THEN version = 0
  ELSE version \in 1..Len(Snapshots) /\ pipeline = PinnedTo(version)

\* What ran of each phase is prescribed, and in order for a phase that runs once.
RanAsPlanned(version, ran) ==
  version > 0 => \A p \in PluginStages :
    /\ \A i \in 1..Len(ran[p]) : \E j \in 1..Len(Plan(version, p)) :
         ran[p][i] = CallOf(p, version, Plan(version, p)[j])
    /\ p \in Once => /\ Len(ran[p]) <= Len(Plan(version, p))
                     /\ \A i \in 1..Len(ran[p]) : ran[p][i] = CallOf(p, version, Plan(version, p)[i])

\* What is left to do of the current phase is an end of what is prescribed.
EndOf(todo, plan) ==
  /\ Len(todo) <= Len(plan)
  /\ \A i \in 1..Len(todo) : todo[i] = plan[Len(plan) - Len(todo) + i]
OnTheWay(stage, version, todo, ran) ==
  stage \in PluginStages =>
    /\ EndOf(todo, Plan(version, stage))
    /\ stage \in Once => Len(ran[stage]) + Len(todo) = Len(Plan(version, stage))

\* The phases that cannot have run yet.
NotYet(stage, headerSent, ran) ==
  /\ stage = "new" => \A p \in PluginStages : ran[p] = <<>>
  /\ stage \in {"new", "early_request"} => ran["request"] = <<>>
  /\ stage \in {"new", "early_request", "request"} => \A p \in UpstreamPhases : ran[p] = <<>>
  /\ ~headerSent /\ stage \notin {"response", "logging", "done"} => ran["response"] = <<>>
  /\ stage \notin {"logging", "done"} => ran["logging"] = <<>>

Unanswered ==
  {"new", "early_request", "request", "upstream_peer", "connect", "upstream_request", "response"}
OneAnswer(r) ==
  /\ r.sent = <<>> \/ r.sent = <<r.sent[1]>>
  /\ r.headerSent <=> r.sent # <<>>
AnswerFits(stage, sent, headerSent, error, ran) ==
  /\ stage \in Unanswered => ~headerSent
  /\ stage \notin {"logging", "done"} => error = None
  /\ stage \in {"logging", "done"} /\ sent = <<>> => error = "client_gone"
  /\ sent # <<>> /\ error = None /\ sent[1].length # "upstream" =>
       \A p \in UpstreamPhases : ran[p] = <<>>

Framed(s) ==
  /\ BodyForbidden(s.status) => s.body = None /\ s.length = None /\ s.ctype = None
  /\ ~BodyForbidden(s.status) => s.length = IF s.body = None THEN "0" ELSE s.body
  /\ DOMAIN s.headers \cap (Framing \cup {"content-type"}) = {}

LoggedWhole(stage, version, ran) ==
  stage = "done" => Len(ran["logging"]) = Len(Plan(version, "logging"))

Settled(r) ==
  /\ RequestShape(r)
  /\ Pinning(r.stage, r.version, r.pipeline)
  /\ RanAsPlanned(r.version, r.ran)
  /\ OnTheWay(r.stage, r.version, r.todo, r.ran)
  /\ NotYet(r.stage, r.headerSent, r.ran)
  /\ OneAnswer(r)
  /\ AnswerFits(r.stage, r.sent, r.headerSent, r.error, r.ran)
  /\ \A i \in DOMAIN r.sent : Framed(r.sent[i])
  /\ LoggedWhole(r.stage, r.version, r.ran)
PipelineInv == published \in 1..Len(Snapshots) /\ Settled(request)

\* The plan of a phase is a sequence of plugins.
LEMMA PlanType ==
  ASSUME NEW v \in 1..Len(Snapshots), NEW p
  PROVE  Plan(v, p) \in Seq(Plugins)
  BY GlobalLayerType, RouteLayerType, PhaseType DEF Plan, PinnedTo

\* What the gateway answers itself is framed.
LEMMA RenderedFramed ==
  ASSUME NEW transform, NEW rejection
  PROVE  Framed(Rendered(transform, rejection))
<1> DEFINE resolved == resolve_exit_response(transform, rejection)
           bad == Framing \cup {"content-type"}
<1>1. \A headers : DOMAIN Extra(headers) \cap bad = {}
  BY DEF Extra
<1>2. \A old, new : DOMAIN Override(old, new) = DOMAIN old \cup DOMAIN new
  BY DEF Override
<1>3. DOMAIN resolved.headers \cap bad = {}
  <2>1. CASE Matching(transform, rejection.status) = <<>>
    <3>1. resolved.headers = Extra(rejection.headers)
      BY <2>1 DEF resolve_exit_response
    <3> HIDE DEF resolved
    <3> QED BY <3>1, <1>1
  <2>2. CASE Matching(transform, rejection.status) # <<>>
    <3>1. resolved.headers = Override(Extra(rejection.headers),
                                      Extra(Matching(transform, rejection.status)[1].headers))
      BY <2>2 DEF resolve_exit_response
    <3> HIDE DEF resolved
    <3> QED BY <3>1, <1>1, <1>2
  <2> QED BY <2>1, <2>2
<1> HIDE DEF resolved
<1>4. LET forbidden == BodyForbidden(resolved.status)
          body == IF forbidden THEN None ELSE resolved.body
      IN Rendered(transform, rejection) =
           [status |-> resolved.status, body |-> body,
            ctype |-> IF forbidden THEN None ELSE resolved.ctype,
            length |-> IF forbidden THEN None ELSE IF body = None THEN "0" ELSE body,
            headers |-> resolved.headers, close |-> rejection.close]
  BY DEF Rendered, resolved
<1> QED BY <1>3, <1>4 DEF Framed

\* The next plugin to call, and what is left after it.
LEMMA NextCall ==
  ASSUME NEW S, NEW plan \in Seq(S), NEW todo \in Seq(S), EndOf(todo, plan), todo # <<>>
  PROVE  /\ Tail(todo) \in Seq(S) /\ Len(Tail(todo)) = Len(todo) - 1
         /\ EndOf(Tail(todo), plan)
         /\ Head(todo) \in S
         /\ Len(plan) - Len(todo) + 1 \in 1..Len(plan)
         /\ Head(todo) = plan[Len(plan) - Len(todo) + 1]
<1> DEFINE m == Len(plan)
           n == Len(todo)
<1>1. m \in Nat /\ n \in Nat /\ n # 0 /\ n <= m
  BY DEF EndOf
<1>2. /\ Tail(todo) \in Seq(S) /\ Len(Tail(todo)) = n - 1
      /\ \A i \in 1..(n - 1) : Tail(todo)[i] = todo[i + 1]
      /\ Head(todo) = todo[1] /\ Head(todo) \in S
  BY <1>1
<1>3. \A i \in 1..n : todo[i] = plan[m - n + i]
  BY DEF EndOf
<1> HIDE DEF m, n
<1>4. \A i \in 1..(n - 1) : Tail(todo)[i] = plan[m - (n - 1) + i]
  <2> TAKE i \in 1..(n - 1)
  <2>1. i + 1 \in 1..n /\ m - n + (i + 1) = m - (n - 1) + i
    BY <1>1
  <2> QED BY <2>1, <1>2, <1>3
<1>5. Head(todo) = plan[m - n + 1] /\ m - n + 1 \in 1..m
  BY <1>1, <1>2, <1>3
<1>6. EndOf(Tail(todo), plan)
  <2>1. Len(Tail(todo)) <= m
    BY <1>1, <1>2
  <2> QED BY <1>2, <1>4, <2>1 DEF EndOf, m
<1> QED BY <1>2, <1>5, <1>6 DEF m, n

\* Fields of what the steps make of a request.
LEMMA EnteringFields ==
  ASSUME NEW r, RequestShape(r), NEW stage \in PluginStages
  PROVE  LET q == Entering(r, stage) IN
         /\ RequestShape(q)
         /\ q.stage = stage /\ q.todo = PhasePlugins(r.pipeline, stage)
         /\ q.pipeline = r.pipeline /\ q.version = r.version /\ q.routed = r.routed
         /\ q.tries = r.tries /\ q.chunks = r.chunks /\ q.headerSent = r.headerSent
         /\ q.ran = r.ran /\ q.sent = r.sent /\ q.error = r.error
<1> DEFINE todo == PhasePlugins(r.pipeline, stage)
           q == [r EXCEPT !.stage = stage, !.todo = todo]
<1>1. todo \in Seq(Plugins)
  BY PhaseType DEF RequestShape
<1> HIDE DEF todo
<1>2. /\ q.stage = stage /\ q.todo = todo
      /\ q.pipeline = r.pipeline /\ q.version = r.version /\ q.routed = r.routed
      /\ q.tries = r.tries /\ q.chunks = r.chunks /\ q.headerSent = r.headerSent
      /\ q.ran = r.ran /\ q.sent = r.sent /\ q.error = r.error
  BY DEF RequestShape
<1>3. RequestShape(q)
  BY <1>1 DEF RequestShape, Stages
<1> QED BY <1>2, <1>3 DEF Entering, todo

\* What Answer changes of a request: the header is sent once.
LEMMA AnswerFields ==
  ASSUME NEW r, RequestShape(r), OneAnswer(r), NEW response
  PROVE  LET q == Answer(r, response) IN
         /\ RequestShape(q)
         /\ q.stage = r.stage /\ q.todo = r.todo
         /\ q.pipeline = r.pipeline /\ q.version = r.version /\ q.routed = r.routed
         /\ q.tries = r.tries /\ q.chunks = r.chunks /\ q.headerSent
         /\ q.ran = r.ran /\ q.error = r.error
         /\ r.headerSent => q.sent = r.sent
         /\ ~r.headerSent => q.sent = <<response>>
<1>1. CASE r.headerSent
  BY <1>1 DEF Answer, RequestShape
<1>2. CASE ~r.headerSent
  <2>0. r.sent = <<>>
    BY <1>2 DEF OneAnswer
  <2>1. Append(r.sent, response) = <<response>>
    BY <2>0
  <2> DEFINE one == Append(r.sent, response)
             q == [r EXCEPT !.sent = one, !.headerSent = TRUE]
  <2> HIDE DEF one
  <2>2. Answer(r, response) = q
    BY <1>2 DEF Answer, one
  <2>3. /\ q.stage = r.stage /\ q.todo = r.todo
        /\ q.pipeline = r.pipeline /\ q.version = r.version /\ q.routed = r.routed
        /\ q.tries = r.tries /\ q.chunks = r.chunks /\ q.headerSent
        /\ q.ran = r.ran /\ q.error = r.error /\ q.sent = one
    BY DEF RequestShape
  <2>4. RequestShape(q)
    BY <2>3 DEF RequestShape
  <2> QED BY <1>2, <2>1, <2>2, <2>3, <2>4 DEF one
<1> QED BY <1>1, <1>2

\* What a call changes of a request.
LEMMA CalledFields ==
  ASSUME NEW r, RequestShape(r), r.stage \in PluginStages, r.todo # <<>>
  PROVE  LET q == Called(r) IN
         /\ RequestShape(q)
         /\ q.stage = r.stage /\ q.todo = Tail(r.todo)
         /\ q.pipeline = r.pipeline /\ q.version = r.version /\ q.routed = r.routed
         /\ q.tries = r.tries /\ q.chunks = r.chunks /\ q.headerSent = r.headerSent
         /\ q.sent = r.sent /\ q.error = r.error
         /\ \A p \in PluginStages :
              q.ran[p] = IF p = r.stage
                         THEN Append(r.ran[p], CallOf(r.stage, r.version, Head(r.todo))) ELSE r.ran[p]
<1> DEFINE call == CallOf(r.stage, r.version, Head(r.todo))
           ran == [r.ran EXCEPT ![r.stage] = Append(@, call)]
           q == [r EXCEPT !.ran = ran, !.todo = Tail(@)]
<1>1. Head(r.todo) \in Plugins /\ Tail(r.todo) \in Seq(Plugins)
  BY DEF RequestShape
<1>2. call \in CallSet
  BY <1>1 DEF CallSet, RequestShape
<1> HIDE DEF call
<1>3. /\ ran \in [PluginStages -> Seq(CallSet)]
      /\ \A p \in PluginStages : ran[p] = IF p = r.stage THEN Append(r.ran[p], call) ELSE r.ran[p]
  BY <1>2 DEF RequestShape
<1> HIDE DEF ran
<1>4. /\ q.stage = r.stage /\ q.todo = Tail(r.todo)
      /\ q.pipeline = r.pipeline /\ q.version = r.version /\ q.routed = r.routed
      /\ q.tries = r.tries /\ q.chunks = r.chunks /\ q.headerSent = r.headerSent
      /\ q.sent = r.sent /\ q.error = r.error /\ q.ran = ran
  BY DEF RequestShape
<1>5. RequestShape(q)
  BY <1>1, <1>3, <1>4 DEF RequestShape
<1>6. Called(r) = q
  BY DEF Called, ran, call, CallOf
<1> QED BY <1>3, <1>4, <1>5, <1>6 DEF call

\* What Append makes of a sequence.
LEMMA Appended ==
  ASSUME NEW S, NEW s \in Seq(S), NEW e \in S
  PROVE  LET t == Append(s, e) IN
         /\ t \in Seq(S) /\ Len(s) \in Nat /\ Len(t) = Len(s) + 1 /\ t[Len(s) + 1] = e
         /\ \A i \in 1..Len(s) : t[i] = s[i]
  OBVIOUS

\* The place of the next call in its plan.
LEMMA CallIndex ==
  ASSUME NEW m \in Nat, NEW n \in Nat, NEW l \in Nat
  PROVE  m + n = l => l - n + 1 = m + 1 /\ (m + 1) + (n - 1) = l
  OBVIOUS

\* What holds of a request whatever its stage is.
Sound(r) ==
  /\ RequestShape(r)
  /\ RanAsPlanned(r.version, r.ran)
  /\ OneAnswer(r)
  /\ \A i \in DOMAIN r.sent : Framed(r.sent[i])
Pinned(r) == r.version \in 1..Len(Snapshots) /\ r.pipeline = PinnedTo(r.version)

\* A phase that is entered has its whole plan before it.
LEMMA EnteringSound ==
  ASSUME NEW r, Sound(r), Pinned(r), NEW stage \in PluginStages,
         stage \in Once => r.ran[stage] = <<>>
  PROVE  LET q == Entering(r, stage) IN
         Sound(q) /\ Pinned(q) /\ OnTheWay(q.stage, q.version, q.todo, q.ran)
<1> DEFINE q == Entering(r, stage)
           plan == Plan(r.version, stage)
<1>1. /\ RequestShape(q)
      /\ q.stage = stage /\ q.todo = PhasePlugins(r.pipeline, stage)
      /\ q.pipeline = r.pipeline /\ q.version = r.version
      /\ q.headerSent = r.headerSent /\ q.ran = r.ran /\ q.sent = r.sent
  BY EnteringFields DEF Sound
<1>2. q.todo = plan
  BY <1>1 DEF Pinned, Plan
<1>3. plan \in Seq(Plugins)
  BY PlanType DEF Pinned
<1> HIDE DEF q, plan
<1>4. Sound(q) /\ Pinned(q)
  BY <1>1 DEF Sound, Pinned, OneAnswer
<1>5. EndOf(plan, plan)
  BY <1>3 DEF EndOf
<1>6. stage \in Once => Len(r.ran[stage]) + Len(plan) = Len(plan)
  <2> SUFFICES ASSUME stage \in Once PROVE Len(r.ran[stage]) + Len(plan) = Len(plan)
    OBVIOUS
  <2>1. r.ran[stage] = <<>>
    OBVIOUS
  <2> QED BY <1>3, <2>1
<1>7. OnTheWay(q.stage, q.version, q.todo, q.ran)
  BY <1>1, <1>2, <1>5, <1>6 DEF OnTheWay, plan
<1> QED BY <1>4, <1>7 DEF q

\* An answer keeps what holds of a request at every stage.
LEMMA AnswerSound ==
  ASSUME NEW r, Sound(r), NEW response, Framed(response)
  PROVE  Sound(Answer(r, response))
<1> DEFINE q == Answer(r, response)
<1>1. /\ RequestShape(q) /\ q.version = r.version /\ q.headerSent /\ q.ran = r.ran
      /\ r.headerSent => q.sent = r.sent
      /\ ~r.headerSent => q.sent = <<response>>
  <2>1. RequestShape(r) /\ OneAnswer(r)
    BY DEF Sound
  <2> QED BY <2>1, AnswerFields
<1> HIDE DEF q
<1>0. /\ RanAsPlanned(r.version, r.ran)
      /\ OneAnswer(r) /\ \A i \in DOMAIN r.sent : Framed(r.sent[i])
  BY DEF Sound
<1>4. RanAsPlanned(q.version, q.ran)
  BY <1>0, <1>1
<1>5. RequestShape(q)
  BY <1>1
<1>2. ASSUME r.headerSent PROVE Sound(q)
  <2>1. q.sent = r.sent
    BY <1>1, <1>2
  <2>2. OneAnswer(q)
    BY <2>1, <1>0, <1>1, <1>2 DEF OneAnswer
  <2>3. \A i \in DOMAIN q.sent : Framed(q.sent[i])
    BY <2>1, <1>0
  <2> QED BY <1>4, <1>5, <2>2, <2>3 DEF Sound
<1>3. ASSUME ~r.headerSent PROVE Sound(q)
  <2>1. q.sent = <<response>>
    BY <1>1, <1>3
  <2>2. OneAnswer(q)
    BY <1>1, <2>1 DEF OneAnswer
  <2>3. \A i \in DOMAIN q.sent : Framed(q.sent[i])
    BY <2>1
  <2> QED BY <1>4, <1>5, <2>2, <2>3 DEF Sound
<1> QED BY <1>2, <1>3 DEF q

\* The next plugin is called, whatever it does to the request.
LEMMA CalledSettled ==
  ASSUME NEW r, Settled(r), r.stage \in PluginStages, r.todo # <<>>
  PROVE  Settled(Called(r))
<1> DEFINE q == Called(r)
           plan == Plan(r.version, r.stage)
           call == CallOf(r.stage, r.version, Head(r.todo))
           k == Len(plan) - Len(r.todo) + 1
<1>1. /\ RequestShape(q)
      /\ q.stage = r.stage /\ q.todo = Tail(r.todo)
      /\ q.pipeline = r.pipeline /\ q.version = r.version
      /\ q.headerSent = r.headerSent /\ q.sent = r.sent /\ q.error = r.error
      /\ \A p \in PluginStages : q.ran[p] = IF p = r.stage THEN Append(r.ran[p], call) ELSE r.ran[p]
  BY CalledFields DEF Settled
<1>2. r.version \in 1..Len(Snapshots) /\ r.version > 0
  BY DEF Settled, Pinning, PluginStages
<1>3. plan \in Seq(Plugins) /\ r.todo \in Seq(Plugins) /\ EndOf(r.todo, plan)
  BY <1>2, PlanType DEF Settled, OnTheWay, RequestShape
<1>4. /\ EndOf(Tail(r.todo), plan) /\ Len(Tail(r.todo)) = Len(r.todo) - 1
      /\ k \in 1..Len(plan) /\ Head(r.todo) = plan[k]
  BY <1>3, NextCall
<1>5. r.ran[r.stage] \in Seq(CallSet) /\ call = CallOf(r.stage, r.version, plan[k])
  BY <1>4 DEF Settled, RequestShape
<1>6. /\ Len(q.ran[r.stage]) = Len(r.ran[r.stage]) + 1
      /\ q.ran[r.stage][Len(r.ran[r.stage]) + 1] = call
      /\ \A i \in 1..Len(r.ran[r.stage]) : q.ran[r.stage][i] = r.ran[r.stage][i]
  <2>1. q.ran[r.stage] = Append(r.ran[r.stage], call)
    BY <1>1
  <2>2. call \in CallSet
    BY <1>2, <1>3 DEF CallSet
  <2> DEFINE s == r.ran[r.stage]
  <2>3. s \in Seq(CallSet)
    BY <1>5
  <2> HIDE DEF q, call, s
  <2>4. /\ Len(Append(s, call)) = Len(s) + 1 /\ Append(s, call)[Len(s) + 1] = call
        /\ \A i \in 1..Len(s) : Append(s, call)[i] = s[i]
    BY <2>2, <2>3, Appended
  <2> QED BY <2>1, <2>4 DEF s
<1> HIDE DEF q, call
<1>7. r.stage \in Once => Len(r.ran[r.stage]) + Len(r.todo) = Len(plan)
  BY DEF Settled, OnTheWay
<1>8. /\ Len(r.ran[r.stage]) \in Nat /\ Len(plan) \in Nat /\ Len(r.todo) \in Nat
      /\ r.stage \in Once => k = Len(r.ran[r.stage]) + 1
  <2>1. Len(r.ran[r.stage]) \in Nat /\ Len(plan) \in Nat /\ Len(r.todo) \in Nat
    BY <1>3, <1>5
  <2>2. r.stage \in Once => Len(plan) - Len(r.todo) + 1 = Len(r.ran[r.stage]) + 1
    <3> DEFINE a == Len(r.ran[r.stage])
               b == Len(r.todo)
               c == Len(plan)
    <3>1. a \in Nat /\ b \in Nat /\ c \in Nat /\ (r.stage \in Once => a + b = c)
      BY <2>1, <1>7
    <3> HIDE DEF a, b, c
    <3>2. r.stage \in Once => c - b + 1 = a + 1
      BY <3>1, CallIndex
    <3> QED BY <3>2 DEF a, b, c
  <2> QED BY <2>1, <2>2
<1> DEFINE m == Len(r.ran[r.stage])
<1> HIDE DEF k
<1>9. RanAsPlanned(q.version, q.ran)
  <2> SUFFICES ASSUME NEW p \in PluginStages
               PROVE /\ \A i \in 1..Len(q.ran[p]) : \E j \in 1..Len(Plan(r.version, p)) :
                          q.ran[p][i] = CallOf(p, r.version, Plan(r.version, p)[j])
                     /\ p \in Once => /\ Len(q.ran[p]) <= Len(Plan(r.version, p))
                                      /\ \A i \in 1..Len(q.ran[p]) :
                                           q.ran[p][i] = CallOf(p, r.version, Plan(r.version, p)[i])
    BY <1>1 DEF RanAsPlanned
  <2>1. /\ \A i \in 1..Len(r.ran[p]) : \E j \in 1..Len(Plan(r.version, p)) :
             r.ran[p][i] = CallOf(p, r.version, Plan(r.version, p)[j])
        /\ p \in Once => /\ Len(r.ran[p]) <= Len(Plan(r.version, p))
                         /\ \A i \in 1..Len(r.ran[p]) :
                              r.ran[p][i] = CallOf(p, r.version, Plan(r.version, p)[i])
    BY <1>2 DEF Settled, RanAsPlanned
  <2>2. CASE p # r.stage
    BY <1>1, <2>1, <2>2
  <2>3. CASE p = r.stage
    <3>1. Plan(r.version, p) = plan /\ m \in Nat /\ Len(q.ran[p]) = m + 1
      BY <1>6, <1>8, <2>3
    <3>2. ASSUME NEW i \in 1..(m + 1)
          PROVE  \E j \in 1..Len(plan) : q.ran[p][i] = CallOf(p, r.version, plan[j])
      <4>1. CASE i = m + 1
        BY <4>1, <1>4, <1>5, <1>6, <2>3
      <4>2. CASE i # m + 1
        <5>1. i \in 1..m
          BY <3>1, <4>2
        <5> QED BY <5>1, <1>6, <2>1, <2>3, <3>1
      <4> QED BY <4>1, <4>2
    <3>3. ASSUME p \in Once PROVE m + 1 <= Len(plan)
      BY <1>4, <1>8, <2>3, <3>3
    <3>4. ASSUME p \in Once, NEW i \in 1..(m + 1)
          PROVE  q.ran[p][i] = CallOf(p, r.version, plan[i])
      <4>1. CASE i = m + 1
        BY <4>1, <3>4, <1>5, <1>6, <1>8, <2>3
      <4>2. CASE i # m + 1
        <5>1. i \in 1..m
          BY <3>1, <4>2
        <5> QED BY <5>1, <3>4, <1>6, <2>1, <2>3, <3>1
      <4> QED BY <4>1, <4>2
    <3> HIDE DEF m, plan
    <3> QED BY <3>1, <3>2, <3>3, <3>4
  <2> QED BY <2>2, <2>3
<1>10. OnTheWay(q.stage, q.version, q.todo, q.ran)
  <2>1. r.stage \in Once => Len(q.ran[r.stage]) + Len(Tail(r.todo)) = Len(plan)
    <3>1. Len(Tail(r.todo)) = Len(r.todo) - 1 /\ Len(q.ran[r.stage]) = Len(r.ran[r.stage]) + 1
      BY <1>4, <1>6
    <3> DEFINE a == Len(r.ran[r.stage])
               b == Len(r.todo)
               c == Len(plan)
    <3>2. a \in Nat /\ b \in Nat /\ c \in Nat /\ (r.stage \in Once => a + b = c)
      BY <1>7, <1>8
    <3>3. Len(Tail(r.todo)) = b - 1 /\ Len(q.ran[r.stage]) = a + 1
      BY <3>1
    <3> HIDE DEF a, b, c
    <3>4. r.stage \in Once => (a + 1) + (b - 1) = c
      BY <3>2, CallIndex
    <3> QED BY <3>3, <3>4 DEF c
  <2> QED BY <1>1, <1>4, <2>1 DEF OnTheWay
<1>11. NotYet(q.stage, q.headerSent, q.ran)
  BY <1>1 DEF Settled, NotYet, PluginStages, UpstreamPhases
<1>12. AnswerFits(q.stage, q.sent, q.headerSent, q.error, q.ran)
  BY <1>1 DEF Settled, AnswerFits, OneAnswer, Unanswered, PluginStages, UpstreamPhases
<1>13. LoggedWhole(q.stage, q.version, q.ran) /\ Pinning(q.stage, q.version, q.pipeline)
  BY <1>1 DEF Settled, LoggedWhole, Pinning, PluginStages
<1>14. OneAnswer(q)
  BY <1>1 DEF Settled, OneAnswer
<1> QED BY <1>1, <1>9, <1>10, <1>11, <1>12, <1>13, <1>14 DEF Settled, q

\* What holds at one stage holds whatever the stage is.
LEMMA SettledSound ==
  ASSUME NEW r, Settled(r)
  PROVE  /\ Sound(r) /\ RequestShape(r) /\ OneAnswer(r)
         /\ r.stage # "new" => Pinned(r)
  BY DEF Settled, Sound, Pinning, Pinned

\* A request enters a phase that has not run, or may run again.
LEMMA EnteringSettled ==
  ASSUME NEW r, Sound(r), Pinned(r), NEW stage \in PluginStages,
         NotYet(stage, r.headerSent, r.ran), stage \in Once => r.ran[stage] = <<>>,
         AnswerFits(stage, r.sent, r.headerSent, r.error, r.ran)
  PROVE  Settled(Entering(r, stage))
<1> DEFINE q == Entering(r, stage)
<1>1. /\ q.stage = stage /\ q.version = r.version /\ q.pipeline = r.pipeline
      /\ q.headerSent = r.headerSent /\ q.ran = r.ran /\ q.sent = r.sent /\ q.error = r.error
  BY EnteringFields DEF Sound
<1>2. Sound(q) /\ Pinned(q) /\ OnTheWay(q.stage, q.version, q.todo, q.ran)
  BY EnteringSound
<1> HIDE DEF q
<1>3. /\ NotYet(q.stage, q.headerSent, q.ran)
      /\ AnswerFits(q.stage, q.sent, q.headerSent, q.error, q.ran)
  BY <1>1 DEF NotYet, AnswerFits
<1>4. LoggedWhole(q.stage, q.version, q.ran)
  BY <1>1 DEF LoggedWhole, PluginStages
<1>5. Pinning(q.stage, q.version, q.pipeline)
  BY <1>1, <1>2 DEF Pinned, Pinning, PluginStages
<1>6. RequestShape(q) /\ RanAsPlanned(q.version, q.ran) /\ OneAnswer(q) /\ \A i \in DOMAIN q.sent : Framed(q.sent[i])
  BY <1>2 DEF Sound
<1>7. Settled(q)
  BY <1>2, <1>3, <1>4, <1>5, <1>6 DEF Settled
<1> QED BY <1>7 DEF q

\* send_exit_response answers a request that may have been answered before.
LEMMA ExitSound ==
  ASSUME NEW r, Sound(r), NEW rejection
  PROVE  LET q == SendExit(r, rejection) IN
         /\ Sound(q) /\ RequestShape(q)
         /\ q.stage = r.stage /\ q.pipeline = r.pipeline /\ q.version = r.version
         /\ q.headerSent /\ q.sent # <<>> /\ q.ran = r.ran /\ q.error = r.error
<1> DEFINE response == Rendered(exit_transform(r.pipeline), rejection)
           q == Answer(r, response)
<1>1. Framed(response)
  BY RenderedFramed
<1> HIDE DEF response
<1>2. Sound(q)
  BY <1>1, AnswerSound
<1>3. /\ RequestShape(q)
      /\ q.stage = r.stage /\ q.pipeline = r.pipeline /\ q.version = r.version
      /\ q.headerSent /\ q.ran = r.ran /\ q.error = r.error
  BY AnswerFields DEF Sound
<1>4. q.sent # <<>>
  BY <1>2, <1>3 DEF Sound, OneAnswer
<1> QED BY <1>2, <1>3, <1>4 DEF SendExit, response

\* A rejection is answered before anything ran of the upstream's phases.
LEMMA RejectedSettled ==
  ASSUME NEW r, Settled(r), r.stage \in {"early_request", "request"}, NEW rejection
  PROVE  Settled(Entering(SendExit(r, rejection), "logging"))
<1> DEFINE q == SendExit(r, rejection)
<1>1. /\ Sound(q) /\ q.pipeline = r.pipeline /\ q.version = r.version
      /\ q.headerSent /\ q.sent # <<>> /\ q.ran = r.ran /\ q.error = r.error
  BY SettledSound, ExitSound
<1>2. Pinned(q)
  BY <1>1, SettledSound DEF Pinned
<1>3. \A p \in UpstreamPhases : r.ran[p] = <<>>
  BY DEF Settled, NotYet
<1>4. r.ran["logging"] = <<>> /\ r.error = None
  BY DEF Settled, NotYet, AnswerFits
<1> HIDE DEF q
<1>5. NotYet("logging", q.headerSent, q.ran)
  BY DEF NotYet
<1>6. AnswerFits("logging", q.sent, q.headerSent, q.error, q.ran)
  BY <1>1, <1>3, <1>4 DEF AnswerFits, Unanswered
<1>7. Settled(Entering(q, "logging"))
  BY <1>1, <1>2, <1>4, <1>5, <1>6, EnteringSettled DEF PluginStages
<1> QED BY <1>7 DEF q

\* fail_to_proxy answers unless the client is gone.
LEMMA FailingSettled ==
  ASSUME NEW r, Settled(r), r.stage \notin {"new", "logging", "done"}, NEW failure \in Failures
  PROVE  Settled(Failing(r, failure))
<1> DEFINE code == error_status(failure)
           answered == IF code > 0 THEN SendExit(r, BareStatus(code)) ELSE r
           q == [answered EXCEPT !.error = failure]
<1>1. Sound(r) /\ Pinned(r)
  BY SettledSound
<1>2. code \in Int /\ (failure # "client_gone" => code > 0)
  BY DEF error_status, Failures
<1>3. r.ran["logging"] = <<>>
  BY DEF Settled, NotYet
<1>4. /\ Sound(answered) /\ Pinned(answered) /\ RequestShape(answered) /\ OneAnswer(answered)
      /\ answered.ran = r.ran
      /\ failure # "client_gone" => answered.sent # <<>>
  <2>1. CASE code > 0
    BY <1>1, <2>1, ExitSound DEF Pinned, Sound
  <2>2. CASE ~(code > 0)
    BY <1>1, <1>2, <2>2 DEF Sound
  <2> QED BY <2>1, <2>2
<1> HIDE DEF code, answered
<1>5. /\ q.version = answered.version /\ q.pipeline = answered.pipeline
      /\ q.headerSent = answered.headerSent /\ q.ran = answered.ran /\ q.sent = answered.sent
      /\ q.error = failure /\ RequestShape(q)
  BY <1>4 DEF RequestShape
<1>6. Sound(q) /\ Pinned(q)
  BY <1>4, <1>5 DEF Sound, Pinned, OneAnswer
<1>7. failure # None
  BY DEF Failures, None
<1> HIDE DEF q
<1>8. /\ NotYet("logging", q.headerSent, q.ran)
      /\ AnswerFits("logging", q.sent, q.headerSent, q.error, q.ran)
  BY <1>4, <1>5, <1>7 DEF NotYet, AnswerFits, Unanswered
<1>9. Settled(Entering(q, "logging"))
  BY <1>3, <1>4, <1>5, <1>6, <1>8, EnteringSettled DEF PluginStages
<1> QED BY <1>9 DEF Failing, q, answered, code

\* A new request is settled.
LEMMA PipelineInitInv == PipelineInit => PipelineInv
<1> SUFFICES ASSUME PipelineInit PROVE PipelineInv
  OBVIOUS
<1> DEFINE q == NewRequest
<1>1. published \in 1..Len(Snapshots) /\ request = q
  BY PipelineAssumption DEF PipelineInit
<1>2. /\ q.stage = "new" /\ q.version = 0 /\ ~q.headerSent /\ q.sent = <<>> /\ q.error = None
      /\ \A p \in PluginStages : q.ran[p] = <<>>
  BY DEF NewRequest
<1>3. RequestShape(q)
  <2>1. <<>> \in Seq(Plugins) /\ <<>> \in Seq(CallSet)
    OBVIOUS
  <2>2. [p \in PluginStages |-> <<>>] \in [PluginStages -> Seq(CallSet)]
    BY <2>1
  <2>3. 0 \in 0..Len(Snapshots)
    BY PipelineAssumption
  <2> QED BY <2>1, <2>2, <2>3 DEF RequestShape, NewRequest, EmptyPipeline, Stages
<1> HIDE DEF q
<1>4. /\ Pinning(q.stage, q.version, q.pipeline) /\ RanAsPlanned(q.version, q.ran)
      /\ OnTheWay(q.stage, q.version, q.todo, q.ran)
  BY <1>2 DEF Pinning, RanAsPlanned, OnTheWay, PluginStages
<1>5. NotYet(q.stage, q.headerSent, q.ran)
  BY <1>2 DEF NotYet, PluginStages, UpstreamPhases
<1>6. /\ OneAnswer(q) /\ AnswerFits(q.stage, q.sent, q.headerSent, q.error, q.ran)
      /\ \A i \in DOMAIN q.sent : Framed(q.sent[i])
      /\ LoggedWhole(q.stage, q.version, q.ran)
  BY <1>2 DEF OneAnswer, AnswerFits, LoggedWhole
<1> QED BY <1>1, <1>3, <1>4, <1>5, <1>6 DEF PipelineInv, Settled

\* early_request_filter pins the published snapshot.
LEMMA EarlySettled ==
  ASSUME PipelineInv, early_request_filter
  PROVE  Settled(request')
<1> DEFINE routed == Snapshots[published].routed
           pinned == PinnedTo(published)
           r == request
           q == [r EXCEPT !.version = published, !.routed = routed, !.pipeline = pinned]
<1>1. published \in 1..Len(Snapshots) /\ Settled(r) /\ r.stage = "new"
  BY DEF PipelineInv, early_request_filter
<1>2. /\ pinned \in [global : Seq(Plugins), route : Seq(Plugins)]
      /\ routed \in BOOLEAN
  BY <1>1, GlobalLayerType, RouteLayerType, PipelineAssumption DEF PinnedTo
<1>3. request' = Entering(q, "early_request")
  BY DEF early_request_filter, PinnedTo
<1> HIDE DEF routed, pinned
<1>4. RequestShape(r) /\ OneAnswer(r)
  BY <1>1 DEF Settled
<1> HIDE DEF r
<1>5. /\ q.version = published /\ q.pipeline = pinned /\ q.headerSent = r.headerSent
      /\ q.ran = r.ran /\ q.sent = r.sent /\ q.error = r.error /\ RequestShape(q)
  <2>1. r.version \in 0..Len(Snapshots) /\ published \in 0..Len(Snapshots)
    BY <1>1, <1>4, PipelineAssumption DEF RequestShape
  <2>2. /\ q.version = published /\ q.pipeline = pinned /\ q.headerSent = r.headerSent
        /\ q.ran = r.ran /\ q.sent = r.sent /\ q.error = r.error
    BY <1>4 DEF RequestShape
  <2>3. RequestShape(q)
    BY <2>1, <1>2, <1>4 DEF RequestShape
  <2> QED BY <2>2, <2>3
<1>6. /\ \A p \in PluginStages : r.ran[p] = <<>>
      /\ ~r.headerSent /\ r.sent = <<>> /\ r.error = None
  BY <1>1 DEF Settled, NotYet, AnswerFits, OneAnswer, Unanswered
<1> HIDE DEF q
<1>7. RanAsPlanned(q.version, q.ran)
  <2> SUFFICES ASSUME NEW p \in PluginStages
               PROVE Len(q.ran[p]) = 0 /\ Len(Plan(q.version, p)) \in Nat
    BY DEF RanAsPlanned
  <2>1. q.ran[p] = <<>>
    BY <1>5, <1>6
  <2>2. Plan(q.version, p) \in Seq(Plugins)
    BY <1>1, <1>5, PlanType
  <2> QED BY <2>1, <2>2
<1>8. Sound(q)
  BY <1>4, <1>5, <1>6, <1>7 DEF Sound, OneAnswer
<1>9. Pinned(q)
  BY <1>1, <1>5 DEF Pinned, pinned
<1>10. /\ NotYet("early_request", q.headerSent, q.ran)
       /\ q.ran["early_request"] = <<>>
  BY <1>5, <1>6 DEF NotYet, PluginStages, UpstreamPhases
<1>11. AnswerFits("early_request", q.sent, q.headerSent, q.error, q.ran)
  BY <1>5, <1>6 DEF AnswerFits
<1> QED BY <1>3, <1>8, <1>9, <1>10, <1>11, EnteringSettled DEF PluginStages

\* A plugin call, whatever its outcome, leaves the request settled.
LEMMA RunPluginSettled ==
  ASSUME PipelineInv, RunPlugin
  PROVE  Settled(request')
<1> DEFINE r == Called(request)
<1>1. Settled(r) /\ r.stage = request.stage /\ request.stage \in PluginStages
  <2>1. Settled(request) /\ request.stage \in PluginStages /\ request.todo # <<>>
    BY DEF PipelineInv, RunPlugin
  <2>2. RequestShape(request)
    BY <2>1 DEF Settled
  <2> QED BY <2>1, <2>2, CalledSettled, CalledFields
<1>2. \/ request' = r
      \/ /\ request.stage = "request"
         /\ \E rejection \in Rejections :
              request' = Entering(SendExit(r, rejection), "logging")
      \/ /\ request.stage # "logging"
         /\ \E failure \in Failures : request' = Failing(r, failure)
  BY DEF RunPlugin
<1> HIDE DEF r
<1>3. CASE request' = r
  BY <1>1, <1>3
<1>4. CASE request.stage = "request" /\ \E rejection \in Rejections :
             request' = Entering(SendExit(r, rejection), "logging")
  BY <1>1, <1>4, RejectedSettled
<1>5. CASE request.stage # "logging" /\ \E failure \in Failures : request' = Failing(r, failure)
  BY <1>1, <1>5, FailingSettled DEF PluginStages
<1> QED BY <1>2, <1>3, <1>4, <1>5

\* A change of where the request is, with nothing left to run.
LEMMA MovedSettled ==
  ASSUME NEW r, Sound(r), Pinned(r), NEW stage \in {"connect", "exchange", "done"},
         NotYet(stage, r.headerSent, r.ran), LoggedWhole(stage, r.version, r.ran),
         AnswerFits(stage, r.sent, r.headerSent, r.error, r.ran)
  PROVE  Settled([r EXCEPT !.stage = stage])
<1> DEFINE q == [r EXCEPT !.stage = stage]
<1>1. /\ q.stage = stage /\ q.version = r.version /\ q.pipeline = r.pipeline
      /\ q.headerSent = r.headerSent /\ q.ran = r.ran /\ q.sent = r.sent /\ q.error = r.error
      /\ RequestShape(q)
  BY DEF Sound, RequestShape, Stages
<1> HIDE DEF q
<1>2. /\ Pinning(q.stage, q.version, q.pipeline) /\ RanAsPlanned(q.version, q.ran)
      /\ OnTheWay(q.stage, q.version, q.todo, q.ran)
  BY <1>1 DEF Sound, Pinned, Pinning, OnTheWay, PluginStages
<1>3. NotYet(q.stage, q.headerSent, q.ran)
  BY <1>1 DEF NotYet
<1>4. /\ OneAnswer(q) /\ \A i \in DOMAIN q.sent : Framed(q.sent[i])
      /\ LoggedWhole(q.stage, q.version, q.ran)
  BY <1>1 DEF Sound, OneAnswer, LoggedWhole
<1>5. AnswerFits(q.stage, q.sent, q.headerSent, q.error, q.ran)
  BY <1>1 DEF AnswerFits
<1>6. Settled(q)
  BY <1>1, <1>2, <1>3, <1>4, <1>5 DEF Settled
<1> QED BY <1>6 DEF q

UpstreamAnswer ==
  [status |-> 200, body |-> "upstream", ctype |-> None,
   length |-> "upstream", headers |-> NoHeaders, close |-> FALSE]

\* The end of a phase leads to the next one with the request settled.
LEMMA PhaseEndsSettled ==
  ASSUME PipelineInv, PhaseEnds
  PROVE  Settled(request')
<1> DEFINE r == request
<1>1. /\ Settled(r) /\ r.stage \in PluginStages /\ r.todo = <<>>
      /\ request' = AfterPhase(r)
  BY DEF PipelineInv, PhaseEnds
<1> HIDE DEF r
<1>2. Sound(r) /\ Pinned(r) /\ RequestShape(r) /\ OneAnswer(r)
  BY <1>1, SettledSound DEF PluginStages
<1>3. /\ NotYet(r.stage, r.headerSent, r.ran)
      /\ AnswerFits(r.stage, r.sent, r.headerSent, r.error, r.ran)
  BY <1>1 DEF Settled
<1>4. CASE r.stage = "early_request"
  <2>1. CASE r.routed
    <3>1. NotYet("request", r.headerSent, r.ran) /\ r.ran["request"] = <<>>
      BY <1>3, <1>4 DEF NotYet
    <3>2. AnswerFits("request", r.sent, r.headerSent, r.error, r.ran)
      BY <1>3, <1>4 DEF AnswerFits, Unanswered
    <3>3. AfterPhase(r) = Entering(r, "request")
      BY <1>4, <2>1 DEF AfterPhase
    <3> QED BY <1>1, <1>2, <3>1, <3>2, <3>3, EnteringSettled DEF PluginStages
  <2>2. CASE ~r.routed
    <3>1. AfterPhase(r) = Entering(SendExit(r, BareStatus(404)), "logging")
      BY <1>4, <2>2 DEF AfterPhase
    <3> QED BY <1>1, <1>4, <3>1, RejectedSettled
  <2> QED BY <2>1, <2>2
<1>5. CASE r.stage = "request"
  <2>1. NotYet("upstream_peer", r.headerSent, r.ran)
    BY <1>3, <1>5 DEF NotYet, UpstreamPhases
  <2>2. AnswerFits("upstream_peer", r.sent, r.headerSent, r.error, r.ran)
    BY <1>3, <1>5 DEF AnswerFits, Unanswered
  <2>3. AfterPhase(r) = Entering(r, "upstream_peer")
    BY <1>5 DEF AfterPhase
  <2> QED BY <1>1, <1>2, <2>1, <2>2, <2>3, EnteringSettled DEF PluginStages, Once
<1>6. CASE r.stage = "upstream_peer"
  <2>1. NotYet("connect", r.headerSent, r.ran)
    BY <1>3, <1>6 DEF NotYet
  <2>2. AnswerFits("connect", r.sent, r.headerSent, r.error, r.ran)
    BY <1>3, <1>6 DEF AnswerFits, Unanswered
  <2>3. AfterPhase(r) = [r EXCEPT !.stage = "connect"]
    BY <1>6 DEF AfterPhase
  <2> QED BY <1>1, <1>2, <2>1, <2>2, <2>3, MovedSettled DEF LoggedWhole
<1>7. CASE r.stage \in {"upstream_request", "request_body", "response_body"}
  <2>1. NotYet("exchange", r.headerSent, r.ran)
    BY <1>3, <1>7 DEF NotYet
  <2>2. AnswerFits("exchange", r.sent, r.headerSent, r.error, r.ran)
    BY <1>3, <1>7 DEF AnswerFits, Unanswered
  <2>3. AfterPhase(r) = [r EXCEPT !.stage = "exchange"]
    BY <1>7 DEF AfterPhase
  <2> QED BY <1>1, <1>2, <2>1, <2>2, <2>3, MovedSettled DEF LoggedWhole
<1>8. CASE r.stage = "response"
  <2> DEFINE q == Answer(r, UpstreamAnswer)
  <2>1. Framed(UpstreamAnswer)
    BY DEF Framed, UpstreamAnswer, BodyForbidden, NoHeaders, None
  <2>2. Sound(q)
    BY <1>2, <2>1, AnswerSound
  <2>3. /\ q.pipeline = r.pipeline /\ q.version = r.version /\ q.ran = r.ran /\ q.error = r.error
        /\ q.headerSent /\ (~r.headerSent => q.sent = <<UpstreamAnswer>>)
    BY <1>2, AnswerFields
  <2>4. q.sent = <<UpstreamAnswer>>
    BY <1>3, <1>8, <2>3 DEF AnswerFits, Unanswered
  <2>5. AfterPhase(r) = [q EXCEPT !.stage = "exchange"]
    BY <1>8 DEF AfterPhase, UpstreamAnswer
  <2> HIDE DEF q
  <2>6. Pinned(q)
    BY <1>2, <2>3 DEF Pinned
  <2>7. NotYet("exchange", q.headerSent, q.ran)
    BY <1>3, <1>8, <2>3 DEF NotYet
  <2>8. AnswerFits("exchange", q.sent, q.headerSent, q.error, q.ran)
    BY <1>3, <1>8, <2>3, <2>4 DEF AnswerFits, Unanswered, UpstreamAnswer
  <2> QED BY <1>1, <2>2, <2>5, <2>6, <2>7, <2>8, MovedSettled DEF LoggedWhole
<1>9. CASE r.stage = "logging"
  <2>1. NotYet("done", r.headerSent, r.ran)
    BY DEF NotYet
  <2>2. AnswerFits("done", r.sent, r.headerSent, r.error, r.ran)
    BY <1>3, <1>9 DEF AnswerFits, Unanswered
  <2>3. AfterPhase(r) = [r EXCEPT !.stage = "done"]
    BY <1>9 DEF AfterPhase
  <2>4. LoggedWhole("done", r.version, r.ran)
    <3>1. Len(r.ran["logging"]) + Len(r.todo) = Len(Plan(r.version, "logging"))
      BY <1>1, <1>9 DEF Settled, OnTheWay, Once, PluginStages
    <3>2. Len(r.todo) = 0
      BY <1>1
    <3>3. Len(r.ran["logging"]) \in Nat
      BY <1>2 DEF RequestShape, PluginStages
    <3> QED BY <3>1, <3>2, <3>3 DEF LoggedWhole
  <2> QED BY <1>1, <1>2, <2>1, <2>2, <2>3, <2>4, MovedSettled
<1> QED BY <1>1, <1>4, <1>5, <1>6, <1>7, <1>8, <1>9 DEF PluginStages

\* A counter of the request moves, and it enters a phase that may run again.
LEMMA CountedSound ==
  ASSUME NEW r, Sound(r), Pinned(r), NEW tries \in Nat,
         NEW chunks \in [request : Nat, response : Nat]
  PROVE  LET q == [r EXCEPT !.tries = tries, !.chunks = chunks] IN
         /\ Sound(q) /\ Pinned(q)
         /\ q.headerSent = r.headerSent /\ q.ran = r.ran /\ q.sent = r.sent /\ q.error = r.error
<1> DEFINE q == [r EXCEPT !.tries = tries, !.chunks = chunks]
<1>1. /\ q.version = r.version /\ q.pipeline = r.pipeline
      /\ q.headerSent = r.headerSent /\ q.ran = r.ran /\ q.sent = r.sent /\ q.error = r.error
      /\ RequestShape(q)
  BY DEF Sound, RequestShape
<1> HIDE DEF q
<1>2. Sound(q) /\ Pinned(q)
  BY <1>1 DEF Sound, Pinned, OneAnswer
<1> QED BY <1>1, <1>2 DEF q

\* A connection attempt and its retry leave the request settled.
LEMMA ConnectSettled ==
  ASSUME PipelineInv, Connect
  PROVE  Settled(request')
<1> DEFINE r == request
<1>1. /\ Settled(r) /\ r.stage = "connect"
      /\ \/ request' = Entering(r, "upstream_request")
         \/ request' = Entering([r EXCEPT !.tries = @ + 1], "upstream_peer")
         \/ request' = Failing(r, "upstream")
  BY DEF PipelineInv, Connect
<1> HIDE DEF r
<1>2. Sound(r) /\ Pinned(r) /\ RequestShape(r)
  BY <1>1, SettledSound
<1>3. \A stage \in {"upstream_request", "upstream_peer"} :
        NotYet(stage, r.headerSent, r.ran) /\ AnswerFits(stage, r.sent, r.headerSent, r.error, r.ran)
  BY <1>1 DEF Settled, NotYet, AnswerFits, Unanswered
<1>4. CASE request' = Entering(r, "upstream_request")
  BY <1>2, <1>3, <1>4, EnteringSettled DEF PluginStages, Once
<1>5. CASE request' = Entering([r EXCEPT !.tries = @ + 1], "upstream_peer")
  <2> DEFINE q == [r EXCEPT !.tries = r.tries + 1, !.chunks = r.chunks]
  <2>1. r.tries + 1 \in Nat /\ r.chunks \in [request : Nat, response : Nat]
    BY <1>2 DEF RequestShape
  <2>2. [r EXCEPT !.tries = @ + 1] = q
    BY <1>2 DEF RequestShape
  <2>3. /\ Sound(q) /\ Pinned(q)
        /\ q.headerSent = r.headerSent /\ q.ran = r.ran /\ q.sent = r.sent /\ q.error = r.error
    <3> DEFINE tries == r.tries + 1
               chunks == r.chunks
    <3>1. tries \in Nat /\ chunks \in [request : Nat, response : Nat] /\ q = [r EXCEPT !.tries = tries, !.chunks = chunks]
      BY <2>1
    <3> HIDE DEF tries, chunks, q
    <3> QED BY <1>2, <3>1, CountedSound
  <2> HIDE DEF q
  <2>4. /\ NotYet("upstream_peer", q.headerSent, q.ran)
        /\ AnswerFits("upstream_peer", q.sent, q.headerSent, q.error, q.ran)
    BY <1>3, <2>3 DEF NotYet, AnswerFits
  <2> QED BY <1>5, <2>2, <2>3, <2>4, EnteringSettled DEF PluginStages, Once
<1>6. CASE request' = Failing(r, "upstream")
  BY <1>1, <1>6, FailingSettled DEF Failures
<1> QED BY <1>1, <1>4, <1>5, <1>6

\* The exchange with the upstream leaves the request settled.
LEMMA ExchangeSettled ==
  ASSUME PipelineInv, Exchange
  PROVE  Settled(request')
<1> DEFINE r == request
           onward == [r EXCEPT !.chunks.request = @ + 1]
           back == [r EXCEPT !.chunks.response = @ + 1]
<1>1. /\ Settled(r) /\ r.stage = "exchange"
      /\ \/ request' = Entering(onward, "request_body")
         \/ ~r.headerSent /\ request' = Entering(r, "response")
         \/ r.headerSent /\ request' = Entering(back, "response_body")
         \/ r.headerSent /\ request' = Entering(r, "logging")
         \/ \E failure \in {"upstream", "client_gone"} : request' = Failing(r, failure)
  BY DEF PipelineInv, Exchange
<1> HIDE DEF r
<1>2. Sound(r) /\ Pinned(r) /\ RequestShape(r) /\ OneAnswer(r)
  BY <1>1, SettledSound
<1>3. /\ NotYet("exchange", r.headerSent, r.ran)
      /\ AnswerFits("exchange", r.sent, r.headerSent, r.error, r.ran)
  BY <1>1 DEF Settled
<1>4. \A chunks \in [request : Nat, response : Nat] :
        LET q == [r EXCEPT !.tries = r.tries, !.chunks = chunks] IN
        /\ Sound(q) /\ Pinned(q)
        /\ q.headerSent = r.headerSent /\ q.ran = r.ran /\ q.sent = r.sent /\ q.error = r.error
  BY <1>2, CountedSound DEF RequestShape
<1>5. CASE request' = Entering(onward, "request_body")
  <2> DEFINE chunks == [r.chunks EXCEPT !.request = @ + 1]
             q == [r EXCEPT !.tries = r.tries, !.chunks = chunks]
  <2>0. r.chunks \in [request : Nat, response : Nat]
    BY <1>2 DEF RequestShape
  <2>a. chunks \in [request : Nat, response : Nat]
    BY <2>0
  <2>b. onward = [r EXCEPT !.chunks = chunks]
    BY <1>2 DEF RequestShape
  <2>1. chunks \in [request : Nat, response : Nat] /\ onward = q
    <3> HIDE DEF chunks, onward
    <3> QED BY <1>2, <2>a, <2>b DEF RequestShape
  <2> HIDE DEF chunks
  <2>2. /\ Sound(q) /\ Pinned(q)
        /\ q.headerSent = r.headerSent /\ q.ran = r.ran /\ q.sent = r.sent /\ q.error = r.error
    BY <1>4, <2>1
  <2> HIDE DEF q
  <2>3. /\ NotYet("request_body", q.headerSent, q.ran)
        /\ AnswerFits("request_body", q.sent, q.headerSent, q.error, q.ran)
    BY <1>3, <2>2 DEF NotYet, AnswerFits, Unanswered
  <2> QED BY <1>5, <2>1, <2>2, <2>3, EnteringSettled DEF PluginStages, Once
<1>6. CASE ~r.headerSent /\ request' = Entering(r, "response")
  <2>1. /\ NotYet("response", r.headerSent, r.ran) /\ r.ran["response"] = <<>>
        /\ AnswerFits("response", r.sent, r.headerSent, r.error, r.ran)
    BY <1>3, <1>6 DEF NotYet, AnswerFits, Unanswered
  <2> QED BY <1>2, <1>6, <2>1, EnteringSettled DEF PluginStages
<1>7. CASE r.headerSent /\ request' = Entering(back, "response_body")
  <2> DEFINE chunks == [r.chunks EXCEPT !.response = @ + 1]
             q == [r EXCEPT !.tries = r.tries, !.chunks = chunks]
  <2>0. r.chunks \in [request : Nat, response : Nat]
    BY <1>2 DEF RequestShape
  <2>a. chunks \in [request : Nat, response : Nat]
    BY <2>0
  <2>b. back = [r EXCEPT !.chunks = chunks]
    BY <1>2 DEF RequestShape
  <2>1. chunks \in [request : Nat, response : Nat] /\ back = q
    <3> HIDE DEF chunks, back
    <3> QED BY <1>2, <2>a, <2>b DEF RequestShape
  <2> HIDE DEF chunks
  <2>2. /\ Sound(q) /\ Pinned(q)
        /\ q.headerSent = r.headerSent /\ q.ran = r.ran /\ q.sent = r.sent /\ q.error = r.error
    BY <1>4, <2>1
  <2> HIDE DEF q
  <2>3. /\ NotYet("response_body", q.headerSent, q.ran)
        /\ AnswerFits("response_body", q.sent, q.headerSent, q.error, q.ran)
    BY <1>3, <2>2 DEF NotYet, AnswerFits, Unanswered
  <2> QED BY <1>7, <2>1, <2>2, <2>3, EnteringSettled DEF PluginStages, Once
<1>8. CASE r.headerSent /\ request' = Entering(r, "logging")
  <2>1. /\ NotYet("logging", r.headerSent, r.ran) /\ r.ran["logging"] = <<>>
        /\ AnswerFits("logging", r.sent, r.headerSent, r.error, r.ran)
    BY <1>2, <1>3, <1>8 DEF NotYet, AnswerFits, Unanswered, OneAnswer
  <2> QED BY <1>2, <1>8, <2>1, EnteringSettled DEF PluginStages
<1>9. CASE \E failure \in {"upstream", "client_gone"} : request' = Failing(r, failure)
  BY <1>1, <1>9, FailingSettled DEF Failures
<1> QED BY <1>1, <1>5, <1>6, <1>7, <1>8, <1>9

\* Every step keeps the invariant.
LEMMA PipelineNextInv == PipelineInv /\ [PipelineNext]_pipelineVars => PipelineInv'
<1> SUFFICES ASSUME PipelineInv, [PipelineNext]_pipelineVars PROVE PipelineInv'
  OBVIOUS
<1>0. published' \in 1..Len(Snapshots)
  BY PipelineAssumption
     DEF PipelineInv, PipelineNext, pipelineVars, PublishSnapshot, early_request_filter, RunPlugin,
         PhaseEnds, SelectionFails, Connect, Exchange
<1>1. CASE PublishSnapshot
  BY <1>0, <1>1 DEF PublishSnapshot, PipelineInv
<1>2. CASE early_request_filter
  BY <1>0, <1>2, EarlySettled DEF PipelineInv
<1>3. CASE RunPlugin
  BY <1>0, <1>3, RunPluginSettled DEF PipelineInv
<1>4. CASE PhaseEnds
  BY <1>0, <1>4, PhaseEndsSettled DEF PipelineInv
<1>5. CASE SelectionFails
  BY <1>0, <1>5, FailingSettled DEF PipelineInv, SelectionFails, Failures
<1>6. CASE Connect
  BY <1>0, <1>6, ConnectSettled DEF PipelineInv
<1>7. CASE Exchange
  BY <1>0, <1>7, ExchangeSettled DEF PipelineInv
<1>8. CASE UNCHANGED pipelineVars
  BY <1>0, <1>8 DEF pipelineVars, PipelineInv
<1> QED BY <1>1, <1>2, <1>3, <1>4, <1>5, <1>6, <1>7, <1>8 DEF PipelineNext

\* A sequence that agrees with another at every place is a prefix of it.
LEMMA PrefixFromPlaces ==
  ASSUME NEW S, NEW s \in Seq(S), NEW t \in Seq(S), Len(s) <= Len(t),
         \A i \in 1..Len(s) : s[i] = t[i]
  PROVE  IsPrefix(s, t) /\ (Len(s) = Len(t) => s = t)
<1>1. SubSeq(s, 1, Len(s)) = SubSeq(t, 1, Len(s))
  OBVIOUS
<1> QED BY <1>1 DEF IsPrefix

\* The calls RequestSettled expects are those of the plan.
LEMMA ExpectedPlan ==
  ASSUME NEW r, Pinned(r), NEW p \in PluginStages
  PROVE  LET plan == Plan(r.version, p) IN
         /\ Len(plan) \in Nat /\ DOMAIN Expected(r, p) = 1..Len(plan)
         /\ Expected(r, p) \in Seq(CallSet) /\ Len(Expected(r, p)) = Len(plan)
         /\ \A i \in 1..Len(plan) : Expected(r, p)[i] = CallOf(p, r.version, plan[i])
<1> DEFINE plan == Plan(r.version, p)
           expected == [i \in 1..Len(plan) |-> CallOf(p, r.version, plan[i])]
<1>1. plan \in Seq(Plugins)
  BY PlanType DEF Pinned
<1>2. Expected(r, p) = expected
  <2>1. Expected(r, p) = [i \in DOMAIN plan |-> CallOf(p, r.version, plan[i])]
    BY DEF Expected, Plan, PhasePlugins, PinnedTo, CallOf
  <2>2. DOMAIN plan = 1..Len(plan)
    BY <1>1
  <2> QED BY <2>1, <2>2
<1>3. r.version \in 0..Len(Snapshots) /\ \A i \in 1..Len(plan) : plan[i] \in Plugins
  BY <1>1, PipelineAssumption DEF Pinned
<1>4. \A i \in 1..Len(plan) : CallOf(p, r.version, plan[i]) \in CallSet
  BY <1>3 DEF CallSet
<1>5. Len(plan) \in Nat
  BY <1>1
<1> HIDE DEF plan
<1>6. expected \in Seq(CallSet) /\ Len(expected) = Len(plan)
  BY <1>4, <1>5
<1> QED BY <1>2, <1>5, <1>6 DEF plan

\* The theorem.
LEMMA SettledHolds == PipelineInv => RequestSettled
<1> SUFFICES ASSUME PipelineInv PROVE RequestSettled
  OBVIOUS
<1> DEFINE r == request
<1>1. Settled(r)
  BY DEF PipelineInv
<1>2. Sound(r) /\ RequestShape(r) /\ OneAnswer(r)
  BY <1>1, SettledSound
<1>3. r.version > 0 => Pinned(r)
  BY <1>1, <1>2 DEF Settled, Pinning, Pinned
<1>4. ASSUME r.version > 0 PROVE PhasesPinned
  <2>1. Pinned(r)
    BY <1>3, <1>4
  <2>2. ASSUME NEW p \in {"early_request", "request", "response", "logging"}
        PROVE  IsPrefix(Calls(r, p), Expected(r, p))
    <3>1. p \in PluginStages /\ p \in Once
      BY DEF PluginStages, Once
    <3>2. /\ Len(Expected(r, p)) = Len(Plan(r.version, p))
          /\ Expected(r, p) \in Seq(CallSet)
          /\ \A i \in 1..Len(Plan(r.version, p)) :
               Expected(r, p)[i] = CallOf(p, r.version, Plan(r.version, p)[i])
      BY <2>1, <3>1, ExpectedPlan
    <3>3. /\ Len(r.ran[p]) <= Len(Plan(r.version, p))
          /\ \A i \in 1..Len(r.ran[p]) : r.ran[p][i] = CallOf(p, r.version, Plan(r.version, p)[i])
      BY <1>2, <1>4, <3>1 DEF Sound, RanAsPlanned
    <3>4. r.ran[p] \in Seq(CallSet) /\ Len(r.ran[p]) \in Nat /\ Len(Plan(r.version, p)) \in Nat
      BY <1>2, <2>1, <3>1, ExpectedPlan DEF RequestShape
    <3>5. \A i \in 1..Len(r.ran[p]) : r.ran[p][i] = Expected(r, p)[i]
      BY <3>2, <3>3, <3>4
    <3> QED BY <3>2, <3>3, <3>4, <3>5, PrefixFromPlaces DEF Calls
  <2>3. ASSUME NEW p \in PluginStages, NEW i \in DOMAIN Calls(r, p)
        PROVE  \E j \in DOMAIN Expected(r, p) : Calls(r, p)[i] = Expected(r, p)[j]
    <3>1. r.ran[p] \in Seq(CallSet)
      BY <1>2 DEF RequestShape
    <3>2. i \in 1..Len(r.ran[p])
      BY <2>3, <3>1 DEF Calls
    <3>3. PICK j \in 1..Len(Plan(r.version, p)) : r.ran[p][i] = CallOf(p, r.version, Plan(r.version, p)[j])
      BY <1>2, <1>4, <3>2 DEF Sound, RanAsPlanned
    <3> QED BY <2>1, <3>3, ExpectedPlan DEF Calls
  <2> QED BY <2>2, <2>3 DEF PhasesPinned
<1>5. Len(r.sent) <= 1
  <2>1. CASE r.sent = <<>>
    BY <2>1
  <2>2. CASE r.sent = <<r.sent[1]>>
    <3> DEFINE one == r.sent[1]
    <3>1. r.sent = <<one>>
      BY <2>2
    <3> HIDE DEF one
    <3>2. Len(<<one>>) = 1
      OBVIOUS
    <3> QED BY <3>1, <3>2
  <2> QED BY <1>2, <2>1, <2>2 DEF OneAnswer
<1>6. ASSUME Finished(r)
      PROVE  /\ r.sent = <<>> => r.error = "client_gone"
             /\ Calls(r, "logging") = Expected(r, "logging")
             /\ AnsweredByGateway(r) /\ r.error = None =>
                  \A p \in {"upstream_peer", "upstream_request", "response"} : Calls(r, p) = <<>>
  <2>1. r.stage = "done" /\ r.version > 0
    BY <1>1, <1>6, PipelineAssumption DEF Finished, Settled, Pinning
  <2>2. Pinned(r)
    BY <1>3, <2>1
  <2>3. AnswerFits(r.stage, r.sent, r.headerSent, r.error, r.ran)
    BY <1>1 DEF Settled
  <2>4. Calls(r, "logging") = Expected(r, "logging")
    <3>1. "logging" \in PluginStages /\ "logging" \in Once
      BY DEF PluginStages, Once
    <3>2. /\ Len(Expected(r, "logging")) = Len(Plan(r.version, "logging"))
          /\ Expected(r, "logging") \in Seq(CallSet)
          /\ \A i \in 1..Len(Plan(r.version, "logging")) :
               Expected(r, "logging")[i] = CallOf("logging", r.version, Plan(r.version, "logging")[i])
      BY <2>2, <3>1, ExpectedPlan
    <3>3. /\ Len(r.ran["logging"]) = Len(Plan(r.version, "logging"))
          /\ \A i \in 1..Len(r.ran["logging"]) :
               r.ran["logging"][i] = CallOf("logging", r.version, Plan(r.version, "logging")[i])
      BY <1>1, <1>2, <2>1, <3>1 DEF Sound, RanAsPlanned, Settled, LoggedWhole
    <3>4. r.ran["logging"] \in Seq(CallSet)
      BY <1>2, <3>1 DEF RequestShape
    <3>5. \A i \in 1..Len(r.ran["logging"]) : r.ran["logging"][i] = Expected(r, "logging")[i]
      BY <3>2, <3>3
    <3>6. Len(r.ran["logging"]) = Len(Expected(r, "logging")) /\ Len(r.ran["logging"]) \in Nat
      BY <3>2, <3>3, <3>4
    <3> DEFINE s == r.ran["logging"]
               t == Expected(r, "logging")
    <3>7. s \in Seq(CallSet) /\ t \in Seq(CallSet) /\ Len(s) = Len(t) /\ Len(s) <= Len(t) /\ \A i \in 1..Len(s) : s[i] = t[i]
      BY <3>2, <3>4, <3>5, <3>6
    <3> HIDE DEF s, t
    <3>8. s = t
      BY <3>7, PrefixFromPlaces
    <3> QED BY <3>8 DEF Calls, s, t
  <2> QED BY <2>1, <2>3, <2>4 DEF AnswerFits, AnsweredByGateway, Calls, UpstreamPhases
<1>7. WellFramed
  BY <1>2 DEF Sound, WellFramed, Framed
<1> QED BY <1>4, <1>5, <1>6, <1>7 DEF RequestSettled, PhasesPinned, AnsweredAndLogged

\* Every request runs the plugins of one snapshot in their order, is answered once,
\* with a well-framed response, and is logged whole, for every set of snapshots, every
\* number of connection retries and every number of body chunks.
THEOREM RequestsSettled == PipelineSpec => []RequestSettled
<1>1. PipelineInit => PipelineInv
  BY PipelineInitInv
<1>2. PipelineInv /\ [PipelineNext]_pipelineVars => PipelineInv'
  BY PipelineNextInv
<1>3. PipelineInv => RequestSettled
  BY SettledHolds
<1> QED BY <1>1, <1>2, <1>3, PTL DEF PipelineSpec

--------------------------------------------------------------------------------
(*****************************************************************************)
(* The process log: LinesAccounted.                                          *)
(*                                                                           *)
(* LogInv follows the lines along lanes - disk, buffer, channel - in which they *)
(* are in the order they were logged, and through the places that partition  *)
(* them.                                                                     *)
(*****************************************************************************)

Increasing(s) == \A m, n \in 1..Len(s) : m < n => s[m] < s[n]
Below(A, B) == \A a \in A, b \in B : a < b
Lines == Seq(Int)

\* The set of the lines of a sequence.
LEMMA ToSetType ==
  ASSUME NEW s \in Lines
  PROVE  ToSet(s) \subseteq Int /\ ToSet(s) = {s[i] : i \in 1..Len(s)}
  BY DEF ToSet, Lines

\* A sequence cut in two.
LEMMA CutInTwo ==
  ASSUME NEW s \in Lines, Increasing(s), NEW n \in 0..Len(s)
  PROVE  LET first == SubSeq(s, 1, n)
             rest == SubSeq(s, n + 1, Len(s))
         IN /\ first \in Lines /\ rest \in Lines /\ Increasing(first) /\ Increasing(rest)
            /\ ToSet(first) \cup ToSet(rest) = ToSet(s) /\ Below(ToSet(first), ToSet(rest))
<1> DEFINE first == SubSeq(s, 1, n)
           rest == SubSeq(s, n + 1, Len(s))
           k == Len(s) - n
<1>1. Len(s) \in Nat /\ n \in Nat /\ k \in Nat /\ n <= Len(s)
  BY DEF Lines
<1>2. first \in Lines /\ Len(first) = n /\ \A i \in 1..n : first[i] = s[i]
  BY <1>1 DEF Lines
<1>3. rest \in Lines /\ Len(rest) = k /\ \A i \in 1..k : rest[i] = s[n + i]
  BY <1>1 DEF Lines
<1> HIDE DEF first, rest
<1>4. ToSet(first) = {s[i] : i \in 1..n}
  BY <1>2, ToSetType
<1>5. ToSet(rest) = {s[n + i] : i \in 1..k}
  BY <1>3, ToSetType
<1>6. ToSet(s) = {s[i] : i \in 1..Len(s)}
  BY ToSetType
<1>7. \A i \in 1..Len(s) : i \in 1..n \/ (i - n \in 1..k /\ n + (i - n) = i)
  BY <1>1
<1>8. \A i \in 1..k : n + i \in 1..Len(s)
  BY <1>1
<1>9. \A i \in 1..n : i \in 1..Len(s)
  BY <1>1
<1>10. ToSet(first) \cup ToSet(rest) = ToSet(s)
  <2>1. ToSet(first) \cup ToSet(rest) \subseteq ToSet(s)
    BY <1>4, <1>5, <1>6, <1>8, <1>9
  <2>2. ASSUME NEW x \in ToSet(s) PROVE x \in ToSet(first) \cup ToSet(rest)
    <3>1. PICK i \in 1..Len(s) : x = s[i]
      BY <1>6
    <3> QED BY <3>1, <1>4, <1>5, <1>7
  <2> QED BY <2>1, <2>2
<1>11. Increasing(first)
  BY <1>2, <1>9 DEF Increasing
<1>12. Increasing(rest)
  <2> SUFFICES ASSUME NEW a \in 1..k, NEW b \in 1..k, a < b PROVE rest[a] < rest[b]
    BY <1>3 DEF Increasing
  <2>1. n + a \in 1..Len(s) /\ n + b \in 1..Len(s) /\ n + a < n + b
    BY <1>1, <1>8
  <2> QED BY <2>1, <1>3 DEF Increasing
<1>13. Below(ToSet(first), ToSet(rest))
  <2> SUFFICES ASSUME NEW a \in 1..n, NEW b \in 1..k PROVE s[a] < s[n + b]
    BY <1>4, <1>5 DEF Below
  <2>1. a \in 1..Len(s) /\ n + b \in 1..Len(s) /\ a < n + b
    BY <1>1, <1>8, <1>9
  <2> QED BY <2>1 DEF Increasing
<1> QED BY <1>2, <1>3, <1>10, <1>11, <1>12, <1>13 DEF first, rest

\* Two sequences, one after the other.
LEMMA LanesJoined ==
  ASSUME NEW s \in Lines, NEW t \in Lines, Increasing(s), Increasing(t), Below(ToSet(s), ToSet(t))
  PROVE  /\ s \o t \in Lines /\ Increasing(s \o t) /\ ToSet(s \o t) = ToSet(s) \cup ToSet(t)
<1> DEFINE u == s \o t
           m == Len(s)
           n == Len(t)
<1>1. /\ m \in Nat /\ n \in Nat /\ u \in Lines /\ Len(u) = m + n
      /\ \A i \in 1..m : u[i] = s[i]
      /\ \A i \in 1..n : u[m + i] = t[i]
  BY DEF Lines
<1>2. ToSet(s) = {s[i] : i \in 1..m} /\ ToSet(t) = {t[i] : i \in 1..n}
  BY ToSetType
<1>3. ToSet(u) = {u[i] : i \in 1..(m + n)}
  BY <1>1, ToSetType
<1>4. \A i \in 1..m, j \in 1..m : i < j => s[i] < s[j]
  BY DEF Increasing
<1>5. \A i \in 1..n, j \in 1..n : i < j => t[i] < t[j]
  BY DEF Increasing
<1> HIDE DEF u, m, n
<1>6. \A i \in 1..(m + n) : i \in 1..m \/ (i - m \in 1..n /\ m + (i - m) = i)
  BY <1>1
<1>7. (\A i \in 1..n : m + i \in 1..(m + n)) /\ (\A i \in 1..m : i \in 1..(m + n))
  BY <1>1
<1>8. ToSet(u) = ToSet(s) \cup ToSet(t)
  <2>1. ToSet(s) \cup ToSet(t) \subseteq ToSet(u)
    BY <1>1, <1>2, <1>3, <1>7
  <2>2. ASSUME NEW x \in ToSet(u) PROVE x \in ToSet(s) \cup ToSet(t)
    <3>1. PICK i \in 1..(m + n) : x = u[i]
      BY <1>3
    <3>2. CASE i \in 1..m
      BY <3>1, <3>2, <1>1, <1>2
    <3>3. CASE i \notin 1..m
      <4>1. i - m \in 1..n /\ u[m + (i - m)] = t[i - m] /\ m + (i - m) = i
        BY <3>3, <1>1, <1>6
      <4> QED BY <3>1, <4>1, <1>2
    <3> QED BY <3>2, <3>3
  <2> QED BY <2>1, <2>2
<1>9. Increasing(u)
  <2> SUFFICES ASSUME NEW i \in 1..(m + n), NEW j \in 1..(m + n), i < j PROVE u[i] < u[j]
    BY <1>1 DEF Increasing
  <2>1. CASE j \in 1..m
    <3>1. i \in 1..m
      BY <1>1, <2>1
    <3> QED BY <3>1, <2>1, <1>1, <1>4
  <2>2. CASE i \in 1..m /\ j \notin 1..m
    <3>1. j - m \in 1..n /\ u[j] = t[j - m]
      BY <2>2, <1>1, <1>6
    <3>2. u[i] = s[i] /\ s[i] \in ToSet(s) /\ t[j - m] \in ToSet(t)
      BY <2>2, <3>1, <1>1, <1>2
    <3> QED BY <3>1, <3>2 DEF Below
  <2>3. CASE i \notin 1..m
    <3>1. j \notin 1..m
      BY <1>1, <2>3
    <3>2. i - m \in 1..n /\ j - m \in 1..n /\ u[i] = t[i - m] /\ u[j] = t[j - m] /\ i - m < j - m
      BY <2>3, <3>1, <1>1, <1>6
    <3> QED BY <3>2, <1>5
  <2> QED BY <2>1, <2>2, <2>3
<1> QED BY <1>1, <1>8, <1>9 DEF u

\* One line is added behind the others.
LEMMA AddedLast ==
  ASSUME NEW s \in Lines, Increasing(s), NEW x \in Int, Below(ToSet(s), {x})
  PROVE  /\ Append(s, x) \in Lines /\ Increasing(Append(s, x)) /\ Append(s, x) # <<>>
         /\ ToSet(Append(s, x)) = ToSet(s) \cup {x}
<1>1. <<x>> \in Lines /\ Len(<<x>>) = 1
  BY DEF Lines
<1>2. ToSet(<<x>>) = {x}
  <2> DEFINE one == <<x>>
  <2>1. one \in Lines /\ Len(one) = 1 /\ one[1] = x
    BY <1>1
  <2> HIDE DEF one
  <2>2. ToSet(one) = {one[i] : i \in 1..1}
    BY <2>1, ToSetType
  <2>3. ToSet(one) = {x}
    BY <2>1, <2>2
  <2> QED BY <2>3 DEF one
<1>3. Increasing(<<x>>)
  BY <1>1 DEF Increasing
<1>4. Append(s, x) = s \o <<x>>
  BY DEF Lines
<1>5. /\ s \o <<x>> \in Lines /\ Increasing(s \o <<x>>)
      /\ ToSet(s \o <<x>>) = ToSet(s) \cup {x}
  BY <1>1, <1>2, <1>3, LanesJoined
<1>6. Append(s, x) # <<>>
  BY DEF Lines
<1> QED BY <1>4, <1>5, <1>6

\* The first line is taken.
LEMMA TakenFirst ==
  ASSUME NEW s \in Lines, Increasing(s), s # <<>>
  PROVE  /\ Head(s) \in Int /\ Tail(s) \in Lines /\ Increasing(Tail(s))
         /\ ToSet(s) = {Head(s)} \cup ToSet(Tail(s)) /\ Below({Head(s)}, ToSet(Tail(s)))
<1> DEFINE n == Len(s) - 1
           t == Tail(s)
<1>1. n \in Nat /\ Len(s) = n + 1 /\ Head(s) = s[1] /\ s[1] \in Int
  BY DEF Lines
<1>2. t \in Lines /\ Len(t) = n /\ \A i \in 1..n : t[i] = s[i + 1]
  BY DEF Lines
<1>3. ToSet(t) = {t[i] : i \in 1..n} /\ ToSet(s) = {s[i] : i \in 1..(n + 1)}
  BY <1>1, <1>2, ToSetType
<1>4. \A i, j \in 1..(n + 1) : i < j => s[i] < s[j]
  BY <1>1 DEF Increasing
<1> HIDE DEF n, t
<1>5. \A i \in 1..n : i + 1 \in 1..(n + 1)
  BY <1>1
<1>6. Increasing(t)
  <2> SUFFICES ASSUME NEW i \in 1..n, NEW j \in 1..n, i < j PROVE t[i] < t[j]
    BY <1>2 DEF Increasing
  <2>1. i + 1 < j + 1 /\ i + 1 \in 1..(n + 1) /\ j + 1 \in 1..(n + 1)
    BY <1>1
  <2> QED BY <2>1, <1>2, <1>4
<1>7. Below({s[1]}, ToSet(t))
  <2> SUFFICES ASSUME NEW i \in 1..n PROVE s[1] < s[i + 1]
    BY <1>2, <1>3 DEF Below
  <2>1. 1 \in 1..(n + 1) /\ i + 1 \in 1..(n + 1) /\ 1 < i + 1
    BY <1>1
  <2> QED BY <2>1, <1>4
<1>8. ToSet(s) = {s[1]} \cup ToSet(t)
  <2>1. 1 \in 1..(n + 1)
    BY <1>1
  <2>2. {s[1]} \cup ToSet(t) \subseteq ToSet(s)
    BY <2>1, <1>2, <1>3, <1>5
  <2>3. ASSUME NEW i \in 1..(n + 1) PROVE s[i] \in {s[1]} \cup ToSet(t)
    <3>1. CASE i = 1
      BY <3>1
    <3>2. CASE i # 1
      <4>1. i - 1 \in 1..n /\ (i - 1) + 1 = i
        BY <1>1, <3>2
      <4> QED BY <4>1, <1>2, <1>3
    <3> QED BY <3>1, <3>2
  <2> QED BY <2>2, <2>3, <1>3
<1> QED BY <1>1, <1>2, <1>6, <1>7, <1>8 DEF t

FileSet == [there : BOOLEAN, lines : Lines]
DiskSet == [Indices -> FileSet]

\* The files by themselves: younger backups have younger lines.
FilesInOrder(fs) ==
  /\ \A i \in Indices : Increasing(fs[i].lines) /\ (~fs[i].there => fs[i].lines = <<>>)
  /\ \A i, j \in Indices : i < j => Below(ToSet(fs[j].lines), ToSet(fs[i].lines))

\* The files with the buffer, the channel and what rotations gave up.
Lanes(fs, buffer, queue, rotated) ==
  /\ FilesInOrder(fs)
  /\ Increasing(buffer) /\ Increasing(queue)
  /\ Below(LinesOnDisk(fs), ToSet(buffer)) /\ Below(LinesOnDisk(fs), ToSet(queue))
  /\ Below(ToSet(buffer), ToSet(queue))
  /\ Below(rotated, LinesOnDisk(fs)) /\ Below(rotated, ToSet(buffer)) /\ Below(rotated, ToSet(queue))

\* There is nothing to show about no lines.
LEMMA NoLines ==
  /\ ToSet(<<>>) = {} /\ Increasing(<<>>) /\ <<>> \in Lines
  /\ \A A : Below({}, A) /\ Below(A, {})
  BY DEF ToSet, Increasing, Lines, Below

\* What is on disk are the lines of the files.
LEMMA DiskLines ==
  ASSUME NEW fs \in DiskSet
  PROVE  /\ LinesOnDisk(fs) \subseteq Int
         /\ \A i \in Indices : ToSet(fs[i].lines) \subseteq LinesOnDisk(fs) /\ fs[i].lines \in Lines
         /\ \A x \in LinesOnDisk(fs) : \E i \in Indices : x \in ToSet(fs[i].lines)
<1>1. \A i \in Indices : fs[i].lines \in Lines
  BY DEF DiskSet, FileSet
<1> QED BY <1>1, ToSetType DEF LinesOnDisk

\* The lines of the disk when one file grows.
LEMMA OneFileChanges ==
  ASSUME NEW fs \in DiskSet, NEW gs \in DiskSet, NEW i \in Indices, NEW new,
         ToSet(gs[i].lines) = ToSet(fs[i].lines) \cup new,
         \A j \in Indices : j # i => gs[j] = fs[j]
  PROVE  LinesOnDisk(gs) = LinesOnDisk(fs) \cup new
<1>1. ASSUME NEW x \in LinesOnDisk(gs) PROVE x \in LinesOnDisk(fs) \cup new
  <2>1. PICK j \in Indices : x \in ToSet(gs[j].lines)
    BY DiskLines
  <2> QED BY <2>1, DiskLines
<1>2. ASSUME NEW x \in LinesOnDisk(fs) PROVE x \in LinesOnDisk(gs)
  <2>1. PICK j \in Indices : x \in ToSet(fs[j].lines)
    BY DiskLines
  <2> QED BY <2>1, DiskLines
<1>3. new \subseteq LinesOnDisk(gs)
  BY DiskLines
<1> QED BY <1>1, <1>2, <1>3

\* The first n lines of the buffer reach the file.
LEMMA ReachedLanes ==
  ASSUME LogAssumption,
         NEW fs \in DiskSet, NEW buffer \in Lines, NEW queue \in Lines, NEW rotated \in SUBSET Int,
         Lanes(fs, buffer, queue, rotated), buffer # <<>> => fs[0].there, NEW n \in 0..Len(buffer)
  PROVE  LET first == SubSeq(buffer, 1, n)
             rest == SubSeq(buffer, n + 1, Len(buffer))
             gs == [fs EXCEPT ![0] = [there |-> fs[0].there, lines |-> fs[0].lines \o first]]
         IN /\ gs \in DiskSet /\ rest \in Lines /\ gs[0].there = fs[0].there
            /\ Lanes(gs, rest, queue, rotated)
            /\ LinesOnDisk(gs) = LinesOnDisk(fs) \cup ToSet(first)
            /\ ToSet(first) \cup ToSet(rest) = ToSet(buffer)
            /\ ToSet(first) \cap ToSet(rest) = {}
<1> DEFINE first == SubSeq(buffer, 1, n)
           rest == SubSeq(buffer, n + 1, Len(buffer))
           file == [there |-> fs[0].there, lines |-> fs[0].lines \o first]
           gs == [fs EXCEPT ![0] = file]
<1>1. /\ FilesInOrder(fs) /\ Increasing(buffer) /\ Increasing(queue)
      /\ Below(LinesOnDisk(fs), ToSet(buffer)) /\ Below(LinesOnDisk(fs), ToSet(queue))
      /\ Below(ToSet(buffer), ToSet(queue))
      /\ Below(rotated, LinesOnDisk(fs)) /\ Below(rotated, ToSet(buffer)) /\ Below(rotated, ToSet(queue))
  BY DEF Lanes
<1>2. /\ first \in Lines /\ rest \in Lines /\ Increasing(first) /\ Increasing(rest)
      /\ ToSet(first) \cup ToSet(rest) = ToSet(buffer) /\ Below(ToSet(first), ToSet(rest))
  BY <1>1, CutInTwo
<1>3. 0 \in Indices /\ fs[0] \in FileSet /\ fs[0].lines \in Lines /\ fs[0].there \in BOOLEAN
      /\ ToSet(fs[0].lines) \subseteq LinesOnDisk(fs)
  <2>1. 0 \in Indices
    BY DEF LogAssumption, Indices
  <2> QED BY <2>1, DiskLines DEF DiskSet, FileSet
<1>4. buffer = <<>> => first = <<>>
  BY DEF Lines
<1>5. ToSet(first) \subseteq Int /\ ToSet(rest) \subseteq Int /\ ToSet(queue) \subseteq Int
  BY <1>2, ToSetType
<1> HIDE DEF first, rest
<1>6. /\ fs[0].lines \o first \in Lines /\ Increasing(fs[0].lines \o first)
      /\ ToSet(fs[0].lines \o first) = ToSet(fs[0].lines) \cup ToSet(first)
  <2>1. Below(ToSet(fs[0].lines), ToSet(first)) /\ Increasing(fs[0].lines)
    BY <1>1, <1>2, <1>3 DEF Below, FilesInOrder
  <2> QED BY <1>2, <1>3, <2>1, LanesJoined
<1>7. file \in FileSet /\ file.lines = fs[0].lines \o first /\ file.there = fs[0].there
  BY <1>3, <1>6 DEF FileSet
<1>8. ~file.there => file.lines = <<>>
  <2> SUFFICES ASSUME ~fs[0].there PROVE file.lines = <<>>
    BY <1>7
  <2>1. first = <<>> /\ fs[0].lines = <<>>
    BY <1>1, <1>3, <1>4 DEF FilesInOrder
  <2>2. <<>> \o <<>> = <<>>
    OBVIOUS
  <2> QED BY <2>1, <2>2, <1>7
<1> HIDE DEF file
<1>9. gs \in DiskSet
  BY <1>3, <1>7 DEF DiskSet
<1>10. gs[0] = file /\ \A j \in Indices : j # 0 => gs[j] = fs[j]
  BY <1>3 DEF DiskSet
<1> HIDE DEF gs
<1>18. LinesOnDisk(gs) = LinesOnDisk(fs) \cup ToSet(first)
  <2> DEFINE new == ToSet(first)
             path == 0
  <2>1. ToSet(gs[0].lines) = ToSet(fs[0].lines) \cup new
    BY <1>6, <1>7, <1>10
  <2>2. path \in Indices /\ fs \in DiskSet /\ gs \in DiskSet
        /\ ToSet(gs[path].lines) = ToSet(fs[path].lines) \cup new
        /\ \A j \in Indices : j # path => gs[j] = fs[j]
    BY <2>1, <1>3, <1>9, <1>10
  <2> HIDE DEF new, path
  <2> QED BY ONLY <2>2, OneFileChanges DEF new
<1>11. FilesInOrder(gs)
  <2>1. \A i \in Indices : Increasing(gs[i].lines) /\ (~gs[i].there => gs[i].lines = <<>>)
    BY <1>1, <1>6, <1>7, <1>8, <1>10 DEF FilesInOrder
  <2>2. ASSUME NEW i \in Indices, NEW j \in Indices, i < j
        PROVE  Below(ToSet(gs[j].lines), ToSet(gs[i].lines))
    <3>1. j # 0 /\ gs[j] = fs[j]
      BY <2>2, <1>10 DEF Indices
    <3>2. CASE i = 0
      <4>1. Below(ToSet(fs[j].lines), ToSet(fs[0].lines))
        BY <1>1, <2>2, <3>2 DEF FilesInOrder
      <4>2. Below(ToSet(fs[j].lines), ToSet(first))
        BY <1>1, <1>2, DiskLines DEF Below
      <4> QED BY <3>1, <3>2, <4>1, <4>2, <1>6, <1>7, <1>10 DEF Below
    <3>3. CASE i # 0
      BY <3>1, <3>3, <1>1, <1>10, <2>2 DEF FilesInOrder
    <3> QED BY <3>2, <3>3
  <2> QED BY <2>1, <2>2 DEF FilesInOrder
<1>12. Below(LinesOnDisk(gs), ToSet(rest))
  BY <1>1, <1>2, <1>18 DEF Below
<1>13. Below(LinesOnDisk(gs), ToSet(queue)) /\ Below(ToSet(rest), ToSet(queue))
  BY <1>1, <1>2, <1>18 DEF Below
<1>14. Below(rotated, LinesOnDisk(gs)) /\ Below(rotated, ToSet(rest))
  BY <1>1, <1>2, <1>18 DEF Below
<1>15. ToSet(first) \cap ToSet(rest) = {}
  BY <1>2, <1>5 DEF Below
<1>16. Lanes(gs, rest, queue, rotated)
  BY <1>1, <1>2, <1>11, <1>12, <1>13, <1>14 DEF Lanes
<1>17. gs[0].there = fs[0].there
  BY <1>7, <1>10
<1> QED BY <1>2, <1>9, <1>15, <1>16, <1>17, <1>18 DEF gs, file, first, rest

--------------------------------------------------------------------------------
\* The files on the way through a rotation of the files old: whatever was given up
\* is older than what is left.
Rotating(old, fs) ==
  /\ fs \in DiskSet /\ FilesInOrder(fs)
  /\ LinesOnDisk(fs) \subseteq LinesOnDisk(old)
  /\ Below(LinesOnDisk(old) \ LinesOnDisk(fs), LinesOnDisk(fs))

\* After k steps the surplus is gone and the last file renamed is not there.
RotatedTo(old, fs, k) ==
  /\ Rotating(old, fs)
  /\ ~fs[MaxBackups + 1].there
  /\ k \in 1..MaxBackups => ~fs[MaxBackups - k].there
  /\ k = MaxBackups + 1 => ~fs[0].there

\* One file is removed, older than every other line.
LEMMA OldestRemoved ==
  ASSUME LogAssumption, NEW old \in DiskSet, NEW fs, Rotating(old, fs), NEW i \in Indices,
         \A j \in Indices : j # i => Below(ToSet(fs[i].lines), ToSet(fs[j].lines))
  PROVE  LET gs == [fs EXCEPT ![i] = Absent] IN
         Rotating(old, gs) /\ ~gs[i].there /\ \A j \in Indices : j # i => gs[j] = fs[j]
<1> DEFINE gs == [fs EXCEPT ![i] = Absent]
<1>0. fs \in DiskSet /\ FilesInOrder(fs)
  BY DEF Rotating
<1>1. Absent \in FileSet /\ Absent.lines = <<>> /\ ~Absent.there
  BY NoLines DEF Absent, FileSet
<1>2. gs \in DiskSet /\ gs[i] = Absent /\ \A j \in Indices : j # i => gs[j] = fs[j]
  BY <1>0, <1>1 DEF DiskSet
<1> HIDE DEF gs
<1>3. FilesInOrder(gs)
  <2>1. \A j \in Indices : Increasing(gs[j].lines) /\ (~gs[j].there => gs[j].lines = <<>>)
    BY <1>0, <1>1, <1>2, NoLines DEF FilesInOrder
  <2>2. ASSUME NEW j \in Indices, NEW k \in Indices, j < k
        PROVE  Below(ToSet(gs[k].lines), ToSet(gs[j].lines))
    <3>1. CASE j = i \/ k = i
      BY <3>1, <1>1, <1>2, NoLines
    <3>2. CASE j # i /\ k # i
      BY <3>2, <1>0, <1>2, <2>2 DEF FilesInOrder
    <3> QED BY <3>1, <3>2
  <2> QED BY <2>1, <2>2 DEF FilesInOrder
<1>4. \A x \in LinesOnDisk(gs) : \E j \in Indices : j # i /\ x \in ToSet(fs[j].lines)
  <2> TAKE x \in LinesOnDisk(gs)
  <2>1. PICK j \in Indices : x \in ToSet(gs[j].lines)
    BY <1>2, DiskLines
  <2>2. j # i
    BY <2>1, <1>1, <1>2, NoLines
  <2> QED BY <2>1, <2>2, <1>2
<1>5. LinesOnDisk(gs) \subseteq LinesOnDisk(fs)
  BY <1>0, <1>4, DiskLines
<1>6. \A x \in LinesOnDisk(fs) \ LinesOnDisk(gs) : x \in ToSet(fs[i].lines)
  <2> TAKE x \in LinesOnDisk(fs) \ LinesOnDisk(gs)
  <2>1. PICK j \in Indices : x \in ToSet(fs[j].lines)
    BY <1>0, DiskLines
  <2>2. j = i
    BY <2>1, <1>2, DiskLines
  <2> QED BY <2>1, <2>2
<1>7. ASSUME NEW x \in LinesOnDisk(old) \ LinesOnDisk(gs), NEW y \in LinesOnDisk(gs)
      PROVE  x < y
  <2>1. CASE x \in LinesOnDisk(fs)
    BY <2>1, <1>4, <1>6 DEF Below
  <2>2. CASE x \notin LinesOnDisk(fs)
    BY <2>2, <1>5 DEF Rotating, Below
  <2> QED BY <2>1, <2>2
<1>8. Rotating(old, gs)
  BY <1>2, <1>3, <1>5, <1>7 DEF Rotating, Below
<1> QED BY <1>1, <1>2, <1>8 DEF gs

\* A file is moved up into a place where nothing is.
LEMMA MovedUp ==
  ASSUME LogAssumption, NEW old \in DiskSet, NEW fs, Rotating(old, fs), NEW i \in 0..MaxBackups,
         ~fs[i + 1].there, NEW gs \in DiskSet, gs[i] = Absent, gs[i + 1] = fs[i],
         \A j \in Indices : j # i /\ j # i + 1 => gs[j] = fs[j]
  PROVE  Rotating(old, gs) /\ ~gs[i].there
<1>0. fs \in DiskSet /\ FilesInOrder(fs) /\ i \in Indices /\ i + 1 \in Indices /\ i # i + 1 /\ i \in Nat
  BY DEF Rotating, Indices, LogAssumption
<1>1. Absent \in FileSet /\ Absent.lines = <<>> /\ ~Absent.there
  BY NoLines DEF Absent, FileSet
<1>2. /\ gs \in DiskSet /\ gs[i] = Absent /\ gs[i + 1] = fs[i]
      /\ \A j \in Indices : j # i /\ j # i + 1 => gs[j] = fs[j]
  OBVIOUS
<1>3. ToSet(fs[i + 1].lines) = {}
  BY <1>0, NoLines DEF FilesInOrder
<1>4. FilesInOrder(gs)
  <2>1. \A j \in Indices : Increasing(gs[j].lines) /\ (~gs[j].there => gs[j].lines = <<>>)
    BY <1>0, <1>1, <1>2, NoLines DEF FilesInOrder
  <2>2. ASSUME NEW j \in Indices, NEW k \in Indices, j < k
        PROVE  Below(ToSet(gs[k].lines), ToSet(gs[j].lines))
    <3>1. CASE j = i \/ k = i
      BY <3>1, <1>1, <1>2, NoLines
    <3>2. CASE j # i /\ k # i /\ j = i + 1
      <4>1. k # i + 1 /\ i < k
        BY <1>0, <2>2, <3>2 DEF Indices
      <4>2. Below(ToSet(fs[k].lines), ToSet(fs[i].lines))
        BY <4>1, <1>0 DEF FilesInOrder
      <4> QED BY <4>1, <4>2, <3>2, <1>2
    <3>3. CASE j # i /\ k # i /\ k = i + 1
      <4>1. j # i + 1 /\ j < i
        BY <1>0, <2>2, <3>3 DEF Indices
      <4>2. Below(ToSet(fs[i].lines), ToSet(fs[j].lines))
        BY <4>1, <1>0 DEF FilesInOrder
      <4> QED BY <4>1, <4>2, <3>3, <1>2
    <3>4. CASE j # i /\ k # i /\ j # i + 1 /\ k # i + 1
      BY <3>4, <1>0, <1>2, <2>2 DEF FilesInOrder
    <3> QED BY <3>1, <3>2, <3>3, <3>4
  <2> QED BY <2>1, <2>2 DEF FilesInOrder
<1>5. LinesOnDisk(gs) = LinesOnDisk(fs)
  <2>1. ASSUME NEW x \in LinesOnDisk(gs) PROVE x \in LinesOnDisk(fs)
    <3>1. PICK j \in Indices : x \in ToSet(gs[j].lines)
      BY <1>2, DiskLines
    <3>2. j # i
      BY <3>1, <1>1, <1>2, NoLines
    <3> QED BY <3>1, <3>2, <1>0, <1>2, DiskLines
  <2>2. ASSUME NEW x \in LinesOnDisk(fs) PROVE x \in LinesOnDisk(gs)
    <3>1. PICK j \in Indices : x \in ToSet(fs[j].lines)
      BY <1>0, DiskLines
    <3>2. j # i + 1
      BY <3>1, <1>3
    <3> QED BY <3>1, <3>2, <1>0, <1>2, DiskLines
  <2> QED BY <2>1, <2>2
<1>6. Rotating(old, gs)
  BY <1>2, <1>4, <1>5 DEF Rotating
<1> QED BY <1>1, <1>2, <1>6

\* One rename takes a rotation a step further.
LEMMA RenamedStep ==
  ASSUME LogAssumption, NEW old \in DiskSet, NEW fs, NEW k \in 1..(MaxBackups + 1),
         RotatedTo(old, fs, k - 1)
  PROVE  RotatedTo(old, Renamed(fs, k), k)
<1>1. /\ MaxBackups \in Nat /\ fs \in DiskSet /\ FilesInOrder(fs) /\ Rotating(old, fs)
      /\ ~fs[MaxBackups + 1].there
  BY DEF LogAssumption, RotatedTo, Rotating
<1>2. MaxBackups + 1 \in Indices /\ 0 \in Indices /\ ToSet(fs[MaxBackups + 1].lines) = {}
  BY <1>1, NoLines DEF Indices, FilesInOrder
<1>3. ASSUME MaxBackups = 0 PROVE RotatedTo(old, Renamed(fs, k), k)
  <2>1. k = 1 /\ Indices = {0, 1} /\ Renamed(fs, k) = [fs EXCEPT ![0] = Absent]
    BY <1>3 DEF Renamed, Indices
  <2>2. \A j \in Indices : j # 0 => Below(ToSet(fs[0].lines), ToSet(fs[j].lines))
    BY <2>1, <1>2, <1>3, NoLines
  <2> DEFINE gs == [fs EXCEPT ![0] = Absent]
  <2>3. Rotating(old, gs) /\ ~gs[0].there /\ \A j \in Indices : j # 0 => gs[j] = fs[j]
    BY <1>1, <1>2, <2>2, OldestRemoved
  <2>4. ~gs[MaxBackups + 1].there
    BY <2>3, <1>1, <1>2, <1>3
  <2> HIDE DEF gs
  <2>5. RotatedTo(old, gs, k)
    BY <2>3, <2>4, <2>1, <1>3 DEF RotatedTo
  <2> QED BY <2>5, <2>1 DEF gs
<1>4. ASSUME MaxBackups # 0, k > MaxBackups PROVE RotatedTo(old, Renamed(fs, k), k)
  <2>1. k = MaxBackups + 1 /\ k - 1 = MaxBackups /\ MaxBackups \in 1..MaxBackups /\ MaxBackups - (k - 1) = 0
    BY <1>1, <1>4
  <2>2. ~fs[0].there
    BY <2>1 DEF RotatedTo
  <2>3. Renamed(fs, k) = fs
    BY <1>4 DEF Renamed
  <2> QED BY <2>1, <2>2, <2>3, <1>1 DEF RotatedTo
<1> DEFINE from == MaxBackups - k
<1>5. ASSUME MaxBackups # 0, k <= MaxBackups, ~fs[from].there PROVE RotatedTo(old, Renamed(fs, k), k)
  <2>1. Renamed(fs, k) = fs
    BY <1>5 DEF Renamed, RenameSource
  <2> QED BY <2>1, <1>1, <1>5 DEF RotatedTo
<1>6. ASSUME MaxBackups # 0, k <= MaxBackups, fs[from].there PROVE RotatedTo(old, Renamed(fs, k), k)
  <2> DEFINE gs == [fs EXCEPT ![from + 1] = fs[from], ![from] = Absent]
  <2>1. Renamed(fs, k) = gs
    BY <1>1, <1>6 DEF Renamed, RenameSource
  <2>2. from \in 0..(MaxBackups - 1) /\ from + 1 \in Indices /\ from \in Indices
        /\ MaxBackups + 1 \notin {from, from + 1}
    BY <1>1, <1>6 DEF Indices
  <2>6. /\ gs \in DiskSet /\ gs[from] = Absent /\ gs[from + 1] = fs[from]
        /\ \A j \in Indices : j # from /\ j # from + 1 => gs[j] = fs[j]
    <3>1. Absent \in FileSet
      BY NoLines DEF Absent, FileSet
    <3> HIDE DEF from
    <3> QED BY <3>1, <2>2, <1>1 DEF DiskSet
  <2>3. /\ Rotating(old, gs) /\ ~gs[from].there
        /\ \A j \in Indices : j # from /\ j # from + 1 => gs[j] = fs[j]
    <3>1. CASE k = 1
      <4>1. from + 1 = MaxBackups
        BY <1>1, <3>1
      <4>2. \A j \in Indices : j # from + 1 => Below(ToSet(fs[from + 1].lines), ToSet(fs[j].lines))
        <5> TAKE j \in Indices
        <5>1. HAVE j # from + 1
        <5>2. CASE j = MaxBackups + 1
          BY <5>2, <1>2, NoLines
        <5>3. CASE j # MaxBackups + 1
          <6>1. j < from + 1
            BY <5>1, <5>3, <4>1, <1>1 DEF Indices
          <6> QED BY <6>1, <2>2, <1>1 DEF FilesInOrder
        <5> QED BY <5>2, <5>3
      <4> DEFINE hs == [fs EXCEPT ![from + 1] = Absent]
      <4>3. Rotating(old, hs) /\ ~hs[from + 1].there /\ \A j \in Indices : j # from + 1 => hs[j] = fs[j]
        <5> DEFINE i == from + 1
        <5>1. i \in Indices /\ \A j \in Indices : j # i => Below(ToSet(fs[i].lines), ToSet(fs[j].lines))
          BY <4>2, <2>2
        <5> HIDE DEF i
        <5>2. LET h == [fs EXCEPT ![i] = Absent] IN
              Rotating(old, h) /\ ~h[i].there /\ \A j \in Indices : j # i => h[j] = fs[j]
          BY <5>1, <1>1, OldestRemoved
        <5> QED BY <5>2 DEF i
      <4>4. hs \in DiskSet /\ from \in 0..MaxBackups
        BY <4>3, <2>2, <1>1 DEF Rotating
      <4>6. hs[from] = fs[from] /\ \A j \in Indices : j # from /\ j # from + 1 => hs[j] = gs[j]
        BY <4>3, <2>2, <2>6
      <4> HIDE DEF hs, from, gs
      <4>7. Rotating(old, gs) /\ ~gs[from].there
        BY <4>3, <4>4, <4>6, <2>6, MovedUp
      <4> QED BY <4>7, <2>6
    <3>2. CASE k # 1
      <4>1. k - 1 \in 1..MaxBackups /\ MaxBackups - (k - 1) = from + 1
        BY <3>2, <1>1, <1>6
      <4>2. ~fs[from + 1].there /\ from \in 0..MaxBackups
        BY <4>1, <2>2, <1>1 DEF RotatedTo
      <4> HIDE DEF from, gs
      <4>3. Rotating(old, gs) /\ ~gs[from].there
        BY <4>2, <1>1, <2>6, MovedUp
      <4> QED BY <4>3, <2>6
    <3> QED BY <3>1, <3>2
  <2>4. ~gs[MaxBackups + 1].there
    BY <2>3, <2>2, <1>1, <1>2
  <2> HIDE DEF gs
  <2>5. RotatedTo(old, gs, k)
    BY <2>3, <2>4, <1>1, <1>6 DEF RotatedTo
  <2> QED BY <2>1, <2>5
<1> QED BY <1>1, <1>3, <1>4, <1>5, <1>6

\* The surplus backups are removed first.
LEMMA SurplusRemoved ==
  ASSUME LogAssumption, NEW old \in DiskSet, FilesInOrder(old)
  PROVE  RotatedTo(old, [old EXCEPT ![MaxBackups + 1] = Absent], 0)
<1> DEFINE i == MaxBackups + 1
<1>1. i \in Indices /\ MaxBackups \in Nat /\ \A j \in Indices : j # i => j < i
  BY DEF LogAssumption, Indices
<1>2. Rotating(old, old)
  BY DEF Rotating, Below
<1>3. \A j \in Indices : j # i => Below(ToSet(old[i].lines), ToSet(old[j].lines))
  BY <1>1 DEF FilesInOrder
<1> HIDE DEF i
<1>4. LET gs == [old EXCEPT ![i] = Absent] IN
      Rotating(old, gs) /\ ~gs[i].there /\ \A j \in Indices : j # i => gs[j] = old[j]
  BY <1>1, <1>2, <1>3, OldestRemoved
<1> DEFINE gs == [old EXCEPT ![i] = Absent]
<1>5. Rotating(old, gs) /\ ~gs[i].there
  BY <1>4
<1> HIDE DEF gs
<1>6. RotatedTo(old, gs, 0)
  BY <1>1, <1>5 DEF RotatedTo, i
<1> QED BY <1>6 DEF gs, i

\* rotate_log_file after any number of its steps.
LEMMA RotatedFiles ==
  ASSUME LogAssumption, Flushed \in DiskSet, FilesInOrder(Flushed)
  PROVE  \A k \in Indices : RotatedTo(Flushed, Rotated[k], k)
<1> DEFINE old == Flushed
           len == MaxBackups + 1
           Base == [old EXCEPT ![MaxBackups + 1] = Absent]
           After(f) == [k \in Indices |-> IF k = 0 THEN Base ELSE Renamed(f[k - 1], k)]
           after == CHOOSE f : f = After(f)
           Good == {fs \in DiskSet : \E k \in 0..len : RotatedTo(old, fs, k)}
           step == [p \in (1..len) \X DiskSet |-> Renamed(p[2], p[1])]
<1>1. len \in Nat /\ Indices = 0..len /\ MaxBackups \in Nat
  BY DEF LogAssumption, Indices
<1>2. RotatedTo(old, Base, 0)
  BY SurplusRemoved
<1>3. Base \in DiskSet
  BY <1>2 DEF RotatedTo, Rotating
<1>4. ASSUME NEW k \in 1..len, NEW fs \in DiskSet PROVE Renamed(fs, k) \in DiskSet
  <2>1. Absent \in FileSet /\ 0 \in Indices
    BY <1>1, NoLines DEF Absent, FileSet
  <2> DEFINE from == MaxBackups - k
  <2>2. k <= MaxBackups => from \in Indices /\ from + 1 \in Indices
    BY <1>1
  <2>3. Renamed(fs, k) \in {fs, [fs EXCEPT ![0] = Absent]}
        \/ (k <= MaxBackups /\ Renamed(fs, k) = [fs EXCEPT ![from + 1] = fs[from], ![from] = Absent])
    BY <1>1 DEF Renamed, RenameSource
  <2> HIDE DEF from
  <2> QED BY <2>1, <2>2, <2>3 DEF DiskSet
<1>5. step \in [(1..len) \X DiskSet -> DiskSet]
  BY <1>4
<1>6. \A k \in 1..len, fs \in DiskSet : step[<<k, fs>>] = Renamed(fs, k)
  OBVIOUS
<1> HIDE DEF Base, step, old, len
<1>7. PICK f \in [0..len -> DiskSet] : f[0] = Base /\ \A n \in 1..len : f[n] = step[<<n, f[n - 1]>>]
  <2> DEFINE Q == DiskSet
  <2>1. len \in Nat /\ Base \in Q /\ step \in [(1..len) \X Q -> Q]
    BY <1>1, <1>3, <1>5
  <2> HIDE DEF Q
  <2>2. \E f \in [0..len -> Q] : Follows(f, len, Base, step)
    BY ONLY <2>1, RecursionExists
  <2> QED BY <2>2 DEF Q, Follows
<1>8. f = After(f)
  <2>1. ASSUME NEW n \in 0..len PROVE f[n] = After(f)[n]
    <3>1. CASE n = 0
      BY <3>1, <1>1, <1>7
    <3>2. CASE n # 0
      <4>1. n \in 1..len /\ n - 1 \in 0..len
        BY <1>1, <3>2
      <4>2. f[n - 1] \in DiskSet
        BY <4>1, <1>7
      <4> QED BY <4>1, <4>2, <1>1, <1>6, <1>7, <3>2
    <3> QED BY <3>1, <3>2
  <2>2. DOMAIN f = Indices /\ f = [n \in Indices |-> f[n]]
    BY <1>1, <1>7
  <2> QED BY <1>1, <2>1, <2>2
<1>9. after = After(after)
  BY <1>8
<1> HIDE DEF after
<1>10. \A n \in Indices : after[n] = IF n = 0 THEN Base ELSE Renamed(after[n - 1], n)
  BY <1>9
<1> DEFINE I == {n \in Nat : n <= len => RotatedTo(old, after[n], n)}
<1>11. 0 \in I
  BY <1>1, <1>2, <1>10
<1>12. ASSUME NEW n \in Nat, n \in I PROVE n + 1 \in I
  <2> SUFFICES ASSUME n + 1 <= len PROVE RotatedTo(old, after[n + 1], n + 1)
    OBVIOUS
  <2>1. n + 1 \in 1..(MaxBackups + 1) /\ (n + 1) - 1 = n /\ RotatedTo(old, after[n], n)
    BY <1>1, <1>12 DEF len
  <2>2. after[n + 1] = Renamed(after[n], n + 1)
    BY <2>1, <1>1, <1>10
  <2>3. old \in DiskSet
    BY DEF old
  <2> DEFINE m == n + 1
  <2>4. m \in 1..(MaxBackups + 1) /\ RotatedTo(old, after[n], m - 1)
    BY <2>1
  <2> HIDE DEF m
  <2>5. RotatedTo(old, Renamed(after[n], m), m)
    BY <2>3, <2>4, RenamedStep
  <2> QED BY <2>2, <2>5 DEF m
<1> HIDE DEF I
<1>13. \A n \in Nat : n \in I
  BY <1>11, <1>12, Induction
<1>14. \A n \in Indices : RotatedTo(old, after[n], n)
  BY <1>1, <1>13 DEF I
<1>15. Rotated = after
  BY DEF Rotated, after, Base, old
<1> QED BY <1>14, <1>15 DEF old

\* The places of the lines, as a function of what holds them.
PlacesOf(queue, buffer, fs, err, ref, gone) ==
  [p \in PlaceNames |->
     CASE p = "queue" -> ToSet(queue)
       [] p = "buffer" -> ToSet(buffer)
       [] p = "disk" -> LinesOnDisk(fs)
       [] p = "stderr" -> err
       [] p = "producer" -> {ref} \ {NoLine}
       [] p \in Reasons -> gone[p]]

PlaceSet == [PlaceNames -> SUBSET Int]

\* Every line up to n is in exactly one place, and none behind it is anywhere.
Placed(P, n) ==
  /\ \A line \in 1..n : \E p \in PlaceNames : line \in P[p]
  /\ \A p, q \in PlaceNames : p # q => P[p] \cap P[q] = {}
  /\ \A p \in PlaceNames : \A line \in P[p] : line <= n

LossAdded(gone, more, reason, what) ==
  /\ more \in [Reasons -> SUBSET Int]
  /\ more[reason] = gone[reason] \cup what
  /\ \A r \in Reasons : r # reason => more[r] = gone[r]

TypedLines(queue, buffer, fs, err, ref, gone) ==
  /\ queue \in Lines /\ buffer \in Lines /\ fs \in DiskSet /\ err \in SUBSET Int /\ ref \in Nat
  /\ gone \in [Reasons -> SUBSET Int]

Accounted(queue, buffer, fs, err, ref, gone, n) ==
  /\ TypedLines(queue, buffer, fs, err, ref, gone) /\ n \in Nat
  /\ buffer # <<>> => fs[0].there
  /\ Lanes(fs, buffer, queue, gone["rotated"])
  /\ Placed(PlacesOf(queue, buffer, fs, err, ref, gone), n)

Shows(P, queue, buffer, fs, err, ref, gone) ==
  /\ P \in PlaceSet
  /\ P["queue"] = ToSet(queue) /\ P["buffer"] = ToSet(buffer) /\ P["disk"] = LinesOnDisk(fs)
  /\ P["stderr"] = err /\ P["producer"] = {ref} \ {NoLine} /\ \A r \in Reasons : P[r] = gone[r]

\* PlacesOf is the function Shows describes.
LEMMA PlacesShow ==
  ASSUME NEW queue, NEW buffer, NEW fs, NEW err, NEW ref, NEW gone,
         TypedLines(queue, buffer, fs, err, ref, gone)
  PROVE  Shows(PlacesOf(queue, buffer, fs, err, ref, gone), queue, buffer, fs, err, ref, gone)
<1>0. /\ queue \in Lines /\ buffer \in Lines /\ fs \in DiskSet /\ err \in SUBSET Int /\ ref \in Nat
      /\ gone \in [Reasons -> SUBSET Int]
  BY DEF TypedLines
<1> DEFINE P == PlacesOf(queue, buffer, fs, err, ref, gone)
<1>1. /\ P["queue"] = ToSet(queue) /\ P["buffer"] = ToSet(buffer) /\ P["disk"] = LinesOnDisk(fs)
      /\ P["stderr"] = err /\ P["producer"] = {ref} \ {NoLine} /\ \A r \in Reasons : P[r] = gone[r]
  BY DEF PlacesOf, PlaceNames, Reasons
<1>2. /\ ToSet(queue) \subseteq Int /\ ToSet(buffer) \subseteq Int /\ LinesOnDisk(fs) \subseteq Int
      /\ {ref} \ {NoLine} \subseteq Int
  BY <1>0, ToSetType, DiskLines
<1>3. P = [p \in PlaceNames |-> P[p]]
  <2> DEFINE In(p) == CASE p = "queue" -> ToSet(queue)
                        [] p = "buffer" -> ToSet(buffer)
                        [] p = "disk" -> LinesOnDisk(fs)
                        [] p = "stderr" -> err
                        [] p = "producer" -> {ref} \ {NoLine}
                        [] p \in Reasons -> gone[p]
  <2>1. P = [p \in PlaceNames |-> In(p)]
    BY DEF PlacesOf
  <2> HIDE DEF In, P
  <2> QED BY <2>1
<1>4. \A p \in PlaceNames : p \in {"queue", "buffer", "disk", "stderr", "producer"} \/ p \in Reasons
  BY DEF PlaceNames
<1> HIDE DEF P
<1>5. \A p \in PlaceNames : P[p] \in SUBSET Int
  BY <1>0, <1>1, <1>2, <1>4
<1>6. P \in PlaceSet
  BY <1>3, <1>5 DEF PlaceSet
<1> QED BY <1>1, <1>6 DEF P, Shows

\* Lines go from one place to another.
LEMMA LinesMoved ==
  ASSUME NEW P \in PlaceSet, NEW Q \in PlaceSet, NEW n \in Nat, Placed(P, n),
         NEW a \in PlaceNames, NEW b \in PlaceNames, a # b,
         Q[a] \cup Q[b] = P[a] \cup P[b], Q[a] \cap Q[b] = {},
         \A p \in PlaceNames : p # a /\ p # b => Q[p] = P[p]
  PROVE  Placed(Q, n)
<1>1. \A x : x \in Q[a] \/ x \in Q[b] <=> x \in P[a] \/ x \in P[b]
  OBVIOUS
<1>2. ASSUME NEW line \in 1..n PROVE \E p \in PlaceNames : line \in Q[p]
  <2>1. PICK p \in PlaceNames : line \in P[p]
    BY DEF Placed
  <2> QED BY <2>1, <1>1
<1>3. ASSUME NEW p \in PlaceNames, NEW q \in PlaceNames, p # q, NEW x, x \in Q[p], x \in Q[q] PROVE FALSE
  <2>0. \A d, e \in PlaceNames : x \in P[d] /\ x \in P[e] => d = e
    BY DEF Placed
  <2>1. CASE p \notin {a, b} /\ q \notin {a, b}
    BY <2>1, <1>3, <2>0
  <2>2. CASE p \in {a, b} /\ q \in {a, b}
    BY <2>2, <1>3
  <2>3. CASE p \in {a, b} /\ q \notin {a, b}
    BY <2>3, <1>1, <1>3, <2>0
  <2>4. CASE p \notin {a, b} /\ q \in {a, b}
    BY <2>4, <1>1, <1>3, <2>0
  <2> QED BY <2>1, <2>2, <2>3, <2>4
<1>4. ASSUME NEW p \in PlaceNames, NEW line \in Q[p] PROVE line <= n
  <2>1. \A q \in PlaceNames : line \in P[q] => line <= n
    BY DEF Placed
  <2> QED BY <2>1, <1>1, <1>4
<1>5. \A p, q \in PlaceNames : p # q => Q[p] \cap Q[q] = {}
  BY <1>3
<1> QED BY <1>2, <1>4, <1>5 DEF Placed

\* The next line comes to a place.
LEMMA LineLogged ==
  ASSUME NEW P \in PlaceSet, NEW Q \in PlaceSet, NEW n \in Nat, Placed(P, n),
         NEW b \in PlaceNames, Q[b] = P[b] \cup {n + 1},
         \A p \in PlaceNames : p # b => Q[p] = P[p]
  PROVE  Placed(Q, n + 1)
<1>1. \A p \in PlaceNames : n + 1 \notin P[p]
  BY DEF Placed, PlaceSet
<1>2. ASSUME NEW line \in 1..(n + 1) PROVE \E p \in PlaceNames : line \in Q[p]
  <2>1. CASE line = n + 1
    BY <2>1
  <2>2. CASE line # n + 1
    <3>1. line \in 1..n
      BY <2>2
    <3>2. PICK p \in PlaceNames : line \in P[p]
      BY <3>1 DEF Placed
    <3> QED BY <3>2
  <2> QED BY <2>1, <2>2
<1>3. ASSUME NEW p \in PlaceNames, NEW q \in PlaceNames, p # q PROVE Q[p] \cap Q[q] = {}
  <2>1. P[p] \cap P[q] = {}
    BY <1>3 DEF Placed
  <2> QED BY <2>1, <1>1, <1>3
<1>4. ASSUME NEW p \in PlaceNames, NEW line \in Q[p] PROVE line <= n + 1
  <2>1. line = n + 1 \/ line \in P[p]
    OBVIOUS
  <2>2. line \in P[p] => line <= n /\ line \in Int
    BY DEF Placed, PlaceSet
  <2> QED BY <2>1, <2>2
<1>5. \A p, q \in PlaceNames : p # q => Q[p] \cap Q[q] = {}
  BY <1>3
<1> QED BY <1>2, <1>4, <1>5 DEF Placed

ReachedBy(fs, buffer, n) ==
  [fs EXCEPT ![0] = [there |-> fs[0].there, lines |-> fs[0].lines \o SubSeq(buffer, 1, n)]]

PendingOf(buffer, n) == SubSeq(buffer, n + 1, Len(buffer))

\* The first n lines of the buffer reach the disk.
LEMMA DiskReached ==
  ASSUME LogAssumption, NEW queue, NEW buffer, NEW fs, NEW err, NEW ref, NEW gone, NEW n,
         Accounted(queue, buffer, fs, err, ref, gone, n), NEW k \in 0..Len(buffer)
  PROVE  /\ Accounted(queue, PendingOf(buffer, k), ReachedBy(fs, buffer, k), err, ref, gone, n)
         /\ ReachedBy(fs, buffer, k)[0].there = fs[0].there
<1> DEFINE first == SubSeq(buffer, 1, k)
           rest == PendingOf(buffer, k)
           gs == ReachedBy(fs, buffer, k)
           P == PlacesOf(queue, buffer, fs, err, ref, gone)
           Q == PlacesOf(queue, rest, gs, err, ref, gone)
           rotated == gone["rotated"]
<1>1. /\ queue \in Lines /\ buffer \in Lines /\ fs \in DiskSet /\ err \in SUBSET Int /\ ref \in Nat
      /\ gone \in [Reasons -> SUBSET Int] /\ n \in Nat /\ (buffer # <<>> => fs[0].there)
      /\ Lanes(fs, buffer, queue, rotated) /\ Placed(P, n) /\ rotated \in SUBSET Int
  BY DEF Accounted, TypedLines, Reasons
<1>2. /\ gs \in DiskSet /\ rest \in Lines /\ gs[0].there = fs[0].there
      /\ Lanes(gs, rest, queue, rotated)
      /\ LinesOnDisk(gs) = LinesOnDisk(fs) \cup ToSet(first)
      /\ ToSet(first) \cup ToSet(rest) = ToSet(buffer)
      /\ ToSet(first) \cap ToSet(rest) = {}
  <2>1. /\ fs \in DiskSet /\ buffer \in Lines /\ queue \in Lines /\ rotated \in SUBSET Int
        /\ Lanes(fs, buffer, queue, rotated) /\ (buffer # <<>> => fs[0].there)
    BY <1>1
  <2> HIDE DEF P, rotated, first
  <2> QED BY ONLY LogAssumption, k \in 0..Len(buffer), <2>1, ReachedLanes DEF ReachedBy, PendingOf, rest, gs, first
<1>3. buffer = <<>> => rest = <<>>
  BY <1>1 DEF PendingOf, Lines
<1> HIDE DEF first, rest, gs
<1>12. TypedLines(queue, rest, gs, err, ref, gone) /\ TypedLines(queue, buffer, fs, err, ref, gone)
  BY <1>1, <1>2 DEF TypedLines
<1>13. Shows(P, queue, buffer, fs, err, ref, gone) /\ Shows(Q, queue, rest, gs, err, ref, gone)
  BY ONLY <1>12, PlacesShow
<1> HIDE DEF P, Q
<1>4. P \in PlaceSet /\ Q \in PlaceSet
  BY <1>13 DEF Shows
<1>5. /\ P["queue"] = Q["queue"] /\ P["stderr"] = Q["stderr"] /\ P["producer"] = Q["producer"]
      /\ \A r \in Reasons : P[r] = Q[r]
  BY <1>13 DEF Shows
<1>6. /\ P["buffer"] = ToSet(buffer) /\ P["disk"] = LinesOnDisk(fs)
      /\ Q["buffer"] = ToSet(rest) /\ Q["disk"] = LinesOnDisk(gs)
  BY <1>13 DEF Shows
<1> HIDE DEF P, Q
<1>7. P["buffer"] \cap P["disk"] = {}
  BY <1>1 DEF Placed, PlaceNames
<1>8. Q["buffer"] \cup Q["disk"] = P["buffer"] \cup P["disk"] /\ Q["buffer"] \cap Q["disk"] = {}
  BY <1>2, <1>6, <1>7
<1>9. \A p \in PlaceNames : p # "buffer" /\ p # "disk" => Q[p] = P[p]
  BY <1>5 DEF PlaceNames
<1>10. "buffer" \in PlaceNames /\ "disk" \in PlaceNames /\ "buffer" # "disk"
  BY DEF PlaceNames
<1>11. Placed(Q, n)
  BY <1>1, <1>4, <1>8, <1>9, <1>10, LinesMoved
<1> QED BY <1>1, <1>2, <1>3, <1>11 DEF Accounted, TypedLines, Q, rest, gs

\* The oldest line of the channel goes into the buffer.
LEMMA HeadBuffered ==
  ASSUME NEW queue, NEW buffer, NEW fs, NEW err, NEW ref, NEW gone, NEW n,
         Accounted(queue, buffer, fs, err, ref, gone, n), queue # <<>>, fs[0].there
  PROVE  Accounted(Tail(queue), Append(buffer, Head(queue)), fs, err, ref, gone, n)
<1> DEFINE tail == Tail(queue)
           head == Head(queue)
           more == Append(buffer, head)
           P == PlacesOf(queue, buffer, fs, err, ref, gone)
           Q == PlacesOf(tail, more, fs, err, ref, gone)
           rotated == gone["rotated"]
<1>1. /\ queue \in Lines /\ buffer \in Lines /\ fs \in DiskSet /\ err \in SUBSET Int /\ ref \in Nat
      /\ gone \in [Reasons -> SUBSET Int] /\ n \in Nat
      /\ Lanes(fs, buffer, queue, rotated) /\ Placed(P, n)
  BY DEF Accounted, TypedLines
<1>2. /\ head \in Int /\ tail \in Lines /\ Increasing(tail)
      /\ ToSet(queue) = {head} \cup ToSet(tail) /\ Below({head}, ToSet(tail))
  BY <1>1, TakenFirst DEF Lanes
<1> HIDE DEF head, tail
<1>3. Increasing(buffer) /\ Below(ToSet(buffer), {head})
  BY <1>1, <1>2 DEF Lanes, Below
<1>4. more \in Lines /\ Increasing(more) /\ more # <<>> /\ ToSet(more) = ToSet(buffer) \cup {head}
  BY <1>1, <1>2, <1>3, AddedLast
<1> HIDE DEF more
<1>5. Lanes(fs, more, tail, rotated)
  BY <1>1, <1>2, <1>4 DEF Lanes, Below
<1>15. TypedLines(tail, more, fs, err, ref, gone) /\ TypedLines(queue, buffer, fs, err, ref, gone)
  BY <1>1, <1>2, <1>4 DEF TypedLines
<1>16. Shows(P, queue, buffer, fs, err, ref, gone) /\ Shows(Q, tail, more, fs, err, ref, gone)
  BY ONLY <1>15, PlacesShow
<1> HIDE DEF P, Q
<1>6. P \in PlaceSet /\ Q \in PlaceSet
  BY <1>16 DEF Shows
<1>7. /\ P["disk"] = Q["disk"] /\ P["stderr"] = Q["stderr"] /\ P["producer"] = Q["producer"]
      /\ \A r \in Reasons : P[r] = Q[r]
  BY <1>16 DEF Shows
<1>8. /\ P["buffer"] = ToSet(buffer) /\ P["queue"] = ToSet(queue)
      /\ Q["buffer"] = ToSet(more) /\ Q["queue"] = ToSet(tail)
  BY <1>16 DEF Shows
<1> HIDE DEF P, Q
<1>9. P["buffer"] \cap P["queue"] = {}
  BY <1>1 DEF Placed, PlaceNames
<1>10. head \notin ToSet(tail)
  BY <1>2 DEF Below
<1>11. Q["buffer"] \cup Q["queue"] = P["buffer"] \cup P["queue"] /\ Q["buffer"] \cap Q["queue"] = {}
  BY <1>2, <1>4, <1>8, <1>9, <1>10
<1>12. \A p \in PlaceNames : p # "buffer" /\ p # "queue" => Q[p] = P[p]
  BY <1>7 DEF PlaceNames
<1>13. "buffer" \in PlaceNames /\ "queue" \in PlaceNames /\ "buffer" # "queue"
  BY DEF PlaceNames
<1>14. Placed(Q, n)
  BY <1>1, <1>6, <1>11, <1>12, <1>13, LinesMoved
<1> QED BY <1>1, <1>2, <1>4, <1>5, <1>14 DEF Accounted, TypedLines, Q, head, tail, more

\* The oldest line of the channel goes to stderr.
LEMMA HeadToStderr ==
  ASSUME NEW queue, NEW buffer, NEW fs, NEW err, NEW ref, NEW gone, NEW n,
         Accounted(queue, buffer, fs, err, ref, gone, n), queue # <<>>
  PROVE  Accounted(Tail(queue), buffer, fs, err \cup {Head(queue)}, ref, gone, n)
<1> DEFINE tail == Tail(queue)
           head == Head(queue)
           more == err \cup {head}
           P == PlacesOf(queue, buffer, fs, err, ref, gone)
           Q == PlacesOf(tail, buffer, fs, more, ref, gone)
           rotated == gone["rotated"]
<1>1. /\ queue \in Lines /\ buffer \in Lines /\ fs \in DiskSet /\ err \in SUBSET Int /\ ref \in Nat
      /\ gone \in [Reasons -> SUBSET Int] /\ n \in Nat /\ (buffer # <<>> => fs[0].there)
      /\ Lanes(fs, buffer, queue, rotated) /\ Placed(P, n)
  BY DEF Accounted, TypedLines
<1>2. /\ head \in Int /\ tail \in Lines /\ Increasing(tail)
      /\ ToSet(queue) = {head} \cup ToSet(tail) /\ Below({head}, ToSet(tail))
  BY <1>1, TakenFirst DEF Lanes
<1> HIDE DEF head, tail
<1>3. more \in SUBSET Int
  BY <1>1, <1>2
<1>5. Lanes(fs, buffer, tail, rotated)
  BY <1>1, <1>2 DEF Lanes, Below
<1>4. more = err \cup {head}
  OBVIOUS
<1> HIDE DEF more
<1>15. TypedLines(tail, buffer, fs, more, ref, gone) /\ TypedLines(queue, buffer, fs, err, ref, gone)
  BY <1>1, <1>2, <1>3 DEF TypedLines
<1>16. Shows(P, queue, buffer, fs, err, ref, gone) /\ Shows(Q, tail, buffer, fs, more, ref, gone)
  BY ONLY <1>15, PlacesShow
<1> HIDE DEF P, Q
<1>6. P \in PlaceSet /\ Q \in PlaceSet
  BY <1>16 DEF Shows
<1>7. /\ P["disk"] = Q["disk"] /\ P["buffer"] = Q["buffer"] /\ P["producer"] = Q["producer"]
      /\ \A r \in Reasons : P[r] = Q[r]
  BY <1>16 DEF Shows
<1>8. /\ P["stderr"] = err /\ P["queue"] = ToSet(queue)
      /\ Q["stderr"] = more /\ Q["queue"] = ToSet(tail)
  BY <1>16 DEF Shows
<1> HIDE DEF P, Q
<1>9. P["stderr"] \cap P["queue"] = {}
  BY <1>1 DEF Placed, PlaceNames
<1>10. head \notin ToSet(tail)
  BY <1>2 DEF Below
<1>11. Q["stderr"] \cup Q["queue"] = P["stderr"] \cup P["queue"] /\ Q["stderr"] \cap Q["queue"] = {}
  BY <1>2, <1>4, <1>8, <1>9, <1>10
<1>12. \A p \in PlaceNames : p # "stderr" /\ p # "queue" => Q[p] = P[p]
  BY <1>7 DEF PlaceNames
<1>13. "stderr" \in PlaceNames /\ "queue" \in PlaceNames /\ "stderr" # "queue"
  BY DEF PlaceNames
<1>14. Placed(Q, n)
  BY <1>1, <1>6, <1>11, <1>12, <1>13, LinesMoved
<1> QED BY <1>1, <1>2, <1>3, <1>5, <1>14 DEF Accounted, TypedLines, Q, head, tail, more

OtherPlaces == {"queue", "buffer", "disk", "stderr", "producer"}

\* Lines of one place are lost for a reason.
LEMMA GivenUp ==
  ASSUME NEW queue, NEW buffer, NEW fs, NEW err, NEW ref, NEW gone, NEW n \in Nat,
         NEW queue2, NEW buffer2, NEW fs2, NEW ref2, NEW more, NEW reason \in Reasons, NEW what,
         NEW P, NEW Q, NEW b \in OtherPlaces,
         Shows(P, queue, buffer, fs, err, ref, gone), Shows(Q, queue2, buffer2, fs2, err, ref2, more),
         Placed(P, n), LossAdded(gone, more, reason, what), what \subseteq P[b], Q[b] = P[b] \ what,
         \A p \in OtherPlaces : p # b => Q[p] = P[p]
  PROVE  Placed(Q, n)
<1>1. /\ b \in PlaceNames /\ reason \in PlaceNames /\ b # reason /\ P \in PlaceSet /\ Q \in PlaceSet
  BY DEF PlaceNames, Reasons, OtherPlaces, Shows
<1>2. P[b] \cap P[reason] = {}
  BY <1>1 DEF Placed
<1>3. Q[reason] = P[reason] \cup what
  BY DEF Shows, LossAdded
<1>4. Q[b] \cup Q[reason] = P[b] \cup P[reason] /\ Q[b] \cap Q[reason] = {}
  BY <1>2, <1>3
<1>5. ASSUME NEW p \in PlaceNames, p # b, p # reason PROVE Q[p] = P[p]
  <2>1. CASE p \in OtherPlaces
    BY <2>1, <1>5
  <2>2. CASE p \in Reasons
    BY <2>2, <1>5 DEF Shows, LossAdded
  <2> QED BY <2>1, <2>2 DEF PlaceNames, OtherPlaces
<1> QED BY <1>1, <1>4, <1>5, LinesMoved

\* The buffer goes with its handle.
LEMMA BufferLost ==
  ASSUME NEW queue, NEW buffer, NEW fs, NEW err, NEW ref, NEW gone, NEW more, NEW n,
         Accounted(queue, buffer, fs, err, ref, gone, n), LossAdded(gone, more, "buffered", ToSet(buffer))
  PROVE  Accounted(queue, <<>>, fs, err, ref, more, n)
<1> DEFINE none == <<>>
           P == PlacesOf(queue, buffer, fs, err, ref, gone)
           Q == PlacesOf(queue, none, fs, err, ref, more)
           rotated == gone["rotated"]
<1>1. /\ TypedLines(queue, buffer, fs, err, ref, gone) /\ n \in Nat
      /\ Lanes(fs, buffer, queue, rotated) /\ Placed(P, n)
  BY DEF Accounted
<1>2. /\ more["rotated"] = rotated /\ more \in [Reasons -> SUBSET Int]
  BY DEF LossAdded, Reasons
<1>3. none \in Lines /\ Increasing(none) /\ ToSet(none) = {}
  BY NoLines
<1>6. none = <<>>
  OBVIOUS
<1> HIDE DEF none
<1>4. TypedLines(queue, none, fs, err, ref, more)
  BY <1>1, <1>2, <1>3 DEF TypedLines
<1>5. Lanes(fs, none, queue, rotated)
  BY <1>1, <1>3 DEF Lanes, Below
<1>7. Shows(P, queue, buffer, fs, err, ref, gone) /\ Shows(Q, queue, none, fs, err, ref, more)
  BY ONLY <1>1, <1>4, PlacesShow
<1> HIDE DEF P, Q
<1>8. /\ "buffer" \in OtherPlaces /\ P["buffer"] = ToSet(buffer) /\ Q["buffer"] = {}
      /\ \A p \in OtherPlaces : p # "buffer" => Q[p] = P[p]
  BY <1>3, <1>7 DEF Shows, OtherPlaces
<1>9. "buffered" \in Reasons /\ ToSet(buffer) \subseteq P["buffer"] /\ Q["buffer"] = P["buffer"] \ ToSet(buffer)
  BY <1>8 DEF Reasons
<1>10. Placed(Q, n)
  BY <1>1, <1>7, <1>8, <1>9, GivenUp
<1> QED BY <1>1, <1>2, <1>4, <1>5, <1>6, <1>10 DEF Accounted, Q

\* The deadline of the drain.
LEMMA QueueDropped ==
  ASSUME NEW queue, NEW buffer, NEW fs, NEW err, NEW ref, NEW gone, NEW more, NEW n,
         Accounted(queue, buffer, fs, err, ref, gone, n), LossAdded(gone, more, "deadline", ToSet(queue))
  PROVE  Accounted(<<>>, buffer, fs, err, ref, more, n)
<1> DEFINE none == <<>>
           P == PlacesOf(queue, buffer, fs, err, ref, gone)
           Q == PlacesOf(none, buffer, fs, err, ref, more)
           rotated == gone["rotated"]
<1>1. /\ TypedLines(queue, buffer, fs, err, ref, gone) /\ n \in Nat
      /\ Lanes(fs, buffer, queue, rotated) /\ Placed(P, n) /\ (buffer # <<>> => fs[0].there)
  BY DEF Accounted
<1>2. /\ more["rotated"] = rotated /\ more \in [Reasons -> SUBSET Int]
  BY DEF LossAdded, Reasons
<1>3. none \in Lines /\ Increasing(none) /\ ToSet(none) = {}
  BY NoLines
<1>6. none = <<>>
  OBVIOUS
<1> HIDE DEF none
<1>4. TypedLines(none, buffer, fs, err, ref, more)
  BY <1>1, <1>2, <1>3 DEF TypedLines
<1>5. Lanes(fs, buffer, none, rotated)
  BY <1>1, <1>3 DEF Lanes, Below
<1>7. Shows(P, queue, buffer, fs, err, ref, gone) /\ Shows(Q, none, buffer, fs, err, ref, more)
  BY ONLY <1>1, <1>4, PlacesShow
<1> HIDE DEF P, Q
<1>8. /\ "queue" \in OtherPlaces /\ P["queue"] = ToSet(queue) /\ Q["queue"] = {}
      /\ \A p \in OtherPlaces : p # "queue" => Q[p] = P[p]
  BY <1>3, <1>7 DEF Shows, OtherPlaces
<1>9. "deadline" \in Reasons /\ ToSet(queue) \subseteq P["queue"] /\ Q["queue"] = P["queue"] \ ToSet(queue)
  BY <1>8 DEF Reasons
<1>10. Placed(Q, n)
  <2> DEFINE place == "queue"
             reason == "deadline"
             what == ToSet(queue)
  <2>1. /\ place \in OtherPlaces /\ reason \in Reasons /\ what \subseteq P[place] /\ Q[place] = P[place] \ what
        /\ \A p \in OtherPlaces : p # place => Q[p] = P[p]
        /\ LossAdded(gone, more, reason, what)
    BY <1>8, <1>9
  <2>2. Placed(P, n) /\ n \in Nat
    BY <1>1
  <2> HIDE DEF place, reason, what
  <2> QED BY ONLY <2>1, <2>2, <1>7, GivenUp
<1> QED BY <1>1, <1>2, <1>4, <1>5, <1>6, <1>10 DEF Accounted, Q

\* A rotation gives up the oldest lines of the disk.
LEMMA RotatedAway ==
  ASSUME NEW queue, NEW fs, NEW gs, NEW err, NEW ref, NEW gone, NEW more, NEW n,
         Accounted(queue, <<>>, fs, err, ref, gone, n), Rotating(fs, gs),
         LossAdded(gone, more, "rotated", LinesOnDisk(fs) \ LinesOnDisk(gs))
  PROVE  Accounted(queue, <<>>, gs, err, ref, more, n)
<1> DEFINE none == <<>>
           P == PlacesOf(queue, none, fs, err, ref, gone)
           Q == PlacesOf(queue, none, gs, err, ref, more)
           old == LinesOnDisk(fs)
           new == LinesOnDisk(gs)
           rotated == gone["rotated"]
<1>1. /\ TypedLines(queue, none, fs, err, ref, gone) /\ n \in Nat
      /\ Lanes(fs, none, queue, rotated) /\ Placed(P, n)
  BY DEF Accounted
<1>2. /\ more["rotated"] = rotated \cup (old \ new) /\ more \in [Reasons -> SUBSET Int]
  BY DEF LossAdded, Reasons
<1>3. gs \in DiskSet /\ FilesInOrder(gs) /\ new \subseteq old /\ Below(old \ new, new)
  BY DEF Rotating
<1>6. none = <<>> /\ ToSet(none) = {}
  BY NoLines
<1> HIDE DEF none
<1>4. TypedLines(queue, none, gs, err, ref, more)
  BY <1>1, <1>2, <1>3 DEF TypedLines
<1>5. Lanes(gs, none, queue, more["rotated"])
  <2>1. /\ Increasing(none) /\ Increasing(queue) /\ Below(old, ToSet(queue)) /\ Below(rotated, old)
        /\ Below(rotated, ToSet(queue))
    BY <1>1 DEF Lanes
  <2> HIDE DEF old, new, rotated
  <2>2. \A A : Below(A, ToSet(none)) /\ Below(ToSet(none), A)
    BY <1>6, NoLines
  <2>3. Below(new, ToSet(queue))
    BY <2>1, <1>3 DEF Below
  <2>4. Below(more["rotated"], new)
    BY <2>1, <1>2, <1>3 DEF Below
  <2>5. Below(more["rotated"], ToSet(queue))
    BY <2>1, <1>2, <1>3 DEF Below
  <2> QED BY <2>1, <2>2, <2>3, <2>4, <2>5, <1>3 DEF Lanes, new
<1>7. Shows(P, queue, none, fs, err, ref, gone) /\ Shows(Q, queue, none, gs, err, ref, more)
  BY ONLY <1>1, <1>4, PlacesShow
<1> HIDE DEF P, Q
<1>8. /\ "disk" \in OtherPlaces /\ P["disk"] = old /\ Q["disk"] = new
      /\ \A p \in OtherPlaces : p # "disk" => Q[p] = P[p]
  BY <1>7 DEF Shows, OtherPlaces
<1>9. "rotated" \in Reasons /\ old \ new \subseteq P["disk"] /\ Q["disk"] = P["disk"] \ (old \ new)
  BY <1>3, <1>8 DEF Reasons
<1>10. Placed(Q, n)
  BY <1>1, <1>7, <1>8, <1>9, GivenUp
<1> QED BY <1>1, <1>4, <1>5, <1>6, <1>10 DEF Accounted, Q

\* AsyncWriter::write: the channel takes the line.
LEMMA LineQueued ==
  ASSUME NEW queue, NEW buffer, NEW fs, NEW err, NEW ref, NEW gone, NEW n,
         Accounted(queue, buffer, fs, err, ref, gone, n)
  PROVE  Accounted(Append(queue, n + 1), buffer, fs, err, ref, gone, n + 1)
<1> DEFINE more == Append(queue, n + 1)
           P == PlacesOf(queue, buffer, fs, err, ref, gone)
           Q == PlacesOf(more, buffer, fs, err, ref, gone)
           rotated == gone["rotated"]
<1>1. /\ TypedLines(queue, buffer, fs, err, ref, gone) /\ n \in Nat /\ (buffer # <<>> => fs[0].there)
      /\ Lanes(fs, buffer, queue, rotated) /\ Placed(P, n)
  BY DEF Accounted
<1>2. Shows(P, queue, buffer, fs, err, ref, gone)
  BY ONLY <1>1, PlacesShow
<1>3. \A p \in PlaceNames : Below(P[p], {n + 1})
  <2> HIDE DEF P
  <2> QED BY <1>1, <1>2 DEF Placed, Shows, PlaceSet, Below
<1> HIDE DEF P
<1>4. /\ Below(ToSet(queue), {n + 1}) /\ Below(ToSet(buffer), {n + 1}) /\ Below(LinesOnDisk(fs), {n + 1})
      /\ Below(rotated, {n + 1})
  BY <1>2, <1>3 DEF Shows, PlaceNames, Reasons
<1>5. queue \in Lines /\ Increasing(queue) /\ n + 1 \in Int
  BY <1>1 DEF Lanes, TypedLines
<1>6. more \in Lines /\ Increasing(more) /\ ToSet(more) = ToSet(queue) \cup {n + 1}
  <2> DEFINE x == n + 1
  <2>1. Below(ToSet(queue), {x}) /\ x \in Int
    BY <1>4, <1>5
  <2> HIDE DEF x
  <2>2. Append(queue, x) \in Lines /\ Increasing(Append(queue, x)) /\ ToSet(Append(queue, x)) = ToSet(queue) \cup {x}
    BY <2>1, <1>5, AddedLast
  <2> QED BY <2>2 DEF x
<1> HIDE DEF more
<1>7. TypedLines(more, buffer, fs, err, ref, gone)
  BY <1>1, <1>6 DEF TypedLines
<1>8. Lanes(fs, buffer, more, rotated)
  BY <1>1, <1>4, <1>6 DEF Lanes, Below
<1>9. Shows(Q, more, buffer, fs, err, ref, gone)
  BY ONLY <1>7, PlacesShow
<1> HIDE DEF Q
<1>10. "queue" \in PlaceNames /\ P \in PlaceSet /\ Q \in PlaceSet /\ Q["queue"] = P["queue"] \cup {n + 1}
  BY <1>2, <1>6, <1>9 DEF Shows, PlaceNames
<1>11. \A p \in PlaceNames : p # "queue" => Q[p] = P[p]
  BY <1>2, <1>9 DEF Shows, PlaceNames
<1>12. Placed(Q, n + 1)
  BY <1>1, <1>10, <1>11, LineLogged
<1> QED BY <1>1, <1>7, <1>8, <1>12 DEF Accounted, Q, more

\* AsyncWriter::write: the channel does not take the line.
LEMMA LineHeld ==
  ASSUME NEW queue, NEW buffer, NEW fs, NEW err, NEW gone, NEW n,
         Accounted(queue, buffer, fs, err, NoLine, gone, n)
  PROVE  Accounted(queue, buffer, fs, err, n + 1, gone, n + 1)
<1> DEFINE ref == n + 1
           P == PlacesOf(queue, buffer, fs, err, NoLine, gone)
           Q == PlacesOf(queue, buffer, fs, err, ref, gone)
           rotated == gone["rotated"]
<1>1. /\ TypedLines(queue, buffer, fs, err, NoLine, gone) /\ n \in Nat /\ (buffer # <<>> => fs[0].there)
      /\ Lanes(fs, buffer, queue, rotated) /\ Placed(P, n)
  BY DEF Accounted
<1>2. ref \in Nat /\ ref # NoLine /\ ref = n + 1
  BY <1>1 DEF NoLine
<1> HIDE DEF ref
<1>3. TypedLines(queue, buffer, fs, err, ref, gone)
  BY <1>1, <1>2 DEF TypedLines
<1>4. Shows(P, queue, buffer, fs, err, NoLine, gone) /\ Shows(Q, queue, buffer, fs, err, ref, gone)
  BY ONLY <1>1, <1>3, PlacesShow
<1> HIDE DEF P, Q
<1>5. "producer" \in PlaceNames /\ P \in PlaceSet /\ Q \in PlaceSet /\ Q["producer"] = P["producer"] \cup {n + 1}
  BY <1>2, <1>4 DEF Shows, PlaceNames
<1>6. \A p \in PlaceNames : p # "producer" => Q[p] = P[p]
  BY <1>4 DEF Shows, PlaceNames
<1>7. Placed(Q, n + 1)
  BY <1>1, <1>5, <1>6, LineLogged
<1> QED BY <1>1, <1>3, <1>7 DEF Accounted, Q, ref

\* The refused line is printed, or discarded.
LEMMA HeldToStderr ==
  ASSUME NEW queue, NEW buffer, NEW fs, NEW err, NEW ref, NEW gone, NEW n,
         Accounted(queue, buffer, fs, err, ref, gone, n), ref # NoLine
  PROVE  Accounted(queue, buffer, fs, err \cup {ref}, NoLine, gone, n)
<1> DEFINE more == err \cup {ref}
           P == PlacesOf(queue, buffer, fs, err, ref, gone)
           Q == PlacesOf(queue, buffer, fs, more, NoLine, gone)
           rotated == gone["rotated"]
<1>1. /\ TypedLines(queue, buffer, fs, err, ref, gone) /\ n \in Nat /\ (buffer # <<>> => fs[0].there)
      /\ Lanes(fs, buffer, queue, rotated) /\ Placed(P, n)
  BY DEF Accounted
<1>3. TypedLines(queue, buffer, fs, more, NoLine, gone)
  BY <1>1 DEF TypedLines, NoLine
<1> HIDE DEF more
<1>4. Shows(P, queue, buffer, fs, err, ref, gone) /\ Shows(Q, queue, buffer, fs, more, NoLine, gone)
  BY ONLY <1>1, <1>3, PlacesShow
<1> HIDE DEF P, Q
<1>5. /\ "producer" \in PlaceNames /\ "stderr" \in PlaceNames /\ "producer" # "stderr"
      /\ P \in PlaceSet /\ Q \in PlaceSet
      /\ P["producer"] = {ref} /\ Q["producer"] = {} /\ P["stderr"] = err /\ Q["stderr"] = err \cup {ref}
  BY <1>4 DEF Shows, PlaceNames, more
<1>6. \A p \in PlaceNames : p # "producer" /\ p # "stderr" => Q[p] = P[p]
  BY <1>4 DEF Shows, PlaceNames
<1>8. Q["producer"] \cup Q["stderr"] = P["producer"] \cup P["stderr"] /\ Q["producer"] \cap Q["stderr"] = {}
  BY <1>5
<1>7. Placed(Q, n)
  BY <1>1, <1>5, <1>6, <1>8, LinesMoved
<1> QED BY <1>1, <1>3, <1>7 DEF Accounted, Q, more

\* A refused line that has nowhere to go is lost.
LEMMA HeldLost ==
  ASSUME NEW queue, NEW buffer, NEW fs, NEW err, NEW ref, NEW gone, NEW more, NEW n,
         Accounted(queue, buffer, fs, err, ref, gone, n), ref # NoLine,
         LossAdded(gone, more, "refused", {ref})
  PROVE  Accounted(queue, buffer, fs, err, NoLine, more, n)
<1> DEFINE P == PlacesOf(queue, buffer, fs, err, ref, gone)
           Q == PlacesOf(queue, buffer, fs, err, NoLine, more)
           rotated == gone["rotated"]
<1>1. /\ TypedLines(queue, buffer, fs, err, ref, gone) /\ n \in Nat /\ (buffer # <<>> => fs[0].there)
      /\ Lanes(fs, buffer, queue, rotated) /\ Placed(P, n)
  BY DEF Accounted
<1>2. /\ more["rotated"] = rotated /\ more \in [Reasons -> SUBSET Int]
  BY DEF LossAdded, Reasons
<1>3. TypedLines(queue, buffer, fs, err, NoLine, more)
  BY <1>1, <1>2 DEF TypedLines, NoLine
<1>4. Shows(P, queue, buffer, fs, err, ref, gone) /\ Shows(Q, queue, buffer, fs, err, NoLine, more)
  BY ONLY <1>1, <1>3, PlacesShow
<1> HIDE DEF P, Q
<1>5. /\ "producer" \in OtherPlaces /\ P["producer"] = {ref} /\ Q["producer"] = {}
      /\ \A p \in OtherPlaces : p # "producer" => Q[p] = P[p]
  BY <1>4 DEF Shows, OtherPlaces
<1>6. "refused" \in Reasons /\ {ref} \subseteq P["producer"] /\ Q["producer"] = P["producer"] \ {ref}
  BY <1>5 DEF Reasons
<1>7. Placed(Q, n)
  <2> DEFINE place == "producer"
             reason == "refused"
             what == {ref}
  <2>1. /\ place \in OtherPlaces /\ reason \in Reasons /\ what \subseteq P[place] /\ Q[place] = P[place] \ what
        /\ \A p \in OtherPlaces : p # place => Q[p] = P[p]
        /\ LossAdded(gone, more, reason, what)
    BY <1>5, <1>6
  <2>2. Placed(P, n) /\ n \in Nat
    BY <1>1
  <2> HIDE DEF place, reason, what
  <2> QED BY ONLY <2>1, <2>2, <1>4, GivenUp
<1> QED BY <1>1, <1>2, <1>3, <1>7 DEF Accounted, Q

Handles == [open : BOOLEAN, buffer : Lines, written : Nat]

LogInv ==
  /\ Accounted(logQueue, logFile.buffer, files, stderr, refused, lost, produced)
  /\ logFile \in Handles
  /\ logFile.open => files[0].there
  /\ ~logFile.open => logFile.buffer = <<>>
  /\ logger.pc \in {"closed", "drain", "flush", "done"} => logClosed
  /\ logger.pc \in {"flush", "done"} => logQueue = <<>>

\* Nothing is pending of a buffer that reached the disk whole.
LEMMA PendingAll ==
  ASSUME NEW buffer \in Lines
  PROVE  PendingOf(buffer, Len(buffer)) = <<>> /\ Len(buffer) \in 0..Len(buffer)
  BY DEF PendingOf, Lines

\* NoFile is a closed handle without a buffer.
LEMMA NoFileIs ==
  NoFile \in Handles /\ ~NoFile.open /\ NoFile.buffer = <<>>
  BY NoLines DEF NoFile, Handles

\* A flush: the whole buffer reaches the disk.
LEMMA FlushedLines ==
  ASSUME LogInv
  PROVE  /\ Accounted(logQueue, <<>>, Flushed, stderr, refused, lost, produced)
         /\ Flushed \in DiskSet /\ FilesInOrder(Flushed) /\ Flushed[0].there = files[0].there
<1> DEFINE buffer == logFile.buffer
           k == Len(buffer)
<1>1. Accounted(logQueue, buffer, files, stderr, refused, lost, produced) /\ buffer \in Lines
  BY DEF LogInv, Handles
<1>2. Flushed = ReachedBy(files, buffer, k)
  BY DEF Flushed, Reached, ReachedBy
<1> HIDE DEF buffer
<1>3. PendingOf(buffer, k) = <<>> /\ k \in 0..Len(buffer)
  BY <1>1, PendingAll
<1> HIDE DEF k
<1>4. /\ Accounted(logQueue, PendingOf(buffer, k), ReachedBy(files, buffer, k), stderr, refused, lost, produced)
      /\ ReachedBy(files, buffer, k)[0].there = files[0].there
  BY ONLY LogAssumption, <1>1, <1>3, DiskReached
<1>5. Accounted(logQueue, <<>>, Flushed, stderr, refused, lost, produced)
  BY <1>2, <1>3, <1>4
<1>6. Flushed \in DiskSet /\ FilesInOrder(Flushed)
  BY <1>5 DEF Accounted, TypedLines, Lanes
<1> QED BY <1>2, <1>4, <1>5, <1>6

\* A failed call: the handle is dropped with what had not reached the disk.
LEMMA FailedLines ==
  ASSUME LogInv, FileFails
  PROVE  /\ Accounted(logQueue, <<>>, files', stderr, refused, lost', produced)
         /\ logFile' = NoFile
<1> DEFINE buffer == logFile.buffer
<1>1. Accounted(logQueue, buffer, files, stderr, refused, lost, produced) /\ buffer \in Lines
  BY DEF LogInv, Handles
<1>2. PICK k \in 0..(Len(buffer) - 1) :
        /\ files' = Reached(k)
        /\ lost' = [lost EXCEPT !["buffered"] = @ \cup ToSet(Pending(k))]
        /\ logFile' = NoFile
  BY DEF FileFails
<1>3. files' = ReachedBy(files, buffer, k) /\ Pending(k) = PendingOf(buffer, k)
  BY <1>2 DEF Reached, ReachedBy, Pending, PendingOf
<1>4. k \in 0..Len(buffer)
  BY <1>1, <1>2 DEF Lines
<1> DEFINE rest == PendingOf(buffer, k)
           gs == ReachedBy(files, buffer, k)
<1> HIDE DEF buffer
<1>5. Accounted(logQueue, rest, gs, stderr, refused, lost, produced)
  BY ONLY LogAssumption, <1>1, <1>4, DiskReached
<1>6. lost' = [lost EXCEPT !["buffered"] = @ \cup ToSet(rest)]
  BY <1>2, <1>3
<1> HIDE DEF rest, gs
<1>7. LossAdded(lost, lost', "buffered", ToSet(rest))
  <2>1. lost \in [Reasons -> SUBSET Int] /\ rest \in Lines
    BY <1>5 DEF Accounted, TypedLines
  <2>2. ToSet(rest) \subseteq Int
    BY <2>1, ToSetType
  <2> DEFINE what == ToSet(rest)
  <2>3. lost' = [lost EXCEPT !["buffered"] = @ \cup what] /\ what \subseteq Int
    BY <1>6, <2>2
  <2> HIDE DEF what
  <2>4. LossAdded(lost, lost', "buffered", what)
    BY <2>1, <2>3 DEF LossAdded, Reasons
  <2> QED BY <2>4 DEF what
<1>8. Accounted(logQueue, <<>>, gs, stderr, refused, lost', produced)
  BY ONLY <1>5, <1>7, BufferLost
<1> QED BY <1>2, <1>3, <1>8 DEF gs

\* A line of the channel is written to the file.
LEMMA WrittenLines ==
  ASSUME LogInv, logFile.open, logQueue # <<>>, WriteAll(Head(logQueue))
  PROVE  /\ Accounted(Tail(logQueue), logFile'.buffer, files', stderr', refused, lost', produced)
         /\ logFile' \in Handles /\ logFile'.open /\ files'[0].there
<1> DEFINE buffer == logFile.buffer
           head == Head(logQueue)
<1>1. /\ Accounted(logQueue, buffer, files, stderr, refused, lost, produced) /\ buffer \in Lines
      /\ files[0].there /\ logFile \in Handles
  BY DEF LogInv, Handles
<1>2. PICK k \in 0..Len(buffer) :
        /\ files' = Reached(k)
        /\ logFile' = [logFile EXCEPT !.buffer = Append(Pending(k), head), !.written = @ + 1]
  BY DEF WriteAll
<1>3. files' = ReachedBy(files, buffer, k) /\ Pending(k) = PendingOf(buffer, k)
  BY <1>2 DEF Reached, ReachedBy, Pending, PendingOf
<1>4. stderr' = stderr /\ lost' = lost
  BY DEF WriteAll
<1> DEFINE rest == PendingOf(buffer, k)
           gs == ReachedBy(files, buffer, k)
           more == Append(rest, head)
<1>5. logFile' = [logFile EXCEPT !.buffer = more, !.written = @ + 1]
  BY <1>2, <1>3
<1> HIDE DEF buffer, head
<1>6. Accounted(logQueue, rest, gs, stderr, refused, lost, produced) /\ gs[0].there = files[0].there
  <2>1. k \in 0..Len(buffer)
    OBVIOUS
  <2>2. LogAssumption /\ Accounted(logQueue, buffer, files, stderr, refused, lost, produced)
    BY <1>1, LogAssumption
  <2> QED BY ONLY <2>1, <2>2, DiskReached DEF rest, gs
<1> HIDE DEF rest, gs
<1>7. Accounted(Tail(logQueue), more, gs, stderr, refused, lost, produced)
  BY <1>1, <1>6, HeadBuffered DEF head
<1> HIDE DEF more
<1>8. more \in Lines
  BY <1>7 DEF Accounted, TypedLines
<1>9. logFile' \in Handles /\ logFile'.open /\ logFile'.buffer = more
  <2> DEFINE w == logFile.written + 1
  <2>1. w \in Nat /\ logFile' = [logFile EXCEPT !.buffer = more, !.written = w] /\ logFile.open = TRUE
    BY <1>1, <1>5 DEF Handles
  <2> HIDE DEF w
  <2>2. logFile' = [open |-> TRUE, buffer |-> more, written |-> w]
    BY <2>1, <1>1 DEF Handles
  <2> QED BY <2>1, <2>2, <1>8 DEF Handles
<1> QED BY <1>1, <1>3, <1>4, <1>6, <1>7, <1>9 DEF gs

\* A line of the channel is taken, whatever becomes of it.
LEMMA LineTaken ==
  ASSUME LogInv, logQueue # <<>>, refused' = refused, produced' = produced,
         logQueue' = Tail(logQueue),
         \/ logFile.open /\ WriteAll(Head(logQueue))
         \/ logFile.open /\ WriteFails(Head(logQueue))
         \/ ~logFile.open /\ ToStderr(Head(logQueue))
  PROVE  /\ Accounted(logQueue, logFile.buffer, files, stderr, refused, lost, produced)'
         /\ (logFile \in Handles)'
         /\ (logFile.open => files[0].there)'
         /\ (~logFile.open => logFile.buffer = <<>>)'
<1> DEFINE head == Head(logQueue)
           tail == Tail(logQueue)
<1>1. CASE logFile.open /\ WriteAll(Head(logQueue))
  BY <1>1, WrittenLines
<1>2. CASE logFile.open /\ WriteFails(Head(logQueue))
  <2>1. /\ Accounted(logQueue, <<>>, files', stderr, refused, lost', produced)
        /\ logFile' = NoFile
    BY <1>2, FailedLines DEF WriteFails
  <2>2. Accounted(tail, <<>>, files', stderr \cup {head}, refused, lost', produced)
    BY <2>1, HeadToStderr
  <2>3. stderr' = stderr \cup {head}
    BY <1>2 DEF WriteFails
  <2> QED BY <2>1, <2>2, <2>3, NoFileIs
<1>3. CASE ~logFile.open /\ ToStderr(Head(logQueue))
  <2>1. Accounted(tail, logFile.buffer, files, stderr \cup {head}, refused, lost, produced)
    BY HeadToStderr DEF LogInv
  <2>2. stderr' = stderr \cup {head} /\ logFile' = logFile /\ files' = files /\ lost' = lost
    BY <1>3 DEF ToStderr
  <2> QED BY <2>1, <2>2 DEF LogInv
<1> QED BY <1>1, <1>2, <1>3

\* The places of the property are those of the invariant.
LEMMA PlacesAre ==
  Places = PlacesOf(logQueue, logFile.buffer, files, stderr, refused, lost)
  BY DEF Places, PlacesOf

\* What the invariant gives.
LEMMA LogInvAccounts ==
  ASSUME LogInv
  PROVE  LinesAccounted
<1> DEFINE P == PlacesOf(logQueue, logFile.buffer, files, stderr, refused, lost)
           rotated == lost["rotated"]
<1>1. /\ TypedLines(logQueue, logFile.buffer, files, stderr, refused, lost)
      /\ Lanes(files, logFile.buffer, logQueue, rotated) /\ Placed(P, produced)
  BY DEF LogInv, Accounted
<1>2. InOnePlace
  <2> HIDE DEF P
  <2>1. /\ \A line \in 1..produced : \E p \in PlaceNames : line \in P[p]
        /\ \A p, q \in PlaceNames : p # q => P[p] \cap P[q] = {}
    BY <1>1 DEF Placed
  <2>2. \A p \in PlaceNames : \A line \in P[p] : \A q \in PlaceNames \ {p} : line \notin P[q]
    BY <2>1
  <2>3. Places = P
    BY PlacesAre DEF P
  <2> QED BY <2>1, <2>2, <2>3 DEF InOnePlace
<1> HIDE DEF rotated
<1>3. /\ MaxBackups \in Nat
      /\ \A k \in Ages : \/ k = MaxBackups + 3 /\ LinesOfAge(k) = logQueue
                         \/ k = MaxBackups + 2 /\ LinesOfAge(k) = logFile.buffer
                         \/ /\ k \in 0..(MaxBackups + 1) /\ MaxBackups + 1 - k \in Indices
                            /\ LinesOfAge(k) = files[MaxBackups + 1 - k].lines
  <2>1. MaxBackups \in Nat
    BY LogAssumption DEF LogAssumption
  <2>2. \A k \in Ages : k = MaxBackups + 3 \/ k = MaxBackups + 2 \/ k \in 0..(MaxBackups + 1)
    BY <2>1 DEF Ages
  <2>3. \A k \in 0..(MaxBackups + 1) : MaxBackups + 1 - k \in Indices /\ k # MaxBackups + 3 /\ k # MaxBackups + 2
    BY <2>1 DEF Indices
  <2>4. MaxBackups + 2 # MaxBackups + 3
    BY <2>1
  <2> QED BY <2>1, <2>2, <2>3, <2>4 DEF LinesOfAge
<1>4. /\ files \in DiskSet /\ FilesInOrder(files)
      /\ Increasing(logFile.buffer) /\ Increasing(logQueue)
      /\ Below(LinesOnDisk(files), ToSet(logFile.buffer)) /\ Below(LinesOnDisk(files), ToSet(logQueue))
      /\ Below(ToSet(logFile.buffer), ToSet(logQueue))
      /\ Below(rotated, LinesOnDisk(files)) /\ Below(rotated, ToSet(logFile.buffer))
      /\ Below(rotated, ToSet(logQueue))
      /\ logQueue \in Lines /\ logFile.buffer \in Lines
  BY <1>1 DEF Lanes, TypedLines
<1>5. \A i \in Indices : ToSet(files[i].lines) \subseteq LinesOnDisk(files) /\ files[i].lines \in Lines
  BY <1>4, DiskLines
<1>6. \A k \in Ages : LinesOfAge(k) \in Lines /\ Increasing(LinesOfAge(k)) /\ Below(rotated, ToSet(LinesOfAge(k)))
  <2> TAKE k \in Ages
  <2>1. CASE k \in 0..(MaxBackups + 1) /\ MaxBackups + 1 - k \in Indices
             /\ LinesOfAge(k) = files[MaxBackups + 1 - k].lines
    BY <2>1, <1>4, <1>5 DEF Below, FilesInOrder
  <2> QED BY <2>1, <1>3, <1>4
<1>7. \A k, l \in Ages : k < l => Below(ToSet(LinesOfAge(k)), ToSet(LinesOfAge(l)))
  <2> SUFFICES ASSUME NEW k \in Ages, NEW l \in Ages, k < l
               PROVE  Below(ToSet(LinesOfAge(k)), ToSet(LinesOfAge(l)))
    OBVIOUS
  <2>1. CASE l \in 0..(MaxBackups + 1)
    <3> DEFINE i == MaxBackups + 1 - k
               j == MaxBackups + 1 - l
    <3>1. /\ i \in Indices /\ j \in Indices /\ j < i
          /\ LinesOfAge(k) = files[i].lines /\ LinesOfAge(l) = files[j].lines
      BY <1>3, <2>1 DEF Ages
    <3> HIDE DEF i, j
    <3> QED BY <3>1, <1>4 DEF FilesInOrder
  <2>2. CASE l = MaxBackups + 2
    <3>1. LinesOfAge(l) = logFile.buffer
      BY <1>3, <2>2
    <3> DEFINE i == MaxBackups + 1 - k
    <3>2. i \in Indices /\ LinesOfAge(k) = files[i].lines
      BY <1>3, <2>2 DEF Ages
    <3> HIDE DEF i
    <3> QED BY <3>1, <3>2, <1>4, <1>5 DEF Below
  <2>3. CASE l = MaxBackups + 3
    <3>1. LinesOfAge(l) = logQueue
      BY <1>3, <2>3
    <3>2. CASE k = MaxBackups + 2
      <4>1. LinesOfAge(k) = logFile.buffer
        BY <1>3, <3>2
      <4> QED BY <3>1, <4>1, <1>4
    <3>3. CASE k # MaxBackups + 2
      <4> DEFINE i == MaxBackups + 1 - k
      <4>2. i \in Indices /\ LinesOfAge(k) = files[i].lines
        BY <1>3, <2>3, <3>3 DEF Ages
      <4> HIDE DEF i
      <4> QED BY <3>1, <4>2, <1>4, <1>5 DEF Below
    <3> QED BY <3>2, <3>3
  <2> QED BY <2>1, <2>2, <2>3, <1>3 DEF Ages
<1>8. \A k \in Ages : /\ DOMAIN LinesOfAge(k) = 1..Len(LinesOfAge(k))
                      /\ \A m \in DOMAIN LinesOfAge(k) : LinesOfAge(k)[m] \in ToSet(LinesOfAge(k))
  <2> TAKE k \in Ages
  <2> DEFINE s == LinesOfAge(k)
  <2>1. s \in Lines
    BY <1>6
  <2> HIDE DEF s
  <2>2. DOMAIN s = 1..Len(s) /\ \A m \in DOMAIN s : s[m] \in ToSet(s)
    BY <2>1, ToSetType DEF Lines
  <2> QED BY <2>2 DEF s
<1>9. InLogOrder
  <2>1. ASSUME NEW k \in Ages, NEW l \in Ages, NEW m \in DOMAIN LinesOfAge(k), NEW n \in DOMAIN LinesOfAge(l),
               k < l \/ (k = l /\ m < n)
        PROVE  LinesOfAge(k)[m] < LinesOfAge(l)[n]
    <3>1. CASE k < l
      BY <3>1, <1>7, <1>8 DEF Below
    <3>2. CASE k = l /\ m < n
      BY <3>2, <1>6, <1>8 DEF Increasing
    <3> QED BY <2>1, <3>1, <3>2
  <2>2. ASSUME NEW old \in rotated, NEW k \in Ages, NEW m \in DOMAIN LinesOfAge(k)
        PROVE  old < LinesOfAge(k)[m]
    BY <1>6, <1>8 DEF Below
  <2> QED BY <2>1, <2>2 DEF InLogOrder, rotated
<1> QED BY <1>2, <1>9 DEF LinesAccounted, LogInv

\* Where the service is after a step.
LEMMA AtIs ==
  \A pc, left : At(pc, left) => logger'.pc = pc
  BY DEF At

\* The files found at startup.
LEMMA FilesFound ==
  ASSUME NEW existing \in Nat, NEW fs,
         fs = [i \in Indices |-> IF i < existing THEN FileWith(<<-(i + 1)>>)
                                 ELSE IF i = 0 THEN FileWith(<<>>) ELSE Absent]
  PROVE  fs \in DiskSet /\ FilesInOrder(fs) /\ fs[0].there /\ \A line \in LinesOnDisk(fs) : line < 0
<1>1. MaxBackups \in Nat /\ 0 \in Indices /\ Indices \subseteq Nat
  BY LogAssumption DEF LogAssumption, Indices
<1>2. ASSUME NEW i \in Indices
      PROVE  /\ <<-(i + 1)>> \in Lines /\ Increasing(<<-(i + 1)>>) /\ ToSet(<<-(i + 1)>>) = {-(i + 1)}
  <2> DEFINE one == <<-(i + 1)>>
  <2>1. one \in Lines /\ Len(one) = 1 /\ one[1] = -(i + 1)
    BY <1>1 DEF Lines
  <2> HIDE DEF one
  <2>2. ToSet(one) = {one[j] : j \in 1..1}
    BY <2>1, ToSetType
  <2>3. ToSet(one) = {-(i + 1)}
    BY <2>1, <2>2
  <2>4. Increasing(one)
    BY <2>1 DEF Increasing
  <2> QED BY <2>1, <2>3, <2>4 DEF one
<1>3. ASSUME NEW i \in Indices
      PROVE  /\ fs[i] \in FileSet /\ Increasing(fs[i].lines) /\ (~fs[i].there => fs[i].lines = <<>>)
             /\ ToSet(fs[i].lines) \subseteq {-(i + 1)}
             /\ i = 0 => fs[i].there
  <2> DEFINE one == <<-(i + 1)>>
             none == <<>>
  <2>1. /\ one \in Lines /\ Increasing(one) /\ ToSet(one) = {-(i + 1)}
        /\ none \in Lines /\ Increasing(none) /\ ToSet(none) = {} /\ none = <<>>
    BY <1>2, NoLines
  <2>2. \/ fs[i] = FileWith(one) \/ fs[i] = FileWith(none) \/ (fs[i] = Absent /\ i # 0)
    OBVIOUS
  <2>4. Absent = [there |-> FALSE, lines |-> none]
    BY DEF Absent
  <2> HIDE DEF one, none
  <2>3. \/ fs[i] = [there |-> TRUE, lines |-> one] \/ fs[i] = [there |-> TRUE, lines |-> none]
        \/ (fs[i] = [there |-> FALSE, lines |-> none] /\ i # 0)
    BY <2>2, <2>4 DEF FileWith
  <2> DEFINE file == fs[i]
  <2>8. one \in Lines /\ none \in Lines
    BY <2>1
  <2> HIDE DEF file
  <2>5. ASSUME file = [there |-> TRUE, lines |-> one]
        PROVE  file \in FileSet /\ file.there /\ file.lines = one
    BY ONLY <2>8, <2>5 DEF FileSet
  <2>6. ASSUME file = [there |-> TRUE, lines |-> none]
        PROVE  file \in FileSet /\ file.there /\ file.lines = none
    BY ONLY <2>8, <2>6 DEF FileSet
  <2>7. ASSUME file = [there |-> FALSE, lines |-> none]
        PROVE  file \in FileSet /\ file.lines = none
    BY ONLY <2>8, <2>7 DEF FileSet
  <2> QED BY <2>1, <2>3, <2>5, <2>6, <2>7 DEF file
<1>4. fs \in DiskSet
  <2>1. fs = [i \in Indices |-> fs[i]]
    OBVIOUS
  <2> QED BY <2>1, <1>3 DEF DiskSet
<1>5. ASSUME NEW i \in Indices, NEW j \in Indices, i < j PROVE Below(ToSet(fs[j].lines), ToSet(fs[i].lines))
  <2>1. -(j + 1) < -(i + 1)
    BY <1>1, <1>5
  <2> QED BY <2>1, <1>3 DEF Below
<1>6. \A line \in LinesOnDisk(fs) : line < 0
  <2> TAKE line \in LinesOnDisk(fs)
  <2>1. PICK i \in Indices : line \in ToSet(fs[i].lines)
    BY <1>4, DiskLines
  <2>2. line = -(i + 1) /\ i \in Nat
    BY <2>1, <1>1, <1>3
  <2> QED BY <2>2
<1> QED BY <1>1, <1>3, <1>4, <1>5, <1>6 DEF FilesInOrder

\* The initial states satisfy the invariant: the files a former run left are in order.
LEMMA LogInitially ==
  ASSUME LogInit
  PROVE  LogInv
<1>1. PICK existing \in 0..MaxExisting :
        files = [i \in Indices |-> IF i < existing THEN FileWith(<<-(i + 1)>>)
                                   ELSE IF i = 0 THEN FileWith(<<>>) ELSE Absent]
  BY DEF LogInit
<1>0. existing \in Nat
  BY LogAssumption DEF LogAssumption
<1>2. files \in DiskSet /\ FilesInOrder(files) /\ files[0].there /\ \A line \in LinesOnDisk(files) : line < 0
  BY <1>0, <1>1, FilesFound
<1>3. logFile \in Handles /\ logFile.buffer = <<>>
  <2>1. 0 \in Indices
    BY LogAssumption DEF LogAssumption, Indices
  <2>2. Len(files[0].lines) \in Nat
    BY <2>1, <1>2 DEF DiskSet, FileSet, Lines
  <2>3. CASE logFile = NoFile
    BY <2>3, NoFileIs
  <2>4. CASE \E length \in {0, Len(files[0].lines)} : logFile = [open |-> TRUE, buffer |-> <<>>, written |-> length]
    BY <2>2, <2>4, NoLines DEF Handles
  <2> QED BY <2>3, <2>4 DEF LogInit
<1>4. /\ produced = 0 /\ refused = NoLine /\ logQueue = <<>> /\ logger.pc = "select"
      /\ stderr = {} /\ lost = [r \in Reasons |-> {}]
  BY DEF LogInit
<1> DEFINE none == <<>>
           P == PlacesOf(none, none, files, stderr, refused, lost)
<1>5. none \in Lines /\ ToSet(none) = {} /\ Increasing(none) /\ none = logQueue /\ none = logFile.buffer
  BY <1>3, <1>4, NoLines
<1>6. none = <<>>
  OBVIOUS
<1> HIDE DEF none
<1>7. TypedLines(none, none, files, stderr, refused, lost)
  BY <1>2, <1>4, <1>5 DEF TypedLines, NoLine
<1>8. Shows(P, none, none, files, stderr, refused, lost)
  BY ONLY <1>7, PlacesShow
<1> HIDE DEF P
<1>9. \A p \in PlaceNames : p # "disk" => P[p] = {}
  BY <1>4, <1>5, <1>8 DEF Shows, PlaceNames
<1>10. Placed(P, 0)
  BY <1>2, <1>8, <1>9 DEF Placed, Shows, PlaceSet
<1>11. Lanes(files, none, none, lost["rotated"])
  <2>1. lost["rotated"] = {}
    BY <1>4 DEF Reasons
  <2> QED BY <2>1, <1>2, <1>5, NoLines DEF Lanes
<1>12. Accounted(none, none, files, stderr, refused, lost, produced)
  BY <1>4, <1>6, <1>7, <1>10, <1>11 DEF Accounted, P
<1> QED BY <1>2, <1>3, <1>4, <1>5, <1>12 DEF LogInv

\* A line the channel takes is the last of its lane.
LEMMA LineAcceptedKeeps ==
  ASSUME LogInv, LineAccepted
  PROVE  LogInv'
<1>1. Accounted(Append(logQueue, produced + 1), logFile.buffer, files, stderr, refused, lost, produced + 1)
  BY LineQueued DEF LogInv
<1>2. logger.pc \notin {"closed", "drain", "flush", "done"}
  BY DEF LogInv, LineAccepted
<1> QED BY <1>1, <1>2 DEF LogInv, LineAccepted

\* A line the channel refuses is held by its producer.
LEMMA LineRefusedKeeps ==
  ASSUME LogInv, LineRefused
  PROVE  LogInv'
<1>1. Accounted(logQueue, logFile.buffer, files, stderr, NoLine, lost, produced)
  BY DEF LogInv, LineRefused
<1>2. Accounted(logQueue, logFile.buffer, files, stderr, produced + 1, lost, produced + 1)
  BY <1>1, LineHeld
<1> QED BY <1>2 DEF LogInv, LineRefused

\* A refused line goes to stderr or is lost.
LEMMA RefusedLineSettledKeeps ==
  ASSUME LogInv, RefusedLineSettled
  PROVE  LogInv'
<1>1. Accounted(logQueue, logFile.buffer, files, stderr, refused, lost, produced)
  BY DEF LogInv
<1>2. refused # NoLine /\ refused' = NoLine /\ refused \in Nat /\ lost \in [Reasons -> SUBSET Int]
  BY <1>1 DEF RefusedLineSettled, Accounted, TypedLines
<1>3. Accounted(logQueue, logFile.buffer, files, stderr', refused', lost', produced)
  <2>1. CASE stderr' = stderr \cup {refused} /\ lost' = lost
    BY <2>1, <1>1, <1>2, HeldToStderr
  <2>2. CASE lost' = [lost EXCEPT !["refused"] = @ \cup {refused}] /\ stderr' = stderr
    <3>1. LossAdded(lost, lost', "refused", {refused})
      BY <2>2, <1>2 DEF LossAdded, Reasons
    <3>2. Accounted(logQueue, logFile.buffer, files, stderr, NoLine, lost', produced)
      BY ONLY <3>1, <1>1, <1>2, HeldLost
    <3> QED BY <3>2, <2>2, <1>2
  <2> QED BY <2>1, <2>2 DEF RefusedLineSettled
<1> QED BY <1>3 DEF LogInv, RefusedLineSettled

\* The periodic flush, whole or failing, keeps the invariant.
LEMMA FlushTickKeeps ==
  ASSUME LogInv, FlushTick
  PROVE  LogInv'
<1>1. CASE files' = Flushed /\ logFile' = [logFile EXCEPT !.buffer = <<>>] /\ lost' = lost
  <2>1. Accounted(logQueue, <<>>, files', stderr, refused, lost, produced) /\ files'[0].there
    BY <1>1, FlushedLines DEF LogInv, FlushTick
  <2>2. logFile' \in Handles /\ logFile'.buffer = <<>>
    BY <1>1, NoLines DEF LogInv, Handles
  <2> QED BY <2>1, <2>2, <1>1 DEF LogInv, FlushTick
<1>2. CASE FileFails
  BY <1>2, FailedLines, NoFileIs DEF LogInv, FlushTick
<1> QED BY <1>1, <1>2 DEF FlushTick

\* The first line of a batch keeps the invariant.
LEMMA ReceiveLineKeeps ==
  ASSUME LogInv, ReceiveLine
  PROVE  LogInv'
<1>1. logger'.pc \in {"rotate", "batch"}
  BY DEF ReceiveLine, At
<1>2. /\ Accounted(logQueue, logFile.buffer, files, stderr, refused, lost, produced)'
      /\ (logFile \in Handles)'
      /\ (logFile.open => files[0].there)'
      /\ (~logFile.open => logFile.buffer = <<>>)'
  BY LineTaken DEF ReceiveLine
<1> QED BY <1>1, <1>2 DEF LogInv

\* The further lines of a batch keep the invariant.
LEMMA BatchLineKeeps ==
  ASSUME LogInv, BatchLine
  PROVE  LogInv'
<1>1. logger'.pc = "batch"
  BY DEF BatchLine, At
<1>2. /\ Accounted(logQueue, logFile.buffer, files, stderr, refused, lost, produced)'
      /\ (logFile \in Handles)'
      /\ (logFile.open => files[0].there)'
      /\ (~logFile.open => logFile.buffer = <<>>)'
  BY LineTaken DEF BatchLine
<1> QED BY <1>1, <1>2 DEF LogInv

\* A line drained at shutdown keeps the invariant.
LEMMA DrainLineKeeps ==
  ASSUME LogInv, DrainLine
  PROVE  LogInv'
<1>1. logger'.pc = "drain" /\ logClosed' = logClosed /\ logger.pc = "drain"
  BY DEF DrainLine
<1>2. /\ Accounted(logQueue, logFile.buffer, files, stderr, refused, lost, produced)'
      /\ (logFile \in Handles)'
      /\ (logFile.open => files[0].there)'
      /\ (~logFile.open => logFile.buffer = <<>>)'
  BY LineTaken DEF DrainLine
<1> QED BY <1>1, <1>2 DEF LogInv

\* Steps that only move the service on.
LEMMA MovingOnKeeps ==
  ASSUME LogInv, BatchEnds \/ LogCloses \/ LogMarksStopped \/ DrainEnds
  PROVE  LogInv'
<1>1. UNCHANGED <<produced, refused, logQueue, logFile, files, stderr, lost>>
  BY DEF BatchEnds, LogCloses, LogMarksStopped, DrainEnds
<1>2. /\ logger'.pc \in {"closed", "drain", "flush", "done"} => logClosed'
      /\ logger'.pc \in {"flush", "done"} => logQueue' = <<>>
  BY DEF BatchEnds, LogCloses, LogMarksStopped, DrainEnds, At, LogInv
<1> QED BY <1>1, <1>2 DEF LogInv

\* A rotation whose flush fails keeps the invariant.
LEMMA RotateFlushFailsKeeps ==
  ASSUME LogInv, RotateFlushFails
  PROVE  LogInv'
  BY FailedLines, NoFileIs DEF LogInv, RotateFlushFails, At

\* What the drain has no time for is lost, and counted.
LEMMA DrainDeadlineKeeps ==
  ASSUME LogInv, DrainDeadline
  PROVE  LogInv'
<1>1. Accounted(logQueue, logFile.buffer, files, stderr, refused, lost, produced)
  BY DEF LogInv
<1>2. lost \in [Reasons -> SUBSET Int] /\ logQueue \in Lines
  BY <1>1 DEF Accounted, TypedLines
<1>3. LossAdded(lost, lost', "deadline", ToSet(logQueue))
  <2> DEFINE what == ToSet(logQueue)
  <2>1. what \subseteq Int /\ lost' = [lost EXCEPT !["deadline"] = @ \cup what]
    BY <1>2, ToSetType DEF DrainDeadline
  <2> HIDE DEF what
  <2>2. LossAdded(lost, lost', "deadline", what)
    BY <2>1, <1>2 DEF LossAdded, Reasons
  <2> QED BY <2>2 DEF what
<1>4. Accounted(<<>>, logFile.buffer, files, stderr, refused, lost', produced)
  BY ONLY <1>1, <1>3, QueueDropped
<1> QED BY <1>4 DEF LogInv, DrainDeadline, At

\* The last flush keeps the invariant.
LEMMA FinalFlushKeeps ==
  ASSUME LogInv, FinalFlush
  PROVE  LogInv'
<1>1. CASE FileFails
  BY <1>1, FailedLines, NoFileIs DEF LogInv, FinalFlush, At
<1>2. CASE files' = (IF logFile.open THEN Flushed ELSE files) /\ logFile' = NoFile /\ lost' = lost
  <2>1. Accounted(logQueue, <<>>, files', stderr, refused, lost, produced)
    BY <1>2, FlushedLines DEF LogInv
  <2> QED BY <2>1, <1>2, NoFileIs DEF LogInv, FinalFlush, At
<1> QED BY <1>1, <1>2 DEF FinalFlush

\* The file opened after a rotation.
LEMMA NewFile ==
  ASSUME NEW old \in DiskSet, NEW fs, Rotating(old, fs), 0 \in Indices, ~fs[0].there
  PROVE  LET gs == [fs EXCEPT ![0] = FileWith(<<>>)] IN Rotating(old, gs) /\ gs[0].there
<1> DEFINE gs == [fs EXCEPT ![0] = FileWith(<<>>)]
           new == FileWith(<<>>)
<1>1. fs \in DiskSet /\ FilesInOrder(fs)
  BY DEF Rotating
<1>2. new \in FileSet /\ new.there /\ new.lines = <<>>
  BY NoLines DEF FileWith, FileSet
<1> HIDE DEF new
<1>3. gs \in DiskSet /\ gs[0] = new /\ \A j \in Indices : j # 0 => gs[j] = fs[j]
  <2>1. gs = [fs EXCEPT ![0] = new]
    BY DEF new
  <2> HIDE DEF gs
  <2> QED BY <2>1, <1>1, <1>2 DEF DiskSet
<1> HIDE DEF gs
<1>4. fs[0].lines = <<>>
  BY <1>1 DEF FilesInOrder
<1>5. \A j \in Indices : gs[j].lines = fs[j].lines
  BY <1>2, <1>3, <1>4
<1>6. FilesInOrder(gs)
  BY <1>1, <1>2, <1>3, <1>5 DEF FilesInOrder
<1>7. LinesOnDisk(gs) = LinesOnDisk(fs)
  BY <1>5 DEF LinesOnDisk
<1>8. Rotating(old, gs)
  BY <1>3, <1>6, <1>7 DEF Rotating
<1> QED BY <1>2, <1>3, <1>8 DEF gs

\* A rotation keeps the invariant: what it pushes off the end was the oldest.
LEMMA RotateKeeps ==
  ASSUME LogInv, Rotate
  PROVE  LogInv'
<1>1. /\ Accounted(logQueue, <<>>, Flushed, stderr, refused, lost, produced)
      /\ Flushed \in DiskSet /\ FilesInOrder(Flushed)
  BY FlushedLines
<1>2. MaxBackups + 1 \in Indices /\ 0 \in Indices /\ MaxBackups \in Nat
  BY LogAssumption DEF LogAssumption, Indices
<1>3. \A k \in Indices : RotatedTo(Flushed, Rotated[k], k)
  BY <1>1, LogAssumption, RotatedFiles
<1>4. Rotating(Flushed, files') /\ (logFile'.open => files'[0].there) /\ logFile' \in Handles /\ logFile'.buffer = <<>>
  <2>1. CASE files' = [Rotated[MaxBackups + 1] EXCEPT ![0] = FileWith(<<>>)]
             /\ logFile' = [open |-> TRUE, buffer |-> <<>>, written |-> 0]
    <3> DEFINE fs == Rotated[MaxBackups + 1]
    <3>1. Rotating(Flushed, fs) /\ ~fs[0].there
      BY <1>2, <1>3 DEF RotatedTo
    <3>2. files' = [fs EXCEPT ![0] = FileWith(<<>>)]
      BY <2>1
    <3>3. logFile' \in Handles /\ logFile'.buffer = <<>>
      BY <2>1, NoLines DEF Handles
    <3> HIDE DEF fs
    <3> QED BY <3>1, <3>2, <3>3, <1>1, <1>2, NewFile
  <2>2. CASE files' \in {Flushed} \cup {Rotated[k] : k \in Indices} /\ logFile' = NoFile
    <3>1. Rotating(Flushed, Flushed)
      BY <1>1 DEF Rotating, Below
    <3>2. Rotating(Flushed, files')
      BY <2>2, <3>1, <1>3 DEF RotatedTo
    <3> QED BY <2>2, <3>2, NoFileIs
  <2> QED BY <2>1, <2>2 DEF Rotate
<1>5. LossAdded(lost, lost', "rotated", LinesOnDisk(Flushed) \ LinesOnDisk(files'))
  <2> DEFINE what == LinesOnDisk(Flushed) \ LinesOnDisk(files')
  <2>1. what \subseteq Int /\ lost' = [lost EXCEPT !["rotated"] = @ \cup what] /\ lost \in [Reasons -> SUBSET Int]
    BY <1>1, DiskLines DEF Rotate, Accounted, TypedLines
  <2> HIDE DEF what
  <2>2. LossAdded(lost, lost', "rotated", what)
    BY <2>1 DEF LossAdded, Reasons
  <2> QED BY <2>2 DEF what
<1>6. Accounted(logQueue, <<>>, files', stderr, refused, lost', produced)
  BY ONLY <1>1, <1>4, <1>5, RotatedAway
<1>7. logger'.pc = "batch" /\ UNCHANGED <<produced, refused, logQueue, logClosed, stderr>>
  BY DEF Rotate, At
<1> QED BY <1>4, <1>6, <1>7 DEF LogInv

\* Every line that is logged is in one place - queue, buffer, files, stderr or a counted
\* loss - and the files hold the lines in the order they were logged, for every capacity,
\* file size, number of backups, buffer and batch.
THEOREM LogLinesAccounted == LogSpec => []LinesAccounted
<1>1. LogInit => LogInv
  BY LogInitially
<1>2. LogInv /\ [LogNext]_logVars => LogInv'
  <2>1. ASSUME LogInv, LogNext PROVE LogInv'
    BY <2>1, LineAcceptedKeeps, LineRefusedKeeps, RefusedLineSettledKeeps, FlushTickKeeps, ReceiveLineKeeps,
       BatchLineKeeps, MovingOnKeeps, RotateFlushFailsKeeps, RotateKeeps, DrainLineKeeps, DrainDeadlineKeeps,
       FinalFlushKeeps DEF LogNext
  <2>2. ASSUME LogInv, UNCHANGED logVars PROVE LogInv'
    BY <2>2 DEF LogInv, logVars
  <2> QED BY <2>1, <2>2
<1>3. LogInv => LinesAccounted
  BY LogInvAccounts
<1> QED BY <1>1, <1>2, <1>3, PTL DEF LogSpec

--------------------------------------------------------------------------------
(*****************************************************************************)
(* TLS selection: CertificateMostSpecific.                                   *)
(*                                                                           *)
(* A claim is one entry of one certificate's list.  The matcher Represents the *)
(* claims of the certificates inserted so far, whatever their order.         *)
(*****************************************************************************)

\* A claim is one entry of a certificate's list.
ClaimsOf(certs) == {c \in certs \X Nat : c[2] \in DOMAIN c[1].snis}
SniOf(c) == c[1].snis[c[2]]
Exact(labels) == [kind |-> "exact", labels |-> labels]
Wildcard(labels) == [kind |-> "wildcard", labels |-> labels]

Twice(K) == \E c, d \in K : c # d /\ SniOf(c) = SniOf(d)

\* The matcher holds the claims K.
Represents(m, K) ==
  /\ m = [exact |-> m.exact, wildcards |-> m.wildcards, any |-> m.any, failed |-> m.failed]
  /\ m.failed \in BOOLEAN
  /\ m.failed <=> Twice(K)
  /\ ~m.failed =>
       /\ \A labels : labels \in DOMAIN m.exact <=> \E c \in K : SniOf(c) = Exact(labels)
       /\ \A c \in K : SniOf(c).kind = "exact" => m.exact[SniOf(c).labels] = c[1].id
       /\ \A labels : labels \in DOMAIN m.wildcards <=> \E c \in K : SniOf(c) = Wildcard(labels)
       /\ \A c \in K : SniOf(c).kind = "wildcard" => m.wildcards[SniOf(c).labels] = c[1].id
       /\ m.any # <<>> <=> \E c \in K : SniOf(c).kind = "any"
       /\ \A c \in K : SniOf(c).kind = "any" => m.any = <<c[1].id>>

IsSni(sni) ==
  /\ sni.kind \in {"exact", "wildcard", "any"}
  /\ sni = [kind |-> sni.kind, labels |-> sni.labels]
  /\ sni.kind = "any" => sni.labels = <<>>

\* The entries of a certificate are patterns.
LEMMA SnisAre ==
  ASSUME NEW table \in SslTables, NEW c \in ClaimsOf(table)
  PROVE  IsSni(SniOf(c))
<1>1. c[1] \in table /\ SniOf(c) \in Range(c[1].snis)
  BY DEF ClaimsOf, SniOf, Range
<1>2. \A ssl \in table : \A sni \in Range(ssl.snis) :
         /\ sni.kind \in {"exact", "wildcard", "any"}
         /\ sni = [kind |-> sni.kind, labels |-> sni.labels]
         /\ sni.kind = "any" => sni.labels = <<>>
  <2>1. ASSUME NEW t \in SslTables, NEW ssl \in t, NEW sni \in Range(ssl.snis)
        PROVE  /\ sni.kind \in {"exact", "wildcard", "any"}
               /\ sni = [kind |-> sni.kind, labels |-> sni.labels]
               /\ sni.kind = "any" => sni.labels = <<>>
    <3>1. /\ sni.kind \in {"exact", "wildcard", "any"}
          /\ sni = [kind |-> sni.kind, labels |-> sni.labels]
          /\ IsSequence(sni.labels)
          /\ sni.kind = "any" => sni.labels = <<>>
      BY RoutingAssumption DEF RoutingAssumption
    <3> QED BY <3>1
  <2> QED BY <2>1
<1> DEFINE sni == SniOf(c)
<1>3. sni.kind \in {"exact", "wildcard", "any"} /\ sni = [kind |-> sni.kind, labels |-> sni.labels]
      /\ (sni.kind = "any" => sni.labels = <<>>)
  <2> HIDE DEF sni
  <2>1. sni \in Range(c[1].snis)
    BY <1>1 DEF sni
  <2> QED BY <1>1, <1>2, <2>1, Zenon
<1> QED BY <1>3 DEF IsSni

\* One more claim is put into the matcher.
LEMMA OneMoreClaim ==
  ASSUME NEW m, NEW K, NEW ssl, NEW i, Represents(m, K), <<ssl, i>> \notin K,
         IsSni(ssl.snis[i]), \A c \in K : IsSni(SniOf(c))
  PROVE  Represents(InsertSni(m, ssl.snis[i], ssl), K \cup {<<ssl, i>>})
<1> DEFINE new == <<ssl, i>>
           sni == ssl.snis[i]
           L == K \cup {new}
           next == InsertSni(m, sni, ssl)
<1>0. SniOf(new) = sni /\ new[1] = ssl /\ new \in L /\ new \notin K /\ K \subseteq L
  BY DEF SniOf
<1>00. IsSni(sni) /\ \A c \in L : c \in K \/ c = new
  OBVIOUS
<1> DEFINE taken == \E c \in K : SniOf(c) = sni
<1>1. ASSUME m.failed PROVE Represents(next, L)
  <2>1. next = [m EXCEPT !.failed = TRUE]
    BY <1>1 DEF InsertSni
  <2>2. next = m
    BY <1>1, <2>1 DEF Represents
  <2>3. Twice(L)
    BY <1>0, <1>1 DEF Represents, Twice
  <2> HIDE DEF next, L
  <2> QED BY <1>1, <2>2, <2>3 DEF Represents
<1>2. ASSUME ~m.failed PROVE ~Twice(K)
  BY <1>2 DEF Represents
<1>3. ASSUME ~m.failed
      PROVE  taken <=> CASE sni.kind = "any" -> m.any # <<>>
                         [] sni.kind = "wildcard" -> sni.labels \in DOMAIN m.wildcards
                         [] sni.kind = "exact" -> sni.labels \in DOMAIN m.exact
  <2> HIDE DEF sni
  <2>1. CASE sni.kind = "any"
    <3>1. \A c \in K : SniOf(c) = sni <=> SniOf(c).kind = "any"
      BY <2>1, <1>00 DEF IsSni
    <3> QED BY <3>1, <2>1, <1>3 DEF Represents
  <2>2. CASE sni.kind = "wildcard"
    <3>1. sni = Wildcard(sni.labels)
      BY <2>2, <1>00 DEF IsSni, Wildcard
    <3> QED BY <3>1, <2>2, <1>3 DEF Represents
  <2>3. CASE sni.kind = "exact"
    <3>1. sni = Exact(sni.labels)
      BY <2>3, <1>00 DEF IsSni, Exact
    <3> QED BY <3>1, <2>3, <1>3 DEF Represents
  <2> QED BY <1>00, <2>1, <2>2, <2>3 DEF IsSni
<1>4. ASSUME ~m.failed, taken PROVE Represents(next, L)
  <2>1. next = [m EXCEPT !.failed = TRUE]
    BY <1>3, <1>4 DEF InsertSni
  <2>2. next = [exact |-> next.exact, wildcards |-> next.wildcards, any |-> next.any, failed |-> next.failed]
        /\ next.failed = TRUE
    BY <2>1 DEF Represents
  <2>3. Twice(L)
    <3>1. PICK c \in K : SniOf(c) = sni
      BY <1>4
    <3> HIDE DEF sni, L, new
    <3> QED BY <3>1, <1>0 DEF Twice
  <2> HIDE DEF next, L
  <2> QED BY <2>2, <2>3 DEF Represents
<1>5. ASSUME ~m.failed, ~taken PROVE Represents(next, L)
  <2>1. ~Twice(L)
    <3> HIDE DEF sni, L, new
    <3> QED BY <1>0, <1>00, <1>2, <1>5 DEF Twice
  <2>2. /\ \A labels : labels \in DOMAIN m.exact <=> \E c \in K : SniOf(c) = Exact(labels)
        /\ \A c \in K : SniOf(c).kind = "exact" => m.exact[SniOf(c).labels] = c[1].id
        /\ \A labels : labels \in DOMAIN m.wildcards <=> \E c \in K : SniOf(c) = Wildcard(labels)
        /\ \A c \in K : SniOf(c).kind = "wildcard" => m.wildcards[SniOf(c).labels] = c[1].id
        /\ m.any # <<>> <=> \E c \in K : SniOf(c).kind = "any"
        /\ \A c \in K : SniOf(c).kind = "any" => m.any = <<c[1].id>>
    BY <1>5 DEF Represents
  <2>3. m = [exact |-> m.exact, wildcards |-> m.wildcards, any |-> m.any, failed |-> FALSE] /\ m.failed = FALSE
    BY <1>5 DEF Represents
  <2>4. ASSUME sni.kind = "any" PROVE Represents(next, L)
    <3>1. next = [m EXCEPT !.any = <<ssl.id>>]
      BY <1>3, <1>5, <2>4 DEF InsertSni
    <3>2. next = [exact |-> m.exact, wildcards |-> m.wildcards, any |-> <<ssl.id>>, failed |-> FALSE]
      BY <2>3, <3>1
    <3>3. \A labels : sni # Exact(labels) /\ sni # Wildcard(labels)
      BY <2>4 DEF Exact, Wildcard
    <3>4. \A c \in K : SniOf(c).kind # "any"
      BY <2>4, <1>00, <1>5 DEF IsSni
    <3>5. <<ssl.id>> # <<>>
      OBVIOUS
    <3> DEFINE one == <<ssl.id>>
    <3>6. next.exact = m.exact /\ next.wildcards = m.wildcards /\ next.any = one /\ next.failed = FALSE
          /\ next = [exact |-> next.exact, wildcards |-> next.wildcards, any |-> next.any, failed |-> next.failed]
          /\ one # <<>> /\ one = <<new[1].id>>
      BY <3>2
    <3> HIDE DEF next, L, sni, new, one
    <3> QED BY <1>0, <1>00, <2>1, <2>2, <2>4, <3>3, <3>4, <3>6 DEF Represents
  <2>5. ASSUME sni.kind = "wildcard" PROVE Represents(next, L)
    <3> DEFINE wild == With(m.wildcards, sni.labels, ssl.id)
    <3>1. next = [m EXCEPT !.wildcards = wild]
      BY <1>3, <1>5, <2>5 DEF InsertSni
    <3> HIDE DEF wild
    <3>2. next = [exact |-> m.exact, wildcards |-> wild, any |-> m.any, failed |-> FALSE]
      BY <2>3, <3>1
    <3>3. /\ sni = Wildcard(sni.labels)
          /\ \A labels : sni # Exact(labels) /\ (sni = Wildcard(labels) => labels = sni.labels)
      BY <2>5, <1>00 DEF Exact, Wildcard, IsSni
    <3>4. /\ DOMAIN wild = DOMAIN m.wildcards \cup {sni.labels} /\ wild[sni.labels] = ssl.id
          /\ \A l \in DOMAIN m.wildcards : l # sni.labels => wild[l] = m.wildcards[l]
      BY DEF wild, With
    <3>5. next.exact = m.exact /\ next.wildcards = wild /\ next.any = m.any /\ next.failed = FALSE
          /\ next = [exact |-> next.exact, wildcards |-> next.wildcards, any |-> next.any, failed |-> next.failed]
      BY <3>2
    <3>6. \A c \in K : SniOf(c).kind = "wildcard" =>
            /\ SniOf(c) = Wildcard(SniOf(c).labels)
            /\ SniOf(c).labels \in DOMAIN m.wildcards /\ SniOf(c).labels # sni.labels
      BY <2>2, <3>3, <1>5, <1>00 DEF IsSni, Wildcard
    <3> HIDE DEF next, L, sni, new
    <3>7. \A labels : labels \in DOMAIN wild <=> \E c \in L : SniOf(c) = Wildcard(labels)
      BY <1>0, <1>00, <2>2, <3>3, <3>4
    <3>8. \A c \in L : SniOf(c).kind = "wildcard" => wild[SniOf(c).labels] = c[1].id
      BY <1>0, <1>00, <2>2, <3>4, <3>6
    <3>9. \A labels : labels \in DOMAIN m.exact <=> \E c \in L : SniOf(c) = Exact(labels)
      BY <1>0, <1>00, <2>2, <3>3
    <3>10. /\ \A c \in L : SniOf(c).kind = "exact" => m.exact[SniOf(c).labels] = c[1].id
           /\ m.any # <<>> <=> \E c \in L : SniOf(c).kind = "any"
           /\ \A c \in L : SniOf(c).kind = "any" => m.any = <<c[1].id>>
      BY <1>0, <1>00, <2>2, <2>5
    <3> QED BY <2>1, <3>5, <3>7, <3>8, <3>9, <3>10 DEF Represents
  <2>6. ASSUME sni.kind = "exact" PROVE Represents(next, L)
    <3> DEFINE exact == With(m.exact, sni.labels, ssl.id)
    <3>1. next = [m EXCEPT !.exact = exact]
      BY <1>3, <1>5, <2>6 DEF InsertSni
    <3> HIDE DEF exact
    <3>2. next = [exact |-> exact, wildcards |-> m.wildcards, any |-> m.any, failed |-> FALSE]
      BY <2>3, <3>1
    <3>3. sni = Exact(sni.labels) /\ \A labels : sni # Wildcard(labels) /\ (sni = Exact(labels) => labels = sni.labels)
      BY <2>6, <1>00 DEF Exact, Wildcard, IsSni
    <3>4. /\ DOMAIN exact = DOMAIN m.exact \cup {sni.labels} /\ exact[sni.labels] = ssl.id
          /\ \A l \in DOMAIN m.exact : l # sni.labels => exact[l] = m.exact[l]
      BY DEF exact, With
    <3>5. next.exact = exact /\ next.wildcards = m.wildcards /\ next.any = m.any /\ next.failed = FALSE
          /\ next = [exact |-> next.exact, wildcards |-> next.wildcards, any |-> next.any, failed |-> next.failed]
      BY <3>2
    <3>6. \A c \in K : SniOf(c).kind = "exact" =>
            SniOf(c) = Exact(SniOf(c).labels) /\ SniOf(c).labels \in DOMAIN m.exact /\ SniOf(c).labels # sni.labels
      BY <2>2, <3>3, <1>5, <1>00 DEF IsSni, Exact
    <3> HIDE DEF next, L, sni, new
    <3>7. \A labels : labels \in DOMAIN exact <=> \E c \in L : SniOf(c) = Exact(labels)
      BY <1>0, <1>00, <2>2, <3>3, <3>4
    <3>8. \A c \in L : SniOf(c).kind = "exact" => exact[SniOf(c).labels] = c[1].id
      BY <1>0, <1>00, <2>2, <3>4, <3>6
    <3>9. \A labels : labels \in DOMAIN m.wildcards <=> \E c \in L : SniOf(c) = Wildcard(labels)
      BY <1>0, <1>00, <2>2, <3>3
    <3>10. /\ \A c \in L : SniOf(c).kind = "wildcard" => m.wildcards[SniOf(c).labels] = c[1].id
           /\ m.any # <<>> <=> \E c \in L : SniOf(c).kind = "any"
           /\ \A c \in L : SniOf(c).kind = "any" => m.any = <<c[1].id>>
      BY <1>0, <1>00, <2>2, <2>6
    <3> QED BY <2>1, <3>5, <3>7, <3>8, <3>9, <3>10 DEF Represents
  <2> QED BY <1>00, <2>4, <2>5, <2>6 DEF IsSni
<1>6. m.failed \in BOOLEAN
  BY DEF Represents
<1> QED BY <1>1, <1>4, <1>5, <1>6

\* insert_ssl puts the entries of the certificate in, one by one.
LEMMA InsertSslLoops ==
  ASSUME NEW m, NEW ssl, Len(ssl.snis) \in Nat
  PROVE  \E f : /\ insert_ssl(m, ssl) = f[Len(ssl.snis)]
                /\ f[0] = m
                /\ \A n \in 1..Len(ssl.snis) : f[n] = InsertSni(f[n - 1], ssl.snis[n], ssl)
<1> DEFINE len == Len(ssl.snis)
           Body(f) == [n \in 0..len |-> IF n = 0 THEN m ELSE InsertSni(f[n - 1], ssl.snis[n], ssl)]
           after == CHOOSE f : f = Body(f)
           I == {k \in Nat : k <= len =>
                  \E f : f = [n \in 0..k |-> IF n = 0 THEN m ELSE InsertSni(f[n - 1], ssl.snis[n], ssl)]}
<1>1. insert_ssl(m, ssl) = after[len]
  BY DEF insert_ssl, Looped
<1>2. 0 \in I
  <2> DEFINE g == [n \in 0..0 |-> m]
  <2>1. g = [n \in 0..0 |-> IF n = 0 THEN m ELSE InsertSni(g[n - 1], ssl.snis[n], ssl)]
    OBVIOUS
  <2> HIDE DEF g
  <2> QED BY <2>1
<1>3. ASSUME NEW k \in Nat, k \in I PROVE k + 1 \in I
  <2> SUFFICES ASSUME k + 1 <= len
               PROVE \E f : f = [n \in 0..(k + 1) |-> IF n = 0 THEN m ELSE InsertSni(f[n - 1], ssl.snis[n], ssl)]
    OBVIOUS
  <2>1. PICK f : f = [n \in 0..k |-> IF n = 0 THEN m ELSE InsertSni(f[n - 1], ssl.snis[n], ssl)]
    BY <1>3
  <2> DEFINE g == [n \in 0..(k + 1) |-> IF n = k + 1 THEN InsertSni(f[k], ssl.snis[n], ssl) ELSE f[n]]
  <2>2. /\ g[k + 1] = InsertSni(f[k], ssl.snis[k + 1], ssl) /\ \A n \in 0..k : g[n] = f[n]
        /\ g = [n \in 0..(k + 1) |-> g[n]]
    OBVIOUS
  <2> HIDE DEF g
  <2>3. ASSUME NEW n \in 0..(k + 1)
        PROVE g[n] = IF n = 0 THEN m ELSE InsertSni(g[n - 1], ssl.snis[n], ssl)
    <3>1. CASE n = k + 1
      <4>1. n - 1 = k /\ n # 0 /\ k \in 0..k
        BY <3>1
      <4>2. g[n - 1] = f[k]
        BY <4>1, <2>2
      <4> QED BY <3>1, <4>1, <4>2, <2>2
    <3>2. CASE n # k + 1
      <4>1. n \in 0..k /\ (n # 0 => n - 1 \in 0..k)
        BY <3>2
      <4>2. f[n] = IF n = 0 THEN m ELSE InsertSni(f[n - 1], ssl.snis[n], ssl)
        BY <4>1, <2>1
      <4> QED BY <4>1, <4>2, <2>2
    <3> QED BY <3>1, <3>2
  <2>4. g = [n \in 0..(k + 1) |-> IF n = 0 THEN m ELSE InsertSni(g[n - 1], ssl.snis[n], ssl)]
    <3> DEFINE h == [n \in 0..(k + 1) |-> IF n = 0 THEN m ELSE InsertSni(g[n - 1], ssl.snis[n], ssl)]
    <3>1. h = [n \in 0..(k + 1) |-> h[n]] /\ \A n \in 0..(k + 1) : g[n] = h[n]
      BY <2>3
    <3> HIDE DEF h
    <3>2. g = h
      BY <3>1, <2>2
    <3> QED BY <3>2 DEF h
  <2> QED BY <2>4
<1> HIDE DEF I
<1>4. len \in I
  BY <1>2, <1>3, Induction
<1>5. \E f : f = Body(f)
  BY <1>4 DEF I
<1>6. after = Body(after)
  BY <1>5
<1> HIDE DEF after
<1>7. 0 \in 0..len /\ \A n \in 1..len : n \in 0..len /\ n # 0
  OBVIOUS
<1>8. after[0] = m /\ \A n \in 1..len : after[n] = InsertSni(after[n - 1], ssl.snis[n], ssl)
  <2>1. \A n \in 0..len : after[n] = IF n = 0 THEN m ELSE InsertSni(after[n - 1], ssl.snis[n], ssl)
    BY <1>6
  <2> QED BY <2>1, <1>7
<1> QED BY <1>1, <1>8

\* Inserting a certificate puts all its claims into the matcher.
LEMMA CertificateInserted ==
  ASSUME NEW table \in SslTables, NEW done \in SUBSET table, NEW ssl \in table \ done,
         NEW m, Represents(m, ClaimsOf(done))
  PROVE  Represents(insert_ssl(m, ssl), ClaimsOf(done \cup {ssl}))
<1> DEFINE len == Len(ssl.snis)
           Upto(n) == ClaimsOf(done) \cup {<<ssl, i>> : i \in 1..n}
<1>1. len \in Nat /\ DOMAIN ssl.snis = 1..len
  <2>1. \A t \in SslTables : \A s \in t : IsSequence(s.snis)
    BY RoutingAssumption, Zenon DEF RoutingAssumption
  <2>2. IsSequence(ssl.snis)
    BY <2>1
  <2> QED BY <2>2 DEF IsSequence
<1>2. PICK f : /\ insert_ssl(m, ssl) = f[len]
               /\ f[0] = m
               /\ \A n \in 1..len : f[n] = InsertSni(f[n - 1], ssl.snis[n], ssl)
  BY <1>1, InsertSslLoops
<1> DEFINE I == {n \in Nat : n <= len => Represents(f[n], Upto(n))}
<1>3. 0 \in I
  <2>1. Upto(0) = ClaimsOf(done)
    OBVIOUS
  <2> QED BY <2>1, <1>2
<1>4. ASSUME NEW n \in Nat, n \in I PROVE n + 1 \in I
  <2> SUFFICES ASSUME n + 1 <= len PROVE Represents(f[n + 1], Upto(n + 1))
    OBVIOUS
  <2>1. n + 1 \in 1..len /\ n + 1 - 1 = n
    BY <1>1
  <2>2. Represents(f[n], Upto(n))
    BY <1>4, <1>1, <2>1
  <2>3. <<ssl, n + 1>> \notin Upto(n) /\ Upto(n + 1) = Upto(n) \cup {<<ssl, n + 1>>}
    <3>1. <<ssl, n + 1>> \notin ClaimsOf(done)
      BY DEF ClaimsOf
    <3>2. \A i \in 1..n : <<ssl, i>> # <<ssl, n + 1>>
      OBVIOUS
    <3>3. 1..(n + 1) = (1..n) \cup {n + 1}
      OBVIOUS
    <3> QED BY <3>1, <3>2, <3>3
  <2>4. \A c \in Upto(n + 1) : c \in ClaimsOf(table)
    <3>1. \A i \in 1..(n + 1) : <<ssl, i>> \in ClaimsOf(table)
      BY <1>1, <2>1 DEF ClaimsOf
    <3>2. ClaimsOf(done) \subseteq ClaimsOf(table)
      BY DEF ClaimsOf
    <3> QED BY <3>1, <3>2
  <2>5. \A c \in Upto(n + 1) : IsSni(SniOf(c))
    BY <2>4, SnisAre
  <2> DEFINE K == Upto(n)
             i == n + 1
  <2>6. Represents(f[n], K) /\ <<ssl, i>> \notin K /\ IsSni(ssl.snis[i]) /\ \A c \in K : IsSni(SniOf(c))
    <3>1. SniOf(<<ssl, i>>) = ssl.snis[i] /\ <<ssl, i>> \in Upto(n + 1)
      BY <2>3 DEF SniOf
    <3> QED BY <2>2, <2>3, <2>5, <3>1
  <2>7. f[n + 1] = InsertSni(f[n], ssl.snis[i], ssl)
    BY <1>2, <2>1
  <2> HIDE DEF Upto, K, i
  <2>8. Represents(InsertSni(f[n], ssl.snis[i], ssl), K \cup {<<ssl, i>>})
    BY <2>6, OneMoreClaim
  <2> QED BY <2>3, <2>7, <2>8 DEF K, i
<1> HIDE DEF I
<1>5. len \in I
  BY <1>1, <1>3, <1>4, Induction
<1>6. Represents(f[len], Upto(len))
  <2> HIDE DEF len, Upto
  <2> QED BY <1>1, <1>5 DEF I
<1>7. Upto(len) = ClaimsOf(done \cup {ssl})
  <2>1. ASSUME NEW c \in ClaimsOf(done \cup {ssl}) PROVE c \in Upto(len)
    <3>1. c = <<c[1], c[2]>> /\ c[1] \in done \cup {ssl} /\ c[2] \in DOMAIN c[1].snis
      BY DEF ClaimsOf
    <3> QED BY <3>1, <1>1 DEF ClaimsOf
  <2>2. ASSUME NEW c \in Upto(len) PROVE c \in ClaimsOf(done \cup {ssl})
    BY <1>1 DEF ClaimsOf
  <2> QED BY <2>1, <2>2
<1> QED BY <1>2, <1>6, <1>7

\* The TLS matcher holds the certificates inserted so far.
CertAnswer ==
  matched.asked => /\ sslsLeft = {} /\ ~sslMatcher.failed
                   /\ matched.cert = match_sni(matched.host)
                   /\ matched.host = <<>> \/ IsSequence(matched.host)
CertInv ==
  /\ ssls \in SslTables
  /\ sslsLeft \subseteq ssls
  /\ Represents(sslMatcher, ClaimsOf(ssls \ sslsLeft))
  /\ CertAnswer

\* The empty matcher represents no claims.
LEMMA CertInit == RoutingInit => CertInv
<1> SUFFICES ASSUME RoutingInit PROVE CertInv
  OBVIOUS
<1>1. ssls \in SslTables /\ sslsLeft = ssls /\ sslMatcher = EmptySslMatcher /\ ~matched.asked
  BY DEF RoutingInit, NotAsked
<1>2. ClaimsOf(ssls \ sslsLeft) = {}
  BY <1>1 DEF ClaimsOf
<1>3. Represents(EmptySslMatcher, {})
  BY DEF Represents, EmptySslMatcher, Twice
<1> QED BY <1>1, <1>2, <1>3 DEF CertInv, CertAnswer

\* Every step keeps the invariant.
LEMMA CertStep == CertInv /\ [RoutingNext]_routingVars => CertInv'
<1> SUFFICES ASSUME CertInv, [RoutingNext]_routingVars PROVE CertInv'
  OBVIOUS
<1>1. CASE UNCHANGED <<ssls, sslsLeft, sslMatcher, matched>>
  BY <1>1 DEF CertInv, CertAnswer, match_sni
<1>2. CASE InsertAnySsl
  <2>1. PICK ssl \in sslsLeft : sslMatcher' = insert_ssl(sslMatcher, ssl) /\ sslsLeft' = sslsLeft \ {ssl}
    BY <1>2 DEF InsertAnySsl
  <2>2. ssls' = ssls /\ matched' = matched /\ sslsLeft # {}
    BY <1>2 DEF InsertAnySsl
  <2> DEFINE done == ssls \ sslsLeft
             m == sslMatcher
  <2>3. ssls \in SslTables /\ done \in SUBSET ssls /\ ssl \in ssls \ done /\ Represents(m, ClaimsOf(done))
    BY DEF CertInv
  <2>4. ssls' \ sslsLeft' = done \cup {ssl}
    BY <2>1, <2>2, <2>3
  <2>5. sslMatcher' = insert_ssl(m, ssl)
    BY <2>1
  <2> HIDE DEF done, m
  <2>6. Represents(insert_ssl(m, ssl), ClaimsOf(done \cup {ssl}))
    BY <2>3, CertificateInserted
  <2>7. ~matched.asked
    BY <2>2 DEF CertInv, CertAnswer
  <2> QED BY <2>1, <2>2, <2>4, <2>5, <2>6, <2>7 DEF CertInv, CertAnswer
<1>3. CASE Ask
  <2>1. sslsLeft = {} /\ ~sslMatcher.failed /\ UNCHANGED <<ssls, sslsLeft, sslMatcher>>
    BY <1>3 DEF Ask
  <2>2. /\ matched'.cert = match_sni(matched'.host)
        /\ matched'.host \in Hosts \cup {<<>>}
    <3>1. PICK host \in Hosts \cup {<<>>}, uri \in Uris, method \in Methods, wanted \in Methods \cup {""} :
            matched' = [asked |-> TRUE, host |-> host, uri |-> uri, method |-> method, wanted |-> wanted,
                        route |-> match_request(host, uri, method, wanted), cert |-> match_sni(host)]
      BY <1>3 DEF Ask
    <3> DEFINE r == match_request(host, uri, method, wanted)
               c == match_sni(host)
    <3>2. c = match_sni(host)
      OBVIOUS
    <3> HIDE DEF r, c
    <3>3. matched'.host = host /\ matched'.cert = c
      BY <3>1 DEF r, c
    <3> QED BY <3>2, <3>3
  <2>3. \A h : match_sni(h)' = match_sni(h)
    BY <2>1 DEF match_sni
  <2>4. matched'.host = <<>> \/ IsSequence(matched'.host)
    BY <2>2, RoutingAssumption DEF RoutingAssumption
  <2>5. (matched.cert)' = match_sni(matched.host)'
    BY <2>1, <2>2 DEF match_sni
  <2> QED BY <2>1, <2>2, <2>4, <2>5 DEF CertInv, CertAnswer, IsSequence
<1>4. CASE InsertNextRoute
  BY <1>1, <1>4 DEF InsertNextRoute
<1>5. CASE UNCHANGED routingVars
  BY <1>1, <1>5 DEF routingVars
<1> QED BY <1>2, <1>3, <1>4, <1>5 DEF RoutingNext

\* Of the certificates that claim a pattern, when none is claimed twice, there is at most one.
LEMMA OneClaim ==
  ASSUME CertInv, sslsLeft = {}, ~sslMatcher.failed,
         NEW kind, NEW labels, NEW d \in ClaimsOf(ssls), SniOf(d) = [kind |-> kind, labels |-> labels]
  PROVE  Claims(kind, labels) = {d[1].id}
<1> DEFINE sni == [kind |-> kind, labels |-> labels]
<1>1. ~Twice(ClaimsOf(ssls))
  BY DEF CertInv, Represents
<1> HIDE DEF sni
<1>2. ASSUME NEW t \in ssls, NEW i \in DOMAIN t.snis, t.snis[i] = sni PROVE t = d[1]
  <2> DEFINE c == <<t, i>>
  <2>0. DOMAIN t.snis \subseteq Nat
    <3>1. IsSequence(t.snis)
      BY RoutingAssumption DEF RoutingAssumption, CertInv
    <3> QED BY <3>1 DEF IsSequence
  <2>1. c \in ClaimsOf(ssls) /\ SniOf(c) = sni /\ c[1] = t
    BY <1>2, <2>0 DEF ClaimsOf, SniOf
  <2> HIDE DEF c
  <2>2. c = d
    BY <1>1, <2>1 DEF Twice, sni
  <2> QED BY <2>1, <2>2
<1>3. d[1] \in ssls /\ d[2] \in DOMAIN d[1].snis /\ d[1].snis[d[2]] = sni
  BY DEF ClaimsOf, SniOf, sni
<1>4. Claims(kind, labels) = {s.id : s \in {t \in ssls : \E i \in DOMAIN t.snis : t.snis[i] = sni}}
  BY DEF Claims, sni
<1>5. {t \in ssls : \E i \in DOMAIN t.snis : t.snis[i] = sni} = {d[1]}
  BY <1>2, <1>3
<1> QED BY <1>4, <1>5

\* A pattern nobody claims has no certificate.
LEMMA NoClaim ==
  ASSUME CertInv, NEW kind, NEW labels,
         \A d \in ClaimsOf(ssls) : SniOf(d) # [kind |-> kind, labels |-> labels]
  PROVE  Claims(kind, labels) = {}
<1> SUFFICES ASSUME NEW t \in ssls, NEW i \in DOMAIN t.snis, t.snis[i] = [kind |-> kind, labels |-> labels]
             PROVE  FALSE
  BY DEF Claims
<1>1. DOMAIN t.snis \subseteq Nat
  <2>1. IsSequence(t.snis)
    BY RoutingAssumption DEF RoutingAssumption, CertInv
  <2> QED BY <2>1 DEF IsSequence
<1>2. <<t, i>> \in ClaimsOf(ssls) /\ SniOf(<<t, i>>) = t.snis[i]
  BY <1>1 DEF ClaimsOf, SniOf
<1> QED BY <1>2

\* The matcher fails exactly when a pattern is claimed twice.
LEMMA CertRefused == CertInv /\ sslsLeft = {} => (sslMatcher.failed <=> Contested)
<1> SUFFICES ASSUME CertInv, sslsLeft = {} PROVE sslMatcher.failed <=> Contested
  OBVIOUS
<1>1. sslMatcher.failed <=> Twice(ClaimsOf(ssls))
  BY DEF CertInv, Represents
<1>2. ASSUME Twice(ClaimsOf(ssls)) PROVE Contested
  <2>1. PICK c, d \in ClaimsOf(ssls) : c # d /\ SniOf(c) = SniOf(d)
    BY <1>2 DEF Twice
  <2>2. /\ c[1] \in ssls /\ d[1] \in ssls /\ c[2] \in DOMAIN c[1].snis /\ d[2] \in DOMAIN d[1].snis
        /\ c[1].snis[c[2]] = d[1].snis[d[2]]
        /\ c = <<c[1], c[2]>> /\ d = <<d[1], d[2]>>
    BY <2>1 DEF ClaimsOf, SniOf
  <2>3. c[1] # d[1] \/ c[2] # d[2]
    BY <2>1, <2>2
  <2> QED BY <2>2, <2>3 DEF Contested
<1>3. ASSUME Contested PROVE Twice(ClaimsOf(ssls))
  <2>1. PICK s, t \in ssls : \E i \in DOMAIN s.snis, j \in DOMAIN t.snis :
          (s # t \/ i # j) /\ s.snis[i] = t.snis[j]
    BY <1>3 DEF Contested
  <2>2. PICK i \in DOMAIN s.snis, j \in DOMAIN t.snis : (s # t \/ i # j) /\ s.snis[i] = t.snis[j]
    BY <2>1
  <2>3. \A u \in ssls : DOMAIN u.snis \subseteq Nat
    <3>1. \A u \in ssls : IsSequence(u.snis)
      BY RoutingAssumption DEF RoutingAssumption, CertInv
    <3> QED BY <3>1 DEF IsSequence
  <2>4. <<s, i>> \in ClaimsOf(ssls) /\ <<t, j>> \in ClaimsOf(ssls) /\ <<s, i>> # <<t, j>>
    BY <2>2, <2>3 DEF ClaimsOf
  <2>5. SniOf(<<s, i>>) = s.snis[i] /\ SniOf(<<t, j>>) = t.snis[j]
    BY DEF SniOf
  <2> QED BY <2>2, <2>4, <2>5 DEF Twice
<1> QED BY <1>1, <1>2, <1>3

\* The only wildcard that matches a name is that of its first labels.
LEMMA WildcardSuffix ==
  ASSUME NEW host, host = <<>> \/ IsSequence(host), NEW s, IsSequence(s)
  PROVE  host_matches_wildcard(host, s) <=> host # <<>> /\ s = Front(host)
<1> DEFINE S == Range(host) \cup Range(s)
<1>1. host \in Seq(S) /\ s \in Seq(S)
  <2>1. ASSUME NEW q, IsSequence(q), Range(q) \subseteq S PROVE q \in Seq(S)
    <3>1. q \in Seq(Range(q))
      BY <2>1 DEF IsSequence
    <3> DEFINE R == Range(q)
    <3> HIDE DEF R, S
    <3>2. q \in Seq(R) /\ R \subseteq S
      BY <3>1, <2>1 DEF R
    <3> QED BY <3>2
  <2>2. CASE host = <<>>
    <3>1. s \in Seq(S)
      BY <2>1
    <3> HIDE DEF S
    <3> QED BY <2>2, <3>1
  <2>3. CASE IsSequence(host)
    BY <2>1, <2>3
  <2> QED BY <2>2, <2>3
<1> HIDE DEF S
<1>2. CASE host = <<>>
  <2>1. Len(host) = 0 /\ Len(s) \in Nat
    BY <1>1, <1>2
  <2> QED BY <1>2, <2>1 DEF host_matches_wildcard
<1>3. CASE host # <<>>
  <2>1. Len(host) \in Nat \ {0} /\ Len(s) \in Nat /\ Front(host) = SubSeq(host, 1, Len(host) - 1)
    BY <1>1, <1>3 DEF Front
  <2>2. Front(host) \in Seq(S) /\ Len(Front(host)) = Len(host) - 1
    <3> DEFINE n == Len(host) - 1
    <3>1. n \in Nat /\ n <= Len(host)
      BY <2>1
    <3>2. SubSeq(host, 1, n) \in Seq(S) /\ Len(SubSeq(host, 1, n)) = n
      <4> HIDE DEF n
      <4> QED BY <1>1, <3>1, SubSeqProperties
    <3> QED BY <2>1, <3>2
  <2> QED BY <1>3, <2>1, <2>2 DEF host_matches_wildcard
<1> QED BY <1>2, <1>3

\* What the invariant gives.
LEMMA CertGiven == CertInv => CertificateMostSpecific
<1> SUFFICES ASSUME CertInv PROVE CertificateMostSpecific
  OBVIOUS
<1>1. sslsLeft = {} => (sslMatcher.failed <=> Contested)
  BY CertRefused
<1> DEFINE host == matched.host
           exact == Claims("exact", host)
           wild == IF host = <<>> THEN {} ELSE Claims("wildcard", Front(host))
           any == Claims("any", <<>>)
<1>2. ASSUME matched.asked
      PROVE  {matched.cert} = IF exact # {} THEN exact ELSE IF wild # {} THEN wild
                              ELSE IF any # {} THEN any ELSE {0}
  <2> DEFINE K == ClaimsOf(ssls)
             m == sslMatcher
             found == {s \in DOMAIN m.wildcards : host_matches_wildcard(host, s)}
  <2>1. /\ sslsLeft = {} /\ ~m.failed /\ (host = <<>> \/ IsSequence(host))
        /\ matched.cert = CASE host \in DOMAIN m.exact -> m.exact[host]
             [] host \notin DOMAIN m.exact /\ found # {} ->
                  m.wildcards[CHOOSE s \in found : \A t \in found : Len(t) <= Len(s)]
             [] host \notin DOMAIN m.exact /\ found = {} ->
                  IF m.any # <<>> THEN m.any[1] ELSE 0
    BY <1>2 DEF CertInv, CertAnswer, match_sni
  <2>2. Represents(m, K)
    <3>1. ssls \ sslsLeft = ssls
      BY <2>1
    <3> QED BY <3>1 DEF CertInv
  <2>3. /\ \A labels : labels \in DOMAIN m.exact <=> \E c \in K : SniOf(c) = Exact(labels)
        /\ \A c \in K : SniOf(c).kind = "exact" => m.exact[SniOf(c).labels] = c[1].id
        /\ \A labels : labels \in DOMAIN m.wildcards <=> \E c \in K : SniOf(c) = Wildcard(labels)
        /\ \A c \in K : SniOf(c).kind = "wildcard" => m.wildcards[SniOf(c).labels] = c[1].id
        /\ m.any # <<>> <=> \E c \in K : SniOf(c).kind = "any"
        /\ \A c \in K : SniOf(c).kind = "any" => m.any = <<c[1].id>>
    BY <2>1, <2>2 DEF Represents
  <2>4. \A c \in K : IsSni(SniOf(c)) /\ IsSequence(SniOf(c).labels)
    <3>1. \A c \in K : IsSni(SniOf(c))
      BY SnisAre DEF CertInv
    <3>2. ASSUME NEW c \in K PROVE IsSequence(SniOf(c).labels)
      <4>1. c[1] \in ssls /\ SniOf(c) \in Range(c[1].snis) /\ ssls \in SslTables
        BY DEF ClaimsOf, SniOf, Range, CertInv
      <4> HIDE DEF K
      <4>2. \A ssl \in ssls : \A sni \in Range(ssl.snis) : IsSequence(sni.labels)
        BY <4>1, RoutingAssumption DEF RoutingAssumption
      <4> QED BY <4>1, <4>2
    <3> QED BY <3>1, <3>2
  <2> DEFINE ex == \E c \in K : SniOf(c) = Exact(host)
             wi == host # <<>> /\ \E c \in K : SniOf(c) = Wildcard(Front(host))
             an == \E c \in K : SniOf(c).kind = "any"
  <2>5. ASSUME NEW kind, NEW labels, NEW d \in K, SniOf(d) = [kind |-> kind, labels |-> labels]
        PROVE  Claims(kind, labels) = {d[1].id}
    BY <2>1, <2>5, OneClaim
  <2>6. ASSUME NEW kind, NEW labels, \A d \in K : SniOf(d) # [kind |-> kind, labels |-> labels]
        PROVE  Claims(kind, labels) = {}
    BY <2>6, NoClaim
  <2>7. found = IF wi THEN {Front(host)} ELSE {}
    <3>1. ASSUME NEW s \in DOMAIN m.wildcards PROVE host_matches_wildcard(host, s) <=> host # <<>> /\ s = Front(host)
      <4>1. PICK c \in K : SniOf(c) = Wildcard(s)
        BY <2>3
      <4>2. IsSequence(s)
        BY <2>4, <4>1 DEF Wildcard
      <4> QED BY <2>1, <4>2, WildcardSuffix
    <3> QED BY <3>1, <2>3
  <2>8. ASSUME ex PROVE exact = {matched.cert}
    <3>1. PICK c \in K : SniOf(c) = Exact(host)
      BY <2>8
    <3>2. exact = {c[1].id}
      BY <3>1, <2>5 DEF Exact
    <3>3. matched.cert = m.exact[host] /\ m.exact[host] = c[1].id
      BY <3>1, <2>1, <2>3 DEF Exact
    <3> QED BY <3>2, <3>3
  <2>9. ASSUME ~ex PROVE exact = {} /\ host \notin DOMAIN m.exact
    BY <2>9, <2>6, <2>3 DEF Exact
  <2>10. ASSUME ~ex, wi PROVE wild = {matched.cert}
    <3>1. PICK c \in K : SniOf(c) = Wildcard(Front(host))
      BY <2>10
    <3>2. wild = {c[1].id}
      BY <3>1, <2>5, <2>10 DEF Wildcard
    <3>3. found = {Front(host)}
      BY <2>7, <2>10
    <3>4. (CHOOSE s \in found : \A t \in found : Len(t) <= Len(s)) = Front(host)
      <4>1. IsSequence(Front(host))
        BY <2>4, <3>1 DEF Wildcard
      <4>2. Len(Front(host)) <= Len(Front(host))
        BY <4>1 DEF IsSequence
      <4> HIDE DEF found
      <4> QED BY <3>3, <4>2
    <3>5. matched.cert = m.wildcards[Front(host)]
      BY <2>1, <2>9, <2>10, <3>3, <3>4
    <3>6. m.wildcards[Front(host)] = c[1].id
      BY <3>1, <2>3 DEF Wildcard
    <3> QED BY <3>2, <3>5, <3>6
  <2>11. ASSUME ~wi PROVE wild = {} /\ found = {}
    BY <2>11, <2>6, <2>7 DEF Wildcard
  <2>12. ASSUME ~ex, ~wi, an PROVE any = {matched.cert}
    <3>1. PICK c \in K : SniOf(c).kind = "any"
      BY <2>12
    <3>2. SniOf(c) = [kind |-> "any", labels |-> <<>>]
      BY <3>1, <2>4 DEF IsSni
    <3>3. any = {c[1].id}
      BY <3>2, <2>5
    <3>4. m.any = <<c[1].id>> /\ m.any # <<>>
      BY <3>1, <2>3
    <3>5. matched.cert = m.any[1]
      BY <2>1, <2>9, <2>11, <2>12, <3>4
    <3> QED BY <3>3, <3>4, <3>5
  <2>13. ASSUME ~ex, ~wi, ~an PROVE any = {} /\ matched.cert = 0
    <3>1. \A d \in K : SniOf(d) # [kind |-> "any", labels |-> <<>>]
      BY <2>13
    <3>2. m.any = <<>>
      BY <2>13, <2>3
    <3> QED BY <3>1, <3>2, <2>1, <2>6, <2>9, <2>11, <2>13
  <2> HIDE DEF exact, wild, any, ex, wi, an
  <2> QED BY <2>8, <2>9, <2>10, <2>11, <2>12, <2>13
<1> QED BY <1>1, <1>2 DEF CertificateMostSpecific

\* A TLS name gets the certificate of the most specific pattern that covers it, in every
\* order of insertion, and a pattern claimed twice is refused in every order, for every
\* set of certificates.
THEOREM CertificateChosen == RoutingSpec => []CertificateMostSpecific
<1>1. RoutingInit => CertInv
  BY CertInit
<1>2. CertInv /\ [RoutingNext]_routingVars => CertInv'
  BY CertStep
<1>3. CertInv => CertificateMostSpecific
  BY CertGiven
<1> QED BY <1>1, <1>2, <1>3, PTL DEF RoutingSpec

--------------------------------------------------------------------------------
(*****************************************************************************)
(* Route matching: RoutedAsDocumented.                                       *)
(*                                                                           *)
(* Without shadowing a pattern that is inserted lands at itself, since what  *)
(* covers it is it or less specific (Overlap).  The matcher then holds, for  *)
(* every host and URI, the routes inserted so far in the order of the table  *)
(* (MatcherHolds), and the first that takes a request is the documented one. *)
(*****************************************************************************)

\* What is known of a table.
LEMMA TableIs ==
  ASSUME routes \in RouteTables
  PROVE  /\ IsFiniteSet(routes)
         /\ \A r \in routes :
              /\ r.id \in Int /\ r.priority \in Int
              /\ IsSequence(r.uris) /\ IsSequence(r.hosts)
              /\ \A uri \in Range(r.uris) : IsPattern(uri)
              /\ \A host \in Range(r.hosts) : IsPattern(host)
         /\ \A r, s \in routes : r.id = s.id => r = s
  BY RoutingAssumption DEF RoutingAssumption

\* What is known of a sequence.
LEMMA SequenceIs ==
  ASSUME NEW s, IsSequence(s)
  PROVE  /\ Len(s) \in Nat /\ DOMAIN s = 1..Len(s) /\ s = [i \in 1..Len(s) |-> s[i]]
         /\ Range(s) = {s[i] : i \in 1..Len(s)}
  BY DEF IsSequence, Range

\* What is known of a pattern.
LEMMA PatternIs ==
  ASSUME NEW p, IsPattern(p)
  PROVE  /\ Len(p) \in Nat /\ DOMAIN p = 1..Len(p) /\ p = [i \in 1..Len(p) |-> p[i]]
         /\ \A i \in 1..Len(p) : p[i] = CatchAll => i = Len(p)
  BY SequenceIs DEF IsPattern

\* The ranks of a segment.
LEMMA RankIs ==
  \A s : /\ Rank(s) \in {0, 1, 2}
         /\ (Rank(s) = 1) <=> (s = Param)
         /\ (Rank(s) = 2) <=> (s = CatchAll)
<1>1. Param # CatchAll
  BY DEF Param, CatchAll
<1>2. \A s : Rank(s) = IF s = CatchAll THEN 2 ELSE IF s = Param THEN 1 ELSE 0
  BY DEF Rank
<1>3. TAKE s
<1>4. CASE s = CatchAll
  BY <1>1, <1>2, <1>4
<1>5. CASE s = Param
  BY <1>1, <1>2, <1>5
<1>6. CASE s # CatchAll /\ s # Param
  BY <1>2, <1>6
<1> QED BY <1>4, <1>5, <1>6

\* RouteBefore is a strict order of the routes of a table, and total.
LEMMA RoutesOrdered ==
  ASSUME routes \in RouteTables
  PROVE  /\ \A a, b, c \in routes : RouteBefore(a, b) /\ RouteBefore(b, c) => RouteBefore(a, c)
         /\ \A a, b \in routes : a = b \/ RouteBefore(a, b) \/ RouteBefore(b, a)
         /\ \A a, b \in routes : ~(RouteBefore(a, b) /\ RouteBefore(b, a))
         /\ \A a \in routes : ~RouteBefore(a, a)
<1>1. \A r \in routes : r.id \in Int /\ r.priority \in Int
  BY TableIs
<1>2. \A a, b, c \in routes : RouteBefore(a, b) /\ RouteBefore(b, c) => RouteBefore(a, c)
  BY <1>1 DEF RouteBefore
<1>3. ASSUME NEW a \in routes, NEW b \in routes, a # b PROVE RouteBefore(a, b) \/ RouteBefore(b, a)
  <2>1. a.id # b.id
    BY <1>3, TableIs
  <2> QED BY <1>1, <2>1 DEF RouteBefore
<1>4. \A a, b \in routes : ~(RouteBefore(a, b) /\ RouteBefore(b, a))
  BY <1>1 DEF RouteBefore
<1> QED BY <1>2, <1>3, <1>4

\* A text gets one pattern at most.
LEMMA OneFound ==
  ASSUME NEW router, NEW text, \A x \in DOMAIN router : IsPattern(x),
         NEW p \in Found(router, text), NEW q \in Found(router, text)
  PROVE  p = q
<1> SUFFICES ASSUME p # q PROVE FALSE
  OBVIOUS
<1>1. MoreSpecific(p, q) /\ MoreSpecific(q, p) /\ IsPattern(p) /\ IsPattern(q)
  BY DEF Found
<1>2. PICK i \in DOMAIN p \cap DOMAIN q :
        Rank(p[i]) < Rank(q[i]) /\ \A j \in 1..(i - 1) : Rank(p[j]) = Rank(q[j])
  BY <1>1 DEF MoreSpecific
<1>3. PICK k \in DOMAIN q \cap DOMAIN p :
        Rank(q[k]) < Rank(p[k]) /\ \A j \in 1..(k - 1) : Rank(q[j]) = Rank(p[j])
  BY <1>1 DEF MoreSpecific
<1>4. i \in Int /\ k \in Int /\ i >= 1 /\ k >= 1
  BY <1>1, PatternIs
<1>5. \A j : Rank(p[j]) \in Int /\ Rank(q[j]) \in Int
  BY RankIs
<1>6. i < k => i \in 1..(k - 1)
  BY <1>4
<1>7. k < i => k \in 1..(i - 1)
  BY <1>4
<1> DEFINE P(j) == Rank(p[j])
           Q(j) == Rank(q[j])
<1>8. /\ P(i) < Q(i) /\ Q(k) < P(k) /\ (i < k => P(i) = Q(i)) /\ (k < i => P(k) = Q(k))
      /\ P(i) \in Int /\ Q(i) \in Int /\ P(k) \in Int /\ Q(k) \in Int
  BY <1>2, <1>3, <1>5, <1>6, <1>7
<1>9. ~(i < k) /\ ~(k < i)
  <2> HIDE DEF P, Q
  <2> QED BY <1>8
<1>10. i = k
  BY <1>4, <1>9
<1> HIDE DEF P, Q
<1> QED BY <1>8, <1>10

\* A pattern covers itself.
LEMMA CoversItself ==
  ASSUME NEW p, IsPattern(p)
  PROVE  Covers(p, p)
  BY PatternIs, RankIs DEF Covers

\* If a pattern covers another one, the other is more specific, or covers it too.
LEMMA Overlap ==
  ASSUME NEW p, IsPattern(p), NEW q, IsPattern(q), Covers(q, p), p # q
  PROVE  MoreSpecific(p, q) \/ Covers(p, q)
<1> DEFINE m == Len(p)
           n == Len(q)
           D == {i \in 1..n : Rank(p[i]) # Rank(q[i])}
<1>1. /\ m \in Nat /\ DOMAIN p = 1..m /\ p = [i \in 1..m |-> p[i]]
      /\ \A i \in 1..m : p[i] = CatchAll => i = m
  BY PatternIs
<1>2. n \in Nat /\ DOMAIN q = 1..n /\ q = [i \in 1..n |-> q[i]]
  BY PatternIs
<1>3. /\ n <= m
      /\ n = m \/ (q # <<>> /\ q[n] = CatchAll)
      /\ \A i \in 1..n : Rank(q[i]) > 0 \/ (q[i] = p[i] /\ Rank(p[i]) = 0)
  BY <1>2 DEF Covers, Last
<1>4. \A i : Rank(p[i]) \in 0..2 /\ Rank(q[i]) \in 0..2
  BY RankIs
<1>5. \A i : (Rank(p[i]) = 2 <=> p[i] = CatchAll) /\ (Rank(q[i]) = 2 <=> q[i] = CatchAll)
             /\ (Rank(p[i]) = 1 <=> p[i] = Param) /\ (Rank(q[i]) = 1 <=> q[i] = Param)
  BY RankIs
<1> HIDE DEF m, n
<1>6. CASE D = {}
  <2>1. \A i \in 1..n : Rank(p[i]) = Rank(q[i])
    BY <1>6
  <2>2. \A i \in 1..n : p[i] = q[i]
    <3> TAKE i \in 1..n
    <3>1. CASE Rank(q[i]) = 0
      BY <3>1, <1>3
    <3>2. CASE Rank(q[i]) = 1
      BY <3>2, <1>5, <2>1
    <3>3. CASE Rank(q[i]) = 2
      BY <3>3, <1>5, <2>1
    <3> QED BY <1>4, <3>1, <3>2, <3>3
  <2>3. n # m
    <3> SUFFICES ASSUME n = m PROVE FALSE
      OBVIOUS
    <3>1. [i \in 1..n |-> p[i]] = [i \in 1..n |-> q[i]]
      BY <2>2
    <3> QED BY <3>1, <1>1, <1>2
  <2>4. q # <<>> /\ q[n] = CatchAll /\ n < m
    BY <1>1, <1>2, <1>3, <2>3
  <2>5. n # 0
    BY <1>2, <2>4
  <2>6. n \in 1..n /\ n \in 1..m
    BY <1>1, <1>2, <2>4, <2>5
  <2>7. p[n] = CatchAll
    BY <2>2, <2>4, <2>6
  <2> QED BY <1>1, <2>3, <2>6, <2>7
<1>7. CASE D # {}
  <2>1. D \in SUBSET Nat
    OBVIOUS
  <2>2. PICK i \in D : \A j \in D : i <= j
    <3> HIDE DEF D
    <3> QED BY <1>7, <2>1, LeastOfNat
  <2>3. i \in 1..n /\ i \in 1..m /\ Rank(p[i]) # Rank(q[i])
    BY <1>1, <1>2, <1>3
  <2>4. \A j \in 1..(i - 1) : Rank(p[j]) = Rank(q[j])
    <3> TAKE j \in 1..(i - 1)
    <3>1. j \in 1..n /\ ~(i <= j)
      BY <1>2, <2>3
    <3> QED BY <3>1, <2>2
  <2>5. CASE Rank(p[i]) < Rank(q[i])
    BY <2>3, <2>4, <2>5, <1>1, <1>2 DEF MoreSpecific
  <2>6. CASE ~(Rank(p[i]) < Rank(q[i]))
    <3>1. Rank(q[i]) > 0
      BY <1>3, <2>3
    <3>2. Rank(p[i]) = 2
      <4> DEFINE a == Rank(p[i])
                 b == Rank(q[i])
      <4>1. a \in 0..2 /\ b \in 0..2 /\ b > 0 /\ ~(a < b) /\ a # b
        BY <1>4, <2>3, <2>6, <3>1
      <4> HIDE DEF a, b
      <4>2. a = 2
        BY <4>1
      <4> QED BY <4>2 DEF a
    <3>3. p[i] = CatchAll /\ i = m
      BY <1>1, <1>5, <2>3, <3>2
    <3>4. n = m
      BY <1>1, <1>2, <1>3, <2>3, <3>3
    <3>5. \A j \in 1..m : Rank(p[j]) > 0 \/ (p[j] = q[j] /\ Rank(q[j]) = 0)
      <4> TAKE j \in 1..m
      <4>1. CASE j = m
        BY <4>1, <3>2, <3>3
      <4>2. CASE j # m
        <5>1. j \in 1..(i - 1) /\ j \in 1..n
          BY <1>1, <3>3, <3>4, <4>2
        <5>2. Rank(p[j]) = Rank(q[j])
          BY <5>1, <2>4
        <5>3. Rank(q[j]) > 0 \/ (q[j] = p[j] /\ Rank(p[j]) = 0)
          BY <5>1, <1>3
        <5> QED BY <5>2, <5>3
      <4> QED BY <4>1, <4>2
    <3> QED BY <1>1, <1>2, <3>4, <3>5 DEF Covers, m, n
  <2> QED BY <2>5, <2>6
<1> QED BY <1>6, <1>7

\* A pattern that is looked up in a router that has it, or no other one that covers it.
LEMMA FoundItself ==
  ASSUME NEW router, \A x \in DOMAIN router : IsPattern(x), NEW p, IsPattern(p),
         \A q \in DOMAIN router : Covers(q, p) => q = p \/ (p \in DOMAIN router /\ MoreSpecific(p, q))
  PROVE  /\ p \in DOMAIN router => Found(router, p) = {p}
         /\ p \notin DOMAIN router => Found(router, p) = {}
<1>1. ASSUME p \in DOMAIN router PROVE Found(router, p) = {p}
  <2>1. p \in Found(router, p)
    BY <1>1, CoversItself DEF Found
  <2>2. \A q \in Found(router, p) : q = p
    BY <2>1, OneFound
  <2> QED BY <2>1, <2>2
<1>2. ASSUME p \notin DOMAIN router PROVE Found(router, p) = {}
  BY <1>2 DEF Found
<1> QED BY <1>1, <1>2

\* insert_into_router files a route under its pattern then.
LEMMA InsertedAt ==
  ASSUME NEW router, \A x \in DOMAIN router : IsPattern(x), NEW p, IsPattern(p), NEW route,
         \A q \in DOMAIN router : Covers(q, p) => q = p \/ (p \in DOMAIN router /\ MoreSpecific(p, q))
  PROVE  LET new == insert_into_router(router, p, route) IN
         /\ DOMAIN new = DOMAIN router \cup {p}
         /\ \A q \in DOMAIN router : q # p => new[q] = router[q]
         /\ p \in DOMAIN router => new[p] = Pushed(router[p], route)
         /\ p \notin DOMAIN router => new[p] = <<route>>
<1> DEFINE new == insert_into_router(router, p, route)
<1>1. CASE p \in DOMAIN router
  <2>1. Found(router, p) = {p}
    BY <1>1, FoundItself
  <2>2. new = [router EXCEPT ![p] = Pushed(router[p], route)]
    BY <2>1 DEF insert_into_router
  <2> QED BY <1>1, <2>2
<1>2. CASE p \notin DOMAIN router
  <2>1. Found(router, p) = {}
    BY <1>2, FoundItself
  <2> DEFINE one == <<route>>
  <2>2. new = With(router, p, one)
    BY <2>1 DEF insert_into_router
  <2> HIDE DEF new, one
  <2>3. DOMAIN new = DOMAIN router \cup {p} /\ new[p] = one /\ \A q \in DOMAIN router : q # p => new[q] = router[q]
    BY <2>2 DEF With
  <2> QED BY <1>2, <2>3 DEF new, one
<1> QED BY <1>1, <1>2

\* Keeping, step by step.
LEMMA KeepingSteps ==
  ASSUME NEW seq, NEW keep, Len(seq) \in Nat
  PROVE  \E f : /\ Keeping(seq, keep) = f[Len(seq)]
                /\ f[0] = <<>>
                /\ \A n \in 1..Len(seq) :
                     f[n] = IF seq[n] \in keep THEN Append(f[n - 1], seq[n]) ELSE f[n - 1]
<1> DEFINE len == Len(seq)
           Next1(v, n) == IF seq[n] \in keep THEN Append(v, seq[n]) ELSE v
           Body(f) == [n \in 0..len |-> IF n = 0 THEN <<>>
                        ELSE IF seq[n] \in keep THEN Append(f[n - 1], seq[n]) ELSE f[n - 1]]
           after == CHOOSE f : f = Body(f)
           I == {k \in Nat : k <= len =>
                  \E f : f = [n \in 0..k |-> IF n = 0 THEN <<>> ELSE Next1(f[n - 1], n)]}
<1>1. Keeping(seq, keep) = after[len]
  BY DEF Keeping
<1> HIDE DEF Next1
<1>2. 0 \in I
  <2> DEFINE g == [n \in 0..0 |-> <<>>]
  <2>1. g = [n \in 0..0 |-> IF n = 0 THEN <<>> ELSE Next1(g[n - 1], n)]
    OBVIOUS
  <2> HIDE DEF g
  <2> QED BY <2>1
<1>3. ASSUME NEW k \in Nat, k \in I PROVE k + 1 \in I
  <2> SUFFICES ASSUME k + 1 <= len
               PROVE \E f : f = [n \in 0..(k + 1) |-> IF n = 0 THEN <<>> ELSE Next1(f[n - 1], n)]
    OBVIOUS
  <2>1. PICK f : f = [n \in 0..k |-> IF n = 0 THEN <<>> ELSE Next1(f[n - 1], n)]
    BY <1>3
  <2> DEFINE g == [n \in 0..(k + 1) |-> IF n = k + 1 THEN Next1(f[k], n) ELSE f[n]]
  <2>2. /\ g[k + 1] = Next1(f[k], k + 1) /\ \A n \in 0..k : g[n] = f[n]
        /\ g = [n \in 0..(k + 1) |-> g[n]]
    OBVIOUS
  <2> HIDE DEF g
  <2>3. ASSUME NEW n \in 0..(k + 1)
        PROVE g[n] = IF n = 0 THEN <<>> ELSE Next1(g[n - 1], n)
    <3>1. CASE n = k + 1
      <4>1. n - 1 = k /\ n # 0 /\ k \in 0..k
        BY <3>1
      <4>2. g[n - 1] = f[k]
        BY <4>1, <2>2
      <4> QED BY <3>1, <4>1, <4>2, <2>2
    <3>2. CASE n # k + 1
      <4>1. n \in 0..k /\ (n # 0 => n - 1 \in 0..k)
        BY <3>2
      <4>2. f[n] = IF n = 0 THEN <<>> ELSE Next1(f[n - 1], n)
        BY <4>1, <2>1
      <4> QED BY <4>1, <4>2, <2>2
    <3> QED BY <3>1, <3>2
  <2>4. g = [n \in 0..(k + 1) |-> IF n = 0 THEN <<>> ELSE Next1(g[n - 1], n)]
    <3> DEFINE h == [n \in 0..(k + 1) |-> IF n = 0 THEN <<>> ELSE Next1(g[n - 1], n)]
    <3>1. h = [n \in 0..(k + 1) |-> h[n]] /\ \A n \in 0..(k + 1) : g[n] = h[n]
      BY <2>3
    <3> HIDE DEF h
    <3>2. g = h
      BY <3>1, <2>2
    <3> QED BY <3>2 DEF h
  <2> QED BY <2>4
<1> HIDE DEF I
<1>4. len \in I
  BY <1>2, <1>3, Induction
<1>5. \E f : f = Body(f)
  BY <1>4 DEF I, Next1
<1>6. after = Body(after)
  BY <1>5
<1> HIDE DEF after
<1>7. 0 \in 0..len /\ \A n \in 1..len : n \in 0..len /\ n # 0
  OBVIOUS
<1>8. after[0] = <<>> /\ \A n \in 1..len : after[n] = Next1(after[n - 1], n)
  <2>1. \A n \in 0..len : after[n] = IF n = 0 THEN <<>> ELSE Next1(after[n - 1], n)
    BY <1>6 DEF Next1
  <2> QED BY <2>1, <1>7
<1> QED BY <1>1, <1>8 DEF Next1

\* Keeping all that a sequence holds leaves it as it is.
LEMMA KeepingAll ==
  ASSUME NEW S, NEW seq \in Seq(S)
  PROVE  Keeping(seq, Range(seq)) = seq
<1> DEFINE len == Len(seq)
           keep == Range(seq)
<1>1. len \in Nat /\ DOMAIN seq = 1..len /\ \A n \in 1..len : seq[n] \in S /\ seq[n] \in keep
  BY DEF Range
<1> HIDE DEF len, keep
<1>2. PICK f : /\ Keeping(seq, keep) = f[len] /\ f[0] = <<>>
               /\ \A n \in 1..len : f[n] = IF seq[n] \in keep THEN Append(f[n - 1], seq[n]) ELSE f[n - 1]
  BY <1>1, KeepingSteps DEF len
<1> DEFINE I == {n \in Nat : n <= len => /\ f[n] \in Seq(S) /\ Len(f[n]) = n
                                         /\ \A i \in 1..n : f[n][i] = seq[i]}
<1>3. 0 \in I
  <2> DEFINE none == <<>>
  <2>1. none \in Seq(S) /\ Len(none) = 0
    OBVIOUS
  <2>2. f[0] = none
    BY <1>2
  <2> HIDE DEF none
  <2>3. f[0] \in Seq(S) /\ Len(f[0]) = 0 /\ \A i \in 1..0 : f[0][i] = seq[i]
    BY <2>1, <2>2
  <2> QED BY <2>3
<1>4. ASSUME NEW n \in Nat, n \in I PROVE n + 1 \in I
  <2> SUFFICES ASSUME n + 1 <= len
               PROVE  /\ f[n + 1] \in Seq(S) /\ Len(f[n + 1]) = n + 1
                      /\ \A i \in 1..(n + 1) : f[n + 1][i] = seq[i]
    OBVIOUS
  <2> DEFINE m == n + 1
             old == f[n]
             e == seq[m]
  <2>1. m \in 1..len /\ m - 1 = n /\ e \in S /\ e \in keep
    BY <1>1
  <2>2. old \in Seq(S) /\ Len(old) = n /\ \A i \in 1..n : old[i] = seq[i]
    BY <1>1, <1>4
  <2> HIDE DEF old
  <2>3. f[m] = Append(old, e)
    BY <1>2, <2>1 DEF old
  <2> HIDE DEF e
  <2>4. Append(old, e) \in Seq(S) /\ Len(Append(old, e)) = m /\ Append(old, e)[m] = e
        /\ \A i \in 1..n : Append(old, e)[i] = old[i]
    BY <2>1, <2>2
  <2> HIDE DEF m
  <2>5. \A i \in 1..m : i \in 1..n \/ i = m
    BY DEF m
  <2>6. \A i \in 1..m : f[m][i] = seq[i]
    BY <2>2, <2>3, <2>4, <2>5 DEF e
  <2> QED BY <2>3, <2>4, <2>6 DEF m
<1> HIDE DEF I
<1>5. len \in I
  BY <1>1, <1>3, <1>4, Induction
<1>6. /\ f[len] \in Seq(S) /\ Len(f[len]) = len /\ \A i \in 1..len : f[len][i] = seq[i]
  BY <1>1, <1>5 DEF I
<1> DEFINE kept == f[len]
<1> HIDE DEF kept
<1>7. kept \in Seq(S) /\ Len(kept) = len /\ \A i \in 1..len : kept[i] = seq[i]
  BY <1>6 DEF kept
<1>8. kept = seq
  BY <1>7, <1>1 DEF len
<1> QED BY <1>2, <1>8 DEF kept, keep

\* Keeping nothing leaves nothing.
LEMMA KeepingNone ==
  ASSUME NEW seq, Len(seq) \in Nat
  PROVE  Keeping(seq, {}) = <<>>
<1> DEFINE len == Len(seq)
<1>1. PICK f : /\ Keeping(seq, {}) = f[len] /\ f[0] = <<>>
               /\ \A n \in 1..len : f[n] = f[n - 1]
  <2>1. PICK f : /\ Keeping(seq, {}) = f[len] /\ f[0] = <<>>
                 /\ \A n \in 1..len : f[n] = IF seq[n] \in {} THEN Append(f[n - 1], seq[n]) ELSE f[n - 1]
    <3> DEFINE no == {}
    <3> HIDE DEF no
    <3>1. \E f : /\ Keeping(seq, no) = f[len] /\ f[0] = <<>>
                 /\ \A n \in 1..len : f[n] = IF seq[n] \in no THEN Append(f[n - 1], seq[n]) ELSE f[n - 1]
      BY KeepingSteps
    <3> QED BY <3>1 DEF no
  <2> QED BY <2>1
<1> HIDE DEF len
<1> DEFINE I == {n \in Nat : n <= len => f[n] = <<>>}
<1>2. 0 \in I
  BY <1>1
<1>3. len \in Nat
  BY DEF len
<1>4. ASSUME NEW n \in Nat, n \in I PROVE n + 1 \in I
  <2> SUFFICES ASSUME n + 1 <= len PROVE f[n + 1] = <<>>
    OBVIOUS
  <2>1. n + 1 \in 1..len /\ n + 1 - 1 = n /\ n <= len
    BY <1>3
  <2>2. f[n] = <<>>
    BY <1>4, <2>1
  <2>3. f[n + 1] = f[n]
    BY <1>1, <2>1
  <2> QED BY <2>2, <2>3
<1> HIDE DEF I
<1>5. len \in I
  BY <1>2, <1>3, <1>4, Induction
<1> QED BY <1>1, <1>3, <1>5 DEF I

\* The routes of group, in order; one may be there more than once.
BucketOf(table, bucket, group) ==
  /\ bucket \in Seq(table)
  /\ Range(bucket) = group
  /\ \A i, j \in DOMAIN bucket : i < j => bucket[i] = bucket[j] \/ RouteBefore(bucket[i], bucket[j])

\* A route that none of the bucket comes behind goes to the end.
LEMMA PushedLast ==
  ASSUME routes \in RouteTables, NEW bucket, NEW group \in SUBSET routes, BucketOf(routes, bucket, group),
         NEW route \in routes, \A r \in group : r = route \/ RouteBefore(r, route)
  PROVE  BucketOf(routes, Pushed(bucket, route), group \cup {route})
<1> DEFINE first == {r \in Range(bucket) : r.priority >= route.priority}
<1>1. /\ bucket \in Seq(routes) /\ Range(bucket) = group
      /\ \A i, j \in DOMAIN bucket : i < j => bucket[i] = bucket[j] \/ RouteBefore(bucket[i], bucket[j])
  BY DEF BucketOf
<1>2. first = Range(bucket)
  <2>1. ASSUME NEW r \in group PROVE r.priority >= route.priority
    <3>1. r.priority \in Int /\ route.priority \in Int
      BY TableIs
    <3> QED BY <3>1 DEF RouteBefore
  <2> QED BY <1>1, <2>1
<1> HIDE DEF first
<1> DEFINE one == <<route>>
           none == <<>>
<1>3. Pushed(bucket, route) = bucket \o one \o none
  <2>1. Keeping(bucket, first) = bucket
    BY <1>1, <1>2, KeepingAll
  <2>2. Len(bucket) \in Nat /\ Range(bucket) \ first = {}
    BY <1>1, <1>2
  <2>3. Keeping(bucket, Range(bucket) \ first) = none
    BY <2>2, KeepingNone
  <2>4. Pushed(bucket, route) = Keeping(bucket, first) \o one \o Keeping(bucket, Range(bucket) \ first)
    BY DEF Pushed, first
  <2> HIDE DEF one, none
  <2> QED BY <2>1, <2>3, <2>4
<1> DEFINE len == Len(bucket)
           new == Append(bucket, route)
<1>4. bucket \o one \o none = new
  BY <1>1
<1>5. len \in Nat /\ DOMAIN bucket = 1..len /\ \A i \in 1..len : bucket[i] \in group
  BY <1>1 DEF Range
<1>6. /\ new \in Seq(routes) /\ DOMAIN new = 1..(len + 1) /\ new[len + 1] = route
      /\ \A i \in 1..len : new[i] = bucket[i]
  BY <1>1
<1> HIDE DEF len, new, one, none
<1>7. \A i \in 1..(len + 1) : i \in 1..len \/ i = len + 1
  BY <1>5
<1>8. Range(new) = group \cup {route}
  <2>1. \A r \in group : \E i \in 1..(len + 1) : new[i] = r
    <3> TAKE r \in group
    <3>1. PICK i \in 1..len : bucket[i] = r
      BY <1>1, <1>5 DEF Range
    <3> QED BY <3>1, <1>5, <1>6
  <2>2. len + 1 \in 1..(len + 1)
    BY <1>5
  <2> QED BY <2>1, <2>2, <1>5, <1>6, <1>7 DEF Range
<1>9. ASSUME NEW i \in DOMAIN new, NEW j \in DOMAIN new, i < j
      PROVE  new[i] = new[j] \/ RouteBefore(new[i], new[j])
  <2>1. i \in 1..len
    BY <1>5, <1>6, <1>9
  <2>2. CASE j \in 1..len
    BY <2>1, <2>2, <1>1, <1>5, <1>6, <1>9
  <2>3. CASE j = len + 1
    BY <2>1, <2>3, <1>5, <1>6
  <2> QED BY <2>2, <2>3, <1>6, <1>7
<1> QED BY <1>3, <1>4, <1>6, <1>8, <1>9 DEF BucketOf

\* The bucket of one route.
LEMMA BucketOfOne ==
  ASSUME NEW route \in routes
  PROVE  BucketOf(routes, <<route>>, {route})
<1> DEFINE one == <<route>>
<1>1. one \in Seq(routes) /\ DOMAIN one = {1} /\ one[1] = route
  OBVIOUS
<1> HIDE DEF one
<1>2. BucketOf(routes, one, {route})
  BY <1>1 DEF BucketOf, Range
<1> QED BY <1>2 DEF one

\* What is known of a route's patterns.
LEMMA PatternsAre ==
  ASSUME routes \in RouteTables, NEW r \in routes
  PROVE  /\ Len(r.uris) \in Nat /\ DOMAIN r.uris = 1..Len(r.uris)
         /\ Range(r.uris) = {r.uris[i] : i \in DOMAIN r.uris}
         /\ \A i \in DOMAIN r.uris : IsPattern(r.uris[i])
         /\ Len(r.hosts) \in Nat /\ DOMAIN r.hosts = 1..Len(r.hosts)
         /\ Range(r.hosts) = {r.hosts[i] : i \in DOMAIN r.hosts}
         /\ \A i \in DOMAIN r.hosts : IsPattern(r.hosts[i])
<1> DEFINE us == r.uris
           hs == r.hosts
<1>1. IsSequence(us) /\ IsSequence(hs) /\ (\A u \in Range(us) : IsPattern(u))
      /\ (\A h \in Range(hs) : IsPattern(h))
  BY TableIs
<1> HIDE DEF us, hs
<1>2. /\ Len(us) \in Nat /\ DOMAIN us = 1..Len(us) /\ Len(hs) \in Nat /\ DOMAIN hs = 1..Len(hs)
  BY <1>1, SequenceIs
<1>3. Range(us) = {us[i] : i \in DOMAIN us} /\ Range(hs) = {hs[i] : i \in DOMAIN hs}
  BY DEF Range
<1>4. (\A i \in DOMAIN us : IsPattern(us[i])) /\ (\A i \in DOMAIN hs : IsPattern(hs[i]))
  BY <1>1, <1>3
<1> QED BY <1>2, <1>3, <1>4 DEF us, hs

\* The router holds the routes of F, a set of pairs of a pattern and a route.
Filed(table, router, F) ==
  /\ DOMAIN router = {e[1] : e \in F}
  /\ \A u \in DOMAIN router : BucketOf(table, router[u], {r \in table : <<u, r>> \in F})

UrisOf(group) == UNION {{<<u, r>> : u \in Range(r.uris)} : r \in group}

\* The pairs of a URI and a route of the group.
LEMMA UrisOfIs ==
  ASSUME NEW group
  PROVE  \A e : e \in UrisOf(group) <=> \E r \in group : \E u \in Range(r.uris) : e = <<u, r>>
  BY DEF UrisOf

\* All that the router holds was inserted before the n-th URI of route.
EarlierIn(F, route, n) ==
  \A e \in F : \E a \in routes : \E i \in DOMAIN a.uris :
    /\ e = <<a.uris[i], a>>
    /\ RouteBefore(a, route) \/ (a = route /\ (i < n \/ <<route.uris[n], route>> \in F))

\* Without shadowing, what covers the n-th URI is that URI, or a less specific one.
LEMMA UriFree ==
  ASSUME routes \in RouteTables, ~Shadowing, NEW route \in routes, NEW n \in DOMAIN route.uris,
         NEW F, EarlierIn(F, route, n), NEW e \in F, Covers(e[1], route.uris[n])
  PROVE  /\ IsPattern(route.uris[n])
         /\ \/ e[1] = route.uris[n]
            \/ <<route.uris[n], route>> \in F /\ MoreSpecific(route.uris[n], e[1])
<1>1. \A r \in routes : /\ DOMAIN r.uris = 1..Len(r.uris) /\ Len(r.uris) \in Nat
                        /\ \A i \in DOMAIN r.uris : IsPattern(r.uris[i])
  BY PatternsAre
<1>0. PICK a \in routes : \E i \in DOMAIN a.uris :
        /\ e = <<a.uris[i], a>>
        /\ RouteBefore(a, route) \/ (a = route /\ (i < n \/ <<route.uris[n], route>> \in F))
  BY DEF EarlierIn
<1>2. PICK i \in DOMAIN a.uris :
        /\ e = <<a.uris[i], a>>
        /\ RouteBefore(a, route) \/ (a = route /\ (i < n \/ <<route.uris[n], route>> \in F))
  BY <1>0
<1> DEFINE p == route.uris[n]
           q == a.uris[i]
<1>3. e[1] = q /\ IsPattern(p) /\ IsPattern(q) /\ Covers(q, p)
  BY <1>1, <1>2
<1>4. \A x, y \in routes : \A k \in DOMAIN x.uris, l \in DOMAIN y.uris :
        (RouteBefore(x, y) \/ (x = y /\ k < l)) /\ Covers(x.uris[k], y.uris[l]) => x.uris[k] = y.uris[l]
  BY DEF Shadowing
<1>5. CASE RouteBefore(a, route) \/ (a = route /\ i < n)
  <2>1. q = p
    BY <1>3, <1>4, <1>5
  <2> QED BY <2>1, <1>3
<1>6. CASE a = route /\ i = n
  BY <1>3, <1>6
<1>7. CASE a = route /\ n < i /\ <<p, route>> \in F
  <2>1. CASE p = q
    BY <2>1, <1>3
  <2>2. CASE p # q
    <3>1. MoreSpecific(p, q) \/ Covers(p, q)
      BY <1>3, <2>2, Overlap
    <3>2. ~Covers(p, q)
      BY <1>4, <1>7, <2>2
    <3> QED BY <3>1, <3>2, <1>3, <1>7
  <2> QED BY <2>1, <2>2
<1>8. i \in Int /\ n \in Int
  BY <1>1
<1> QED BY <1>2, <1>5, <1>6, <1>7, <1>8

\* The n-th URI of a route lands at its own pattern.
LEMMA UriInserted ==
  ASSUME routes \in RouteTables, ~Shadowing, NEW route \in routes, NEW n \in DOMAIN route.uris,
         NEW F, EarlierIn(F, route, n), NEW router, Filed(routes, router, F)
  PROVE  Filed(routes, insert_into_router(router, route.uris[n], route), F \cup {<<route.uris[n], route>>})
<1> DEFINE p == route.uris[n]
           new == insert_into_router(router, p, route)
           G == F \cup {<<p, route>>}
           In(H, u) == {r \in routes : <<u, r>> \in H}
<1>1. /\ DOMAIN router = {e[1] : e \in F}
      /\ \A u \in DOMAIN router : BucketOf(routes, router[u], In(F, u))
  BY DEF Filed
<1>2. \A r \in routes : \A i \in DOMAIN r.uris : IsPattern(r.uris[i])
  BY PatternsAre
<1>3. \A e \in F : \E a \in routes : \E i \in DOMAIN a.uris :
        e = <<a.uris[i], a>> /\ (RouteBefore(a, route) \/ a = route)
  BY DEF EarlierIn
<1>4. \A x \in DOMAIN router : IsPattern(x)
  BY <1>1, <1>2, <1>3
<1>5. \A q \in DOMAIN router : Covers(q, p) => q = p \/ (p \in DOMAIN router /\ MoreSpecific(p, q))
  <2> SUFFICES ASSUME NEW q \in DOMAIN router, Covers(q, p)
               PROVE  q = p \/ (p \in DOMAIN router /\ MoreSpecific(p, q))
    OBVIOUS
  <2>1. PICK e \in F : e[1] = q
    BY <1>1
  <2>2. q = p \/ (<<p, route>> \in F /\ MoreSpecific(p, q))
    BY <2>1, UriFree
  <2>3. <<p, route>> \in F => <<p, route>>[1] \in DOMAIN router
    BY <1>1
  <2> QED BY <2>2, <2>3
<1>6. /\ DOMAIN new = DOMAIN router \cup {p}
      /\ \A q \in DOMAIN router : q # p => new[q] = router[q]
      /\ p \in DOMAIN router => new[p] = Pushed(router[p], route)
      /\ p \notin DOMAIN router => new[p] = <<route>>
  <2>1. IsPattern(p)
    BY <1>2
  <2> HIDE DEF p
  <2> QED BY <2>1, <1>4, <1>5, InsertedAt
<1> HIDE DEF p, new
<1>7. DOMAIN new = {e[1] : e \in G}
  <2> DEFINE e0 == <<p, route>>
  <2>1. e0[1] = p /\ G = F \cup {e0}
    OBVIOUS
  <2> HIDE DEF e0, G
  <2> QED BY <2>1, <1>1, <1>6
<1>8. ASSUME NEW u \in DOMAIN new PROVE BucketOf(routes, new[u], In(G, u))
  <2>1. CASE u # p
    <3>1. In(G, u) = In(F, u) /\ u \in DOMAIN router
      BY <2>1, <1>6
    <3> QED BY <3>1, <2>1, <1>1, <1>6
  <2>2. CASE u = p /\ p \in DOMAIN router
    <3>1. BucketOf(routes, router[p], In(F, p)) /\ new[p] = Pushed(router[p], route)
      BY <2>2, <1>1, <1>6
    <3>2. \A r \in In(F, p) : r = route \/ RouteBefore(r, route)
      <4> TAKE r \in In(F, p)
      <4>1. PICK a \in routes : \E i \in DOMAIN a.uris :
              <<p, r>> = <<a.uris[i], a>> /\ (RouteBefore(a, route) \/ a = route)
        BY <1>3
      <4> QED BY <4>1
    <3>3. BucketOf(routes, new[p], In(F, p) \cup {route})
      <4>1. In(F, p) \in SUBSET routes
        OBVIOUS
      <4> HIDE DEF In
      <4> QED BY <3>1, <3>2, <4>1, PushedLast
    <3>4. In(G, p) = In(F, p) \cup {route}
      OBVIOUS
    <3> QED BY <2>2, <3>3, <3>4
  <2>3. CASE u = p /\ p \notin DOMAIN router
    <3>1. new[p] = <<route>> /\ BucketOf(routes, <<route>>, {route})
      BY <2>3, <1>6, BucketOfOne
    <3>2. In(G, p) = {route}
      <4>1. ASSUME NEW r \in routes, <<p, r>> \in F PROVE FALSE
        <5>1. <<p, r>>[1] \in DOMAIN router
          BY <4>1, <1>1
        <5> QED BY <5>1, <2>3
      <4> QED BY <4>1
    <3> QED BY <2>3, <3>1, <3>2
  <2> QED BY <2>1, <2>2, <2>3
<1>9. Filed(routes, new, G)
  BY <1>7, <1>8 DEF Filed
<1> QED BY <1>9 DEF new, p

\* InsertUris, step by step.
LEMMA InsertUrisLoops ==
  ASSUME NEW router, NEW route, Len(route.uris) \in Nat
  PROVE  \E f : /\ InsertUris(router, route) = f[Len(route.uris)]
                /\ f[0] = router
                /\ \A n \in 1..Len(route.uris) : f[n] = insert_into_router(f[n - 1], route.uris[n], route)
<1> DEFINE len == Len(route.uris)
           Body(f) == [n \in 0..len |-> IF n = 0 THEN router ELSE insert_into_router(f[n - 1], route.uris[n], route)]
           after == CHOOSE f : f = Body(f)
           I == {k \in Nat : k <= len =>
                  \E f : f = [n \in 0..k |-> IF n = 0 THEN router ELSE insert_into_router(f[n - 1], route.uris[n], route)]}
<1>1. InsertUris(router, route) = after[len]
  BY DEF InsertUris, Looped
<1>2. 0 \in I
  <2> DEFINE g == [n \in 0..0 |-> router]
  <2>1. g = [n \in 0..0 |-> IF n = 0 THEN router ELSE insert_into_router(g[n - 1], route.uris[n], route)]
    OBVIOUS
  <2> HIDE DEF g
  <2> QED BY <2>1
<1>3. ASSUME NEW k \in Nat, k \in I PROVE k + 1 \in I
  <2> SUFFICES ASSUME k + 1 <= len
               PROVE \E f : f = [n \in 0..(k + 1) |-> IF n = 0 THEN router ELSE insert_into_router(f[n - 1], route.uris[n], route)]
    OBVIOUS
  <2>1. PICK f : f = [n \in 0..k |-> IF n = 0 THEN router ELSE insert_into_router(f[n - 1], route.uris[n], route)]
    BY <1>3
  <2> DEFINE g == [n \in 0..(k + 1) |-> IF n = k + 1 THEN insert_into_router(f[k], route.uris[n], route) ELSE f[n]]
  <2>2. /\ g[k + 1] = insert_into_router(f[k], route.uris[k + 1], route) /\ \A n \in 0..k : g[n] = f[n]
        /\ g = [n \in 0..(k + 1) |-> g[n]]
    OBVIOUS
  <2> HIDE DEF g
  <2>3. ASSUME NEW n \in 0..(k + 1)
        PROVE g[n] = IF n = 0 THEN router ELSE insert_into_router(g[n - 1], route.uris[n], route)
    <3>1. CASE n = k + 1
      <4>1. n - 1 = k /\ n # 0 /\ k \in 0..k
        BY <3>1
      <4>2. g[n - 1] = f[k]
        BY <4>1, <2>2
      <4> QED BY <3>1, <4>1, <4>2, <2>2
    <3>2. CASE n # k + 1
      <4>1. n \in 0..k /\ (n # 0 => n - 1 \in 0..k)
        BY <3>2
      <4>2. f[n] = IF n = 0 THEN router ELSE insert_into_router(f[n - 1], route.uris[n], route)
        BY <4>1, <2>1
      <4> QED BY <4>1, <4>2, <2>2
    <3> QED BY <3>1, <3>2
  <2>4. g = [n \in 0..(k + 1) |-> IF n = 0 THEN router ELSE insert_into_router(g[n - 1], route.uris[n], route)]
    <3> DEFINE h == [n \in 0..(k + 1) |-> IF n = 0 THEN router ELSE insert_into_router(g[n - 1], route.uris[n], route)]
    <3>1. h = [n \in 0..(k + 1) |-> h[n]] /\ \A n \in 0..(k + 1) : g[n] = h[n]
      BY <2>3
    <3> HIDE DEF h
    <3>2. g = h
      BY <3>1, <2>2
    <3> QED BY <3>2 DEF h
  <2> QED BY <2>4
<1> HIDE DEF I
<1>4. len \in I
  BY <1>2, <1>3, Induction
<1>5. \E f : f = Body(f)
  BY <1>4 DEF I
<1>6. after = Body(after)
  BY <1>5
<1> HIDE DEF after
<1>7. 0 \in 0..len /\ \A n \in 1..len : n \in 0..len /\ n # 0
  OBVIOUS
<1>8. after[0] = router /\ \A n \in 1..len : after[n] = insert_into_router(after[n - 1], route.uris[n], route)
  <2>1. \A n \in 0..len : after[n] = IF n = 0 THEN router ELSE insert_into_router(after[n - 1], route.uris[n], route)
    BY <1>6
  <2> QED BY <2>1, <1>7
<1> QED BY <1>1, <1>8

\* The loop of insert_route over the hosts, step by step.
LEMMA InsertHostsLoops ==
  ASSUME NEW m, NEW route, route.hosts # <<>>, Len(route.hosts) \in Nat
  PROVE  \E f : /\ insert_route(m, route).hosts = f[Len(route.hosts)]
                /\ f[0] = m.hosts
                /\ \A n \in 1..Len(route.hosts) : f[n] = insert_host_uris(f[n - 1], route.hosts[n], route)
<1> DEFINE len == Len(route.hosts)
           Body(f) == [n \in 0..len |-> IF n = 0 THEN m.hosts ELSE insert_host_uris(f[n - 1], route.hosts[n], route)]
           after == CHOOSE f : f = Body(f)
           I == {k \in Nat : k <= len =>
                  \E f : f = [n \in 0..k |-> IF n = 0 THEN m.hosts ELSE insert_host_uris(f[n - 1], route.hosts[n], route)]}
<1>1. insert_route(m, route).hosts = after[len]
  BY DEF insert_route, Looped
<1>2. 0 \in I
  <2> DEFINE g == [n \in 0..0 |-> m.hosts]
  <2>1. g = [n \in 0..0 |-> IF n = 0 THEN m.hosts ELSE insert_host_uris(g[n - 1], route.hosts[n], route)]
    OBVIOUS
  <2> HIDE DEF g
  <2> QED BY <2>1
<1>3. ASSUME NEW k \in Nat, k \in I PROVE k + 1 \in I
  <2> SUFFICES ASSUME k + 1 <= len
               PROVE \E f : f = [n \in 0..(k + 1) |-> IF n = 0 THEN m.hosts ELSE insert_host_uris(f[n - 1], route.hosts[n], route)]
    OBVIOUS
  <2>1. PICK f : f = [n \in 0..k |-> IF n = 0 THEN m.hosts ELSE insert_host_uris(f[n - 1], route.hosts[n], route)]
    BY <1>3
  <2> DEFINE g == [n \in 0..(k + 1) |-> IF n = k + 1 THEN insert_host_uris(f[k], route.hosts[n], route) ELSE f[n]]
  <2>2. /\ g[k + 1] = insert_host_uris(f[k], route.hosts[k + 1], route) /\ \A n \in 0..k : g[n] = f[n]
        /\ g = [n \in 0..(k + 1) |-> g[n]]
    OBVIOUS
  <2> HIDE DEF g
  <2>3. ASSUME NEW n \in 0..(k + 1)
        PROVE g[n] = IF n = 0 THEN m.hosts ELSE insert_host_uris(g[n - 1], route.hosts[n], route)
    <3>1. CASE n = k + 1
      <4>1. n - 1 = k /\ n # 0 /\ k \in 0..k
        BY <3>1
      <4>2. g[n - 1] = f[k]
        BY <4>1, <2>2
      <4> QED BY <3>1, <4>1, <4>2, <2>2
    <3>2. CASE n # k + 1
      <4>1. n \in 0..k /\ (n # 0 => n - 1 \in 0..k)
        BY <3>2
      <4>2. f[n] = IF n = 0 THEN m.hosts ELSE insert_host_uris(f[n - 1], route.hosts[n], route)
        BY <4>1, <2>1
      <4> QED BY <4>1, <4>2, <2>2
    <3> QED BY <3>1, <3>2
  <2>4. g = [n \in 0..(k + 1) |-> IF n = 0 THEN m.hosts ELSE insert_host_uris(g[n - 1], route.hosts[n], route)]
    <3> DEFINE h == [n \in 0..(k + 1) |-> IF n = 0 THEN m.hosts ELSE insert_host_uris(g[n - 1], route.hosts[n], route)]
    <3>1. h = [n \in 0..(k + 1) |-> h[n]] /\ \A n \in 0..(k + 1) : g[n] = h[n]
      BY <2>3
    <3> HIDE DEF h
    <3>2. g = h
      BY <3>1, <2>2
    <3> QED BY <3>2 DEF h
  <2> QED BY <2>4
<1> HIDE DEF I
<1>4. len \in I
  BY <1>2, <1>3, Induction
<1>5. \E f : f = Body(f)
  BY <1>4 DEF I
<1>6. after = Body(after)
  BY <1>5
<1> HIDE DEF after
<1>7. 0 \in 0..len /\ \A n \in 1..len : n \in 0..len /\ n # 0
  OBVIOUS
<1>8. after[0] = m.hosts /\ \A n \in 1..len : after[n] = insert_host_uris(after[n - 1], route.hosts[n], route)
  <2>1. \A n \in 0..len : after[n] = IF n = 0 THEN m.hosts ELSE insert_host_uris(after[n - 1], route.hosts[n], route)
    BY <1>6
  <2> QED BY <2>1, <1>7
<1> QED BY <1>1, <1>8

\* A route's URIs land at their own patterns.
LEMMA UrisInserted ==
  ASSUME routes \in RouteTables, ~Shadowing, NEW route \in routes, NEW router,
         NEW group \in SUBSET routes, \A r \in group : r = route \/ RouteBefore(r, route),
         Filed(routes, router, UrisOf(group))
  PROVE  Filed(routes, InsertUris(router, route), UrisOf(group \cup {route}))
<1> DEFINE len == Len(route.uris)
           Own(n) == {<<route.uris[i], route>> : i \in 1..n}
           base == UrisOf(group)
<1>1. len \in Nat /\ DOMAIN route.uris = 1..len /\ Range(route.uris) = {route.uris[i] : i \in 1..len}
  BY PatternsAre
<1>2. PICK f : /\ InsertUris(router, route) = f[len] /\ f[0] = router
               /\ \A n \in 1..len : f[n] = insert_into_router(f[n - 1], route.uris[n], route)
  BY <1>1, InsertUrisLoops
<1> HIDE DEF base, len
<1> DEFINE I == {n \in Nat : n <= len => Filed(routes, f[n], base \cup Own(n))}
<1>3. 0 \in I
  <2>1. Own(0) = {}
    OBVIOUS
  <2>2. base \cup Own(0) = base
    BY <2>1
  <2> HIDE DEF Own
  <2> QED BY <2>2, <1>2 DEF base
<1>4. ASSUME NEW k \in Nat, k \in I PROVE k + 1 \in I
  <2> SUFFICES ASSUME k + 1 <= len PROVE Filed(routes, f[k + 1], base \cup Own(k + 1))
    OBVIOUS
  <2> DEFINE n == k + 1
             F == base \cup Own(k)
  <2>1. n \in DOMAIN route.uris /\ n \in 1..len /\ n - 1 = k /\ k <= len
    BY <1>1
  <2>2. Filed(routes, f[k], F)
    BY <2>1, <1>4
  <2>3. EarlierIn(F, route, n)
    <3> SUFFICES ASSUME NEW e \in F
                 PROVE  \E a \in routes : \E i \in DOMAIN a.uris :
                          /\ e = <<a.uris[i], a>>
                          /\ RouteBefore(a, route) \/ (a = route /\ (i < n \/ <<route.uris[n], route>> \in F))
      BY DEF EarlierIn
    <3>1. CASE e \in base
      <4>1. PICK a \in group : \E u \in Range(a.uris) : e = <<u, a>>
        BY <3>1, UrisOfIs DEF base
      <4>2. PICK i \in DOMAIN a.uris : e = <<a.uris[i], a>>
        <5>1. Range(a.uris) = {a.uris[i] : i \in DOMAIN a.uris}
          BY PatternsAre
        <5> QED BY <4>1, <5>1
      <4>3. CASE RouteBefore(a, route)
        BY <4>2, <4>3
      <4>4. CASE a = route
        <5>1. route.uris[n] \in Range(route.uris) /\ route \in group
          BY <1>1, <2>1, <4>4
        <5>2. <<route.uris[n], route>> \in base
          BY <5>1, UrisOfIs DEF base
        <5> QED BY <5>2, <4>2, <4>4
      <4> QED BY <4>3, <4>4
    <3>2. CASE e \in Own(k)
      <4>1. PICK i \in 1..k : e = <<route.uris[i], route>>
        BY <3>2
      <4>2. i \in DOMAIN route.uris /\ i < n
        BY <1>1, <2>1
      <4> QED BY <4>1, <4>2
    <3> QED BY <3>1, <3>2
  <2>4. f[n] = insert_into_router(f[k], route.uris[n], route)
    BY <1>2, <2>1
  <2>5. Own(n) = Own(k) \cup {<<route.uris[n], route>>}
    <3>1. \A i \in 1..n : i \in 1..k \/ i = n
      BY <2>1
    <3>2. n \in 1..n /\ \A i \in 1..k : i \in 1..n
      BY <2>1
    <3> HIDE DEF n
    <3> QED BY <3>1, <3>2
  <2>6. F \cup {<<route.uris[n], route>>} = base \cup Own(n)
    BY <2>5
  <2> HIDE DEF F, n, Own
  <2>7. Filed(routes, insert_into_router(f[k], route.uris[n], route), F \cup {<<route.uris[n], route>>})
    BY <2>1, <2>2, <2>3, UriInserted
  <2> QED BY <2>4, <2>6, <2>7 DEF n
<1> HIDE DEF I
<1>5. len \in I
  BY <1>1, <1>3, <1>4, Induction
<1>6. Filed(routes, f[len], base \cup Own(len))
  BY <1>1, <1>5 DEF I
<1>7. base \cup Own(len) = UrisOf(group \cup {route})
  <2>1. \A e : e \in Own(len) <=> \E u \in Range(route.uris) : e = <<u, route>>
    BY <1>1
  <2> HIDE DEF Own
  <2>2. \A e : e \in base \cup Own(len) <=> e \in UrisOf(group \cup {route})
    BY <2>1, UrisOfIs DEF base
  <2> QED BY <2>2
<1> QED BY <1>2, <1>6, <1>7

HostsOf(group) == UNION {{<<h, r>> : h \in Range(r.hosts)} : r \in group}

\* The pairs of a host and a route of the group.
LEMMA HostsOfIs ==
  ASSUME NEW group
  PROVE  \A e : e \in HostsOf(group) <=> \E r \in group : \E h \in Range(r.hosts) : e = <<h, r>>
  BY DEF HostsOf

\* The hosts' router holds the routes of H, a set of pairs of a host and a route.
FiledHosts(table, hosts, H) ==
  /\ DOMAIN hosts = {e[1] : e \in H}
  /\ \A h \in DOMAIN hosts : Filed(table, hosts[h], UrisOf({r \in table : <<h, r>> \in H}))

EarlierHosts(H, route, n) ==
  \A e \in H : \E a \in routes : \E i \in DOMAIN a.hosts :
    e = <<a.hosts[i], a>> /\ (RouteBefore(a, route) \/ (a = route /\ i < n))

\* The n-th host of a route lands at its own pattern.
LEMMA HostInserted ==
  ASSUME routes \in RouteTables, ~Shadowing, NEW route \in routes, NEW n \in DOMAIN route.hosts,
         NEW H, EarlierHosts(H, route, n), NEW hosts, FiledHosts(routes, hosts, H)
  PROVE  FiledHosts(routes, insert_host_uris(hosts, route.hosts[n], route), H \cup {<<route.hosts[n], route>>})
<1> DEFINE p == route.hosts[n]
           new == insert_host_uris(hosts, p, route)
           K == H \cup {<<p, route>>}
           In(J, h) == {r \in routes : <<h, r>> \in J}
<1>1. /\ DOMAIN hosts = {e[1] : e \in H}
      /\ \A h \in DOMAIN hosts : Filed(routes, hosts[h], UrisOf(In(H, h)))
  BY DEF FiledHosts
<1>2. \A r \in routes : /\ DOMAIN r.hosts = 1..Len(r.hosts)
                        /\ \A i \in DOMAIN r.hosts : IsPattern(r.hosts[i])
  BY PatternsAre
<1>3. \A e \in H : \E a \in routes : \E i \in DOMAIN a.hosts :
        e = <<a.hosts[i], a>> /\ (RouteBefore(a, route) \/ (a = route /\ i < n))
  BY DEF EarlierHosts
<1>4. \A x \in DOMAIN hosts : IsPattern(x)
  BY <1>1, <1>2, <1>3
<1>5. \A q \in DOMAIN hosts : Covers(q, p) => q = p
  <2> SUFFICES ASSUME NEW q \in DOMAIN hosts, Covers(q, p), q # p PROVE FALSE
    OBVIOUS
  <2>1. PICK e \in H : e[1] = q
    BY <1>1
  <2>2. PICK a \in routes : \E i \in DOMAIN a.hosts :
          e = <<a.hosts[i], a>> /\ (RouteBefore(a, route) \/ (a = route /\ i < n))
    BY <1>3
  <2>3. PICK i \in DOMAIN a.hosts :
          e = <<a.hosts[i], a>> /\ (RouteBefore(a, route) \/ (a = route /\ i < n))
    BY <2>2
  <2>4. Covers(a.hosts[i], route.hosts[n]) /\ a.hosts[i] # route.hosts[n]
    BY <2>1, <2>3
  <2> QED BY <2>3, <2>4 DEF Shadowing
<1>6. IsPattern(p)
  BY <1>2
<1> HIDE DEF p
<1>7. /\ p \in DOMAIN hosts => Found(hosts, p) = {p}
      /\ p \notin DOMAIN hosts => Found(hosts, p) = {}
  BY <1>4, <1>5, <1>6, FoundItself
<1> DEFINE old == IF p \in DOMAIN hosts THEN hosts[p] ELSE <<>>
           filed == InsertUris(old, route)
<1>8. new = With(hosts, p, filed)
  <2>1. CASE p \in DOMAIN hosts
    <3>1. Found(hosts, p) # {} /\ (CHOOSE x \in Found(hosts, p) : TRUE) = p /\ old = hosts[p]
      BY <2>1, <1>7
    <3> HIDE DEF old
    <3> QED BY <3>1 DEF insert_host_uris
  <2>2. CASE p \notin DOMAIN hosts
    <3>1. Found(hosts, p) = {} /\ old = <<>>
      BY <2>2, <1>7
    <3> HIDE DEF old
    <3> QED BY <3>1 DEF insert_host_uris
  <2> QED BY <2>1, <2>2
<1>9. \A r \in In(H, p) : r = route \/ RouteBefore(r, route)
  <2> TAKE r \in In(H, p)
  <2>1. PICK a \in routes : \E i \in DOMAIN a.hosts :
          <<p, r>> = <<a.hosts[i], a>> /\ (RouteBefore(a, route) \/ a = route)
    BY <1>3
  <2> QED BY <2>1
<1>10. Filed(routes, old, UrisOf(In(H, p)))
  <2>1. CASE p \in DOMAIN hosts
    BY <2>1, <1>1
  <2>2. CASE p \notin DOMAIN hosts
    <3>1. In(H, p) = {}
      <4> SUFFICES ASSUME NEW r \in routes, <<p, r>> \in H PROVE FALSE
        OBVIOUS
      <4>1. <<p, r>>[1] \in DOMAIN hosts
        BY <1>1
      <4> QED BY <4>1, <2>2
    <3> HIDE DEF In
    <3>2. UrisOf(In(H, p)) = {}
      BY <3>1 DEF UrisOf
    <3>3. old = <<>> /\ DOMAIN old = {}
      BY <2>2
    <3> HIDE DEF old
    <3> QED BY <3>2, <3>3 DEF Filed
  <2> QED BY <2>1, <2>2
<1>11. Filed(routes, filed, UrisOf(In(H, p) \cup {route}))
  <2>1. In(H, p) \in SUBSET routes
    OBVIOUS
  <2> HIDE DEF In, old
  <2> QED BY <2>1, <1>9, <1>10, UrisInserted
<1> HIDE DEF new, old, filed
<1>12. /\ DOMAIN new = DOMAIN hosts \cup {p} /\ new[p] = filed
       /\ \A h \in DOMAIN hosts : h # p => new[h] = hosts[h]
  BY <1>8 DEF With
<1>13. DOMAIN new = {e[1] : e \in K}
  <2> DEFINE e0 == <<p, route>>
  <2>1. e0[1] = p /\ K = H \cup {e0}
    OBVIOUS
  <2> HIDE DEF e0, K
  <2> QED BY <2>1, <1>1, <1>12
<1>14. ASSUME NEW h \in DOMAIN new PROVE Filed(routes, new[h], UrisOf(In(K, h)))
  <2>1. CASE h # p
    <3>1. In(K, h) = In(H, h) /\ h \in DOMAIN hosts
      BY <2>1, <1>12
    <3> QED BY <3>1, <2>1, <1>1, <1>12
  <2>2. CASE h = p
    <3>1. In(K, p) = In(H, p) \cup {route}
      OBVIOUS
    <3> QED BY <3>1, <2>2, <1>11, <1>12
  <2> QED BY <2>1, <2>2
<1>15. FiledHosts(routes, new, K)
  BY <1>13, <1>14 DEF FiledHosts
<1> QED BY <1>15 DEF new, p

\* A route's hosts land at their own patterns.
LEMMA HostsInserted ==
  ASSUME routes \in RouteTables, ~Shadowing, NEW route \in routes, route.hosts # <<>>, NEW m,
         NEW group \in SUBSET routes, \A r \in group : RouteBefore(r, route),
         FiledHosts(routes, m.hosts, HostsOf(group))
  PROVE  FiledHosts(routes, insert_route(m, route).hosts, HostsOf(group \cup {route}))
<1> DEFINE len == Len(route.hosts)
           Own(n) == {<<route.hosts[i], route>> : i \in 1..n}
           base == HostsOf(group)
<1>1. len \in Nat /\ DOMAIN route.hosts = 1..len /\ Range(route.hosts) = {route.hosts[i] : i \in 1..len}
  BY PatternsAre
<1>2. PICK f : /\ insert_route(m, route).hosts = f[len] /\ f[0] = m.hosts
               /\ \A n \in 1..len : f[n] = insert_host_uris(f[n - 1], route.hosts[n], route)
  BY <1>1, InsertHostsLoops
<1> HIDE DEF base, len
<1> DEFINE I == {n \in Nat : n <= len => FiledHosts(routes, f[n], base \cup Own(n))}
<1>3. 0 \in I
  <2>1. Own(0) = {}
    OBVIOUS
  <2>2. base \cup Own(0) = base
    BY <2>1
  <2> HIDE DEF Own
  <2> QED BY <2>2, <1>2 DEF base
<1>4. ASSUME NEW k \in Nat, k \in I PROVE k + 1 \in I
  <2> SUFFICES ASSUME k + 1 <= len PROVE FiledHosts(routes, f[k + 1], base \cup Own(k + 1))
    OBVIOUS
  <2> DEFINE n == k + 1
             H == base \cup Own(k)
  <2>1. n \in DOMAIN route.hosts /\ n \in 1..len /\ n - 1 = k /\ k <= len
    BY <1>1
  <2>2. FiledHosts(routes, f[k], H)
    BY <2>1, <1>4
  <2>3. EarlierHosts(H, route, n)
    <3> SUFFICES ASSUME NEW e \in H
                 PROVE  \E a \in routes : \E i \in DOMAIN a.hosts :
                          e = <<a.hosts[i], a>> /\ (RouteBefore(a, route) \/ (a = route /\ i < n))
      BY DEF EarlierHosts
    <3>1. CASE e \in base
      <4>1. PICK a \in group : \E h \in Range(a.hosts) : e = <<h, a>>
        BY <3>1, HostsOfIs DEF base
      <4>2. PICK i \in DOMAIN a.hosts : e = <<a.hosts[i], a>>
        <5>1. Range(a.hosts) = {a.hosts[i] : i \in DOMAIN a.hosts}
          BY PatternsAre
        <5> QED BY <4>1, <5>1
      <4> QED BY <4>2
    <3>2. CASE e \in Own(k)
      <4>1. PICK i \in 1..k : e = <<route.hosts[i], route>>
        BY <3>2
      <4>2. i \in DOMAIN route.hosts /\ i < n
        BY <1>1, <2>1
      <4> QED BY <4>1, <4>2
    <3> QED BY <3>1, <3>2
  <2>4. f[n] = insert_host_uris(f[k], route.hosts[n], route)
    BY <1>2, <2>1
  <2>5. Own(n) = Own(k) \cup {<<route.hosts[n], route>>}
    <3>1. \A i \in 1..n : i \in 1..k \/ i = n
      BY <2>1
    <3>2. n \in 1..n /\ \A i \in 1..k : i \in 1..n
      BY <2>1
    <3> HIDE DEF n
    <3> QED BY <3>1, <3>2
  <2>6. H \cup {<<route.hosts[n], route>>} = base \cup Own(n)
    BY <2>5
  <2> HIDE DEF H, n, Own
  <2>7. FiledHosts(routes, insert_host_uris(f[k], route.hosts[n], route), H \cup {<<route.hosts[n], route>>})
    BY <2>1, <2>2, <2>3, HostInserted
  <2> QED BY <2>4, <2>6, <2>7 DEF n
<1> HIDE DEF I
<1>5. len \in I
  BY <1>1, <1>3, <1>4, Induction
<1>6. FiledHosts(routes, f[len], base \cup Own(len))
  BY <1>1, <1>5 DEF I
<1>7. base \cup Own(len) = HostsOf(group \cup {route})
  <2>1. \A e : e \in Own(len) <=> \E h \in Range(route.hosts) : e = <<h, route>>
    BY <1>1
  <2> HIDE DEF Own
  <2>2. \A e : e \in base \cup Own(len) <=> e \in HostsOf(group \cup {route})
    BY <2>1, HostsOfIs DEF base
  <2> QED BY <2>2
<1> QED BY <1>2, <1>6, <1>7

Hostless(group) == {r \in group : r.hosts = <<>>}

\* The matcher holds the routes of group.
MatcherHolds(table, m, group) ==
  /\ m = [non_host |-> m.non_host, hosts |-> m.hosts]
  /\ Filed(table, m.non_host, UrisOf(Hostless(group)))
  /\ FiledHosts(table, m.hosts, HostsOf(group))

\* One route more, in the order of the routes.
LEMMA RouteInserted ==
  ASSUME routes \in RouteTables, ~Shadowing, NEW route \in routes, NEW m,
         NEW group \in SUBSET routes, \A r \in group : RouteBefore(r, route), MatcherHolds(routes, m, group)
  PROVE  MatcherHolds(routes, insert_route(m, route), group \cup {route})
<1> DEFINE new == insert_route(m, route)
           more == group \cup {route}
<1>1. /\ m = [non_host |-> m.non_host, hosts |-> m.hosts]
      /\ Filed(routes, m.non_host, UrisOf(Hostless(group)))
      /\ FiledHosts(routes, m.hosts, HostsOf(group))
  BY DEF MatcherHolds
<1>2. CASE route.hosts # <<>>
  <2>1. FiledHosts(routes, new.hosts, HostsOf(more))
    BY <1>1, <1>2, HostsInserted
  <2>2. new.non_host = m.non_host /\ new = [non_host |-> new.non_host, hosts |-> new.hosts]
    <3> DEFINE hs == Looped(LAMBDA x, h : insert_host_uris(x, h, route), m.hosts, route.hosts)
    <3>1. new = [m EXCEPT !.hosts = hs]
      BY <1>2 DEF insert_route
    <3> HIDE DEF hs, new
    <3> QED BY <3>1, <1>1
  <2>3. Hostless(more) = Hostless(group)
    BY <1>2 DEF Hostless
  <2> QED BY <2>1, <2>2, <2>3, <1>1 DEF MatcherHolds
<1>3. CASE route.hosts = <<>>
  <2> DEFINE us == InsertUris(m.non_host, route)
  <2>1. new = [m EXCEPT !.non_host = us]
    BY <1>3 DEF insert_route
  <2>2. Hostless(more) = Hostless(group) \cup {route}
    BY <1>3 DEF Hostless
  <2>3. Filed(routes, us, UrisOf(Hostless(more)))
    <3>1. Hostless(group) \in SUBSET routes /\ \A r \in Hostless(group) : r = route \/ RouteBefore(r, route)
      BY DEF Hostless
    <3> QED BY <3>1, <2>2, <1>1, UrisInserted
  <2>4. HostsOf(more) = HostsOf(group)
    <3>1. Range(route.hosts) = {}
      <4>1. Range(route.hosts) = {route.hosts[i] : i \in DOMAIN route.hosts} /\ DOMAIN route.hosts = {}
        BY <1>3, PatternsAre
      <4> QED BY <4>1
    <3>2. \A e : e \in HostsOf(more) <=> e \in HostsOf(group)
      BY <3>1, HostsOfIs
    <3> QED BY <3>2
  <2> HIDE DEF us, new
  <2>5. new.non_host = us /\ new.hosts = m.hosts /\ new = [non_host |-> new.non_host, hosts |-> new.hosts]
    BY <2>1, <1>1
  <2> QED BY <2>3, <2>4, <2>5, <1>1 DEF MatcherHolds, new
<1> QED BY <1>2, <1>3

\* FirstOf and Documented, for a set T of the routes that take the request.
FirstIn(router, uri, T) ==
  LET found == Found(router, uri)
      bucket == router[CHOOSE p \in found : TRUE]
      taking == {i \in DOMAIN bucket : bucket[i] \in T}
  IN IF found = {} \/ taking = {} THEN <<>>
     ELSE <<bucket[CHOOSE i \in taking : \A j \in taking : i <= j]>>

DocumentedIn(group, uri, T) ==
  LET best == Bests(UNION {Range(r.uris) : r \in group}, uri)
      taking == {r \in group : Range(r.uris) \cap best # {} /\ r \in T}
  IN {r \in taking : \A s \in taking : s = r \/ RouteBefore(r, s)}

\* The most specific pattern is the one that is found.
LEMMA BestsFound ==
  ASSUME NEW router, NEW text
  PROVE  Bests(DOMAIN router, text) = Found(router, text)
  BY DEF Bests, Found

\* What one sequence of a route holds.
LEMMA OneRange ==
  ASSUME NEW r
  PROVE  Range(<<r>>) = {r} /\ <<r>> # <<>>
<1> DEFINE one == <<r>>
<1>1. DOMAIN one = {1} /\ one[1] = r
  OBVIOUS
<1> HIDE DEF one
<1>2. Range(one) = {r}
  BY <1>1 DEF Range
<1>3. one # <<>>
  BY <1>1
<1> QED BY <1>2, <1>3 DEF one

\* The first route of the bucket is the documented one.
LEMMA FirstDocumented ==
  ASSUME routes \in RouteTables, NEW group \in SUBSET routes, NEW router, Filed(routes, router, UrisOf(group)),
         NEW uri, NEW T
  PROVE  /\ Range(FirstIn(router, uri, T)) = DocumentedIn(group, uri, T)
         /\ FirstIn(router, uri, T) = <<>> <=> DocumentedIn(group, uri, T) = {}
<1> DEFINE patterns == UNION {Range(r.uris) : r \in group}
           best == Bests(patterns, uri)
           taking == {r \in group : Range(r.uris) \cap best # {} /\ r \in T}
           doc == {r \in taking : \A s \in taking : s = r \/ RouteBefore(r, s)}
           got == FirstIn(router, uri, T)
<1>1. /\ DOMAIN router = {e[1] : e \in UrisOf(group)}
      /\ \A u \in DOMAIN router : BucketOf(routes, router[u], {r \in routes : <<u, r>> \in UrisOf(group)})
  BY DEF Filed
<1>2. DOMAIN router = patterns
  <2>1. \A u \in DOMAIN router : \E r \in group : u \in Range(r.uris)
    <3> TAKE u \in DOMAIN router
    <3>1. PICK e \in UrisOf(group) : e[1] = u
      BY <1>1
    <3>2. PICK r \in group : \E v \in Range(r.uris) : e = <<v, r>>
      BY UrisOfIs
    <3> QED BY <3>1, <3>2
  <2>2. ASSUME NEW r \in group, NEW u \in Range(r.uris) PROVE u \in DOMAIN router
    <3> DEFINE e == <<u, r>>
    <3>1. e \in UrisOf(group)
      BY UrisOfIs
    <3>2. e[1] = u
      OBVIOUS
    <3> HIDE DEF e
    <3> QED BY <3>1, <3>2, <1>1
  <2> QED BY <2>1, <2>2
<1>3. best = Found(router, uri)
  BY <1>2, BestsFound
<1>4. DocumentedIn(group, uri, T) = doc
  BY DEF DocumentedIn
<1>5. \A x \in DOMAIN router : IsPattern(x)
  <2> TAKE x \in DOMAIN router
  <2>1. PICK r \in group : x \in Range(r.uris)
    BY <1>2
  <2> QED BY <2>1, PatternsAre
<1> HIDE DEF best, patterns
<1>6. CASE best = {}
  <2>1. got = <<>>
    BY <1>3, <1>6 DEF FirstIn
  <2>2. doc = {}
    BY <1>6
  <2>3. Range(<<>>) = {}
    BY DEF Range
  <2> HIDE DEF doc, got
  <2>4. Range(got) = doc /\ (got = <<>> <=> doc = {})
    BY <2>1, <2>2, <2>3
  <2> QED BY <2>4, <1>4 DEF got
<1>7. CASE best # {}
  <2> DEFINE p == CHOOSE p \in Found(router, uri) : TRUE
             bucket == router[p]
             idx == {i \in DOMAIN bucket : bucket[i] \in T}
             least == CHOOSE i \in idx : \A j \in idx : i <= j
             first == bucket[least]
  <2>1. p \in Found(router, uri)
    BY <1>3, <1>7
  <2>2. got = IF idx = {} THEN <<>> ELSE <<first>>
    BY <2>1 DEF FirstIn
  <2>3. best = {p} /\ p \in DOMAIN router
    <3>1. p \in DOMAIN router
      BY <2>1 DEF Found
    <3> HIDE DEF p
    <3> QED BY <3>1, <2>1, <1>3, <1>5, OneFound
  <2> HIDE DEF p, got
  <2>4. taking = {r \in group : p \in Range(r.uris) /\ r \in T}
    BY <2>3
  <2>5. BucketOf(routes, bucket, {r \in group : p \in Range(r.uris)})
    <3>1. {r \in routes : <<p, r>> \in UrisOf(group)} = {r \in group : p \in Range(r.uris)}
      BY UrisOfIs
    <3> QED BY <3>1, <2>3, <1>1
  <2> HIDE DEF bucket, taking
  <2>6. /\ bucket \in Seq(routes) /\ {r \in group : p \in Range(r.uris)} = {bucket[i] : i \in DOMAIN bucket}
        /\ \A i, j \in DOMAIN bucket : i < j => bucket[i] = bucket[j] \/ RouteBefore(bucket[i], bucket[j])
    BY <2>5 DEF BucketOf, Range
  <2>7. taking = {bucket[i] : i \in idx}
    BY <2>4, <2>6
  <2>8. idx \in SUBSET Nat
    BY <2>6
  <2>9. CASE idx = {}
    <3>1. taking = {}
      BY <2>7, <2>9
    <3>2. doc = {}
      BY <3>1
    <3>3. Range(<<>>) = {}
      BY DEF Range
    <3>4. got = <<>>
      BY <2>2, <2>9
    <3> HIDE DEF doc
    <3>5. Range(got) = doc /\ (got = <<>> <=> doc = {})
      BY <3>2, <3>3, <3>4
    <3> QED BY <3>5, <1>4 DEF got
  <2>10. CASE idx # {}
    <3>1. \E i \in idx : \A j \in idx : i <= j
      <4> HIDE DEF idx
      <4> QED BY <2>8, <2>10, LeastOfNat
    <3>2. least \in idx /\ \A j \in idx : least <= j
      BY <3>1
    <3> HIDE DEF least
    <3>3. first \in taking
      BY <2>7, <3>2
    <3>4. \A s \in taking : s = first \/ RouteBefore(first, s)
      <4> TAKE s \in taking
      <4>1. PICK j \in idx : bucket[j] = s
        BY <2>7
      <4>2. j = least \/ least < j
        BY <2>8, <3>2
      <4> QED BY <4>1, <4>2, <2>6, <3>2
    <3> HIDE DEF first, idx
    <3>5. taking \subseteq routes
      BY <2>4
    <3>6. doc = {first}
      <4>1. \A r \in doc : r = first
        <5> TAKE r \in doc
        <5>1. r \in taking /\ (first = r \/ RouteBefore(r, first))
          BY <3>3
        <5>2. r = first \/ RouteBefore(first, r)
          BY <5>1, <3>4
        <5>3. ~(RouteBefore(r, first) /\ RouteBefore(first, r))
          BY <5>1, <3>3, <3>5, RoutesOrdered
        <5> QED BY <5>1, <5>2, <5>3
      <4> QED BY <4>1, <3>3, <3>4
    <3>7. got = <<first>>
      BY <2>2, <2>10
    <3>8. Range(got) = {first} /\ got # <<>>
      BY <3>7, OneRange
    <3> HIDE DEF doc
    <3>9. Range(got) = doc /\ (got = <<>> <=> doc = {})
      BY <3>6, <3>8
    <3> QED BY <3>9, <1>4 DEF got
  <2> QED BY <2>9, <2>10
<1> QED BY <1>6, <1>7

\* HostThenAny and DocumentedRoute, for a set T of the routes that take the request.
HostIn(host, uri, T) ==
  LET found == Found(matcher.hosts, host)
      first == FirstIn(matcher.hosts[CHOOSE p \in found : TRUE], uri, T)
  IN IF host # <<>> /\ found # {} /\ first # <<>> THEN first ELSE FirstIn(matcher.non_host, uri, T)

DocumentedFor(table, host, uri, T) ==
  LET best == Bests(UNION {Range(r.hosts) : r \in table}, host)
      ofHost == DocumentedIn({r \in table : Range(r.hosts) \cap best # {}}, uri, T)
  IN IF host # <<>> /\ ofHost # {} THEN ofHost ELSE DocumentedIn(Hostless(table), uri, T)

\* The host's routes come first, as documented.
LEMMA HostDocumented ==
  ASSUME routes \in RouteTables, MatcherHolds(routes, matcher, routes), NEW host, NEW uri, NEW T
  PROVE  /\ Range(HostIn(host, uri, T)) = DocumentedFor(routes, host, uri, T)
         /\ HostIn(host, uri, T) = <<>> <=> DocumentedFor(routes, host, uri, T) = {}
<1> DEFINE hosts == matcher.hosts
           patterns == UNION {Range(r.hosts) : r \in routes}
           best == Bests(patterns, host)
           group == {r \in routes : Range(r.hosts) \cap best # {}}
           found == Found(hosts, host)
           plain == FirstIn(matcher.non_host, uri, T)
           plainDoc == DocumentedIn(Hostless(routes), uri, T)
           p == CHOOSE p \in found : TRUE
           first == FirstIn(hosts[p], uri, T)
           firstDoc == DocumentedIn(group, uri, T)
           got == HostIn(host, uri, T)
           doc == DocumentedFor(routes, host, uri, T)
<1>1. /\ Filed(routes, matcher.non_host, UrisOf(Hostless(routes)))
      /\ DOMAIN hosts = {e[1] : e \in HostsOf(routes)}
      /\ \A h \in DOMAIN hosts : Filed(routes, hosts[h], UrisOf({r \in routes : <<h, r>> \in HostsOf(routes)}))
  BY DEF MatcherHolds, FiledHosts
<1>2. Range(plain) = plainDoc /\ (plain = <<>> <=> plainDoc = {})
  <2>1. Hostless(routes) \in SUBSET routes
    BY DEF Hostless
  <2> QED BY <2>1, <1>1, FirstDocumented
<1>3. DOMAIN hosts = patterns
  <2>1. \A u \in DOMAIN hosts : \E r \in routes : u \in Range(r.hosts)
    <3> TAKE u \in DOMAIN hosts
    <3>1. PICK e \in HostsOf(routes) : e[1] = u
      BY <1>1
    <3>2. PICK r \in routes : \E v \in Range(r.hosts) : e = <<v, r>>
      BY HostsOfIs
    <3> QED BY <3>1, <3>2
  <2>2. ASSUME NEW r \in routes, NEW u \in Range(r.hosts) PROVE u \in DOMAIN hosts
    <3> DEFINE e == <<u, r>>
    <3>1. e \in HostsOf(routes)
      BY HostsOfIs
    <3>2. e[1] = u
      OBVIOUS
    <3> HIDE DEF e
    <3> QED BY <3>1, <3>2, <1>1
  <2> QED BY <2>1, <2>2
<1>4. best = found
  BY <1>3, BestsFound
<1>5. \A x \in DOMAIN hosts : IsPattern(x)
  <2> TAKE x \in DOMAIN hosts
  <2>1. PICK r \in routes : x \in Range(r.hosts)
    BY <1>3
  <2> QED BY <2>1, PatternsAre
<1>6. ASSUME found # {} PROVE Range(first) = firstDoc /\ (first = <<>> <=> firstDoc = {})
  <2>1. p \in found
    BY <1>6
  <2>2. found = {p} /\ p \in DOMAIN hosts
    <3>1. p \in DOMAIN hosts
      BY <2>1 DEF Found
    <3> HIDE DEF p
    <3> QED BY <3>1, <2>1, <1>5, OneFound
  <2> HIDE DEF p
  <2>3. group = {r \in routes : p \in Range(r.hosts)}
    <3> HIDE DEF best, found
    <3> QED BY <2>2, <1>4
  <2>4. {r \in routes : <<p, r>> \in HostsOf(routes)} = {r \in routes : p \in Range(r.hosts)}
    BY HostsOfIs
  <2>5. Filed(routes, hosts[p], UrisOf(group))
    BY <2>2, <2>3, <2>4, <1>1
  <2>6. group \in SUBSET routes
    OBVIOUS
  <2> HIDE DEF group
  <2> QED BY <2>5, <2>6, FirstDocumented
<1>7. ASSUME found = {} PROVE firstDoc = {}
  <2>1. group = {}
    <3> HIDE DEF best, found
    <3> QED BY <1>4, <1>7
  <2> HIDE DEF group
  <2> QED BY <2>1 DEF DocumentedIn
<1>8. got = IF host # <<>> /\ found # {} /\ first # <<>> THEN first ELSE plain
  BY DEF HostIn
<1>9. doc = IF host # <<>> /\ firstDoc # {} THEN firstDoc ELSE plainDoc
  BY DEF DocumentedFor
<1> HIDE DEF got, doc, first, firstDoc, plain, plainDoc, found, best
<1>10. Range(got) = doc /\ (got = <<>> <=> doc = {})
  BY <1>2, <1>6, <1>7, <1>8, <1>9
<1> QED BY <1>10 DEF got, doc

Taking(table, method) == {r \in table : HasMethod(r, method)}
Preflighting(table, method) == {r \in table : (GlobalCors \/ r.cors) /\ HasMethod(r, method)}

\* The bucket of a URI holds routes of the snapshot.
LEMMA BucketsOfRoutes ==
  ASSUME NEW router, NEW F, Filed(routes, router, F), NEW p \in DOMAIN router, NEW i \in DOMAIN router[p]
  PROVE  router[p][i] \in routes
<1> DEFINE bucket == router[p]
<1>1. bucket \in Seq(routes)
  BY DEF Filed, BucketOf
<1> HIDE DEF bucket
<1>2. i \in DOMAIN bucket => bucket[i] \in routes
  BY <1>1
<1> QED BY <1>2 DEF bucket

\* The matcher asks for the sets above.
LEMMA MatchesAre ==
  ASSUME NEW router, NEW F, Filed(routes, router, F), NEW uri, NEW method
  PROVE  /\ match_uri_method(router, uri, method) = FirstIn(router, uri, Taking(routes, method))
         /\ match_preflight_uri(router, uri, method) = FirstIn(router, uri, Preflighting(routes, method))
<1> DEFINE found == Found(router, uri)
           p == CHOOSE p \in found : TRUE
           bucket == router[p]
           plain == {i \in DOMAIN bucket : HasMethod(bucket[i], method)}
           flight == {i \in DOMAIN bucket : (GlobalCors \/ bucket[i].cors) /\ HasMethod(bucket[i], method)}
           The(idx) == IF found = {} \/ idx = {} THEN <<>>
                       ELSE <<bucket[CHOOSE i \in idx : \A j \in idx : i <= j]>>
           plainT == {i \in DOMAIN bucket : bucket[i] \in Taking(routes, method)}
           flightT == {i \in DOMAIN bucket : bucket[i] \in Preflighting(routes, method)}
<1>1. match_uri_method(router, uri, method) = The(plain)
  BY DEF match_uri_method, FirstOf
<1>2. match_preflight_uri(router, uri, method) = The(flight)
  BY DEF match_preflight_uri, FirstOf
<1>3. /\ FirstIn(router, uri, Taking(routes, method)) = The(plainT)
      /\ FirstIn(router, uri, Preflighting(routes, method)) = The(flightT)
  BY DEF FirstIn
<1>4. ASSUME found # {} PROVE plain = plainT /\ flight = flightT
  <2>1. p \in found
    BY <1>4
  <2>2. p \in DOMAIN router
    BY <2>1 DEF Found
  <2> HIDE DEF p
  <2>3. \A i \in DOMAIN bucket : bucket[i] \in routes
    BY <2>2, BucketsOfRoutes
  <2> QED BY <2>3 DEF Taking, Preflighting
<1> HIDE DEF plain, flight, plainT, flightT, found
<1> QED BY <1>1, <1>2, <1>3, <1>4

\* So it does for every router of the matcher.
LEMMA HostMatchesAre ==
  ASSUME MatcherHolds(routes, matcher, routes), NEW host, NEW uri, NEW method
  PROVE  /\ match_host_uri_method(host, uri, method) = HostIn(host, uri, Taking(routes, method))
         /\ match_preflight(host, uri, method) = HostIn(host, uri, Preflighting(routes, method))
<1> DEFINE found == Found(matcher.hosts, host)
           p == CHOOSE p \in found : TRUE
           inner == matcher.hosts[p]
           T == Taking(routes, method)
           U == Preflighting(routes, method)
<1>1. /\ Filed(routes, matcher.non_host, UrisOf(Hostless(routes)))
      /\ \A h \in DOMAIN matcher.hosts :
           Filed(routes, matcher.hosts[h], UrisOf({r \in routes : <<h, r>> \in HostsOf(routes)}))
  BY DEF MatcherHolds, FiledHosts
<1>2. /\ match_uri_method(matcher.non_host, uri, method) = FirstIn(matcher.non_host, uri, T)
      /\ match_preflight_uri(matcher.non_host, uri, method) = FirstIn(matcher.non_host, uri, U)
  BY <1>1, MatchesAre
<1>3. ASSUME found # {}
      PROVE  /\ match_uri_method(inner, uri, method) = FirstIn(inner, uri, T)
             /\ match_preflight_uri(inner, uri, method) = FirstIn(inner, uri, U)
  <2>1. p \in found
    BY <1>3
  <2>2. p \in DOMAIN matcher.hosts
    BY <2>1 DEF Found
  <2> HIDE DEF p
  <2> QED BY <2>2, <1>1, MatchesAre
<1>4. /\ match_host_uri_method(host, uri, method) =
           IF host # <<>> /\ found # {} /\ match_uri_method(inner, uri, method) # <<>>
           THEN match_uri_method(inner, uri, method) ELSE match_uri_method(matcher.non_host, uri, method)
      /\ match_preflight(host, uri, method) =
           IF host # <<>> /\ found # {} /\ match_preflight_uri(inner, uri, method) # <<>>
           THEN match_preflight_uri(inner, uri, method) ELSE match_preflight_uri(matcher.non_host, uri, method)
  BY DEF match_host_uri_method, match_preflight, HostThenAny
<1>5. /\ HostIn(host, uri, T) = IF host # <<>> /\ found # {} /\ FirstIn(inner, uri, T) # <<>>
                                THEN FirstIn(inner, uri, T) ELSE FirstIn(matcher.non_host, uri, T)
      /\ HostIn(host, uri, U) = IF host # <<>> /\ found # {} /\ FirstIn(inner, uri, U) # <<>>
                                THEN FirstIn(inner, uri, U) ELSE FirstIn(matcher.non_host, uri, U)
  BY DEF HostIn
<1> HIDE DEF found, inner, T, U
<1>6. /\ match_host_uri_method(host, uri, method) = HostIn(host, uri, T)
      /\ match_preflight(host, uri, method) = HostIn(host, uri, U)
  BY <1>2, <1>3, <1>4, <1>5
<1> QED BY <1>6 DEF T, U

\* What a request is to get.
Due(table, m) ==
  LET plain == DocumentedFor(table, m.host, m.uri, Taking(table, m.method))
  IN IF plain # {} \/ m.wanted = "" THEN plain
     ELSE DocumentedFor(table, m.host, m.uri, Preflighting(table, m.wanted))

\* A request gets it.
LEMMA RequestMatched ==
  ASSUME routes \in RouteTables, MatcherHolds(routes, matcher, routes), NEW m,
         m.wanted # "" => m.method = "OPTIONS"
  PROVE  Range(match_request(m.host, m.uri, m.method, m.wanted)) = Due(routes, m)
<1> DEFINE plain == match_host_uri_method(m.host, m.uri, m.method)
           flight == match_preflight(m.host, m.uri, m.wanted)
           plainDoc == DocumentedFor(routes, m.host, m.uri, Taking(routes, m.method))
           flightDoc == DocumentedFor(routes, m.host, m.uri, Preflighting(routes, m.wanted))
<1> DEFINE T == Taking(routes, m.method)
           U == Preflighting(routes, m.wanted)
           h == m.host
           u == m.uri
<1>0. plain = HostIn(h, u, T) /\ flight = HostIn(h, u, U)
  BY HostMatchesAre
<1>1. Range(plain) = plainDoc /\ (plain = <<>> <=> plainDoc = {})
  <2> HIDE DEF T, h, u, plain
  <2>1. Range(HostIn(h, u, T)) = DocumentedFor(routes, h, u, T)
    BY HostDocumented
  <2>2. HostIn(h, u, T) = <<>> <=> DocumentedFor(routes, h, u, T) = {}
    BY HostDocumented
  <2>3. plainDoc = DocumentedFor(routes, h, u, T)
    BY DEF T, h, u
  <2> HIDE DEF plainDoc
  <2> QED BY <2>1, <2>2, <2>3, <1>0
<1>2. Range(flight) = flightDoc
  <2> HIDE DEF U, h, u, flight
  <2>1. Range(HostIn(h, u, U)) = DocumentedFor(routes, h, u, U)
    BY HostDocumented
  <2>2. flightDoc = DocumentedFor(routes, h, u, U)
    BY DEF U, h, u
  <2> HIDE DEF flightDoc
  <2> QED BY <2>1, <2>2, <1>0
<1>3. match_request(m.host, m.uri, m.method, m.wanted) =
        IF plain = <<>> /\ m.method = "OPTIONS" /\ m.wanted # "" THEN flight ELSE plain
  BY DEF match_request
<1>4. Due(routes, m) = IF plainDoc # {} \/ m.wanted = "" THEN plainDoc ELSE flightDoc
  BY DEF Due
<1> HIDE DEF plain, flight, plainDoc, flightDoc
<1> QED BY <1>1, <1>2, <1>3, <1>4

\* The order of insertion: every route once, each before those that come after it.
LEMMA InsertionOrder ==
  ASSUME routes \in RouteTables
  PROVE  LET s == InOrderOf(routes, RouteBefore) IN
         /\ s \in Seq(routes) /\ Range(s) = routes
         /\ \A i, j \in DOMAIN s : i < j => RouteBefore(s[i], s[j])
<1> DEFINE n == Cardinality(routes)
           R == {e \in routes \X routes : RouteBefore(e[1], e[2])}
           s == CHOOSE s \in [1..n -> routes] : \A i, j \in 1..n : i < j => RouteBefore(s[i], s[j])
<1>1. IsFiniteSet(routes) /\ n \in Nat
  BY TableIs, FS_CardinalityType
<1>2. \A a, b \in routes : <<a, b>> \in R <=> RouteBefore(a, b)
  OBVIOUS
<1> HIDE DEF R
<1>3. /\ \A x, y, z \in routes : <<x, y>> \in R /\ <<y, z>> \in R => <<x, z>> \in R
      /\ \A x, y \in routes : x = y \/ <<x, y>> \in R \/ <<y, x>> \in R
  BY <1>2, RoutesOrdered
<1>4. \E t \in [1..n -> routes] : \A i, j \in 1..n : i < j => <<t[i], t[j]>> \in R
  BY <1>1, <1>3, OrderExists
<1>5. \E t \in [1..n -> routes] : \A i, j \in 1..n : i < j => RouteBefore(t[i], t[j])
  BY <1>2, <1>4
<1>6. s \in [1..n -> routes] /\ \A i, j \in 1..n : i < j => RouteBefore(s[i], s[j])
  BY <1>5
<1>7. InOrderOf(routes, RouteBefore) = s
  BY DEF InOrderOf
<1> HIDE DEF s
<1>8. s \in Seq(routes) /\ DOMAIN s = 1..n
  BY <1>1, <1>6
<1>9. \A i, j \in 1..n : s[i] = s[j] => i = j
  <2> TAKE i, j \in 1..n
  <2>1. \A r \in routes : ~RouteBefore(r, r)
    BY RoutesOrdered
  <2>2. s[i] \in routes /\ s[j] \in routes
    BY <1>6
  <2>3. CASE i < j
    BY <2>1, <2>2, <2>3, <1>6
  <2>4. CASE j < i
    BY <2>1, <2>2, <2>4, <1>6
  <2>5. i \in Int /\ j \in Int
    BY <1>1
  <2> QED BY <2>3, <2>4, <2>5
<1>10. s \in Surjection(1..n, routes)
  <2>1. s \in Injection(1..n, routes)
    BY <1>6, <1>9 DEF Injection, IsInjective
  <2>2. Cardinality(1..n) = Cardinality(routes)
    BY <1>1, FS_Interval
  <2> QED BY <2>1, <2>2, <1>1, FS_Injection
<1>11. Range(s) = routes
  BY <1>10, <1>8 DEF Surjection, Range
<1> QED BY <1>6, <1>7, <1>8, <1>11

\* The matcher holds the routes inserted so far; those left come behind them, in order.
MatcherInv ==
  /\ routes \in RouteTables
  /\ toInsert \in Seq(routes)
  /\ \A i, j \in DOMAIN toInsert : i < j => RouteBefore(toInsert[i], toInsert[j])
  /\ \A done \in routes \ Range(toInsert), left \in Range(toInsert) : RouteBefore(done, left)
  /\ ~Shadowing => MatcherHolds(routes, matcher, routes \ Range(toInsert))
  /\ matched.asked /\ ~Shadowing => Range(matched.route) = Due(routes, matched)

\* The empty matcher holds no routes.
LEMMA MatcherInit == RoutingInit => MatcherInv
<1> SUFFICES ASSUME RoutingInit PROVE MatcherInv
  OBVIOUS
<1>1. /\ routes \in RouteTables /\ toInsert = InOrderOf(routes, RouteBefore)
      /\ matcher = [non_host |-> <<>>, hosts |-> <<>>] /\ matched.asked = FALSE
  BY DEF RoutingInit, NotAsked
<1>2. /\ toInsert \in Seq(routes) /\ Range(toInsert) = routes
      /\ \A i, j \in DOMAIN toInsert : i < j => RouteBefore(toInsert[i], toInsert[j])
  BY <1>1, InsertionOrder
<1>3. MatcherHolds(routes, matcher, {})
  <2> DEFINE none == <<>>
  <2>1. DOMAIN none = {}
    OBVIOUS
  <2>2. matcher.non_host = none /\ matcher.hosts = none
        /\ matcher = [non_host |-> matcher.non_host, hosts |-> matcher.hosts]
    BY <1>1
  <2> HIDE DEF none
  <2>3. UrisOf(Hostless({})) = {} /\ HostsOf({}) = {}
    BY DEF UrisOf, Hostless, HostsOf
  <2> QED BY <2>1, <2>2, <2>3 DEF MatcherHolds, Filed, FiledHosts
<1>4. routes \ Range(toInsert) = {}
  BY <1>2
<1> QED BY <1>1, <1>2, <1>3, <1>4 DEF MatcherInv

\* Nothing is left of an empty sequence.
LEMMA NothingInside == \A s : s = <<>> => Range(s) = {}
<1> SUFFICES ASSUME NEW s, s = <<>> PROVE Range(s) = {}
  OBVIOUS
<1>1. DOMAIN s = {}
  OBVIOUS
<1> QED BY <1>1 DEF Range

\* A step: the head is inserted behind what is there; else the matcher stays.
LEMMA MatcherStep == MatcherInv /\ [RoutingNext]_routingVars => MatcherInv'
<1> SUFFICES ASSUME MatcherInv, [RoutingNext]_routingVars PROVE MatcherInv'
  OBVIOUS
<1> DEFINE left == Range(toInsert)
<1>0. /\ routes \in RouteTables /\ toInsert \in Seq(routes)
      /\ \A i, j \in DOMAIN toInsert : i < j => RouteBefore(toInsert[i], toInsert[j])
      /\ \A done \in routes \ left, r \in left : RouteBefore(done, r)
      /\ ~Shadowing => MatcherHolds(routes, matcher, routes \ left)
      /\ matched.asked /\ ~Shadowing => Range(matched.route) = Due(routes, matched)
  BY DEF MatcherInv
<1>1. routes' = routes
  BY DEF RoutingNext, InsertNextRoute, InsertAnySsl, Ask, routingVars
<1>2. Shadowing' <=> Shadowing
  BY <1>1 DEF Shadowing
<1>3. ASSUME InsertNextRoute PROVE MatcherInv'
  <2> DEFINE head == Head(toInsert)
             tail == Tail(toInsert)
             n == Len(toInsert)
             new == insert_route(matcher, head)
  <2>1. toInsert # <<>> /\ matcher' = new /\ toInsert' = tail /\ matched' = matched
    BY <1>3 DEF InsertNextRoute
  <2>2. /\ n \in Nat /\ n # 0 /\ DOMAIN toInsert = 1..n /\ head = toInsert[1] /\ head \in routes
        /\ tail \in Seq(routes) /\ DOMAIN tail = 1..(n - 1) /\ \A i \in 1..(n - 1) : tail[i] = toInsert[i + 1]
    BY <1>0, <2>1
  <2> HIDE DEF head, tail, n
  <2>3. \A i \in 1..(n - 1) : i + 1 \in 1..n /\ 1 < i + 1
    BY <2>2
  <2>4. 1 \in 1..n
    BY <2>2
  <2>5. \A i, j \in DOMAIN tail : i < j => RouteBefore(tail[i], tail[j])
    <3> SUFFICES ASSUME NEW i \in 1..(n - 1), NEW j \in 1..(n - 1), i < j PROVE RouteBefore(tail[i], tail[j])
      BY <2>2
    <3>1. i + 1 \in 1..n /\ j + 1 \in 1..n /\ i + 1 < j + 1
      BY <2>2
    <3> QED BY <3>1, <1>0, <2>2
  <2>6. left = {toInsert[i] : i \in 1..n} /\ Range(tail) = {tail[i] : i \in 1..(n - 1)}
    BY <2>2 DEF Range
  <2>7. left = Range(tail) \cup {head}
    <3>1. \A i \in 1..n : i = 1 \/ (i - 1 \in 1..(n - 1) /\ i - 1 + 1 = i)
      BY <2>2
    <3>2. \A i \in 1..n : toInsert[i] \in Range(tail) \cup {head}
      <4> TAKE i \in 1..n
      <4>1. CASE i = 1
        BY <4>1, <2>2
      <4>2. CASE i # 1
        <5>1. i - 1 \in 1..(n - 1) /\ tail[i - 1] = toInsert[i]
          BY <4>2, <3>1, <2>2
        <5> QED BY <5>1, <2>6
      <4> QED BY <4>1, <4>2
    <3>3. \A i \in 1..(n - 1) : tail[i] \in left
      BY <2>2, <2>3, <2>6
    <3>4. head \in left
      BY <2>2, <2>4, <2>6
    <3> QED BY <3>2, <3>3, <3>4, <2>6
  <2> HIDE DEF left
  <2>8. \A r \in Range(tail) : RouteBefore(head, r) /\ r \in routes
    <3> TAKE r \in Range(tail)
    <3>1. PICK i \in 1..(n - 1) : r = tail[i]
      BY <2>6
    <3>2. i + 1 \in 1..n /\ 1 < i + 1 /\ r = toInsert[i + 1]
      BY <3>1, <2>2, <2>3
    <3>3. RouteBefore(toInsert[1], toInsert[i + 1])
      BY <3>2, <2>4, <2>2, <1>0
    <3>4. toInsert[1] = head /\ toInsert[i + 1] = r
      BY <3>2, <2>2
    <3>5. RouteBefore(head, r)
      BY <3>3, <3>4
    <3>6. tail[i] \in routes
      BY <2>2
    <3> QED BY <3>1, <3>5, <3>6
  <2>9. head \notin Range(tail)
    BY <2>2, <2>8, <1>0, RoutesOrdered
  <2>10. routes \ Range(tail) = (routes \ left) \cup {head}
    BY <2>2, <2>7, <2>9
  <2>11. \A done \in routes \ Range(tail), r \in Range(tail) : RouteBefore(done, r)
    BY <2>7, <2>8, <2>10, <1>0 DEF left
  <2>12. ASSUME ~Shadowing PROVE MatcherHolds(routes, new, routes \ Range(tail))
    <3> DEFINE group == routes \ left
    <3>1. MatcherHolds(routes, matcher, group) /\ group \in SUBSET routes /\ \A r \in group : RouteBefore(r, head)
      BY <2>7, <2>12, <1>0 DEF left
    <3> HIDE DEF group
    <3>2. MatcherHolds(routes, insert_route(matcher, head), group \cup {head})
      BY <3>1, <2>2, <2>12, <1>0, RouteInserted
    <3> QED BY <3>2, <2>10 DEF group
  <2> HIDE DEF new
  <2>13. ASSUME ~Shadowing PROVE MatcherHolds(routes, matcher, routes \ Range(toInsert))'
    BY <2>1, <2>12, <2>13, <1>1
  <2>14. (matched.asked /\ ~Shadowing => Range(matched.route) = Due(routes, matched))'
    BY <2>1, <1>0, <1>1, <1>2
  <2>15. /\ toInsert' \in Seq(routes') /\ routes' \in RouteTables
         /\ (\A i, j \in DOMAIN toInsert : i < j => RouteBefore(toInsert[i], toInsert[j]))'
         /\ (\A done \in routes \ Range(toInsert), r \in Range(toInsert) : RouteBefore(done, r))'
    BY <2>1, <2>2, <2>5, <2>11, <1>0, <1>1
  <2> QED BY <2>13, <2>14, <2>15, <1>2 DEF MatcherInv
<1>4. ASSUME InsertAnySsl \/ UNCHANGED routingVars PROVE MatcherInv'
  <2>1. UNCHANGED <<routes, toInsert, matcher, matched>>
    BY <1>4 DEF InsertAnySsl, routingVars
  <2>2. ASSUME ~Shadowing PROVE MatcherHolds(routes, matcher, routes \ Range(toInsert))'
    BY <2>1, <2>2, <1>0
      
  <2> QED BY <2>1, <2>2, <1>0, <1>2 DEF MatcherInv
<1>5. ASSUME Ask PROVE MatcherInv'
  <2>1. UNCHANGED <<routes, toInsert, matcher>> /\ toInsert = <<>>
    BY <1>5 DEF Ask
  <2>2. PICK host \in Hosts \cup {<<>>}, uri \in Uris, method \in Methods, wanted \in Methods \cup {""} :
          /\ wanted # "" => method = "OPTIONS"
          /\ matched' = [asked |-> TRUE, host |-> host, uri |-> uri, method |-> method, wanted |-> wanted,
                         route |-> match_request(host, uri, method, wanted), cert |-> match_sni(host)]
    BY <1>5 DEF Ask
  <2>3. ASSUME ~Shadowing PROVE MatcherHolds(routes, matcher, routes \ Range(toInsert))'
    BY <2>1, <2>3, <1>0
      
  <2> DEFINE route == match_request(host, uri, method, wanted)
             cert == match_sni(host)
             m == [asked |-> TRUE, host |-> host, uri |-> uri, method |-> method, wanted |-> wanted,
                   route |-> route, cert |-> cert]
  <2>4. ASSUME ~Shadowing PROVE Range(m.route) = Due(routes, m)
    <3>1. MatcherHolds(routes, matcher, routes)
      <4>1. routes \ Range(toInsert) = routes
        <5>1. Range(toInsert) = {}
          BY ONLY <2>1, NothingInside
        <5> QED BY <5>1
      <4> QED BY <4>1, <2>4, <1>0
    <3>2. m.wanted # "" => m.method = "OPTIONS"
      <4> HIDE DEF route, cert
      <4> QED BY <2>2
    <3>3. m.route = match_request(m.host, m.uri, m.method, m.wanted)
      <4>1. m.host = host /\ m.uri = uri /\ m.method = method /\ m.wanted = wanted /\ m.route = route
        <5> HIDE DEF route, cert
        <5> QED OBVIOUS
      <4> HIDE DEF m
      <4> QED BY <4>1
    <3> HIDE DEF m
    <3> QED BY <3>1, <3>2, <3>3, <1>0, RequestMatched
  <2>5. matched' = m
    BY <2>2
  <2> HIDE DEF m
  <2>6. (matched.asked /\ ~Shadowing => Range(matched.route) = Due(routes, matched))'
    BY <2>1, <2>4, <2>5, <1>2
  <2> QED BY <2>1, <2>3, <2>6, <1>0, <1>2 DEF MatcherInv
<1> QED BY <1>3, <1>4, <1>5 DEF RoutingNext

\* What the documentation says, for sets.
LEMMA DocumentedAre ==
  ASSUME NEW host, NEW uri, NEW method
  PROVE  /\ DocumentedRoute(host, uri, LAMBDA r : HasMethod(r, method))
              = DocumentedFor(routes, host, uri, Taking(routes, method))
         /\ DocumentedRoute(host, uri, LAMBDA r : (GlobalCors \/ r.cors) /\ HasMethod(r, method))
              = DocumentedFor(routes, host, uri, Preflighting(routes, method))
<1>1. ASSUME NEW group \in SUBSET routes, NEW best
      PROVE  /\ {r \in group : Range(r.uris) \cap best # {} /\ HasMethod(r, method)}
                  = {r \in group : Range(r.uris) \cap best # {} /\ r \in Taking(routes, method)}
             /\ {r \in group : Range(r.uris) \cap best # {} /\ ((GlobalCors \/ r.cors) /\ HasMethod(r, method))}
                  = {r \in group : Range(r.uris) \cap best # {} /\ r \in Preflighting(routes, method)}
  BY DEF Taking, Preflighting
<1>2. ASSUME NEW group \in SUBSET routes
      PROVE  /\ Documented(group, uri, LAMBDA r : HasMethod(r, method))
                  = DocumentedIn(group, uri, Taking(routes, method))
             /\ Documented(group, uri, LAMBDA r : (GlobalCors \/ r.cors) /\ HasMethod(r, method))
                  = DocumentedIn(group, uri, Preflighting(routes, method))
  BY <1>1 DEF Documented, DocumentedIn
<1> DEFINE best == Bests(UNION {Range(r.hosts) : r \in routes}, host)
           ofHost == {r \in routes : Range(r.hosts) \cap best # {}}
           hostless == {r \in routes : r.hosts = <<>>}
<1>3. ofHost \in SUBSET routes /\ hostless \in SUBSET routes /\ hostless = Hostless(routes)
  BY DEF Hostless
<1> QED BY <1>2, <1>3 DEF DocumentedRoute, DocumentedFor

\* What the invariant gives.
LEMMA MatcherInvRoutes == MatcherInv => RoutedAsDocumented
<1> SUFFICES ASSUME MatcherInv, matched.asked, ~Shadowing PROVE RoutedAsDocumented
  BY DEF RoutedAsDocumented
<1>1. Range(matched.route) = Due(routes, matched)
  BY DEF MatcherInv
<1> QED BY <1>1, DocumentedAre DEF RoutedAsDocumented, Due

\* Without shadowing a request gets the route the documentation describes: the most
\* specific host, then URI, then the first by priority and id that takes the method; for
\* every table of routes, and whatever is asked.
THEOREM RouteChosen == RoutingSpec => []RoutedAsDocumented
<1>1. RoutingInit => MatcherInv
  BY MatcherInit
<1>2. MatcherInv /\ [RoutingNext]_routingVars => MatcherInv'
  BY MatcherStep
<1>3. MatcherInv => RoutedAsDocumented
  BY MatcherInvRoutes
<1> QED BY <1>1, <1>2, <1>3, PTL DEF RoutingSpec
================================================================================
