-------------------------- MODULE PluginHost_proofs --------------------------
(***************************************************************************)
(* What holds of the plugin host whatever the ids, the plugins, the files   *)
(* and the number of calls: resolveOrder ends, with an order of the list    *)
(* exactly when there is one (dag.ts), and whatever is loaded by any number *)
(* of interleaved calls of loadAll comes after what it depends on, with its *)
(* handlers registered (plugin-manager.ts).                                 *)
(*                                                                         *)
(* The visits of resolveOrder are a loop of PluginHost; the least-number    *)
(* argument of DataFacts shows that it ends, and VisitInv is what its steps *)
(* keep. HostInv is the inductive invariant of the host: it says of a call  *)
(* what it still has to load and what it holds across its await.            *)
(***************************************************************************)
EXTENDS PluginHost, DataFacts

----------------------------------------------------------------------------
(* The depth-first visits of resolveOrder: their states and their steps.    *)

\* The dependencies of finitely many plugins and the roots of the visits.
Needs(deps, roots) ==
    /\ IsFiniteSet(DOMAIN deps) /\ \A id \in DOMAIN deps : IsSequence(deps[id])
    /\ roots \in Seq(DOMAIN deps)

\* What Needs says, as facts about sequences.
LEMMA NeedsParts ==
    ASSUME NEW deps, NEW roots, Needs(deps, roots)
    PROVE  /\ Rows(deps) /\ Len(roots) \in Nat
           /\ \A i \in 1 .. Len(roots) : roots[i] \in DOMAIN deps
BY SequenceParts DEF Needs, Rows

\* The fields of a state of the visits.
LEMMA FieldsOfVisiting ==
    ASSUME NEW path, NEW next, NEW root, NEW order, NEW error, NEW s,
           s = Visiting(path, next, root, order, error)
    PROVE  /\ s.path = path /\ s.next = next /\ s.root = root /\ s.order = order
           /\ s.error = error
BY DEF Visiting

\* A state of the visits built from fields of the right types.
LEMMA VisitingTyped ==
    ASSUME NEW deps, NEW roots, NEW path, NEW next, NEW root, NEW order, NEW error,
           path \in Seq(DOMAIN deps), next \in [DOMAIN deps -> Nat \ {0}], root \in 0 .. Len(roots),
           order \in Seq(DOMAIN deps), error \in {"none", "circular", "missing", "conflict"}
    PROVE  Visiting(path, next, root, order, error) \in Visits(deps, roots)
BY DEF Visiting, Visits

\* The fields of a state of the visits have their types.
LEMMA VisitsTyped ==
    ASSUME NEW deps, NEW roots, NEW s \in Visits(deps, roots)
    PROVE  /\ s.path \in Seq(DOMAIN deps) /\ s.next \in [DOMAIN deps -> Nat \ {0}]
           /\ s.root \in 0 .. Len(roots) /\ s.order \in Seq(DOMAIN deps)
           /\ s.error \in {"none", "circular", "missing", "conflict"}
BY DEF Visits

\* What a step of the visits does: it takes a root that is in order, or a new one;
\* meets a conflict; puts a plugin in order; misses a dependency; meets one that is
\* in progress; enters one; or goes past one that is in order.
SkipsRoot(s, t, roots) ==
    /\ roots[s.root + 1] \in Range(s.order)
    /\ t.path = s.path /\ t.next = s.next /\ t.root = s.root + 1 /\ t.order = s.order
    /\ t.error = s.error
EntersRoot(s, t, roots) ==
    LET id == roots[s.root + 1]
    IN  /\ id \notin Range(s.order)
        /\ t.path = Append(s.path, id) /\ t.next = s.next /\ t.root = s.root + 1
        /\ t.order = s.order /\ t.error = s.error
Conflicts(s, t, conflicting, id) ==
    /\ id \in conflicting /\ t.path = s.path /\ t.next = s.next /\ t.root = s.root
    /\ t.order = s.order /\ t.error = "conflict"
PutsInOrder(s, t, deps, conflicting, id) ==
    /\ s.next[id] > Len(deps[id]) /\ id \notin conflicting
    /\ t.path = Front(s.path) /\ t.next = s.next /\ t.root = s.root
    /\ t.order = Append(s.order, id) /\ t.error = s.error
MovesOn(s, t, deps, id) ==
    /\ s.next[id] <= Len(deps[id])
    /\ t.next = [s.next EXCEPT ![id] = @ + 1] /\ t.root = s.root /\ t.order = s.order
Misses(s, t, deps, id) ==
    /\ MovesOn(s, t, deps, id) /\ deps[id][s.next[id]] \notin DOMAIN deps
    /\ t.path = s.path /\ t.error = "missing"
MeetsItself(s, t, deps, id) ==
    /\ MovesOn(s, t, deps, id) /\ deps[id][s.next[id]] \in Range(s.path)
    /\ t.path = s.path /\ t.error = "circular"
EntersPlugin(s, t, deps, id) ==
    LET dep == deps[id][s.next[id]]
    IN  /\ MovesOn(s, t, deps, id) /\ dep \in DOMAIN deps
        /\ dep \notin Range(s.path) /\ dep \notin Range(s.order)
        /\ t.path = Append(s.path, dep) /\ t.error = s.error
GoesPast(s, t, deps, id) ==
    /\ MovesOn(s, t, deps, id) /\ deps[id][s.next[id]] \in Range(s.order)
    /\ t.path = s.path /\ t.error = s.error

\* What a step of the visits does, by its cases.
LEMMA VisitCases ==
    ASSUME NEW deps, NEW roots, Needs(deps, roots), NEW conflicting, NEW s \in Visits(deps, roots),
           ~VisitEnded(s, roots), NEW t, t = VisitStep(s, deps, roots, conflicting)
    PROVE  /\ s.error = "none" /\ t = Visiting(t.path, t.next, t.root, t.order, t.error)
           /\ \/ s.path = <<>> /\ s.root < Len(roots) /\ roots[s.root + 1] \in DOMAIN deps
                 /\ (SkipsRoot(s, t, roots) \/ EntersRoot(s, t, roots))
              \/ s.path # <<>> /\ Last(s.path) \in DOMAIN deps
                 /\ \/ Conflicts(s, t, conflicting, Last(s.path))
                    \/ PutsInOrder(s, t, deps, conflicting, Last(s.path))
                    \/ Misses(s, t, deps, Last(s.path)) \/ MeetsItself(s, t, deps, Last(s.path))
                    \/ EntersPlugin(s, t, deps, Last(s.path)) \/ GoesPast(s, t, deps, Last(s.path))
<1>1. /\ s.path \in Seq(DOMAIN deps) /\ s.next \in [DOMAIN deps -> Nat \ {0}]
      /\ s.root \in 0 .. Len(roots)
  BY VisitsTyped
<1>2. Len(roots) \in Nat /\ \A i \in 1 .. Len(roots) : roots[i] \in DOMAIN deps
  BY NeedsParts
<1>3. s.error = "none"
  BY DEF VisitEnded
<1>4. CASE s.path = <<>>
  <2>1. s.root < Len(roots) /\ roots[s.root + 1] \in DOMAIN deps
    BY <1>1, <1>2, <1>3, <1>4 DEF VisitEnded
  <2>2. t = VisitRoot(s, roots[s.root + 1])
    BY <1>4 DEF VisitStep
  <2>3. t = Visiting(t.path, t.next, t.root, t.order, t.error)
    BY <2>2 DEF VisitRoot, Visiting
  <2>4. SkipsRoot(s, t, roots) \/ EntersRoot(s, t, roots)
    BY <2>2 DEF VisitRoot, SkipsRoot, EntersRoot, Visiting
  <2> QED BY <1>3, <1>4, <2>1, <2>3, <2>4
<1>5. CASE s.path # <<>>
  <2> DEFINE id == Last(s.path)
             dep == deps[id][s.next[id]]
             next == [s.next EXCEPT ![id] = @ + 1]
  <2>1. id \in DOMAIN deps
    BY <1>1, <1>5, TopOfPath
  <2>2. Len(deps[id]) \in Nat /\ s.next[id] \in Nat
    BY <1>1, <2>1, NeedsParts DEF Rows
  <2>3. CASE s.next[id] > Len(deps[id])
    <3>1. t = LeaveVisit(s, id, conflicting)
      BY <1>5, <2>3 DEF VisitStep
    <3> HIDE DEF id
    <3>2. t = Visiting(t.path, t.next, t.root, t.order, t.error)
      <4>1. \/ t = Visiting(s.path, s.next, s.root, s.order, "conflict")
            \/ t = Visiting(Front(s.path), s.next, s.root, Append(s.order, id), s.error)
        BY <3>1 DEF LeaveVisit
      <4> QED BY <4>1, FieldsOfVisiting
    <3>3. Conflicts(s, t, conflicting, id) \/ PutsInOrder(s, t, deps, conflicting, id)
      BY <3>1, <2>3 DEF LeaveVisit, Conflicts, PutsInOrder, Visiting
    <3> QED BY <1>3, <1>5, <2>1, <3>2, <3>3 DEF id
  <2>4. CASE ~(s.next[id] > Len(deps[id]))
    <3>1. t = Require(s, id, dep, DOMAIN deps) /\ s.next[id] <= Len(deps[id])
      BY <1>5, <2>4, <2>2 DEF VisitStep
    <3> HIDE DEF id
    <3>2. MovesOn(s, t, deps, id) <=> t.next = next /\ t.root = s.root /\ t.order = s.order
      BY <3>1 DEF MovesOn
    <3> HIDE DEF dep, next
    <3>3. CASE dep \notin DOMAIN deps
      <4>1. t = Visiting(s.path, next, s.root, s.order, "missing")
        BY <3>1, <3>3 DEF Require, next
      <4>2. t = Visiting(t.path, t.next, t.root, t.order, t.error) /\ Misses(s, t, deps, id)
        BY <3>2, <3>3, <4>1, FieldsOfVisiting DEF Misses, dep
      <4> QED BY <1>3, <1>5, <2>1, <4>2 DEF id
    <3>4. CASE dep \in DOMAIN deps /\ dep \in Range(s.path)
      <4>1. t = Visiting(s.path, next, s.root, s.order, "circular")
        BY <3>1, <3>4 DEF Require, next
      <4>2. t = Visiting(t.path, t.next, t.root, t.order, t.error) /\ MeetsItself(s, t, deps, id)
        BY <3>2, <3>4, <4>1, FieldsOfVisiting DEF MeetsItself, dep
      <4> QED BY <1>3, <1>5, <2>1, <4>2 DEF id
    <3>5. CASE dep \in DOMAIN deps \ Range(s.path) /\ dep \in Range(s.order)
      <4>1. t = Visiting(s.path, next, s.root, s.order, s.error)
        BY <3>1, <3>5 DEF Require, next
      <4>2. t = Visiting(t.path, t.next, t.root, t.order, t.error) /\ GoesPast(s, t, deps, id)
        BY <3>2, <3>5, <4>1, FieldsOfVisiting DEF GoesPast, dep
      <4> QED BY <1>3, <1>5, <2>1, <4>2 DEF id
    <3>6. CASE dep \in DOMAIN deps \ Range(s.path) /\ dep \notin Range(s.order)
      <4>1. t = Visiting(Append(s.path, dep), next, s.root, s.order, s.error)
        BY <3>1, <3>6 DEF Require, next
      <4>2. t.path = Append(s.path, dep) /\ t.next = next /\ t.root = s.root
            /\ t.order = s.order /\ t.error = s.error
        BY <4>1 DEF Visiting
      <4>3. t = Visiting(t.path, t.next, t.root, t.order, t.error)
        BY <4>1, <4>2
      <4>4. EntersPlugin(s, t, deps, id)
        BY <3>2, <3>6, <4>2 DEF EntersPlugin, dep
      <4> QED BY <1>3, <1>5, <2>1, <4>3, <4>4 DEF id
    <3> QED BY <3>3, <3>4, <3>5, <3>6
  <2> QED BY <2>3, <2>4
<1> QED BY <1>4, <1>5

\* A step leads to a state of the visits.
LEMMA VisitStepTyped ==
    ASSUME NEW deps, NEW roots, Needs(deps, roots), NEW conflicting, NEW s \in Visits(deps, roots),
           ~VisitEnded(s, roots), NEW t, t = VisitStep(s, deps, roots, conflicting)
    PROVE  t \in Visits(deps, roots)
<1>1. /\ s.path \in Seq(DOMAIN deps) /\ s.next \in [DOMAIN deps -> Nat \ {0}]
      /\ s.root \in 0 .. Len(roots) /\ s.order \in Seq(DOMAIN deps)
      /\ s.error \in {"none", "circular", "missing", "conflict"} /\ Len(roots) \in Nat
  BY VisitsTyped, NeedsParts
<1>2. \A id \in DOMAIN deps : /\ Append(s.path, id) \in Seq(DOMAIN deps)
                              /\ Append(s.order, id) \in Seq(DOMAIN deps)
  BY <1>1, AppendProperties
<1>3. \A id \in DOMAIN deps : [s.next EXCEPT ![id] = @ + 1] \in [DOMAIN deps -> Nat \ {0}]
  BY <1>1
<1>4. /\ t.path \in Seq(DOMAIN deps) /\ t.next \in [DOMAIN deps -> Nat \ {0}]
      /\ t.root \in 0 .. Len(roots) /\ t.order \in Seq(DOMAIN deps)
      /\ t.error \in {"none", "circular", "missing", "conflict"}
  <2>1. CASE s.path = <<>>
    <3>1. s.root + 1 \in 0 .. Len(roots) /\ roots[s.root + 1] \in DOMAIN deps
          /\ (SkipsRoot(s, t, roots) \/ EntersRoot(s, t, roots))
      BY <1>1, <2>1, VisitCases
    <3> QED BY <3>1, <1>1, <1>2 DEF SkipsRoot, EntersRoot
  <2>2. CASE s.path # <<>>
    <3> DEFINE id == Last(s.path)
    <3>1. id \in DOMAIN deps /\ Front(s.path) \in Seq(DOMAIN deps)
      BY <1>1, <2>2, TopOfPath
    <3>2. Conflicts(s, t, conflicting, id) \/ PutsInOrder(s, t, deps, conflicting, id)
          \/ Misses(s, t, deps, id) \/ MeetsItself(s, t, deps, id)
          \/ EntersPlugin(s, t, deps, id) \/ GoesPast(s, t, deps, id)
      BY <2>2, VisitCases
    <3> HIDE DEF id
    <3>3. CASE Conflicts(s, t, conflicting, id) \/ PutsInOrder(s, t, deps, conflicting, id)
      BY <3>1, <3>3, <1>1, <1>2 DEF Conflicts, PutsInOrder
    <3>4. CASE Misses(s, t, deps, id) \/ MeetsItself(s, t, deps, id) \/ GoesPast(s, t, deps, id)
      BY <3>1, <3>4, <1>1, <1>3 DEF Misses, MeetsItself, GoesPast, MovesOn
    <3>5. CASE EntersPlugin(s, t, deps, id)
      BY <3>1, <3>5, <1>1, <1>2, <1>3 DEF EntersPlugin, MovesOn
    <3> QED BY <3>2, <3>3, <3>4, <3>5
  <2> QED BY <2>1, <2>2
<1>5. t = Visiting(t.path, t.next, t.root, t.order, t.error)
  BY VisitCases
<1> QED BY <1>4, <1>5, VisitingTyped

----------------------------------------------------------------------------
(* Every step uses up a dependency, a call on the stack, a root, or the wait  *)
(* for an error.                                                              *)

Left(s, deps, roots) ==
    2 * Cardinality(Positions(s.next, deps)) + Len(s.path) + 2 * (Len(roots) - s.root)
        + (IF s.error = "none" THEN 1 ELSE 0)

\* What is left to do is a number.
LEMMA LeftTyped ==
    ASSUME NEW deps, NEW roots, Needs(deps, roots), NEW s \in Visits(deps, roots)
    PROVE  Left(s, deps, roots) \in Nat
<1>1. s.path \in Seq(DOMAIN deps) /\ s.next \in [DOMAIN deps -> Nat \ {0}] /\ s.root \in 0 .. Len(roots)
      /\ Len(roots) \in Nat /\ Len(s.path) \in Nat
  BY VisitsTyped, NeedsParts
<1>2. Cardinality(Positions(s.next, deps)) \in Nat
  BY <1>1, NeedsParts, PositionsFinite
<1> QED BY <1>1, <1>2 DEF Left

\* Every step leaves less to do: resolveOrder ends.
LEMMA VisitGoes ==
    ASSUME NEW deps, NEW roots, Needs(deps, roots), NEW conflicting, NEW s \in Visits(deps, roots),
           ~VisitEnded(s, roots), NEW t, t = VisitStep(s, deps, roots, conflicting)
    PROVE  Left(t, deps, roots) < Left(s, deps, roots)
<1>1. /\ s.path \in Seq(DOMAIN deps) /\ s.next \in [DOMAIN deps -> Nat \ {0}]
      /\ s.root \in 0 .. Len(roots) /\ Len(roots) \in Nat /\ Len(s.path) \in Nat /\ s.error = "none"
  BY VisitsTyped, NeedsParts, VisitCases
<1> DEFINE c == Cardinality(Positions(s.next, deps))
           p == Len(s.path)
           r == Len(roots) - s.root
<1>2. c \in Nat /\ p \in Nat /\ r \in Nat
  BY <1>1, NeedsParts, PositionsFinite
<1>3. Left(s, deps, roots) = 2 * c + p + 2 * r + 1
  BY <1>1 DEF Left
<1>4. CASE s.path = <<>>
  <2>1. Len(s.path) = 0 /\ roots[s.root + 1] \in DOMAIN deps
        /\ (SkipsRoot(s, t, roots) \/ EntersRoot(s, t, roots))
    BY <1>4, VisitCases
  <2>2. Len(Append(s.path, roots[s.root + 1])) = 1
    BY <2>1, <1>1, AppendProperties
  <2>3. t.next = s.next /\ t.root = s.root + 1 /\ Len(t.path) <= 1 /\ Len(t.path) \in Nat /\ t.error = "none"
    BY <2>1, <2>2, <1>1 DEF SkipsRoot, EntersRoot
  <2> DEFINE q == Len(t.path)
  <2>4. q \in Nat /\ q <= 1 /\ p = 0
    BY <2>1, <2>3
  <2>5. Left(t, deps, roots) = 2 * c + q + 2 * (Len(roots) - (s.root + 1)) + 1
    BY <2>3 DEF Left
  <2>6. Len(roots) - (s.root + 1) = r - 1
    BY <1>1
  <2> HIDE DEF c, p, q, r
  <2> QED BY <1>2, <1>3, <2>4, <2>5, <2>6
<1>5. CASE s.path # <<>>
  <2> DEFINE id == Last(s.path)
  <2>1. id \in DOMAIN deps /\ Len(s.path) \in Nat \ {0} /\ Len(Front(s.path)) = Len(s.path) - 1
    BY <1>1, <1>5, TopOfPath
  <2>2. Conflicts(s, t, conflicting, id) \/ PutsInOrder(s, t, deps, conflicting, id)
        \/ Misses(s, t, deps, id) \/ MeetsItself(s, t, deps, id)
        \/ EntersPlugin(s, t, deps, id) \/ GoesPast(s, t, deps, id)
    BY <1>5, VisitCases
  <2> HIDE DEF id
  <2>3. CASE Conflicts(s, t, conflicting, id)
    <3>1. t.next = s.next /\ t.root = s.root /\ t.path = s.path /\ t.error # "none"
      BY <2>3 DEF Conflicts
    <3>2. Left(t, deps, roots) = 2 * c + p + 2 * r + 0
      BY <3>1 DEF Left
    <3> HIDE DEF c, p, r
    <3> QED BY <1>2, <1>3, <3>2
  <2>4. CASE PutsInOrder(s, t, deps, conflicting, id)
    <3>1. t.next = s.next /\ t.root = s.root /\ t.path = Front(s.path) /\ t.error = "none"
      BY <2>4, <1>1 DEF PutsInOrder
    <3>2. Left(t, deps, roots) = 2 * c + (p - 1) + 2 * r + 1
      BY <2>1, <3>1 DEF Left
    <3> HIDE DEF c, p, r
    <3> QED BY <1>2, <1>3, <3>2
  <2>5. ASSUME MovesOn(s, t, deps, id), Len(t.path) \in Nat, Len(t.path) <= Len(s.path) + 1
        PROVE  Left(t, deps, roots) < Left(s, deps, roots)
    <3>1. Cardinality(Positions(t.next, deps)) = c - 1
      BY <2>5, <2>1, <1>1, NeedsParts, PositionsShrink DEF MovesOn
    <3>2. t.root = s.root
      BY <2>5 DEF MovesOn
    <3> DEFINE q == Len(t.path)
               e == IF t.error = "none" THEN 1 ELSE 0
    <3>3. q \in Nat /\ q <= p + 1 /\ e \in {0, 1}
      BY <2>5
    <3>4. Left(t, deps, roots) = 2 * (c - 1) + q + 2 * r + e
      BY <3>1, <3>2 DEF Left
    <3> HIDE DEF c, p, q, r, e
    <3> QED BY <1>2, <1>3, <3>3, <3>4
  <2>6. CASE Misses(s, t, deps, id) \/ MeetsItself(s, t, deps, id) \/ GoesPast(s, t, deps, id)
    BY <2>5, <2>6, <1>1 DEF Misses, MeetsItself, GoesPast
  <2>7. CASE EntersPlugin(s, t, deps, id)
    <3>1. PICK dep \in DOMAIN deps : t.path = Append(s.path, dep)
      BY <2>7 DEF EntersPlugin
    <3>2. Len(t.path) = Len(s.path) + 1
      BY <3>1, <1>1, AppendProperties
    <3> QED BY <3>2, <2>5, <2>7, <1>1 DEF EntersPlugin
  <2> QED BY <2>2, <2>3, <2>4, <2>6, <2>7
<1> QED BY <1>4, <1>5

----------------------------------------------------------------------------
(* What the visits keep.                                                    *)

\* resolveOrder ends, and what its steps keep holds of the state it ends in.
LEMMA VisitsKeep ==
    ASSUME NEW deps, NEW roots, Needs(deps, roots), NEW conflicting,
           NEW I \in SUBSET Visits(deps, roots),
           \A s \in I : ~VisitEnded(s, roots) => VisitStep(s, deps, roots, conflicting) \in I,
           NEW start \in I
    PROVE  /\ Resolution(deps, roots, conflicting)[start] \in I
           /\ VisitEnded(Resolution(deps, roots, conflicting)[start], roots)
<1> DEFINE S == Visits(deps, roots)
           done == {s \in S : VisitEnded(s, roots)}
           step == [s \in S |-> IF VisitEnded(s, roots) THEN s ELSE VisitStep(s, deps, roots, conflicting)]
           m == [s \in S |-> Left(s, deps, roots)]
<1>1. Goes(S, done, step, m)
  <2>1. step \in [S -> S]
    BY VisitStepTyped
  <2>2. m \in [S -> Nat]
    BY LeftTyped
  <2>3. \A s \in S \ done : m[step[s]] < m[s]
    BY VisitGoes, VisitStepTyped
  <2> QED BY <2>1, <2>2, <2>3 DEF Goes
<1> DEFINE Is(f) == f = [s \in S |-> IF VisitEnded(s, roots) THEN s
                                     ELSE f[VisitStep(s, deps, roots, conflicting)]]
<1>2. PICK f : f = [s \in S |-> IF s \in done THEN s ELSE f[step[s]]]
  <2> HIDE DEF S, done, step, m
  <2> QED BY <1>1, LoopExists
<1>3. Is(f)
  <2>1. \A s \in S : (IF s \in done THEN s ELSE f[step[s]])
                         = IF VisitEnded(s, roots) THEN s ELSE f[VisitStep(s, deps, roots, conflicting)]
    OBVIOUS
  <2> HIDE DEF S, done, step, m
  <2> QED BY <1>2, <2>1
<1>4. Resolution(deps, roots, conflicting) = CHOOSE g : Is(g)
  BY Zenon DEF Resolution
<1>5. Is(Resolution(deps, roots, conflicting))
  <2> HIDE DEF Is
  <2> QED BY <1>3, <1>4, Zenon
<1> DEFINE g == Resolution(deps, roots, conflicting)
<1>6. g = [s \in S |-> IF s \in done THEN s ELSE g[step[s]]]
  <2>1. \A s \in S : (IF s \in done THEN s ELSE g[step[s]])
                         = IF VisitEnded(s, roots) THEN s ELSE g[VisitStep(s, deps, roots, conflicting)]
    OBVIOUS
  <2> HIDE DEF S, done, step, m, g
  <2>2. g = [s \in S |-> IF VisitEnded(s, roots) THEN s ELSE g[VisitStep(s, deps, roots, conflicting)]]
    BY <1>5 DEF g
  <2> QED BY <2>1, <2>2
<1>7. \A s \in I \ done : step[s] \in I
  OBVIOUS
<1>8. g[start] \in I \cap done
  <2>1. I \in SUBSET S
    OBVIOUS
  <2> HIDE DEF S, done, step, m, g
  <2> QED BY <1>1, <1>6, <1>7, <2>1, LoopKeeps
<1> QED BY <1>8

----------------------------------------------------------------------------
(* What the visits know.  As long as there is no error, what is in order has  *)
(* no conflicts and its dependencies before it; what is in progress is there  *)
(* once, each plugin of it needs the next one, and the dependencies its loop  *)
(* has passed are in order.  An error is a reason why there is no order.      *)

Orderable(deps, conflicting) ==
    /\ conflicting = {}
    /\ \A id \in DOMAIN deps : Range(deps[id]) \subseteq DOMAIN deps
    /\ \A S \in (SUBSET DOMAIN deps) \ {{}} : \E id \in S : Range(deps[id]) \cap S = {}

OrderIsRight(order, deps, conflicting) ==
    \A k \in 1 .. Len(order) :
        /\ order[k] \notin conflicting
        /\ \A dep \in Range(deps[order[k]]) : \E j \in 1 .. k - 1 : order[j] = dep

PathIsOnce(s) == \A i, j \in 1 .. Len(s.path) : s.path[i] = s.path[j] => i = j

PathNeedsNext(s, deps) ==
    \A i \in 1 .. Len(s.path) - 1 : s.path[i + 1] \in Range(deps[s.path[i]])

PassedIsInOrder(s, deps) ==
    \A i \in 1 .. Len(s.path) : \A k \in 1 .. Len(deps[s.path[i]]) :
        k < s.next[s.path[i]] =>
            \/ deps[s.path[i]][k] \in Range(s.order)
            \/ i < Len(s.path) /\ deps[s.path[i]][k] = s.path[i + 1]

OthersAreNew(s, deps) ==
    \A id \in DOMAIN deps : id \in Range(s.path) \/ id \in Range(s.order) \/ s.next[id] = 1

RootsAreVisited(s, roots) ==
    \A i \in 1 .. s.root : roots[i] \in Range(s.path) \/ roots[i] \in Range(s.order)

VisitsRight(s, deps, roots, conflicting) ==
    /\ OrderIsRight(s.order, deps, conflicting) /\ PathIsOnce(s) /\ PathNeedsNext(s, deps)
    /\ PassedIsInOrder(s, deps) /\ OthersAreNew(s, deps) /\ RootsAreVisited(s, roots)

VisitInv(s, deps, roots, conflicting) ==
    IF s.error = "none" THEN VisitsRight(s, deps, roots, conflicting)
    ELSE ~Orderable(deps, conflicting)

\* The parts of a state as sequences.
LEMMA VisitParts ==
    ASSUME NEW deps, NEW roots, NEW s \in Visits(deps, roots)
    PROVE  /\ IsSequence(s.path) /\ IsSequence(s.order)
           /\ Range(s.path) \subseteq DOMAIN deps /\ Range(s.order) \subseteq DOMAIN deps
           /\ Len(s.path) \in Nat /\ Len(s.order) \in Nat
           /\ \A i \in 1 .. Len(s.path) : s.path[i] \in Range(s.path)
           /\ \A i \in 1 .. Len(s.order) : s.order[i] \in Range(s.order)
           /\ \A x \in Range(s.path) : \E i \in 1 .. Len(s.path) : s.path[i] = x
           /\ \A x \in Range(s.order) : \E i \in 1 .. Len(s.order) : s.order[i] = x
<1>1. s.path \in Seq(DOMAIN deps) /\ s.order \in Seq(DOMAIN deps)
  BY VisitsTyped
<1>2. /\ IsSequence(s.path) /\ Range(s.path) \subseteq DOMAIN deps
      /\ IsSequence(s.order) /\ Range(s.order) \subseteq DOMAIN deps
  BY <1>1, SequenceOf
<1> QED BY <1>2, SequenceParts

\* A plugin that needs one that is in progress closes a circle.
LEMMA CircleIsNotOrderable ==
    ASSUME NEW deps, NEW roots, Needs(deps, roots), NEW conflicting, NEW s \in Visits(deps, roots),
           s.path # <<>>, PathNeedsNext(s, deps), NEW dep \in Range(s.path),
           dep \in Range(deps[Last(s.path)])
    PROVE  ~Orderable(deps, conflicting)
<1> DEFINE n == Len(s.path)
<1>1. n \in Nat \ {0} /\ Last(s.path) = s.path[n]
  BY VisitsTyped, TopOfPath
<1>2. /\ \A i \in 1 .. n : s.path[i] \in DOMAIN deps
      /\ \E j \in 1 .. n : s.path[j] = dep
  <2>1. /\ Range(s.path) \subseteq DOMAIN deps /\ \A i \in 1 .. n : s.path[i] \in Range(s.path)
        /\ \A x \in Range(s.path) : \E i \in 1 .. n : s.path[i] = x
    <3>1. \A r : s \in Visits(deps, r) => Range(s.path) \subseteq DOMAIN deps
      BY VisitParts
    <3>2. IsSequence(s.path)
      BY VisitParts
    <3> QED BY <3>1, <3>2, SequenceParts
  <2> QED BY <2>1
<1>3. PICK j \in 1 .. n : s.path[j] = dep
  BY <1>2
<1> DEFINE S == {s.path[i] : i \in j .. n}
<1>4. \A i \in 1 .. n - 1 : s.path[i + 1] \in Range(deps[s.path[i]])
  BY DEF PathNeedsNext
<1> HIDE DEF n
<1>5. S \in (SUBSET DOMAIN deps) \ {{}}
  <2>1. \A i \in j .. n : s.path[i] \in DOMAIN deps
    BY <1>1, <1>2
  <2>2. j \in j .. n
    BY <1>1
  <2> QED BY <2>1, <2>2
<1>6. ASSUME NEW i \in j .. n PROVE Range(deps[s.path[i]]) \cap S # {}
  <2>1. CASE i = n
    <3>1. dep \in S
      BY <1>1, <1>3
    <3> QED BY <2>1, <3>1, <1>1
  <2>2. CASE i < n
    <3>1. i \in 1 .. n - 1 /\ i + 1 \in j .. n
      BY <2>2, <1>1, <1>3
    <3>2. s.path[i + 1] \in S
      BY <3>1
    <3> QED BY <3>1, <3>2, <1>4
  <2> QED BY <2>1, <2>2, <1>1, <1>3
<1>7. \A id \in S : Range(deps[id]) \cap S # {}
  BY <1>6
<1> HIDE DEF S
<1> QED BY <1>5, <1>7 DEF Orderable

\* When the visits stop with an error, the plugins cannot be put in an order.
LEMMA ErrorsAreReasons ==
    ASSUME NEW deps, NEW roots, Needs(deps, roots), NEW conflicting, NEW s \in Visits(deps, roots),
           s.path # <<>>, VisitsRight(s, deps, roots, conflicting), NEW id, id = Last(s.path),
           id \in DOMAIN deps, NEW t,
           Conflicts(s, t, conflicting, id) \/ Misses(s, t, deps, id) \/ MeetsItself(s, t, deps, id)
    PROVE  t.error # "none" /\ ~Orderable(deps, conflicting)
<1> DEFINE dep == deps[id][s.next[id]]
<1>1. ASSUME MovesOn(s, t, deps, id) PROVE dep \in Range(deps[id])
  <2>1. s.next[id] \in Nat \ {0} /\ IsSequence(deps[id]) /\ s.next[id] <= Len(deps[id])
    BY <1>1, VisitsTyped DEF Needs, MovesOn
  <2>2. Len(deps[id]) \in Nat /\ \A i \in 1 .. Len(deps[id]) : deps[id][i] \in Range(deps[id])
    BY <2>1, SequenceParts
  <2> QED BY <2>1, <2>2
<1>2. CASE Conflicts(s, t, conflicting, id)
  BY <1>2 DEF Conflicts, Orderable
<1>3. CASE Misses(s, t, deps, id)
  BY <1>1, <1>3 DEF Misses, Orderable
<1>4. CASE MeetsItself(s, t, deps, id)
  <2>1. dep \in Range(deps[id]) /\ dep \in Range(s.path)
    BY <1>1, <1>4 DEF MeetsItself
  <2> HIDE DEF dep
  <2>2. ~Orderable(deps, conflicting)
    BY <2>1, CircleIsNotOrderable DEF VisitsRight
  <2> QED BY <1>4, <2>2 DEF MeetsItself
<1> QED BY <1>2, <1>3, <1>4

\* Going to the next root keeps the visits right.
LEMMA RootKeeps ==
    ASSUME NEW deps, NEW roots, Needs(deps, roots), NEW conflicting, NEW s \in Visits(deps, roots),
           s.path = <<>>, s.root < Len(roots), roots[s.root + 1] \in DOMAIN deps,
           VisitsRight(s, deps, roots, conflicting), NEW t,
           SkipsRoot(s, t, roots) \/ EntersRoot(s, t, roots)
    PROVE  VisitsRight(t, deps, roots, conflicting)
<1> DEFINE id == roots[s.root + 1]
<1>1. s.root \in Nat /\ Range(s.path) = {} /\ Len(s.path) = 0
  BY VisitsTyped, NeedsParts, SequenceEmpty, EmptySeq
<1>2. t.next = s.next /\ t.root = s.root + 1 /\ t.order = s.order
  BY DEF SkipsRoot, EntersRoot
<1>3. \/ id \in Range(s.order) /\ t.path = <<>> /\ Len(t.path) = 0 /\ Range(t.path) = {}
      \/ id \notin Range(s.order) /\ Len(t.path) = 1 /\ t.path[1] = id /\ Range(t.path) = {id}
  <2>1. CASE SkipsRoot(s, t, roots)
    BY <2>1, <1>1 DEF SkipsRoot
  <2>2. CASE EntersRoot(s, t, roots)
    <3>1. id \notin Range(s.order) /\ t.path = Append(<<>>, id)
      BY <2>2 DEF EntersRoot
    <3> HIDE DEF id
    <3>2. t.path = <<id>>
      BY <3>1
    <3> QED BY <3>1, <3>2, SequenceSingle
  <2> QED BY <2>1, <2>2
<1>4. id \in DOMAIN deps
  OBVIOUS
<1> HIDE DEF id
<1>5. OrderIsRight(t.order, deps, conflicting)
  <2>1. OrderIsRight(s.order, deps, conflicting)
    BY DEF VisitsRight
  <2> QED BY <1>2, <2>1
<1>6. PathIsOnce(t) /\ PathNeedsNext(t, deps)
  BY <1>3 DEF PathIsOnce, PathNeedsNext
<1>7. OthersAreNew(t, deps)
  BY <1>1, <1>2, <1>3 DEF VisitsRight, OthersAreNew
<1>8. PassedIsInOrder(t, deps)
  <2>1. CASE Len(t.path) = 0
    BY <2>1 DEF PassedIsInOrder
  <2>2. CASE Len(t.path) = 1 /\ t.path[1] = id /\ id \notin Range(s.order)
    <3>1. t.next[id] = 1
      BY <2>2, <1>1, <1>2, <1>4 DEF VisitsRight, OthersAreNew
    <3> QED BY <2>2, <3>1 DEF PassedIsInOrder
  <2> QED BY <2>1, <2>2, <1>3
<1>9. RootsAreVisited(t, roots)
  <2>1. ASSUME NEW i \in 1 .. t.root PROVE roots[i] \in Range(t.path) \/ roots[i] \in Range(t.order)
    <3>1. CASE i = s.root + 1
      BY <3>1, <1>2, <1>3 DEF id
    <3>2. CASE i # s.root + 1
      <4>1. i \in 1 .. s.root
        BY <3>2, <1>1, <1>2
      <4> QED BY <4>1, <1>1, <1>2 DEF VisitsRight, RootsAreVisited
    <3> QED BY <3>1, <3>2
  <2> QED BY <2>1 DEF RootsAreVisited
<1> QED BY <1>5, <1>6, <1>7, <1>8, <1>9 DEF VisitsRight

----------------------------------------------------------------------------
(* Every step of the visits keeps it.                                       *)

\* Putting the plugin on top of the stack into the order keeps the visits right.
LEMMA PutKeeps ==
    ASSUME NEW deps, NEW roots, Needs(deps, roots), NEW conflicting, NEW s \in Visits(deps, roots),
           s.path # <<>>, VisitsRight(s, deps, roots, conflicting), NEW id, id = Last(s.path),
           id \in DOMAIN deps, NEW t, PutsInOrder(s, t, deps, conflicting, id)
    PROVE  VisitsRight(t, deps, roots, conflicting)
<1> DEFINE n == Len(s.path)
           m == Len(s.order)
<1>1. /\ n \in Nat \ {0} /\ id = s.path[n] /\ IsSequence(s.path) /\ IsSequence(s.order)
      /\ m \in Nat
  BY VisitParts, SequenceFront
<1>2. /\ s.next[id] > Len(deps[id]) /\ id \notin conflicting /\ t.path = Front(s.path)
      /\ t.next = s.next /\ t.root = s.root /\ t.order = Append(s.order, id)
  BY DEF PutsInOrder
<1>3. /\ IsSequence(t.path) /\ Len(t.path) = n - 1 /\ \A i \in 1 .. n - 1 : t.path[i] = s.path[i]
  BY <1>1, <1>2, SequenceFront
<1>4. /\ IsSequence(t.order) /\ Len(t.order) = m + 1 /\ t.order[m + 1] = id
      /\ \A k \in 1 .. m : t.order[k] = s.order[k]
      /\ Range(t.order) = Range(s.order) \cup {id}
  BY <1>1, <1>2, SequenceAppended
<1>5. \A x \in Range(s.path) : x \in Range(t.path) \/ x \in Range(t.order)
  <2>1. ASSUME NEW x \in Range(s.path) PROVE x \in Range(t.path) \/ x = id
    <3>1. PICK i \in 1 .. n : s.path[i] = x
      BY <1>1, SequenceParts
    <3>2. CASE i = n
      BY <3>1, <3>2, <1>1
    <3>3. CASE i # n
      <4>1. i \in 1 .. n - 1
        BY <3>3, <1>1
      <4> QED BY <4>1, <3>1, <1>3, SequenceParts
    <3> QED BY <3>2, <3>3
  <2> QED BY <2>1, <1>4
<1>6. IsSequence(deps[id]) /\ Len(deps[id]) \in Nat /\ s.next[id] \in Nat
      /\ \A x \in Range(deps[id]) : \E k \in 1 .. Len(deps[id]) : deps[id][k] = x
  BY VisitsTyped, SequenceParts DEF Needs
<1>7. \A x \in Range(deps[id]) : \E j \in 1 .. m : s.order[j] = x
  <2>1. ASSUME NEW x \in Range(deps[id]) PROVE x \in Range(s.order)
    <3>1. PICK k \in 1 .. Len(deps[id]) : deps[id][k] = x
      BY <1>6
    <3>2. PassedIsInOrder(s, deps)
      BY DEF VisitsRight
    <3>3. n \in 1 .. Len(s.path) /\ k < s.next[s.path[n]] /\ k \in 1 .. Len(deps[s.path[n]])
      BY <1>1, <1>2, <1>6
    <3>4. deps[s.path[n]][k] \in Range(s.order) \/ n < Len(s.path)
      BY <3>2, <3>3 DEF PassedIsInOrder
    <3> QED BY <1>1, <3>1, <3>4
  <2> QED BY <2>1, <1>1, SequenceParts
<1> HIDE DEF n, m
<1>8. OrderIsRight(t.order, deps, conflicting)
  <2>1. OrderIsRight(s.order, deps, conflicting)
    BY DEF VisitsRight
  <2> DEFINE order == t.order
             before == s.order
  <2>2. /\ Len(order) = m + 1 /\ order[m + 1] = id /\ \A k \in 1 .. m : order[k] = before[k]
        /\ Len(before) = m
    BY <1>4 DEF m
  <2>3. \A x \in Range(deps[id]) : \E j \in 1 .. m : before[j] = x
    BY <1>7
  <2>4. OrderIsRight(before, deps, conflicting)
    BY <2>1
  <2> HIDE DEF order, before
  <2>5. ASSUME NEW k \in 1 .. m + 1
        PROVE  /\ order[k] \notin conflicting
               /\ \A dep \in Range(deps[order[k]]) : \E j \in 1 .. k - 1 : order[j] = dep
    <3>1. CASE k = m + 1
      <4>1. k - 1 = m /\ order[k] = id
        BY <3>1, <2>2, <1>1
      <4>2. \A dep \in Range(deps[id]) : \E j \in 1 .. m : order[j] = dep
        BY <2>2, <2>3
      <4> QED BY <4>1, <4>2, <1>2
    <3>2. CASE k # m + 1
      <4>1. k \in 1 .. m /\ \A j \in 1 .. k - 1 : j \in 1 .. m
        BY <3>2, <1>1
      <4>2. /\ before[k] \notin conflicting
            /\ \A dep \in Range(deps[before[k]]) : \E j \in 1 .. k - 1 : before[j] = dep
        BY <4>1, <2>2, <2>4 DEF OrderIsRight
      <4>3. order[k] = before[k] /\ \A j \in 1 .. k - 1 : order[j] = before[j]
        BY <4>1, <2>2
      <4> QED BY <4>2, <4>3
    <3> QED BY <3>1, <3>2
  <2>6. OrderIsRight(order, deps, conflicting)
    BY <2>2, <2>5 DEF OrderIsRight
  <2> QED BY <2>6 DEF order
<1>9. PathIsOnce(t)
  BY <1>1, <1>3 DEF VisitsRight, PathIsOnce, n
<1>10. PathNeedsNext(t, deps)
  <2>1. \A i \in 1 .. n - 1 : s.path[i + 1] \in Range(deps[s.path[i]])
    BY DEF VisitsRight, PathNeedsNext, n
  <2>2. ASSUME NEW i \in 1 .. n - 1 - 1 PROVE t.path[i + 1] \in Range(deps[t.path[i]])
    <3>1. i \in 1 .. n - 1 /\ i + 1 \in 1 .. n - 1
      BY <1>1
    <3> QED BY <3>1, <2>1, <1>3
  <2> QED BY <2>2, <1>3 DEF PathNeedsNext
<1>11. PassedIsInOrder(t, deps)
  <2>1. PassedIsInOrder(s, deps)
    BY DEF VisitsRight
  <2>2. ASSUME NEW i \in 1 .. n - 1, NEW k \in 1 .. Len(deps[t.path[i]]), k < t.next[t.path[i]]
        PROVE  \/ deps[t.path[i]][k] \in Range(t.order)
               \/ i < n - 1 /\ deps[t.path[i]][k] = t.path[i + 1]
    <3>1. i \in 1 .. n /\ t.path[i] = s.path[i]
      BY <1>1, <1>3
    <3>2. \/ deps[s.path[i]][k] \in Range(s.order)
          \/ i < n /\ deps[s.path[i]][k] = s.path[i + 1]
      BY <2>1, <2>2, <3>1, <1>2 DEF PassedIsInOrder, n
    <3>3. CASE i + 1 = n
      BY <3>1, <3>2, <3>3, <1>1, <1>4
    <3>4. CASE i + 1 # n
      <4>1. i < n - 1 /\ t.path[i + 1] = s.path[i + 1]
        BY <3>4, <1>1, <1>3
      <4> QED BY <4>1, <3>1, <3>2, <1>4
    <3> QED BY <3>3, <3>4
  <2> QED BY <2>2, <1>3 DEF PassedIsInOrder
<1>12. OthersAreNew(t, deps)
  BY <1>2, <1>4, <1>5 DEF VisitsRight, OthersAreNew
<1>13. RootsAreVisited(t, roots)
  BY <1>2, <1>4, <1>5 DEF VisitsRight, RootsAreVisited
<1> QED BY <1>8, <1>9, <1>10, <1>11, <1>12, <1>13 DEF VisitsRight

\* The loop of the plugin on top of the stack goes on, to a dependency that is in
\* order or to one that is entered.
LEMMA MoveKeeps ==
    ASSUME NEW deps, NEW roots, Needs(deps, roots), NEW conflicting, NEW s \in Visits(deps, roots),
           s.path # <<>>, VisitsRight(s, deps, roots, conflicting), NEW id, id = Last(s.path),
           id \in DOMAIN deps, NEW t, EntersPlugin(s, t, deps, id) \/ GoesPast(s, t, deps, id)
    PROVE  VisitsRight(t, deps, roots, conflicting)
<1> DEFINE n == Len(s.path)
           dep == deps[id][s.next[id]]
<1>1. /\ n \in Nat \ {0} /\ id = s.path[n] /\ IsSequence(s.path) /\ id \in Range(s.path)
      /\ \A i \in 1 .. n : s.path[i] \in Range(s.path)
  BY VisitParts, SequenceFront
<1>2. MovesOn(s, t, deps, id)
  BY DEF EntersPlugin, GoesPast
<1>3. /\ s.next \in [DOMAIN deps -> Nat \ {0}] /\ IsSequence(deps[id]) /\ Len(deps[id]) \in Nat
      /\ \A k \in 1 .. Len(deps[id]) : deps[id][k] \in Range(deps[id])
      /\ s.next[id] <= Len(deps[id])
  BY <1>2, VisitsTyped, SequenceParts DEF Needs, MovesOn
<1>4. t.root = s.root /\ t.order = s.order
      /\ \A v \in DOMAIN deps : t.next[v] = IF v = id THEN s.next[v] + 1 ELSE s.next[v]
  BY <1>2, <1>3 DEF MovesOn
<1>5. dep \in Range(deps[id])
  BY <1>3
<1>6. \/ /\ dep \in Range(s.order) /\ t.path = s.path
      \/ /\ dep \notin Range(s.path) /\ dep \notin Range(s.order) /\ dep \in DOMAIN deps
         /\ t.path = Append(s.path, dep)
  BY DEF EntersPlugin, GoesPast
<1> HIDE DEF dep
<1>7. /\ \A i \in 1 .. n : t.path[i] = s.path[i]
      /\ \/ /\ dep \in Range(s.order) /\ Len(t.path) = n /\ Range(t.path) = Range(s.path)
         \/ /\ dep \notin Range(s.path) /\ dep \notin Range(s.order) /\ dep \in DOMAIN deps
            /\ Len(t.path) = n + 1 /\ t.path[n + 1] = dep /\ Range(t.path) = Range(s.path) \cup {dep}
  <2>1. CASE dep \in Range(s.order) /\ t.path = s.path
    BY <2>1
  <2>2. CASE /\ dep \notin Range(s.path) /\ dep \notin Range(s.order) /\ dep \in DOMAIN deps
             /\ t.path = Append(s.path, dep)
    BY <1>1, <2>2, SequenceAppended
  <2> QED BY <1>6, <2>1, <2>2
<1>8. /\ Range(s.path) \subseteq Range(t.path) /\ Len(t.path) \in {n, n + 1}
      /\ Len(t.path) = n => dep \in Range(s.order)
      /\ Len(t.path) = n + 1 => t.path[n + 1] = dep
  BY <1>1, <1>7
<1> HIDE DEF n
<1>9. OrderIsRight(t.order, deps, conflicting)
  <2>1. OrderIsRight(s.order, deps, conflicting)
    BY DEF VisitsRight
  <2> QED BY <2>1, <1>4
<1>10. PathIsOnce(t)
  <2>1. \A i, j \in 1 .. n : s.path[i] = s.path[j] => i = j
    BY DEF VisitsRight, PathIsOnce, n
  <2>2. ASSUME NEW i \in 1 .. Len(t.path), NEW j \in 1 .. Len(t.path), t.path[i] = t.path[j]
        PROVE  i = j
    <3>1. CASE i \in 1 .. n /\ j \in 1 .. n
      BY <2>1, <2>2, <3>1, <1>7
    <3>2. CASE ~(i \in 1 .. n /\ j \in 1 .. n)
      <4>1. Len(t.path) = n + 1 /\ t.path[n + 1] = dep /\ dep \notin Range(s.path)
        BY <3>2, <1>1, <1>7
      <4>2. (i \in 1 .. n \/ i = n + 1) /\ (j \in 1 .. n \/ j = n + 1)
        BY <4>1, <1>1
      <4> QED BY <4>1, <4>2, <2>2, <3>2, <1>1, <1>7
    <3> QED BY <3>1, <3>2
  <2> QED BY <2>2 DEF PathIsOnce
<1>11. PathNeedsNext(t, deps)
  <2>1. \A i \in 1 .. n - 1 : s.path[i + 1] \in Range(deps[s.path[i]])
    BY DEF VisitsRight, PathNeedsNext, n
  <2>2. ASSUME NEW i \in 1 .. Len(t.path) - 1 PROVE t.path[i + 1] \in Range(deps[t.path[i]])
    <3>1. CASE i = n
      <4>1. Len(t.path) = n + 1
        BY <3>1, <2>2, <1>1, <1>8
      <4> QED BY <4>1, <3>1, <1>1, <1>5, <1>7, <1>8
    <3>2. CASE i # n
      <4>1. i \in 1 .. n - 1 /\ i \in 1 .. n /\ i + 1 \in 1 .. n
        BY <3>2, <2>2, <1>1, <1>8
      <4> QED BY <4>1, <2>1, <1>7
    <3> QED BY <3>1, <3>2
  <2> QED BY <2>2 DEF PathNeedsNext
<1>12. PassedIsInOrder(t, deps)
  <2>1. PassedIsInOrder(s, deps) /\ PathIsOnce(s) /\ OthersAreNew(s, deps)
    BY DEF VisitsRight
  <2>2. ASSUME NEW i \in 1 .. Len(t.path), NEW k \in 1 .. Len(deps[t.path[i]]), k < t.next[t.path[i]]
        PROVE  \/ deps[t.path[i]][k] \in Range(t.order)
               \/ i < Len(t.path) /\ deps[t.path[i]][k] = t.path[i + 1]
    <3>1. CASE i \in 1 .. n /\ ~(i = n /\ k = s.next[id])
      <4>1. t.path[i] = s.path[i] /\ s.path[i] \in DOMAIN deps
        BY <3>1, <1>7, <1>1, VisitParts
      <4>2. k < s.next[s.path[i]]
        <5>1. CASE i = n
          <6>1. k < s.next[id] + 1 /\ k # s.next[id] /\ s.path[i] = id
            BY <5>1, <3>1, <2>2, <4>1, <1>1, <1>4
          <6>2. s.next[id] \in Nat /\ k \in Int
            BY <1>3
          <6> QED BY <6>1, <6>2
        <5>2. CASE i # n
          <6>1. s.path[i] # id
            BY <5>2, <2>1, <3>1, <1>1 DEF PathIsOnce, n
          <6> QED BY <6>1, <2>2, <4>1, <1>4
        <5> QED BY <5>1, <5>2
      <4>3. \/ deps[s.path[i]][k] \in Range(s.order)
            \/ i < n /\ deps[s.path[i]][k] = s.path[i + 1]
        BY <2>1, <2>2, <3>1, <4>1, <4>2 DEF PassedIsInOrder, n
      <4>4. i < n => i + 1 \in 1 .. n /\ i < Len(t.path)
        BY <3>1, <1>1, <1>8
      <4> QED BY <4>1, <4>3, <4>4, <1>4, <1>7
    <3>2. CASE i = n /\ k = s.next[id]
      <4>1. t.path[i] = id /\ deps[t.path[i]][k] = dep
        BY <3>2, <1>1, <1>7 DEF dep
      <4>2. Len(t.path) = n + 1 => i < Len(t.path) /\ t.path[i + 1] = dep
        BY <3>2, <1>1, <1>8
      <4> QED BY <4>1, <4>2, <1>4, <1>8
    <3>3. CASE i = n + 1
      <4>1. Len(t.path) = n + 1 /\ t.path[i] = dep /\ dep \in DOMAIN deps
            /\ dep \notin Range(s.path) /\ dep \notin Range(s.order)
        BY <3>3, <1>1, <1>7
      <4>2. t.next[dep] = 1
        BY <4>1, <2>1, <1>1, <1>4 DEF OthersAreNew
      <4> QED BY <2>2, <4>1, <4>2
    <3>4. i \in 1 .. n \/ i = n + 1
      BY <1>1, <1>8
    <3> QED BY <3>1, <3>2, <3>3, <3>4
  <2> QED BY <2>2 DEF PassedIsInOrder
<1>13. OthersAreNew(t, deps)
  BY <1>1, <1>4, <1>8 DEF VisitsRight, OthersAreNew
<1>14. RootsAreVisited(t, roots)
  BY <1>4, <1>8 DEF VisitsRight, RootsAreVisited
<1> QED BY <1>9, <1>10, <1>11, <1>12, <1>13, <1>14 DEF VisitsRight

\* Every step of resolveOrder keeps the visits right.
LEMMA VisitStepKeeps ==
    ASSUME NEW deps, NEW roots, Needs(deps, roots), NEW conflicting, NEW s \in Visits(deps, roots),
           ~VisitEnded(s, roots), VisitInv(s, deps, roots, conflicting),
           NEW t, t = VisitStep(s, deps, roots, conflicting)
    PROVE  VisitInv(t, deps, roots, conflicting)
<1>1. s.error = "none" /\ VisitsRight(s, deps, roots, conflicting)
  BY VisitCases DEF VisitInv
<1>2. CASE s.path = <<>>
  <2>1. /\ s.root < Len(roots) /\ roots[s.root + 1] \in DOMAIN deps
        /\ SkipsRoot(s, t, roots) \/ EntersRoot(s, t, roots)
    BY <1>2, VisitCases
  <2>2. VisitsRight(t, deps, roots, conflicting) /\ t.error = "none"
    BY <1>1, <1>2, <2>1, RootKeeps DEF SkipsRoot, EntersRoot
  <2> QED BY <2>2 DEF VisitInv
<1>3. CASE s.path # <<>>
  <2> DEFINE id == Last(s.path)
  <2>1. /\ id \in DOMAIN deps
        /\ \/ Conflicts(s, t, conflicting, id) \/ PutsInOrder(s, t, deps, conflicting, id)
           \/ Misses(s, t, deps, id) \/ MeetsItself(s, t, deps, id)
           \/ EntersPlugin(s, t, deps, id) \/ GoesPast(s, t, deps, id)
    BY <1>3, VisitCases
  <2> HIDE DEF id
  <2>3. CASE Conflicts(s, t, conflicting, id) \/ Misses(s, t, deps, id) \/ MeetsItself(s, t, deps, id)
    <3>1. t.error # "none" /\ ~Orderable(deps, conflicting)
      BY <1>1, <1>3, <2>1, <2>3, ErrorsAreReasons DEF id
    <3> QED BY <3>1 DEF VisitInv
  <2>4. CASE PutsInOrder(s, t, deps, conflicting, id)
    <3>1. VisitsRight(t, deps, roots, conflicting)
      BY <1>1, <1>3, <2>1, <2>4, PutKeeps DEF id
    <3>2. t.error = "none"
      BY <1>1, <2>4 DEF PutsInOrder
    <3> QED BY <3>1, <3>2 DEF VisitInv
  <2>5. CASE EntersPlugin(s, t, deps, id) \/ GoesPast(s, t, deps, id)
    <3>1. VisitsRight(t, deps, roots, conflicting)
      BY <1>1, <1>3, <2>1, <2>5, MoveKeeps DEF id
    <3>2. t.error = "none"
      BY <1>1, <2>5 DEF EntersPlugin, GoesPast
    <3> QED BY <3>1, <3>2 DEF VisitInv
  <2> QED BY <2>1, <2>3, <2>4, <2>5
<1> QED BY <1>2, <1>3

----------------------------------------------------------------------------
(* resolveOrder on a list of plugins.                                       *)

\* A list of plugins as loadAll is given one.
IsList(list) ==
    /\ IsSequence(list)
    /\ \A plugin \in Range(list) : IsSequence(plugin.dependsOn) /\ IsSequence(plugin.handlers)

\* The plugin of an id of the list is one of the list.
LEMMA PluginOfId ==
    ASSUME NEW list, IsList(list), NEW id \in PluginIds(list)
    PROVE  PluginOf(list, id) \in Range(list) /\ PluginOf(list, id).id = id
<1> DEFINE I == {i \in 1 .. Len(list) : list[i].id = id}
<1>1. Len(list) \in Nat /\ DOMAIN list = 1 .. Len(list) /\ \A i \in 1 .. Len(list) : list[i] \in Range(list)
  BY SequenceParts DEF IsList
<1>2. I # {}
  BY <1>1 DEF PluginIds
<1>3. \E x \in I : \A y \in I : y <= x
  BY <1>1, <1>2, GreatestNumber
<1>4. PluginOf(list, id) = list[Max(I)]
  BY <1>2 DEF PluginOf, SelectLastInSeq
<1>5. Max(I) \in I
  <2> HIDE DEF I
  <2>1. Max(I) = CHOOSE x \in I : \A y \in I : x >= y
    BY DEF Max
  <2>2. I \subseteq Nat
    BY <1>1 DEF I
  <2>3. \E x \in I : \A y \in I : x >= y
    BY <1>3, <2>2
  <2> QED BY <2>1, <2>3
<1> QED BY <1>1, <1>4, <1>5

\* The dependencies of an id are those of all the plugins of the id.
LEMMA DependenciesOf ==
    ASSUME NEW list, IsList(list), NEW id \in PluginIds(list)
    PROVE  /\ IsSequence(Dependencies(list)[id])
           /\ \A plugin \in Range(list) :
                 plugin.id = id => Range(plugin.dependsOn) \subseteq Range(Dependencies(list)[id])
<1> DEFINE seqs == [i \in DOMAIN list |-> IF list[i].id = id THEN list[i].dependsOn ELSE <<>>]
<1>1. Dependencies(list)[id] = FlattenSeq(seqs)
  BY DEF Dependencies
<1>2. IsSequence(list) /\ \A i \in DOMAIN list : list[i] \in Range(list)
  BY SequenceParts DEF IsList
<1>3. ASSUME NEW i \in DOMAIN list PROVE IsSequence(seqs[i])
  <2>1. CASE list[i].id = id
    BY <1>2, <2>1 DEF IsList
  <2>2. CASE list[i].id # id
    BY <2>2, SequenceEmpty
  <2> QED BY <2>1, <2>2
<1>4. IsSequence(seqs) /\ DOMAIN seqs = DOMAIN list
  <2>1. IsMapped(list, seqs)
    BY DEF IsMapped
  <2> HIDE DEF seqs
  <2> QED BY <1>2, <2>1, SequenceMapped
<1>5. ASSUME NEW plugin \in Range(list), plugin.id = id, NEW dep \in Range(plugin.dependsOn)
      PROVE  \E i \in DOMAIN seqs : dep \in Range(seqs[i])
  <2>1. PICK i \in DOMAIN list : list[i] = plugin
    BY DEF Range
  <2>2. seqs[i] = plugin.dependsOn
    BY <2>1, <1>5
  <2> QED BY <1>4, <1>5, <2>2
<1> HIDE DEF seqs
<1>6. /\ IsSequence(FlattenSeq(seqs))
      /\ \A x : x \in Range(FlattenSeq(seqs)) <=> \E i \in DOMAIN seqs : x \in Range(seqs[i])
  BY <1>3, <1>4, Flattened
<1> QED BY <1>1, <1>5, <1>6

\* The dependencies of a list are finite rows of ids.
LEMMA ListNeeds ==
    ASSUME NEW list, IsList(list)
    PROVE  /\ Needs(Dependencies(list), Roots(list)) /\ DOMAIN Dependencies(list) = PluginIds(list)
           /\ Range(Roots(list)) = PluginIds(list)
<1> DEFINE roots == Roots(list)
           ids == PluginIds(list)
           n == Len(list)
<1>1. n \in Nat /\ DOMAIN list = 1 .. n
  BY SequenceParts DEF IsList
<1>2. roots \in [1 .. n -> ids] /\ Range(roots) = ids /\ roots \in Surjection(1 .. n, ids)
  BY <1>1 DEF Roots, PluginIds, Range, Surjection
<1>3. IsFiniteSet(ids)
  BY <1>1, <1>2, FS_Interval, FS_Surjection
<1>4. roots \in Seq(ids)
  BY <1>1, <1>2
<1>5. DOMAIN Dependencies(list) = ids
  BY DEF Dependencies
<1> QED BY <1>2, <1>3, <1>4, <1>5, DependenciesOf DEF Needs

\* The order the visits look for is one the list can be put in.
LEMMA OrderableIsResolvable ==
    ASSUME NEW list, IsList(list)
    PROVE  Orderable(Dependencies(list), Conflicting(list)) <=> Resolvable(list)
BY ListNeeds DEF Orderable, Resolvable

\* The visits end without an error exactly when there is an order, and then with one
\* that holds every id.
LEMMA ResolutionIsRight ==
    ASSUME NEW deps, NEW roots, Needs(deps, roots), Range(roots) = DOMAIN deps, NEW conflicting,
           conflicting \subseteq DOMAIN deps,
           NEW found, found = Resolution(deps, roots, conflicting)[VisitStart(deps)]
    PROVE  /\ found \in Visits(deps, roots)
           /\ found.error = "none" <=> Orderable(deps, conflicting)
           /\ found.error = "none" => OrderIsRight(found.order, deps, conflicting)
                                      /\ Range(found.order) = DOMAIN deps
<1> DEFINE I == {s \in Visits(deps, roots) : VisitInv(s, deps, roots, conflicting)}
           start == VisitStart(deps)
<1>1. /\ start.path = <<>> /\ start.next = [id \in DOMAIN deps |-> 1] /\ start.root = 0
      /\ start.order = <<>> /\ start.error = "none"
  BY DEF VisitStart, Visiting
<1>2. start \in Visits(deps, roots)
  <2>1. 0 \in 0 .. Len(roots)
    BY NeedsParts
  <2>2. <<>> \in Seq(DOMAIN deps)
    BY EmptySeq
  <2>3. [id \in DOMAIN deps |-> 1] \in [DOMAIN deps -> Nat \ {0}]
    OBVIOUS
  <2> QED BY <2>1, <2>2, <2>3, VisitingTyped DEF VisitStart
<1> HIDE DEF start
<1>3. VisitsRight(start, deps, roots, conflicting)
  <2>1. Len(start.path) = 0 /\ Len(start.order) = 0
    BY <1>1, EmptySeq
  <2>2. OrderIsRight(start.order, deps, conflicting)
    BY <2>1 DEF OrderIsRight
  <2>3. PathIsOnce(start) /\ PathNeedsNext(start, deps) /\ PassedIsInOrder(start, deps)
    BY <2>1 DEF PathIsOnce, PathNeedsNext, PassedIsInOrder
  <2>4. OthersAreNew(start, deps) /\ RootsAreVisited(start, roots)
    BY <1>1 DEF OthersAreNew, RootsAreVisited
  <2> QED BY <2>2, <2>3, <2>4 DEF VisitsRight
<1>4. start \in I
  BY <1>1, <1>2, <1>3 DEF VisitInv
<1>5. \A s \in I : ~VisitEnded(s, roots) => VisitStep(s, deps, roots, conflicting) \in I
  BY VisitStepTyped, VisitStepKeeps
<1>6. found = Resolution(deps, roots, conflicting)[start]
  BY DEF start
<1>7. found \in I /\ VisitEnded(found, roots)
  <2>1. I \in SUBSET Visits(deps, roots)
    OBVIOUS
  <2> HIDE DEF I
  <2> QED BY <1>4, <1>5, <1>6, <2>1, VisitsKeep
<1>8. found \in Visits(deps, roots) /\ VisitInv(found, deps, roots, conflicting)
  BY <1>7
<1> HIDE DEF I
<1>9. CASE found.error # "none"
  BY <1>8, <1>9 DEF VisitInv
<1>10. CASE found.error = "none"
  <2>1. VisitsRight(found, deps, roots, conflicting) /\ found.path = <<>> /\ found.root = Len(roots)
    BY <1>7, <1>8, <1>10 DEF VisitInv, VisitEnded
  <2> DEFINE order == found.order
             m == Len(order)
  <2>2. /\ m \in Nat /\ Range(order) \subseteq DOMAIN deps
        /\ \A k \in 1 .. m : order[k] \in Range(order)
        /\ \A x \in Range(order) : \E k \in 1 .. m : order[k] = x
    <3>1. IsSequence(found.order) /\ Range(found.order) \subseteq DOMAIN deps
      BY <1>8, VisitParts
    <3> QED BY <3>1, SequenceParts
  <2>3. DOMAIN deps \subseteq Range(order)
    <3>1. \A x \in DOMAIN deps : \E i \in 1 .. Len(roots) : roots[i] = x
      BY SequenceOf, SequenceParts DEF Needs
    <3>2. \A i \in 1 .. Len(roots) : roots[i] \in Range(order)
      BY <2>1, SequenceEmpty DEF VisitsRight, RootsAreVisited
    <3> HIDE DEF order
    <3> QED BY <3>1, <3>2
  <2>4. OrderIsRight(order, deps, conflicting)
    BY <2>1 DEF VisitsRight
  <2> HIDE DEF order, m
  <2>5. \A k \in 1 .. m : /\ order[k] \notin conflicting
                          /\ \A dep \in Range(deps[order[k]]) : \E j \in 1 .. k - 1 : order[j] = dep
    BY <2>4 DEF OrderIsRight, m
  <2>6. conflicting = {}
    BY <2>2, <2>3, <2>5
  <2>7. \A id \in DOMAIN deps : Range(deps[id]) \subseteq DOMAIN deps
    <3>1. ASSUME NEW id \in DOMAIN deps, NEW dep \in Range(deps[id]) PROVE dep \in DOMAIN deps
      <4>1. PICK k \in 1 .. m : order[k] = id
        BY <2>2, <2>3
      <4>2. PICK j \in 1 .. k - 1 : order[j] = dep
        BY <2>5, <3>1, <4>1
      <4>3. j \in 1 .. m
        BY <2>2
      <4> QED BY <2>2, <4>2, <4>3
    <3> QED BY <3>1
  <2>8. ASSUME NEW S \in (SUBSET DOMAIN deps) \ {{}} PROVE \E id \in S : Range(deps[id]) \cap S = {}
    <3> DEFINE T == {k \in 1 .. m : order[k] \in S}
    <3>1. T \in SUBSET Nat /\ T # {}
      BY <2>2, <2>3
    <3>2. PICK k \in T : \A l \in T : k <= l
      <4> HIDE DEF T
      <4> QED BY <3>1, LeastNumber
    <3>3. ASSUME NEW dep \in Range(deps[order[k]]) PROVE dep \notin S
      <4>1. PICK j \in 1 .. k - 1 : order[j] = dep
        BY <2>5, <3>2
      <4>2. j \in 1 .. m /\ j < k
        BY <2>2, <3>2
      <4> QED BY <3>2, <4>1, <4>2
    <3> QED BY <3>2, <3>3
  <2>9. Orderable(deps, conflicting)
    BY <2>6, <2>7, <2>8 DEF Orderable
  <2> QED BY <1>8, <1>10, <2>2, <2>3, <2>4, <2>9 DEF order
<1> QED BY <1>9, <1>10

\* A list is put in an order exactly when there is one.
LEMMA ResolveOrderIsRight ==
    ASSUME NEW list, IsList(list), NEW resolved, resolved = ResolveOrder(list)
    PROVE  /\ resolved.error = "none" <=> Resolvable(list)
           /\ resolved.error = "none" =>
                 /\ IsSequence(resolved.order) /\ Range(resolved.order) \subseteq Range(list)
                 /\ InOrder(resolved.order)
<1> DEFINE deps == Dependencies(list)
           roots == Roots(list)
           conflicting == Conflicting(list)
<1>1. PICK found : found = Resolution(deps, roots, conflicting)[VisitStart(deps)]
  OBVIOUS
<1>2. /\ Needs(deps, roots) /\ DOMAIN deps = PluginIds(list) /\ Range(roots) = DOMAIN deps
      /\ conflicting \subseteq DOMAIN deps
  BY ListNeeds DEF Conflicting
<1>3. Orderable(deps, conflicting) <=> Resolvable(list)
  BY OrderableIsResolvable
<1> DEFINE plugins == [i \in DOMAIN found.order |-> PluginOf(list, found.order[i])]
<1>4. resolved.error = found.error /\ resolved.order = plugins
  BY <1>1 DEF ResolveOrder
<1>5. /\ found \in Visits(deps, roots)
      /\ found.error = "none" <=> Orderable(deps, conflicting)
      /\ found.error = "none" => OrderIsRight(found.order, deps, conflicting)
                                 /\ Range(found.order) = DOMAIN deps
  <2> HIDE DEF deps, roots, conflicting
  <2> QED BY <1>1, <1>2, ResolutionIsRight
<1>6. ASSUME found.error = "none"
      PROVE  IsSequence(plugins) /\ Range(plugins) \subseteq Range(list) /\ InOrder(plugins)
  <2> DEFINE order == found.order
             m == Len(order)
  <2>1. /\ IsSequence(order) /\ m \in Nat /\ DOMAIN order = 1 .. m
        /\ \A k \in 1 .. m : order[k] \in PluginIds(list)
    BY <1>2, <1>5, VisitParts, SequenceParts
  <2>2. IsMapped(order, plugins)
    BY DEF IsMapped
  <2>3. \A k \in 1 .. m : plugins[k] = PluginOf(list, order[k])
    BY <2>1
  <2>4. OrderIsRight(order, deps, conflicting)
    BY <1>5, <1>6
  <2> HIDE DEF order, plugins, m
  <2>5. /\ IsSequence(plugins) /\ DOMAIN plugins = 1 .. m
        /\ \A x \in Range(plugins) : \E i \in 1 .. m : x = plugins[i]
    BY <2>1, <2>2, SequenceMapped
  <2>6. \A k \in 1 .. m : plugins[k] \in Range(list) /\ plugins[k].id = order[k]
    BY <2>1, <2>3, PluginOfId
  <2>7. ASSUME NEW k \in 1 .. m, NEW dep \in Range(plugins[k].dependsOn)
        PROVE  \E j \in 1 .. k - 1 : plugins[j].id = dep
    <3>1. dep \in Range(deps[order[k]])
      BY <2>1, <2>6, <2>7, DependenciesOf
    <3>2. PICK j \in 1 .. k - 1 : order[j] = dep
      BY <3>1, <2>4 DEF OrderIsRight, m
    <3>3. j \in 1 .. m
      BY <2>1
    <3> QED BY <3>2, <3>3, <2>6
  <2>8. InOrder(plugins)
    BY <2>5, <2>7 DEF InOrder
  <2> QED BY <2>5, <2>6, <2>8
<1> HIDE DEF deps, roots, conflicting, plugins
<1> QED BY <1>3, <1>4, <1>5, <1>6

----------------------------------------------------------------------------
(* The calls of loadAll.                                                      *)

IsPlugin(plugin) == IsSequence(plugin.dependsOn) /\ IsSequence(plugin.handlers)

\* What a call has left needs what is before it or what is loaded.
Waiting(rest, loaded) ==
    \A i \in 1 .. Len(rest) : \A dep \in Range(rest[i].dependsOn) :
        \/ \E k \in 1 .. i - 1 : rest[k].id = dep
        \/ \E k \in 1 .. Len(loaded) : loaded[k].id = dep

\* What is initialized has its dependencies loaded, and before its own entry, should
\* another call have made one in the meantime.
Prepared(plugin, loaded) ==
    \A dep \in Range(plugin.dependsOn) : \E k \in 1 .. Len(loaded) :
        /\ loaded[k].id = dep
        /\ \A i \in 1 .. Len(loaded) : Same(loaded[i], plugin) => k < i

LoadedRight(loaded, handlers) ==
    /\ IsSequence(loaded) /\ InOrder(loaded)
    /\ \A p \in Range(loaded) : IsPlugin(p) /\ Range(p.handlers) \subseteq handlers

CallRight(call, loaded) ==
    /\ call.at # "new" => (call.error = "none" <=> Resolvable(call.list))
    /\ call.at \in {"next", "initializing"} =>
          IsSequence(call.rest) /\ (\A p \in Range(call.rest) : IsPlugin(p)) /\ Waiting(call.rest, loaded)
    /\ call.at = "initializing" => call.rest # <<>> /\ Prepared(Head(call.rest), loaded)

\* The inductive invariant.
HostInv ==
    /\ calls = [c \in Callers |-> calls[c]]
    /\ LoadedRight(manager.loaded, manager.handlers)
    /\ \A c \in Callers : CallRight(calls[c], manager.loaded)

\* A map of plugins that keeps the places of another.
Extends(loaded, after) ==
    /\ IsSequence(loaded) /\ IsSequence(after) /\ Len(loaded) <= Len(after)
    /\ \A k \in 1 .. Len(loaded) : Same(after[k], loaded[k])

\* What a call has left still waits rightly when the map of plugins has grown.
LEMMA WaitingKept ==
    ASSUME NEW rest, NEW loaded, NEW after, Extends(loaded, after), Waiting(rest, loaded)
    PROVE  Waiting(rest, after)
<1>1. Len(loaded) \in Nat /\ Len(after) \in Nat /\ Len(loaded) <= Len(after)
  BY SequenceParts DEF Extends
<1>2. \A k \in 1 .. Len(loaded) : k \in 1 .. Len(after) /\ after[k].id = loaded[k].id
  BY <1>1 DEF Extends, Same
<1> QED BY <1>2 DEF Waiting

\* What a call holds across its await stays right when the map has grown.
LEMMA PreparedKept ==
    ASSUME NEW plugin, NEW loaded, NEW after, Extends(loaded, after), Prepared(plugin, loaded)
    PROVE  Prepared(plugin, after)
<1>1. Len(loaded) \in Nat /\ Len(after) \in Nat /\ Len(loaded) <= Len(after)
  BY SequenceParts DEF Extends
<1>2. \A k \in 1 .. Len(loaded) : /\ k \in 1 .. Len(after) /\ after[k].id = loaded[k].id
                                  /\ Same(after[k], plugin) => Same(loaded[k], plugin)
  BY <1>1 DEF Extends, Same
<1>3. ASSUME NEW dep \in Range(plugin.dependsOn)
      PROVE  \E k \in 1 .. Len(after) : /\ after[k].id = dep
                                        /\ \A i \in 1 .. Len(after) : Same(after[i], plugin) => k < i
  <2>1. PICK k \in 1 .. Len(loaded) : /\ loaded[k].id = dep
                                      /\ \A i \in 1 .. Len(loaded) : Same(loaded[i], plugin) => k < i
    BY <1>3 DEF Prepared
  <2>2. ASSUME NEW i \in 1 .. Len(after), Same(after[i], plugin) PROVE k < i
    <3>1. CASE i \in 1 .. Len(loaded)
      BY <3>1, <2>1, <2>2, <1>2
    <3>2. CASE i \notin 1 .. Len(loaded)
      BY <3>2, <1>1
    <3> QED BY <3>1, <3>2
  <2> QED BY <2>1, <2>2, <1>2
<1> QED BY <1>3 DEF Prepared

\* A call stays right when the others let the map grow.
LEMMA CallKept ==
    ASSUME NEW call, NEW loaded, NEW after, Extends(loaded, after), CallRight(call, loaded)
    PROVE  CallRight(call, after)
BY WaitingKept, PreparedKept DEF CallRight

\* An entry is set in its place, after all the plugin depends on.
LEMMA SetPluginRight ==
    ASSUME NEW loaded, NEW handlers, LoadedRight(loaded, handlers), NEW plugin, IsPlugin(plugin),
           Prepared(plugin, loaded), NEW more, handlers \subseteq more,
           Range(plugin.handlers) \subseteq more, NEW after, after = SetPlugin(loaded, plugin)
    PROVE  /\ LoadedRight(after, more) /\ Extends(loaded, after)
           /\ \E k \in 1 .. Len(after) : after[k].id = plugin.id
<1> DEFINE n == Len(loaded)
<1>1. /\ IsSequence(loaded) /\ n \in Nat /\ DOMAIN loaded = 1 .. n
      /\ \A i \in 1 .. n : loaded[i] \in Range(loaded)
      /\ \A x \in Range(loaded) : \E i \in 1 .. n : loaded[i] = x
  BY SequenceParts DEF LoadedRight
<1>2. \A i \in 1 .. n : /\ IsPlugin(loaded[i]) /\ Range(loaded[i].handlers) \subseteq more
                        /\ \A dep \in Range(loaded[i].dependsOn) : \E k \in 1 .. i - 1 : loaded[k].id = dep
  BY <1>1 DEF LoadedRight, InOrder
<1>3. ASSUME IsSequence(after), n <= Len(after), \A i \in 1 .. n : Same(after[i], loaded[i]),
             \A i \in 1 .. Len(after) :
                 \/ i \in 1 .. n /\ after[i] = loaded[i]
                 \/ /\ after[i] = plugin
                    /\ \A dep \in Range(plugin.dependsOn) : \E k \in 1 .. n : k < i /\ loaded[k].id = dep
      PROVE  LoadedRight(after, more) /\ Extends(loaded, after)
  <2>1. /\ Len(after) \in Nat /\ DOMAIN after = 1 .. Len(after)
        /\ \A x \in Range(after) : \E i \in 1 .. Len(after) : after[i] = x
    BY <1>3, SequenceParts
  <2>2. \A i \in 1 .. n : after[i].id = loaded[i].id
    BY <1>3 DEF Same
  <2>3. ASSUME NEW i \in 1 .. Len(after), NEW dep \in Range(after[i].dependsOn)
        PROVE  \E k \in 1 .. i - 1 : after[k].id = dep
    <3>1. CASE i \in 1 .. n /\ after[i] = loaded[i]
      <4>1. PICK k \in 1 .. i - 1 : loaded[k].id = dep
        BY <1>2, <2>3, <3>1
      <4>2. k \in 1 .. n
        BY <3>1, <1>1
      <4> QED BY <4>1, <4>2, <2>2
    <3>2. CASE /\ after[i] = plugin
               /\ \A d \in Range(plugin.dependsOn) : \E k \in 1 .. n : k < i /\ loaded[k].id = d
      <4>1. PICK k \in 1 .. n : k < i /\ loaded[k].id = dep
        BY <2>3, <3>2
      <4>2. k \in 1 .. i - 1
        BY <4>1, <1>1
      <4> QED BY <4>1, <4>2, <2>2
    <3> QED BY <1>3, <3>1, <3>2
  <2>4. InOrder(after)
    BY <2>1, <2>3 DEF InOrder
  <2>5. \A i \in 1 .. Len(after) : IsPlugin(after[i]) /\ Range(after[i].handlers) \subseteq more
    BY <1>2, <1>3
  <2>6. LoadedRight(after, more)
    BY <1>3, <2>1, <2>4, <2>5 DEF LoadedRight
  <2> QED BY <1>1, <1>3, <2>6 DEF Extends
<1>4. CASE Known(loaded, plugin)
  <2>1. /\ IsMapped(loaded, after)
        /\ \A i \in 1 .. n : after[i] = IF Same(loaded[i], plugin) THEN plugin ELSE loaded[i]
    BY <1>1, <1>4 DEF SetPlugin, IsMapped
  <2>2. IsSequence(after) /\ Len(after) = n
    BY <1>1, <2>1, SequenceMapped
  <2>3. \A i \in 1 .. n : Same(after[i], loaded[i])
    BY <2>1 DEF Same
  <2>4. ASSUME NEW i \in 1 .. n
        PROVE  \/ after[i] = loaded[i]
               \/ /\ after[i] = plugin
                  /\ \A dep \in Range(plugin.dependsOn) : \E k \in 1 .. n : k < i /\ loaded[k].id = dep
    <3>1. CASE Same(loaded[i], plugin)
      BY <2>1, <3>1 DEF Prepared
    <3>2. CASE ~Same(loaded[i], plugin)
      BY <2>1, <3>2
    <3> QED BY <3>1, <3>2
  <2>5. \E k \in 1 .. Len(after) : after[k].id = plugin.id
    <3>1. PICK k \in 1 .. n : Same(loaded[k], plugin)
      BY <1>1, <1>4 DEF Known
    <3> QED BY <3>1, <2>1, <2>2
  <2>6. \A i \in 1 .. Len(after) :
            \/ i \in 1 .. n /\ after[i] = loaded[i]
            \/ /\ after[i] = plugin
               /\ \A dep \in Range(plugin.dependsOn) : \E k \in 1 .. n : k < i /\ loaded[k].id = dep
    BY <2>2, <2>4
  <2>7. LoadedRight(after, more) /\ Extends(loaded, after)
    <3>1. n <= Len(after)
      BY <1>1, <2>2
    <3> QED BY <1>3, <2>2, <2>3, <2>6, <3>1
  <2> QED BY <2>5, <2>7
<1>5. CASE ~Known(loaded, plugin)
  <2>1. after = Append(loaded, plugin)
    BY <1>5 DEF SetPlugin
  <2>2. /\ IsSequence(after) /\ Len(after) = n + 1 /\ after[n + 1] = plugin
        /\ \A i \in 1 .. n : after[i] = loaded[i]
    BY <1>1, <2>1, SequenceAppended
  <2>3. \A i \in 1 .. n : Same(after[i], loaded[i])
    BY <2>2 DEF Same
  <2>4. \A dep \in Range(plugin.dependsOn) : \E k \in 1 .. n : k < n + 1 /\ loaded[k].id = dep
    BY <1>1 DEF Prepared
  <2>5. ASSUME NEW i \in 1 .. Len(after)
        PROVE  \/ i \in 1 .. n /\ after[i] = loaded[i]
               \/ /\ after[i] = plugin
                  /\ \A dep \in Range(plugin.dependsOn) : \E k \in 1 .. n : k < i /\ loaded[k].id = dep
    <3>1. CASE i = n + 1
      BY <3>1, <2>2, <2>4
    <3>2. CASE i # n + 1
      <4>1. i \in 1 .. n
        BY <3>2, <2>2, <1>1
      <4> QED BY <4>1, <2>2
    <3> QED BY <3>1, <3>2
  <2>6. n + 1 \in 1 .. Len(after) /\ n <= Len(after)
    BY <1>1, <2>2
  <2> QED BY <1>3, <2>2, <2>3, <2>5, <2>6
<1> QED BY <1>4, <1>5

\* What is left after the first plugin, once that one is loaded.
LEMMA WaitingTail ==
    ASSUME NEW rest, IsSequence(rest), rest # <<>>, NEW loaded, Waiting(rest, loaded),
           \E k \in 1 .. Len(loaded) : loaded[k].id = Head(rest).id
    PROVE  Waiting(Tail(rest), loaded)
<1> DEFINE n == Len(rest)
           tail == Tail(rest)
<1>1. /\ n \in Nat \ {0} /\ Len(tail) = n - 1 /\ \A i \in 1 .. n - 1 : tail[i] = rest[i + 1]
      /\ Head(rest) = rest[1]
  BY SequenceTail, SequenceFront
<1>2. \A j \in 1 .. n : \A dep \in Range(rest[j].dependsOn) :
          \/ \E k \in 1 .. j - 1 : rest[k].id = dep
          \/ \E k \in 1 .. Len(loaded) : loaded[k].id = dep
  BY DEF Waiting
<1> HIDE DEF n, tail
<1>3. ASSUME NEW i \in 1 .. n - 1, NEW dep \in Range(tail[i].dependsOn)
      PROVE  \/ \E k \in 1 .. i - 1 : tail[k].id = dep
             \/ \E k \in 1 .. Len(loaded) : loaded[k].id = dep
  <2>1. i + 1 \in 1 .. n /\ dep \in Range(rest[i + 1].dependsOn)
    BY <1>1, <1>3
  <2>2. \/ \E k \in 1 .. i + 1 - 1 : rest[k].id = dep
        \/ \E k \in 1 .. Len(loaded) : loaded[k].id = dep
    BY <2>1, <1>2
  <2>3. ASSUME NEW k \in 1 .. i + 1 - 1, rest[k].id = dep
        PROVE  \/ \E l \in 1 .. i - 1 : tail[l].id = dep
               \/ \E l \in 1 .. Len(loaded) : loaded[l].id = dep
    <3>1. CASE k = 1
      BY <3>1, <2>3, <1>1
    <3>2. CASE k # 1
      <4>1. k - 1 \in 1 .. i - 1 /\ k - 1 \in 1 .. n - 1 /\ k - 1 + 1 = k
        BY <3>2, <1>1
      <4>2. tail[k - 1] = rest[k]
        BY <4>1, <1>1
      <4> QED BY <4>1, <4>2, <2>3
    <3> QED BY <3>1, <3>2
  <2> QED BY <2>2, <2>3
<1>4. Waiting(tail, loaded)
  BY <1>1, <1>3 DEF Waiting
<1> QED BY <1>4 DEF tail

----------------------------------------------------------------------------
(* The steps of the host.                                                   *)

\* The fields of a call.
LEMMA FieldsOfCall ==
    ASSUME NEW at, NEW list, NEW rest, NEW error, NEW call, call = Call(at, list, rest, error)
    PROVE  call.at = at /\ call.list = list /\ call.rest = rest /\ call.error = error
BY DEF Call

\* A step of one call is right if the call is, and no entry of the map has moved.
LEMMA StepOfCall ==
    ASSUME HostInv, NEW c \in Callers, NEW call, calls' = [calls EXCEPT ![c] = call],
           Extends(manager.loaded, manager.loaded'), LoadedRight(manager.loaded', manager.handlers'),
           CallRight(call, manager.loaded')
    PROVE  HostInv'
<1>1. calls = [d \in Callers |-> calls[d]] /\ \A d \in Callers : CallRight(calls[d], manager.loaded)
  BY DEF HostInv
<1>2. calls' = [d \in Callers |-> calls'[d]] /\ calls'[c] = call
      /\ \A d \in Callers : d # c => calls'[d] = calls[d]
  BY <1>1
<1>3. ASSUME NEW d \in Callers PROVE CallRight(calls'[d], manager'.loaded)
  <2>1. CASE d = c
    BY <2>1, <1>2
  <2>2. CASE d # c
    <3>1. CallRight(calls[d], manager.loaded)
      BY <1>1
    <3>2. CallRight(calls[d], manager'.loaded)
      BY <3>1, CallKept
    <3> QED BY <2>2, <3>2, <1>2
  <2> QED BY <2>1, <2>2
<1> QED BY <1>2, <1>3 DEF HostInv

\* A map that has not changed extends itself.
LEMMA SameMap ==
    ASSUME HostInv, UNCHANGED manager
    PROVE  /\ Extends(manager.loaded, manager.loaded')
           /\ LoadedRight(manager.loaded', manager.handlers') /\ manager.loaded' = manager.loaded
<1>1. LoadedRight(manager.loaded, manager.handlers)
  BY DEF HostInv
<1>2. IsSequence(manager.loaded) /\ Len(manager.loaded) \in Nat
  BY <1>1, SequenceParts DEF LoadedRight
<1>3. manager'.loaded = manager.loaded /\ manager'.handlers = manager.handlers
  OBVIOUS
<1>4. Extends(manager.loaded, manager.loaded)
  BY <1>2 DEF Extends, Same
<1> QED BY <1>1, <1>3, <1>4

\* A call of loadAll keeps the invariant of the host.
LEMMA LoadAllKeeps ==
    ASSUME HostInv, NEW c \in Callers, LoadAll(c)
    PROVE  HostInv'
<1>1. PICK list \in Catalogues[c] :
          calls' = [calls EXCEPT ![c] =
                       Call(IF ResolveOrder(list).error = "none" THEN "next" ELSE "ended", list,
                            ResolveOrder(list).order, ResolveOrder(list).error)]
  BY DEF LoadAll
<1>2. IsList(list)
  BY HostAssumption DEF IsList, IsSequence
<1>3. PICK resolved : resolved = ResolveOrder(list)
  OBVIOUS
<1>4. /\ resolved.error = "none" <=> Resolvable(list)
      /\ resolved.error = "none" =>
            /\ IsSequence(resolved.order) /\ Range(resolved.order) \subseteq Range(list)
            /\ InOrder(resolved.order)
  BY <1>2, <1>3, ResolveOrderIsRight
<1>5. PICK at : at = IF resolved.error = "none" THEN "next" ELSE "ended"
  OBVIOUS
<1>6. PICK call : call = Call(at, list, resolved.order, resolved.error)
  OBVIOUS
<1>7. calls' = [calls EXCEPT ![c] = call]
  BY <1>1, <1>3, <1>5, <1>6
<1>8. call.at = at /\ call.list = list /\ call.rest = resolved.order /\ call.error = resolved.error
  BY <1>6, FieldsOfCall
<1>9. UNCHANGED manager
  BY DEF LoadAll
<1>10. CallRight(call, manager.loaded)
  <2>1. CASE resolved.error # "none"
    <3>1. at = "ended"
      BY <2>1, <1>5
    <3> QED BY <2>1, <3>1, <1>4, <1>8 DEF CallRight
  <2>2. CASE resolved.error = "none"
    <3>1. at = "next"
      BY <2>2, <1>5
    <3>2. /\ IsSequence(resolved.order) /\ \A p \in Range(resolved.order) : IsPlugin(p)
          /\ InOrder(resolved.order)
      BY <2>2, <1>2, <1>4 DEF IsList, IsPlugin
    <3>3. DOMAIN resolved.order = 1 .. Len(resolved.order)
      BY <3>2, SequenceParts
    <3>4. Waiting(resolved.order, manager.loaded)
      BY <3>2, <3>3 DEF Waiting, InOrder
    <3> QED BY <2>2, <3>1, <3>2, <3>4, <1>4, <1>8 DEF CallRight
  <2> QED BY <2>1, <2>2
<1> QED BY <1>7, <1>9, <1>10, SameMap, StepOfCall

\* A call that goes on is right if what it has left is.
LEMMA CallGoesOn ==
    ASSUME HostInv, NEW c \in Callers, calls[c].at # "new", NEW at \in {"next", "initializing", "ended"},
           NEW rest, GoesOn(c, at, rest), Extends(manager.loaded, manager.loaded'),
           LoadedRight(manager.loaded', manager.handlers'),
           at # "ended" => /\ IsSequence(rest) /\ \A p \in Range(rest) : IsPlugin(p)
                           /\ Waiting(rest, manager.loaded'),
           at = "initializing" => rest # <<>> /\ Prepared(Head(rest), manager.loaded')
    PROVE  HostInv'
<1>1. PICK call : call = Call(at, calls[c].list, rest, calls[c].error)
  OBVIOUS
<1>2. call.at = at /\ call.list = calls[c].list /\ call.rest = rest /\ call.error = calls[c].error
  BY <1>1, FieldsOfCall
<1>3. calls' = [calls EXCEPT ![c] = call]
  BY <1>1 DEF GoesOn
<1>4. call.error = "none" <=> Resolvable(call.list)
  BY <1>2 DEF HostInv, CallRight
<1>5. CallRight(call, manager.loaded')
  BY <1>2, <1>4 DEF CallRight
<1> QED BY <1>3, <1>5, StepOfCall

\* The first plugin a call has left is awaited, and the call stays right.
LEMMA CallLoading ==
    ASSUME HostInv, NEW c \in Callers, calls[c].at \in {"next", "initializing"}, NEW rest, rest = calls[c].rest
    PROVE  /\ IsSequence(rest) /\ (\A p \in Range(rest) : IsPlugin(p)) /\ Waiting(rest, manager.loaded)
           /\ calls[c].at = "initializing" => rest # <<>> /\ Prepared(Head(rest), manager.loaded)
           /\ rest # <<>> => /\ IsPlugin(Head(rest)) /\ Head(rest) = rest[1] /\ 1 \in 1 .. Len(rest)
                             /\ IsSequence(Tail(rest)) /\ \A p \in Range(Tail(rest)) : IsPlugin(p)
<1>1. /\ IsSequence(rest) /\ (\A p \in Range(rest) : IsPlugin(p)) /\ Waiting(rest, manager.loaded)
      /\ calls[c].at = "initializing" => rest # <<>> /\ Prepared(Head(rest), manager.loaded)
  BY DEF HostInv, CallRight
<1>2. ASSUME rest # <<>>
      PROVE  /\ IsPlugin(Head(rest)) /\ Head(rest) = rest[1] /\ 1 \in 1 .. Len(rest)
             /\ IsSequence(Tail(rest)) /\ \A p \in Range(Tail(rest)) : IsPlugin(p)
  <2>1. Len(rest) \in Nat \ {0} /\ Head(rest) = rest[1] /\ rest[1] \in Range(rest)
    <3>1. Len(rest) \in Nat \ {0} /\ \A i \in 1 .. Len(rest) : rest[i] \in Range(rest)
      BY <1>1, <1>2, SequenceFront, SequenceParts
    <3>2. 1 \in 1 .. Len(rest)
      BY <3>1
    <3> QED BY <3>1, <3>2
  <2>2. IsSequence(Tail(rest)) /\ Range(Tail(rest)) \subseteq Range(rest)
    BY <1>1, <1>2, SequenceTail
  <2> QED BY <1>1, <2>1, <2>2
<1> QED BY <1>1, <1>2

\* After the await the plugin is entered with its handlers, or nothing but handlers is.
LEMMA RegisteredKeeps ==
    ASSUME HostInv, NEW c \in Callers, calls[c].at \in {"next", "initializing"}, calls[c].rest # <<>>,
           NEW plugin, plugin = Head(calls[c].rest), Prepared(plugin, manager.loaded),
           Registered(c, plugin)
    PROVE  HostInv'
<1> DEFINE taken == Taken(plugin.handlers, manager.handlers)
           handlers == manager.handlers \cup {plugin.handlers[i] : i \in taken}
<1>1. PICK rest : rest = calls[c].rest
  OBVIOUS
<1>2. /\ rest # <<>> /\ IsPlugin(plugin) /\ IsSequence(rest) /\ Waiting(rest, manager.loaded)
      /\ IsSequence(Tail(rest)) /\ \A p \in Range(Tail(rest)) : IsPlugin(p)
  BY <1>1, CallLoading
<1>3. LoadedRight(manager.loaded, manager.handlers) /\ calls[c].at # "new"
  BY DEF HostInv
<1>4. CASE /\ taken = DOMAIN plugin.handlers
           /\ manager' = Managed(SetPlugin(manager.loaded, plugin), handlers)
           /\ GoesOn(c, "next", Tail(calls[c].rest))
  <2>1. manager'.loaded = SetPlugin(manager.loaded, plugin) /\ manager'.handlers = handlers
    <3> HIDE DEF handlers
    <3> QED BY <1>4 DEF Managed
  <2>2. manager.handlers \subseteq handlers /\ Range(plugin.handlers) \subseteq handlers
    BY <1>4 DEF Range
  <2>3. PICK after : after = SetPlugin(manager.loaded, plugin)
    OBVIOUS
  <2> HIDE DEF handlers
  <2>4. /\ LoadedRight(after, handlers) /\ Extends(manager.loaded, after)
        /\ \E k \in 1 .. Len(after) : after[k].id = plugin.id
    BY <1>2, <1>3, <2>2, <2>3, SetPluginRight
  <2>5. Waiting(Tail(rest), after)
    BY <1>1, <1>2, <2>4, WaitingKept, WaitingTail
  <2> QED BY <1>1, <1>2, <1>3, <1>4, <2>1, <2>3, <2>4, <2>5, CallGoesOn
<1>5. CASE /\ manager' = Managed(manager.loaded, handlers)
           /\ GoesOn(c, "ended", calls[c].rest)
  <2>1. manager'.loaded = manager.loaded /\ manager'.handlers = handlers
    <3> HIDE DEF handlers
    <3> QED BY <1>5 DEF Managed
  <2>2. LoadedRight(manager.loaded, handlers)
    BY <1>3 DEF LoadedRight
  <2>3. Extends(manager.loaded, manager.loaded)
    <3>1. IsSequence(manager.loaded) /\ Len(manager.loaded) \in Nat
      BY <1>3, SequenceParts DEF LoadedRight
    <3> QED BY <3>1 DEF Extends, Same
  <2> HIDE DEF handlers
  <2> QED BY <1>3, <1>5, <2>1, <2>2, <2>3, CallGoesOn
<1> QED BY <1>4, <1>5 DEF Registered

\* The end of the await of initializePlugin keeps the invariant of the host.
LEMMA InitializePluginKeeps ==
    ASSUME HostInv, NEW c \in Callers, InitializePlugin(c)
    PROVE  HostInv'
<1>1. PICK rest, plugin : rest = calls[c].rest /\ plugin = Head(rest)
  OBVIOUS
<1>2. /\ calls[c].at = "next" /\ rest # <<>>
      /\ \/ /\ Known(manager.loaded, plugin) /\ GoesOn(c, "next", Tail(rest)) /\ UNCHANGED manager
         \/ /\ ~Known(manager.loaded, plugin) /\ GoesOn(c, "initializing", rest)
            /\ UNCHANGED manager
         \/ ~Known(manager.loaded, plugin) /\ Registered(c, plugin)
  BY <1>1 DEF InitializePlugin
<1>3. /\ IsSequence(rest) /\ (\A p \in Range(rest) : IsPlugin(p)) /\ Waiting(rest, manager.loaded)
      /\ plugin = rest[1] /\ 1 \in 1 .. Len(rest)
      /\ IsSequence(Tail(rest)) /\ \A p \in Range(Tail(rest)) : IsPlugin(p)
  BY <1>1, <1>2, CallLoading
<1>4. /\ IsSequence(manager.loaded) /\ \A i \in 1 .. Len(manager.loaded) : manager.loaded[i] \in Range(manager.loaded)
      /\ \A x \in Range(manager.loaded) : \E i \in 1 .. Len(manager.loaded) : manager.loaded[i] = x
  BY SequenceParts DEF HostInv, LoadedRight
<1>5. CASE Known(manager.loaded, plugin) /\ GoesOn(c, "next", Tail(rest)) /\ UNCHANGED manager
  <2>1. \E k \in 1 .. Len(manager.loaded) : manager.loaded[k].id = plugin.id
    BY <1>4, <1>5 DEF Known, Same
  <2>2. Waiting(Tail(rest), manager.loaded)
    BY <1>1, <1>2, <1>3, <2>1, WaitingTail
  <2> QED BY <1>2, <1>3, <1>5, <2>2, SameMap, CallGoesOn
<1>6. ASSUME ~Known(manager.loaded, plugin) PROVE Prepared(plugin, manager.loaded)
  <2>1. \A i \in 1 .. Len(manager.loaded) : ~Same(manager.loaded[i], plugin)
    BY <1>4, <1>6 DEF Known
  <2>2. \A dep \in Range(plugin.dependsOn) :
            \/ \E k \in 1 .. 1 - 1 : rest[k].id = dep
            \/ \E k \in 1 .. Len(manager.loaded) : manager.loaded[k].id = dep
    BY <1>3 DEF Waiting
  <2> QED BY <2>1, <2>2 DEF Prepared
<1>7. CASE ~Known(manager.loaded, plugin) /\ GoesOn(c, "initializing", rest) /\ UNCHANGED manager
  BY <1>1, <1>2, <1>3, <1>6, <1>7, SameMap, CallGoesOn
<1>8. CASE ~Known(manager.loaded, plugin) /\ Registered(c, plugin)
  BY <1>1, <1>2, <1>6, <1>8, RegisteredKeeps
<1> QED BY <1>2, <1>5, <1>7, <1>8

\* disposeAll keeps the invariant of the host.
LEMMA DisposeAllKeeps ==
    ASSUME HostInv, DisposeAll
    PROVE  HostInv'
<1>1. CASE UNCHANGED manager /\ UNCHANGED calls
  BY <1>1 DEF HostInv
<1>2. CASE manager' = Managed(<<>>, manager.handlers) /\ UNCHANGED calls
  <2>1. manager'.loaded = <<>> /\ manager'.handlers = manager.handlers
    BY <1>2 DEF Managed
  <2>2. LoadedRight(<<>>, manager.handlers)
    <3>1. DOMAIN <<>> = {}
      OBVIOUS
    <3> QED BY <3>1, SequenceEmpty DEF LoadedRight, InOrder
  <2>3. ASSUME NEW c \in Callers PROVE CallRight(calls[c], <<>>)
    <3>1. CallRight(calls[c], manager.loaded)
      BY DEF HostInv
    <3>2. calls[c].at \in {"next", "initializing"} => calls[c].rest = <<>>
      BY DEF DisposeAll, Loading
    <3>3. Waiting(<<>>, <<>>)
      <4>1. Len(<<>>) = 0
        BY EmptySeq
      <4> QED BY <4>1 DEF Waiting
    <3> QED BY <3>1, <3>2, <3>3 DEF CallRight
  <2> QED BY <1>2, <2>1, <2>2, <2>3 DEF HostInv
<1> QED BY <1>1, <1>2 DEF DisposeAll

\* The invariant holds when the host is made.
LEMMA HostStart == InitHost => HostInv
<1> SUFFICES ASSUME InitHost PROVE HostInv
  OBVIOUS
<1>1. manager.loaded = <<>> /\ manager.handlers = {}
  BY DEF InitHost, Managed
<1>2. LoadedRight(<<>>, {})
  <2>1. DOMAIN <<>> = {}
    OBVIOUS
  <2> QED BY <2>1, SequenceEmpty DEF LoadedRight, InOrder
<1>3. PICK call : call = Call("new", <<>>, <<>>, "none")
  OBVIOUS
<1>4. call.at = "new"
  BY <1>3 DEF Call
<1>5. calls = [c \in Callers |-> call]
  BY <1>3 DEF InitHost
<1>6. calls = [c \in Callers |-> calls[c]] /\ \A c \in Callers : calls[c] = call
  BY <1>5
<1>7. CallRight(call, <<>>)
  BY <1>4 DEF CallRight
<1> QED BY <1>1, <1>2, <1>6, <1>7 DEF HostInv

\* Every step of the host keeps the invariant.
LEMMA HostSteps ==
    ASSUME HostInv, [HostNext]_hostVars
    PROVE  HostInv'
<1>1. ASSUME NEW c \in Callers, Initialized(c) PROVE HostInv'
  <2>1. calls[c].at = "initializing" /\ Registered(c, Head(calls[c].rest))
    BY <1>1 DEF Initialized
  <2>2. PICK rest : rest = calls[c].rest
    OBVIOUS
  <2>3. rest # <<>> /\ Prepared(Head(rest), manager.loaded)
    BY <2>1, <2>2, CallLoading
  <2> QED BY <2>1, <2>2, <2>3, RegisteredKeeps
<1>2. ASSUME NEW c \in Callers, InitializeThrows(c) PROVE HostInv'
  BY <1>2, SameMap, CallGoesOn DEF InitializeThrows
<1>3. CASE UNCHANGED hostVars
  BY <1>3 DEF hostVars, HostInv
<1> QED BY <1>1, <1>2, <1>3, LoadAllKeeps, InitializePluginKeeps, DisposeAllKeeps DEF HostNext

\* Whatever lists the calls are given and however they interleave, fail and are
\* disposed of, resolveOrder finds an order exactly when there is one, and what is
\* loaded has its dependencies loaded before it and its handlers registered (dag.ts,
\* plugin-manager.ts:37-98).
THEOREM PluginsLoadInOrder == HostSpec => []PluginsInOrder
<1>1. HostInv => PluginsInOrder
  BY DEF HostInv, LoadedRight, CallRight, PluginsInOrder
<1> QED BY <1>1, HostStart, HostSteps, PTL DEF HostSpec
==============================================================================
