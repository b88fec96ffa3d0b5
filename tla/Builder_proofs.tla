---------------------------- MODULE Builder_proofs ----------------------------
(* Proofs about the workflow builder for every palette, every imported and    *)
(* posted definition and every length of the history. First the compiler, for *)
(* every definition: detectCycles ends and reports a cycle exactly if there   *)
(* is one, findReachable ends with the tasks the entry leads to, and compile  *)
(* answers as documented. Then the canvas: nothing is asked of it but its     *)
(* shape; on it rest that the compiler agrees with its documentation about    *)
(* whatever is drawn, that what runs is valid and held, and that an export    *)
(* survives its import. Then the layout, for every canvas with distinct ids:  *)
(* it ends, no node lies over another, and without a cycle every edge goes    *)
(* down. Last the types of the values that the commands carry from canvas to  *)
(* canvas.                                                                    *)
EXTENDS Builder, DataFacts

----------------------------------------------------------------------------
(* The compiler.                                                              *)

\* A graph with finitely many nodes and the sequence of its search roots.
Graph(adj, roots) ==
    /\ IsFiniteSet(DOMAIN adj) /\ adj \in [DOMAIN adj -> Seq(Mentioned(adj))]
    /\ roots \in Seq(DOMAIN adj)

LEMMA GraphRows == ASSUME NEW adj, NEW roots, Graph(adj, roots) PROVE Rows(adj)
BY DEF Graph, Rows

\* The fields of a state of the search.
LEMMA FieldsOfSearching ==
    ASSUME NEW colour, NEW path, NEW next, NEW root, NEW cycles, NEW s,
           s = Searching(colour, path, next, root, cycles)
    PROVE  /\ s.colour = colour /\ s.path = path /\ s.next = next /\ s.root = root
           /\ s.cycles = cycles
BY DEF Searching

LEMMA SearchingTyped ==
    ASSUME NEW adj, NEW roots, NEW colour, NEW path, NEW next, NEW root, NEW cycles,
           colour \in [DOMAIN adj -> {"white", "grey", "black"}], path \in Seq(DOMAIN adj),
           next \in [DOMAIN adj -> Nat \ {0}], root \in 0 .. Len(roots), cycles \in Seq(Seq(DOMAIN adj))
    PROVE  Searching(colour, path, next, root, cycles) \in Searches(adj, roots)
BY DEF Searching, Searches

LEMMA SearchesTyped ==
    ASSUME NEW adj, NEW roots, NEW s \in Searches(adj, roots)
    PROVE  /\ s.colour \in [DOMAIN adj -> {"white", "grey", "black"}] /\ s.path \in Seq(DOMAIN adj)
           /\ s.next \in [DOMAIN adj -> Nat \ {0}] /\ s.root \in 0 .. Len(roots)
           /\ s.cycles \in Seq(Seq(DOMAIN adj))
BY DEF Searches

\* What a step of the search does: it takes a root that has been met before, or a
\* new one; leaves a node; meets a grey node; enters one; or goes past one.
SkipsRoot(s, t, roots) ==
    /\ s.colour[roots[s.root + 1]] # "white"
    /\ t.colour = s.colour /\ t.path = s.path /\ t.next = s.next /\ t.root = s.root + 1
    /\ t.cycles = s.cycles
EntersRoot(s, t, roots) ==
    LET id == roots[s.root + 1]
    IN  /\ s.colour[id] = "white"
        /\ t.colour = [s.colour EXCEPT ![id] = "grey"] /\ t.path = Append(s.path, id)
        /\ t.next = s.next /\ t.root = s.root + 1 /\ t.cycles = s.cycles
Leaves(s, t, adj, node) ==
    /\ s.next[node] > Len(adj[node])
    /\ t.colour = [s.colour EXCEPT ![node] = "black"] /\ t.path = Front(s.path)
    /\ t.next = s.next /\ t.root = s.root /\ t.cycles = s.cycles
MovesOn(s, t, adj, node) ==
    /\ s.next[node] <= Len(adj[node])
    /\ t.next = [s.next EXCEPT ![node] = @ + 1] /\ t.root = s.root
MeetsGrey(s, t, adj, node) ==
    LET id == adj[node][s.next[node]]
    IN  /\ MovesOn(s, t, adj, node) /\ id \in DOMAIN adj /\ s.colour[id] = "grey"
        /\ t.colour = s.colour /\ t.path = <<>> /\ t.cycles = Append(s.cycles, <<node, id>>)
EntersNode(s, t, adj, node) ==
    LET id == adj[node][s.next[node]]
    IN  /\ MovesOn(s, t, adj, node) /\ id \in DOMAIN adj /\ s.colour[id] = "white"
        /\ t.colour = [s.colour EXCEPT ![id] = "grey"] /\ t.path = Append(s.path, id)
        /\ t.cycles = s.cycles
GoesPast(s, t, adj, node) ==
    LET id == adj[node][s.next[node]]
    IN  /\ MovesOn(s, t, adj, node) /\ (id \in DOMAIN adj => s.colour[id] = "black")
        /\ t.colour = s.colour /\ t.path = s.path /\ t.cycles = s.cycles

\* What a step of the search does, by its cases.
LEMMA SearchCases ==
    ASSUME NEW adj, NEW roots, Graph(adj, roots), NEW s \in Searches(adj, roots),
           ~SearchEnded(s, roots), NEW t, t = SearchStep(s, adj, roots)
    PROVE  /\ t = Searching(t.colour, t.path, t.next, t.root, t.cycles)
           /\ \/ s.path = <<>> /\ s.root < Len(roots) /\ roots[s.root + 1] \in DOMAIN adj
                 /\ (SkipsRoot(s, t, roots) \/ EntersRoot(s, t, roots))
              \/ s.path # <<>>
                 /\ \/ Leaves(s, t, adj, Last(s.path)) \/ MeetsGrey(s, t, adj, Last(s.path))
                    \/ EntersNode(s, t, adj, Last(s.path)) \/ GoesPast(s, t, adj, Last(s.path))
<1>1. /\ s.colour \in [DOMAIN adj -> {"white", "grey", "black"}] /\ s.path \in Seq(DOMAIN adj)
      /\ s.next \in [DOMAIN adj -> Nat \ {0}] /\ s.root \in 0 .. Len(roots)
  BY SearchesTyped
<1>2. Len(roots) \in Nat /\ \A i \in 1 .. Len(roots) : roots[i] \in DOMAIN adj
  BY DEF Graph
<1>3. CASE s.path = <<>>
  <2>1. s.root < Len(roots) /\ roots[s.root + 1] \in DOMAIN adj
    BY <1>1, <1>2, <1>3 DEF SearchEnded
  <2>2. t = TakeRoot(s, roots[s.root + 1])
    BY <1>3 DEF SearchStep
  <2> QED BY <1>3, <2>1, <2>2 DEF TakeRoot, SkipsRoot, EntersRoot, Enter, Searching
<1>4. CASE s.path # <<>>
  <2> DEFINE node == Last(s.path)
             id == adj[node][s.next[node]]
  <2>1. node \in DOMAIN adj
    BY <1>1, <1>4, TopOfPath
  <2>2. adj[node] \in Seq(Mentioned(adj))
    BY <2>1 DEF Graph
  <2>3. Len(adj[node]) \in Nat /\ s.next[node] \in Nat
    BY <1>1, <2>1, <2>2
  <2> HIDE DEF node
  <2>4. CASE s.next[node] > Len(adj[node])
    <3>1. t = LeaveNode(s, node)
      BY <1>4, <2>4 DEF SearchStep, node
    <3>2. Leaves(s, t, adj, node) /\ t = Searching(t.colour, t.path, t.next, t.root, t.cycles)
      BY <2>4, <3>1 DEF Leaves, LeaveNode, Searching
    <3> QED BY <1>4, <3>2 DEF node
  <2>5. CASE ~(s.next[node] > Len(adj[node]))
    <3>1. t = LookAt(s, node, id) /\ s.next[node] <= Len(adj[node])
      BY <1>4, <2>5, <2>3 DEF SearchStep, node
    <3>2. DOMAIN s.colour = DOMAIN adj
      BY <1>1
    <3> HIDE DEF id
    <3>3. CASE id \in DOMAIN adj => s.colour[id] = "black"
      <4>1. t = Searching(s.colour, s.path, [s.next EXCEPT ![node] = @ + 1], s.root, s.cycles)
        BY <3>1, <3>2, <3>3 DEF LookAt
      <4> QED BY <1>4, <3>1, <3>3, <4>1 DEF GoesPast, MovesOn, Searching, id, node
    <3>4. CASE id \in DOMAIN adj /\ s.colour[id] = "grey"
      <4>1. t = Searching(s.colour, <<>>, [s.next EXCEPT ![node] = @ + 1], s.root,
                          Append(s.cycles, <<node, id>>))
        BY <3>1, <3>2, <3>4 DEF LookAt
      <4> QED BY <1>4, <3>1, <3>4, <4>1 DEF MeetsGrey, MovesOn, Searching, id, node
    <3>5. CASE id \in DOMAIN adj /\ s.colour[id] = "white"
      <4>1. t = Enter(s, id, [s.next EXCEPT ![node] = @ + 1], s.root)
        BY <3>1, <3>2, <3>5 DEF LookAt
      <4> QED BY <1>4, <3>1, <3>5, <4>1 DEF EntersNode, MovesOn, Enter, Searching, id, node
    <3> QED BY <1>1, <3>3, <3>4, <3>5
  <2> QED BY <2>4, <2>5
<1> QED BY <1>3, <1>4

\* A step leads to a state of the search.
LEMMA StepTyped ==
    ASSUME NEW adj, NEW roots, Graph(adj, roots), NEW s \in Searches(adj, roots),
           ~SearchEnded(s, roots), NEW t, t = SearchStep(s, adj, roots)
    PROVE  t \in Searches(adj, roots)
<1>1. /\ s.colour \in [DOMAIN adj -> {"white", "grey", "black"}] /\ s.path \in Seq(DOMAIN adj)
      /\ s.next \in [DOMAIN adj -> Nat \ {0}] /\ s.root \in 0 .. Len(roots)
      /\ s.cycles \in Seq(Seq(DOMAIN adj)) /\ Len(roots) \in Nat
  BY SearchesTyped DEF Graph
<1>2. \A id \in DOMAIN adj, colour \in {"grey", "black"} :
          [s.colour EXCEPT ![id] = colour] \in [DOMAIN adj -> {"white", "grey", "black"}]
  BY <1>1
<1>3. \A id \in DOMAIN adj : Append(s.path, id) \in Seq(DOMAIN adj)
  BY <1>1, AppendProperties
<1>4. \A node \in DOMAIN adj : [s.next EXCEPT ![node] = @ + 1] \in [DOMAIN adj -> Nat \ {0}]
  BY <1>1
<1>5. /\ t.colour \in [DOMAIN adj -> {"white", "grey", "black"}] /\ t.path \in Seq(DOMAIN adj)
      /\ t.next \in [DOMAIN adj -> Nat \ {0}] /\ t.root \in 0 .. Len(roots)
      /\ t.cycles \in Seq(Seq(DOMAIN adj))
  <2>1. CASE s.path = <<>>
    <3>1. s.root + 1 \in 0 .. Len(roots) /\ roots[s.root + 1] \in DOMAIN adj
          /\ (SkipsRoot(s, t, roots) \/ EntersRoot(s, t, roots))
      BY <1>1, <2>1, SearchCases
    <3> QED BY <3>1, <1>1, <1>2, <1>3 DEF SkipsRoot, EntersRoot
  <2>2. CASE s.path # <<>>
    <3> DEFINE node == Last(s.path)
    <3>1. node \in DOMAIN adj /\ Front(s.path) \in Seq(DOMAIN adj)
      BY <1>1, <2>2, TopOfPath
    <3>2. Leaves(s, t, adj, node) \/ MeetsGrey(s, t, adj, node) \/ EntersNode(s, t, adj, node)
          \/ GoesPast(s, t, adj, node)
      BY <2>2, SearchCases
    <3> HIDE DEF node
    <3>3. CASE Leaves(s, t, adj, node)
      BY <3>1, <3>3, <1>1, <1>2 DEF Leaves
    <3>4. CASE MeetsGrey(s, t, adj, node)
      <4>1. PICK id \in DOMAIN adj : t.cycles = Append(s.cycles, <<node, id>>)
        BY <3>4 DEF MeetsGrey
      <4>2. t.cycles \in Seq(Seq(DOMAIN adj))
        BY <4>1, <3>1, <1>1, AppendProperties
      <4>3. <<>> \in Seq(DOMAIN adj)
        BY EmptySeq
      <4> QED BY <4>2, <4>3, <3>1, <3>4, <1>1, <1>4 DEF MeetsGrey, MovesOn
    <3>5. CASE EntersNode(s, t, adj, node)
      BY <3>1, <3>5, <1>1, <1>2, <1>3, <1>4 DEF EntersNode, MovesOn
    <3>6. CASE GoesPast(s, t, adj, node)
      BY <3>1, <3>6, <1>1, <1>4 DEF GoesPast, MovesOn
    <3> QED BY <3>2, <3>3, <3>4, <3>5, <3>6
  <2> QED BY <2>1, <2>2
<1>6. t = Searching(t.colour, t.path, t.next, t.root, t.cycles)
  BY SearchCases
<1> QED BY <1>5, <1>6, SearchingTyped

----------------------------------------------------------------------------
(* Every step uses up a neighbour, a node of the path or a root.              *)

Remaining(s, adj, roots) ==
    2 * Cardinality(Positions(s.next, adj)) + Len(s.path) + 2 * (Len(roots) - s.root)

\* Every step leaves less to do: detectCycles ends.
LEMMA SearchGoes ==
    ASSUME NEW adj, NEW roots, Graph(adj, roots), NEW s \in Searches(adj, roots),
           ~SearchEnded(s, roots), NEW t, t = SearchStep(s, adj, roots)
    PROVE  Remaining(t, adj, roots) < Remaining(s, adj, roots)
<1>1. /\ s.path \in Seq(DOMAIN adj) /\ s.next \in [DOMAIN adj -> Nat \ {0}] /\ s.root \in 0 .. Len(roots)
      /\ Len(roots) \in Nat /\ Len(s.path) \in Nat
  BY SearchesTyped DEF Graph
<1>2. Cardinality(Positions(s.next, adj)) \in Nat
  BY <1>1, GraphRows, PositionsFinite
<1>3. CASE s.path = <<>>
  <2>1. Len(s.path) = 0 /\ roots[s.root + 1] \in DOMAIN adj
        /\ (SkipsRoot(s, t, roots) \/ EntersRoot(s, t, roots))
    BY <1>3, SearchCases
  <2>2. Len(Append(s.path, roots[s.root + 1])) = 1
    BY <2>1, <1>1, AppendProperties
  <2>3. t.next = s.next /\ t.root = s.root + 1 /\ Len(t.path) <= 1 /\ Len(t.path) \in Nat
    BY <2>1, <2>2 DEF SkipsRoot, EntersRoot
  <2> QED BY <2>1, <2>3, <1>1, <1>2 DEF Remaining
<1>4. CASE s.path # <<>>
  <2> DEFINE node == Last(s.path)
  <2>1. node \in DOMAIN adj /\ Len(s.path) \in Nat \ {0} /\ Len(Front(s.path)) = Len(s.path) - 1
    BY <1>1, <1>4, TopOfPath
  <2>2. Leaves(s, t, adj, node) \/ MeetsGrey(s, t, adj, node) \/ EntersNode(s, t, adj, node)
        \/ GoesPast(s, t, adj, node)
    BY <1>4, SearchCases
  <2> HIDE DEF node
  <2>3. CASE Leaves(s, t, adj, node)
    <3>1. t.next = s.next /\ t.root = s.root /\ t.path = Front(s.path)
      BY <2>3 DEF Leaves
    <3> QED BY <3>1, <2>1, <1>1, <1>2 DEF Remaining
  <2>4. ASSUME MovesOn(s, t, adj, node), Len(t.path) \in Nat, Len(t.path) <= Len(s.path) + 1
        PROVE  Remaining(t, adj, roots) < Remaining(s, adj, roots)
    <3>1. Cardinality(Positions(t.next, adj)) = Cardinality(Positions(s.next, adj)) - 1
      BY <2>4, <2>1, <1>1, GraphRows, PositionsShrink DEF MovesOn
    <3>2. t.root = s.root
      BY <2>4 DEF MovesOn
    <3> DEFINE c == Cardinality(Positions(s.next, adj))
               p == Len(s.path)
               q == Len(t.path)
               r == Len(roots) - s.root
    <3>3. c \in Nat /\ p \in Nat /\ q \in Nat /\ r \in Nat /\ q <= p + 1
      BY <2>4, <1>1, <1>2
    <3>4. Remaining(s, adj, roots) = 2 * c + p + 2 * r /\ Remaining(t, adj, roots) = 2 * (c - 1) + q + 2 * r
      BY <3>1, <3>2 DEF Remaining
    <3> HIDE DEF c, p, q, r
    <3> QED BY <3>3, <3>4
  <2>5. CASE MeetsGrey(s, t, adj, node)
    <3>1. MovesOn(s, t, adj, node) /\ t.path = <<>>
      BY <2>5 DEF MeetsGrey
    <3>2. Len(<<>>) = 0
      BY EmptySeq
    <3> QED BY <3>1, <3>2, <2>4, <1>1
  <2>6. CASE EntersNode(s, t, adj, node)
    <3>1. PICK id \in DOMAIN adj : t.path = Append(s.path, id)
      BY <2>6 DEF EntersNode
    <3>2. Len(t.path) = Len(s.path) + 1
      BY <3>1, <1>1, AppendProperties
    <3> QED BY <3>2, <2>4, <2>6, <1>1 DEF EntersNode
  <2>7. CASE GoesPast(s, t, adj, node)
    BY <2>7, <2>4, <1>1 DEF GoesPast
  <2> QED BY <2>2, <2>3, <2>5, <2>6, <2>7
<1> QED BY <1>3, <1>4

LEMMA RemainingTyped ==
    ASSUME NEW adj, NEW roots, Graph(adj, roots), NEW s \in Searches(adj, roots)
    PROVE  Remaining(s, adj, roots) \in Nat
<1>1. s.path \in Seq(DOMAIN adj) /\ s.next \in [DOMAIN adj -> Nat \ {0}] /\ s.root \in 0 .. Len(roots)
      /\ Len(roots) \in Nat /\ Len(s.path) \in Nat
  BY SearchesTyped DEF Graph
<1>2. Cardinality(Positions(s.next, adj)) \in Nat
  BY <1>1, GraphRows, PositionsFinite
<1> QED BY <1>1, <1>2 DEF Remaining

\* The search ends, and what its steps keep holds of the state it ends in.
LEMMA SearchKeeps ==
    ASSUME NEW adj, NEW roots, Graph(adj, roots),
           NEW I \in SUBSET Searches(adj, roots),
           \A s \in I : ~SearchEnded(s, roots) => SearchStep(s, adj, roots) \in I,
           NEW start \in I
    PROVE  Search(adj, roots)[start] \in I /\ SearchEnded(Search(adj, roots)[start], roots)
<1> DEFINE S == Searches(adj, roots)
           done == {s \in S : SearchEnded(s, roots)}
           step == [s \in S |-> IF SearchEnded(s, roots) THEN s ELSE SearchStep(s, adj, roots)]
           m == [s \in S |-> Remaining(s, adj, roots)]
<1>1. Goes(S, done, step, m)
  <2>1. step \in [S -> S]
    BY StepTyped
  <2>2. m \in [S -> Nat]
    BY RemainingTyped
  <2>3. \A s \in S \ done : m[step[s]] < m[s]
    BY SearchGoes, StepTyped
  <2> QED BY <2>1, <2>2, <2>3 DEF Goes
<1> DEFINE Is(f) == f = [s \in S |-> IF SearchEnded(s, roots) THEN s ELSE f[SearchStep(s, adj, roots)]]
<1>2. PICK f : f = [s \in S |-> IF s \in done THEN s ELSE f[step[s]]]
  <2> HIDE DEF S, done, step, m
  <2> QED BY <1>1, LoopExists
<1>3. Is(f)
  <2>1. \A s \in S : (IF s \in done THEN s ELSE f[step[s]])
                         = IF SearchEnded(s, roots) THEN s ELSE f[SearchStep(s, adj, roots)]
    OBVIOUS
  <2> HIDE DEF S, done, step, m
  <2> QED BY <1>2, <2>1
<1>4. Search(adj, roots) = CHOOSE g : Is(g)
  BY Zenon DEF Search
<1>5. Is(Search(adj, roots))
  <2> HIDE DEF Is
  <2> QED BY <1>3, <1>4, Zenon
<1> DEFINE g == Search(adj, roots)
<1>6. g = [s \in S |-> IF s \in done THEN s ELSE g[step[s]]]
  <2>1. \A s \in S : (IF s \in done THEN s ELSE g[step[s]])
                         = IF SearchEnded(s, roots) THEN s ELSE g[SearchStep(s, adj, roots)]
    OBVIOUS
  <2> HIDE DEF S, done, step, m, g
  <2>2. g = [s \in S |-> IF SearchEnded(s, roots) THEN s ELSE g[SearchStep(s, adj, roots)]]
    BY <1>5 DEF g
  <2> QED BY <2>1, <2>2
<1>7. \A s \in I \ done : step[s] \in I
  OBVIOUS
<1>8. g[start] \in I \cap done
  <2>1. I \in SUBSET S
    OBVIOUS
  <2> HIDE DEF S, done, step, m, g
  <2> QED BY <1>1, <1>6, <1>7, <2>1, LoopKeeps
<1> QED BY <1>8
----------------------------------------------------------------------------
(* What the search knows.  As long as no cycle is found the grey nodes are    *)
(* the path, each node of it but the last has the next one for a neighbour,   *)
(* and a black node leads to black nodes only.                                *)

Done(s, adj, id) == id \in DOMAIN adj => s.colour[id] = "black"

\* A set of nodes each of which leads to another of them.
Closed(S, adj) == S # {} /\ \A v \in S : \E k \in 1 .. Len(adj[v]) : adj[v][k] \in S

Joined(adj, v, w) ==
    \A S \in SUBSET DOMAIN adj :
        /\ v \in S
        /\ \A x \in S : \A k \in 1 .. Len(adj[x]) : adj[x][k] \in DOMAIN adj => adj[x][k] \in S
        => w \in S

PathIsGrey(s, adj) ==
    /\ \A i \in 1 .. Len(s.path) : s.colour[s.path[i]] = "grey"
    /\ \A i, j \in 1 .. Len(s.path) : s.path[i] = s.path[j] => i = j
    /\ \A v \in DOMAIN adj : s.colour[v] = "grey" => \E i \in 1 .. Len(s.path) : s.path[i] = v

PathLeadsOn(s, adj) ==
    \A i \in 1 .. Len(s.path) - 1 :
        \E k \in 1 .. Len(adj[s.path[i]]) : adj[s.path[i]][k] = s.path[i + 1]

BlackIsDone(s, adj) ==
    \A v \in DOMAIN adj : s.colour[v] = "black" =>
        \A k \in 1 .. Len(adj[v]) : Done(s, adj, adj[v][k])

PassedIsDone(s, adj) ==
    \A i \in 1 .. Len(s.path) : \A k \in 1 .. Len(adj[s.path[i]]) :
        k < s.next[s.path[i]] =>
            \/ Done(s, adj, adj[s.path[i]][k])
            \/ i < Len(s.path) /\ adj[s.path[i]][k] = s.path[i + 1]

BlackHasNoCycle(s, adj) ==
    \A S \in SUBSET DOMAIN adj : (\A v \in S : s.colour[v] = "black") => ~Closed(S, adj)

WhiteIsNew(s, adj) == \A v \in DOMAIN adj : s.colour[v] = "white" => s.next[v] = 1

RootsAreMet(s, roots) == \A i \in 1 .. s.root : s.colour[roots[i]] # "white"

NoCycleYet(s, adj, roots) ==
    /\ PathIsGrey(s, adj) /\ PathLeadsOn(s, adj) /\ BlackIsDone(s, adj) /\ PassedIsDone(s, adj)
    /\ BlackHasNoCycle(s, adj) /\ WhiteIsNew(s, adj) /\ RootsAreMet(s, roots)

\* The first cycle that was found is one.
CycleFound(s, adj) ==
    \E node \in DOMAIN adj : \E k \in 1 .. Len(adj[node]) :
        /\ adj[node][k] \in DOMAIN adj /\ s.cycles[1] = <<node, adj[node][k]>>
        /\ Joined(adj, adj[node][k], node)
        /\ \E S \in SUBSET DOMAIN adj : Closed(S, adj)

SearchInv(s, adj, roots) ==
    IF s.cycles = <<>> THEN NoCycleYet(s, adj, roots) ELSE CycleFound(s, adj)

\* Once a cycle is found it stays in the list, whatever the roots that follow do.
LEMMA CycleStays ==
    ASSUME NEW adj, NEW roots, Graph(adj, roots), NEW s \in Searches(adj, roots),
           ~SearchEnded(s, roots), NEW t, t = SearchStep(s, adj, roots), s.cycles # <<>>,
           CycleFound(s, adj)
    PROVE  t.cycles # <<>> /\ CycleFound(t, adj)
<1>1. s.path \in Seq(DOMAIN adj) /\ s.cycles \in Seq(Seq(DOMAIN adj))
  BY SearchesTyped
<1>2. t.cycles = s.cycles \/ \E edge \in Seq(DOMAIN adj) : t.cycles = Append(s.cycles, edge)
  <2>1. CASE s.path = <<>>
    <3>1. SkipsRoot(s, t, roots) \/ EntersRoot(s, t, roots)
      BY <2>1, SearchCases
    <3> QED BY <3>1 DEF SkipsRoot, EntersRoot
  <2>2. CASE s.path # <<>>
    <3> DEFINE node == Last(s.path)
    <3>1. node \in DOMAIN adj
      BY <1>1, <2>2, TopOfPath
    <3>2. Leaves(s, t, adj, node) \/ MeetsGrey(s, t, adj, node) \/ EntersNode(s, t, adj, node)
          \/ GoesPast(s, t, adj, node)
      BY <2>2, SearchCases
    <3> HIDE DEF node
    <3>3. CASE MeetsGrey(s, t, adj, node)
      <4>1. PICK id \in DOMAIN adj : t.cycles = Append(s.cycles, <<node, id>>)
        BY <3>3 DEF MeetsGrey
      <4>2. <<node, id>> \in Seq(DOMAIN adj)
        BY <3>1
      <4> QED BY <4>1, <4>2, Zenon
    <3> QED BY <3>2, <3>3 DEF Leaves, EntersNode, GoesPast
  <2> QED BY <2>1, <2>2
<1>3. t.cycles # <<>> /\ t.cycles[1] = s.cycles[1]
  <2>1. Len(s.cycles) \in Nat \ {0}
    BY <1>1, EmptySeq
  <2>2. ASSUME NEW edge \in Seq(DOMAIN adj)
        PROVE  Append(s.cycles, edge) # <<>> /\ Append(s.cycles, edge)[1] = s.cycles[1]
    BY <1>1, <2>1, AppendProperties
  <2> QED BY <1>2, <2>2
<1> QED BY <1>3 DEF CycleFound

\* A grey neighbour is on the path: the edge to it closes a cycle.
LEMMA GreyIsACycle ==
    ASSUME NEW adj, NEW roots, Graph(adj, roots), NEW s \in Searches(adj, roots), s.path # <<>>,
           s.cycles = <<>>, NoCycleYet(s, adj, roots), NEW t, NEW node, node = Last(s.path),
           MeetsGrey(s, t, adj, node)
    PROVE  t.cycles # <<>> /\ CycleFound(t, adj)
<1> DEFINE k == s.next[node]
           id == adj[node][k]
           n == Len(s.path)
<1>1. s.path \in Seq(DOMAIN adj) /\ s.next \in [DOMAIN adj -> Nat \ {0}]
  BY SearchesTyped
<1>2. node \in DOMAIN adj /\ n \in Nat \ {0} /\ node = s.path[n]
  BY <1>1, TopOfPath
<1>3. id \in DOMAIN adj /\ s.colour[id] = "grey" /\ k <= Len(adj[node])
      /\ t.cycles = Append(<<>>, <<node, id>>)
  BY DEF MeetsGrey, MovesOn
<1>4. t.cycles # <<>> /\ t.cycles[1] = <<node, id>>
  BY <1>3
<1>5. k \in 1 .. Len(adj[node])
  BY <1>1, <1>2, <1>3 DEF Graph
<1>6. PICK j \in 1 .. n : s.path[j] = id
  BY <1>3 DEF NoCycleYet, PathIsGrey
<1>7. \A i \in 1 .. n - 1 : \E l \in 1 .. Len(adj[s.path[i]]) : adj[s.path[i]][l] = s.path[i + 1]
  BY DEF NoCycleYet, PathLeadsOn
<1>8. \A i \in 1 .. n : s.path[i] \in DOMAIN adj
  BY <1>1, ElementOfSeq
<1> HIDE DEF k, id, n
<1>9. Joined(adj, id, node)
  <2>1. ASSUME NEW S \in SUBSET DOMAIN adj, id \in S,
               \A x \in S : \A l \in 1 .. Len(adj[x]) : adj[x][l] \in DOMAIN adj => adj[x][l] \in S
        PROVE  node \in S
    <3> DEFINE T == {i \in Nat : j + i <= n => s.path[j + i] \in S}
    <3>1. ASSUME NEW i \in Nat, \A h \in 0 .. i - 1 : h \in T PROVE i \in T
      <4>1. CASE i = 0
        BY <4>1, <1>6, <2>1
      <4>2. CASE i > 0 /\ j + i <= n
        <5>1. i - 1 \in T /\ j + (i - 1) \in 1 .. n - 1 /\ j + (i - 1) + 1 = j + i
          BY <3>1, <4>2, <1>2
        <5>2. s.path[j + (i - 1)] \in S
          BY <5>1, <1>2
        <5>3. PICK l \in 1 .. Len(adj[s.path[j + (i - 1)]]) : adj[s.path[j + (i - 1)]][l] = s.path[j + i]
          BY <5>1, <1>7
        <5>4. s.path[j + i] \in DOMAIN adj
          BY <4>2, <1>2, <1>8
        <5> QED BY <5>2, <5>3, <5>4, <2>1
      <4> QED BY <4>1, <4>2
    <3>2. T = Nat
      <4> HIDE DEF T
      <4>1. T \in SUBSET Nat
        BY DEF T
      <4> QED BY <3>1, <4>1, AllNumbers
    <3>3. n - j \in Nat /\ j + (n - j) = n
      BY <1>2
    <3>4. n - j \in T
      <4> HIDE DEF T
      <4> QED BY <3>2, <3>3
    <3> QED BY <3>3, <3>4, <1>2
  <2> QED BY <2>1 DEF Joined
<1>10. \E S \in SUBSET DOMAIN adj : Closed(S, adj)
  <2> DEFINE S == {s.path[i] : i \in j .. n}
  <2>1. S \in SUBSET DOMAIN adj /\ S # {}
    BY <1>2, <1>8
  <2>2. ASSUME NEW i \in j .. n
        PROVE  \E l \in 1 .. Len(adj[s.path[i]]) : adj[s.path[i]][l] \in S
    <3>1. CASE i = n
      BY <3>1, <1>2, <1>5, <1>6 DEF id
    <3>2. CASE i < n
      <4>1. i \in 1 .. n - 1 /\ i + 1 \in j .. n
        BY <3>2, <1>2
      <4> QED BY <4>1, <1>7
    <3> QED BY <3>1, <3>2, <1>2
  <2> QED BY <2>1, <2>2 DEF Closed
<1>11. adj[node][k] \in DOMAIN adj /\ t.cycles[1] = <<node, adj[node][k]>>
       /\ Joined(adj, adj[node][k], node)
  BY <1>3, <1>4, <1>9 DEF id
<1> QED BY <1>2, <1>4, <1>5, <1>10, <1>11 DEF CycleFound

LEMMA SkipKeeps ==
    ASSUME NEW adj, NEW roots, Graph(adj, roots), NEW s \in Searches(adj, roots), NEW t,
           s.root < Len(roots), SkipsRoot(s, t, roots), NoCycleYet(s, adj, roots)
    PROVE  NoCycleYet(t, adj, roots)
<1>1. RootsAreMet(t, roots)
  <2>1. s.root \in Nat
    BY SearchesTyped DEF Graph
  <2> QED BY <2>1 DEF NoCycleYet, SkipsRoot, RootsAreMet
<1> QED BY <1>1 DEF NoCycleYet, SkipsRoot, PathIsGrey, PathLeadsOn, BlackIsDone, PassedIsDone,
                BlackHasNoCycle, WhiteIsNew, Done

\* A node that was white becomes grey: no other colour changes, and no black one.
LEMMA GreyColours ==
    ASSUME NEW adj, NEW roots, Graph(adj, roots), NEW s \in Searches(adj, roots), NEW t,
           NEW id \in DOMAIN adj, s.colour[id] = "white", t.colour = [s.colour EXCEPT ![id] = "grey"]
    PROVE  /\ \A v \in DOMAIN adj : t.colour[v] = (IF v = id THEN "grey" ELSE s.colour[v])
           /\ \A v : Done(t, adj, v) <=> Done(s, adj, v)
<1>1. s.colour \in [DOMAIN adj -> {"white", "grey", "black"}]
  BY SearchesTyped
<1>2. \A v \in DOMAIN adj : t.colour[v] = IF v = id THEN "grey" ELSE s.colour[v]
  BY <1>1
<1> QED BY <1>2 DEF Done

LEMMA EnterRootKeeps ==
    ASSUME NEW adj, NEW roots, Graph(adj, roots), NEW s \in Searches(adj, roots), NEW t,
           s.root < Len(roots), s.path = <<>>, roots[s.root + 1] \in DOMAIN adj,
           EntersRoot(s, t, roots), NoCycleYet(s, adj, roots)
    PROVE  NoCycleYet(t, adj, roots)
<1> DEFINE id == roots[s.root + 1]
<1>1. id \in DOMAIN adj /\ s.colour[id] = "white" /\ t.colour = [s.colour EXCEPT ![id] = "grey"]
      /\ t.path = <<id>> /\ t.next = s.next /\ t.root = s.root + 1
  BY DEF EntersRoot
<1>2. /\ \A v \in DOMAIN adj : t.colour[v] = IF v = id THEN "grey" ELSE s.colour[v]
      /\ \A v : Done(t, adj, v) <=> Done(s, adj, v)
  <2> HIDE DEF id
  <2> QED BY <1>1, GreyColours
<1>3. \A v : Done(t, adj, v) <=> Done(s, adj, v)
  BY <1>2
<1>4. s.root \in Nat /\ \A i \in 1 .. Len(roots) : roots[i] \in DOMAIN adj
  BY SearchesTyped DEF Graph
<1>5. Len(t.path) = 1 /\ t.path[1] = id
  BY <1>1
<1>6. \A v \in DOMAIN adj : s.colour[v] # "grey"
  BY DEF NoCycleYet, PathIsGrey
<1>7. RootsAreMet(t, roots)
  <2>1. ASSUME NEW i \in 1 .. t.root PROVE t.colour[roots[i]] # "white"
    <3>1. CASE i = s.root + 1
      BY <3>1, <1>1, <1>2
    <3>2. CASE i # s.root + 1
      <4>1. i \in 1 .. s.root /\ roots[i] \in DOMAIN adj
        BY <3>2, <1>1, <1>4
      <4> QED BY <4>1, <1>2 DEF NoCycleYet, RootsAreMet
    <3> QED BY <3>1, <3>2
  <2> QED BY <2>1 DEF RootsAreMet
<1> HIDE DEF id
<1>8. PathIsGrey(t, adj)
  BY <1>1, <1>2, <1>5, <1>6 DEF PathIsGrey
<1>9. PathLeadsOn(t, adj)
  BY <1>5 DEF PathLeadsOn
<1>10. BlackIsDone(t, adj)
  BY <1>2, <1>3 DEF NoCycleYet, BlackIsDone
<1>11. PassedIsDone(t, adj)
  BY <1>1, <1>5 DEF NoCycleYet, WhiteIsNew, PassedIsDone
<1>12. BlackHasNoCycle(t, adj)
  BY <1>2 DEF NoCycleYet, BlackHasNoCycle
<1>13. WhiteIsNew(t, adj)
  BY <1>1, <1>2 DEF NoCycleYet, WhiteIsNew
<1> QED BY <1>7, <1>8, <1>9, <1>10, <1>11, <1>12, <1>13 DEF NoCycleYet

LEMMA LeaveKeeps ==
    ASSUME NEW adj, NEW roots, Graph(adj, roots), NEW s \in Searches(adj, roots), NEW t,
           s.path # <<>>, NEW node, node = Last(s.path), Leaves(s, t, adj, node),
           NoCycleYet(s, adj, roots)
    PROVE  NoCycleYet(t, adj, roots)
<1> DEFINE n == Len(s.path)
<1>1. /\ s.colour \in [DOMAIN adj -> {"white", "grey", "black"}] /\ s.path \in Seq(DOMAIN adj)
      /\ s.next \in [DOMAIN adj -> Nat \ {0}] /\ s.root \in 0 .. Len(roots)
  BY SearchesTyped
<1>2. /\ node \in DOMAIN adj /\ n \in Nat \ {0} /\ node = s.path[n] /\ Len(t.path) = n - 1
      /\ \A i \in 1 .. n - 1 : t.path[i] = s.path[i]
  <2>1. t.path = Front(s.path)
    BY DEF Leaves
  <2> QED BY <2>1, <1>1, TopOfPath
<1>3. t.next = s.next /\ t.root = s.root /\ s.next[node] > Len(adj[node])
  BY DEF Leaves
<1>4. \A v \in DOMAIN adj : t.colour[v] = IF v = node THEN "black" ELSE s.colour[v]
  BY <1>1, <1>2 DEF Leaves
<1>5. \A i \in 1 .. n : s.path[i] \in DOMAIN adj
  BY <1>1, ElementOfSeq
<1> HIDE DEF n
<1>6. \A v : Done(s, adj, v) => Done(t, adj, v)
  BY <1>4 DEF Done
<1>7. s.colour[node] = "grey"
  BY <1>2 DEF NoCycleYet, PathIsGrey, n
<1>8. \A k \in 1 .. Len(adj[node]) : Done(s, adj, adj[node][k])
  <2>1. ASSUME NEW k \in 1 .. Len(adj[node]) PROVE Done(s, adj, adj[node][k])
    <3>1. Len(adj[node]) \in Nat /\ s.next[node] \in Nat
      BY <1>1, <1>2 DEF Graph
    <3>2. k < s.next[node]
      BY <3>1, <1>3
    <3> QED BY <3>2, <1>2 DEF NoCycleYet, PassedIsDone, n
  <2> QED BY <2>1
<1>9. PathIsGrey(t, adj)
  <2>1. \A i \in 1 .. n - 1 : t.path[i] # node
    BY <1>2 DEF NoCycleYet, PathIsGrey, n
  <2>2. \A i \in 1 .. n - 1 : t.colour[t.path[i]] = "grey"
    BY <2>1, <1>2, <1>4, <1>5 DEF NoCycleYet, PathIsGrey, n
  <2>3. \A i, j \in 1 .. n - 1 : t.path[i] = t.path[j] => i = j
    BY <1>2 DEF NoCycleYet, PathIsGrey, n
  <2>4. ASSUME NEW v \in DOMAIN adj, t.colour[v] = "grey" PROVE \E i \in 1 .. n - 1 : t.path[i] = v
    <3>1. v # node /\ s.colour[v] = "grey"
      BY <2>4, <1>4
    <3>2. PICK i \in 1 .. n : s.path[i] = v
      BY <3>1 DEF NoCycleYet, PathIsGrey, n
    <3>3. i # n
      BY <3>1, <3>2, <1>2
    <3>4. n \in Nat \ {0}
      BY <1>2
    <3>5. i \in 1 .. n - 1
      BY ONLY <3>2, <3>3, <3>4
    <3>6. t.path[i] = s.path[i]
      BY <3>5, <1>2, Zenon
    <3>7. t.path[i] = v
      BY <3>2, <3>6
    <3> QED BY <3>5, <3>7, Zenon
  <2> QED BY <2>2, <2>3, <2>4, <1>2 DEF PathIsGrey
<1>10. PathLeadsOn(t, adj)
  <2>1. ASSUME NEW i \in 1 .. n - 2
        PROVE  \E k \in 1 .. Len(adj[t.path[i]]) : adj[t.path[i]][k] = t.path[i + 1]
    <3>1. i \in 1 .. n - 1 /\ i + 1 \in 1 .. n - 1
      BY <1>2
    <3> QED BY <3>1, <1>2 DEF NoCycleYet, PathLeadsOn, n
  <2>2. Len(t.path) - 1 = n - 2
    BY <1>2
  <2> QED BY <2>1, <2>2 DEF PathLeadsOn
<1>11. BlackIsDone(t, adj)
  BY <1>4, <1>6, <1>8 DEF NoCycleYet, BlackIsDone
<1>12. PassedIsDone(t, adj)
  <2>1. ASSUME NEW i \in 1 .. n - 1, NEW k \in 1 .. Len(adj[t.path[i]]), k < t.next[t.path[i]]
        PROVE  \/ Done(t, adj, adj[t.path[i]][k])
               \/ i < n - 1 /\ adj[t.path[i]][k] = t.path[i + 1]
    <3>1. i \in 1 .. n /\ t.path[i] = s.path[i]
      BY <1>2
    <3>2. Done(s, adj, adj[s.path[i]][k]) \/ (i < n /\ adj[s.path[i]][k] = s.path[i + 1])
      BY <2>1, <3>1, <1>3 DEF NoCycleYet, PassedIsDone, n
    <3>3. CASE Done(s, adj, adj[s.path[i]][k])
      BY <3>1, <3>3, <1>6
    <3>4. CASE adj[s.path[i]][k] = s.path[i + 1] /\ i < n - 1
      BY <3>1, <3>4, <1>2
    <3>5. CASE adj[s.path[i]][k] = s.path[i + 1] /\ ~(i < n - 1)
      <4>1. i + 1 = n
        BY <3>5, <1>2
      <4> QED BY <3>1, <3>5, <4>1, <1>2, <1>4 DEF Done
    <3> QED BY <3>2, <3>3, <3>4, <3>5
  <2> QED BY <2>1, <1>2 DEF PassedIsDone
<1>13. BlackHasNoCycle(t, adj)
  <2>1. ASSUME NEW S \in SUBSET DOMAIN adj, \A v \in S : t.colour[v] = "black", Closed(S, adj)
        PROVE  FALSE
    <3>1. CASE node \notin S
      <4>1. \A v \in S : s.colour[v] = "black"
        BY <2>1, <3>1, <1>4
      <4> QED BY <2>1, <4>1 DEF NoCycleYet, BlackHasNoCycle
    <3>2. CASE node \in S
      <4> DEFINE R == S \ {node}
      <4>1. \A v \in R : s.colour[v] = "black"
        BY <2>1, <1>4
      <4>2. ASSUME NEW v \in S PROVE \E k \in 1 .. Len(adj[v]) : adj[v][k] \in R
        <5>1. PICK k \in 1 .. Len(adj[v]) : adj[v][k] \in S
          BY <2>1 DEF Closed
        <5>2. Done(s, adj, adj[v][k])
          <6>1. CASE v = node
            BY <6>1, <1>8
          <6>2. CASE v # node
            <7>1. s.colour[v] = "black"
              BY <4>1, <6>2
            <7> QED BY <7>1 DEF NoCycleYet, BlackIsDone
          <6> QED BY <6>1, <6>2
        <5>3. adj[v][k] # node
          BY <5>1, <5>2, <1>2, <1>7 DEF Done
        <5> QED BY <5>1, <5>3
      <4>3. Closed(R, adj)
        BY <3>2, <4>2 DEF Closed
      <4>4. R \in SUBSET DOMAIN adj
        OBVIOUS
      <4> HIDE DEF R
      <4> QED BY <4>1, <4>3, <4>4 DEF NoCycleYet, BlackHasNoCycle
    <3> QED BY <3>1, <3>2
  <2> QED BY <2>1 DEF BlackHasNoCycle
<1>14. WhiteIsNew(t, adj)
  BY <1>3, <1>4 DEF NoCycleYet, WhiteIsNew
<1>15. RootsAreMet(t, roots)
  <2>1. \A i \in 1 .. s.root : roots[i] \in DOMAIN adj
    BY <1>1 DEF Graph
  <2> QED BY <2>1, <1>3, <1>4 DEF NoCycleYet, RootsAreMet
<1> QED BY <1>9, <1>10, <1>11, <1>12, <1>13, <1>14, <1>15 DEF NoCycleYet

LEMMA EnterKeeps ==
    ASSUME NEW adj, NEW roots, Graph(adj, roots), NEW s \in Searches(adj, roots), NEW t,
           s.path # <<>>, NEW node, node = Last(s.path), EntersNode(s, t, adj, node),
           NoCycleYet(s, adj, roots)
    PROVE  NoCycleYet(t, adj, roots)
<1> DEFINE n == Len(s.path)
           l == s.next[node]
           id == adj[node][l]
<1>1. /\ s.colour \in [DOMAIN adj -> {"white", "grey", "black"}] /\ s.path \in Seq(DOMAIN adj)
      /\ s.next \in [DOMAIN adj -> Nat \ {0}] /\ s.root \in 0 .. Len(roots)
  BY SearchesTyped
<1>2. node \in DOMAIN adj /\ n \in Nat \ {0} /\ node = s.path[n]
  BY <1>1, TopOfPath
<1>3. /\ id \in DOMAIN adj /\ s.colour[id] = "white" /\ l <= Len(adj[node])
      /\ t.colour = [s.colour EXCEPT ![id] = "grey"] /\ t.path = Append(s.path, id)
      /\ t.next = [s.next EXCEPT ![node] = @ + 1] /\ t.root = s.root
  BY DEF EntersNode, MovesOn
<1>4. l \in 1 .. Len(adj[node])
  BY <1>1, <1>2, <1>3 DEF Graph
<1>5. \A i \in 1 .. n : s.path[i] \in DOMAIN adj
  BY <1>1, ElementOfSeq
<1>6. s.colour[node] = "grey"
  BY <1>2 DEF NoCycleYet, PathIsGrey
<1> HIDE DEF n, l, id
<1>7. Len(t.path) = n + 1 /\ t.path[n + 1] = id /\ \A i \in 1 .. n : t.path[i] = s.path[i]
  BY <1>1, <1>3, AppendProperties DEF n
<1>8. /\ \A v \in DOMAIN adj : t.colour[v] = IF v = id THEN "grey" ELSE s.colour[v]
      /\ \A v : Done(t, adj, v) <=> Done(s, adj, v)
  BY <1>3, GreyColours
<1>9. \A v : Done(t, adj, v) <=> Done(s, adj, v)
  BY <1>8
<1>10. \A i \in 1 .. n : s.path[i] # id
  BY <1>3 DEF NoCycleYet, PathIsGrey, n
<1>11. \A v \in DOMAIN adj : t.next[v] = IF v = node THEN l + 1 ELSE s.next[v]
  BY <1>1, <1>3 DEF l
<1>12. PathIsGrey(t, adj)
  <2>1. \A i \in 1 .. n + 1 : t.colour[t.path[i]] = "grey"
    <3>1. ASSUME NEW i \in 1 .. n PROVE t.colour[t.path[i]] = "grey"
      BY <1>5, <1>7, <1>8 DEF NoCycleYet, PathIsGrey, n
    <3>2. t.colour[t.path[n + 1]] = "grey"
      BY <1>3, <1>7, <1>8
    <3> QED BY <3>1, <3>2, <1>2
  <2>2. ASSUME NEW i \in 1 .. n + 1, NEW j \in 1 .. n + 1, t.path[i] = t.path[j] PROVE i = j
    <3>1. CASE i = n + 1 \/ j = n + 1
      BY <3>1, <2>2, <1>2, <1>7, <1>10
    <3>2. CASE i # n + 1 /\ j # n + 1
      <4>1. i \in 1 .. n /\ j \in 1 .. n
        BY <3>2, <1>2
      <4> QED BY <4>1, <2>2, <1>7 DEF NoCycleYet, PathIsGrey, n
    <3> QED BY <3>1, <3>2
  <2>3. ASSUME NEW v \in DOMAIN adj, t.colour[v] = "grey" PROVE \E i \in 1 .. n + 1 : t.path[i] = v
    <3>1. CASE v = id
      BY <3>1, <1>2, <1>7
    <3>2. CASE v # id
      <4>1. PICK i \in 1 .. n : s.path[i] = v
        BY <2>3, <3>2, <1>8 DEF NoCycleYet, PathIsGrey, n
      <4> QED BY <4>1, <1>2, <1>7
    <3> QED BY <3>1, <3>2
  <2> QED BY <2>1, <2>2, <2>3, <1>7 DEF PathIsGrey
<1>13. PathLeadsOn(t, adj)
  <2>1. ASSUME NEW i \in 1 .. n
        PROVE  \E k \in 1 .. Len(adj[t.path[i]]) : adj[t.path[i]][k] = t.path[i + 1]
    <3>1. CASE i = n
      BY <3>1, <1>2, <1>4, <1>7 DEF id
    <3>2. CASE i # n
      <4>1. i \in 1 .. n - 1 /\ i + 1 \in 1 .. n
        BY <3>2, <1>2
      <4> QED BY <4>1, <1>7 DEF NoCycleYet, PathLeadsOn, n
    <3> QED BY <3>1, <3>2
  <2>2. Len(t.path) - 1 = n
    BY <1>2, <1>7
  <2> QED BY <2>1, <2>2 DEF PathLeadsOn
<1>14. BlackIsDone(t, adj)
  BY <1>8, <1>9 DEF NoCycleYet, BlackIsDone
<1>15. PassedIsDone(t, adj)
  <2>1. ASSUME NEW i \in 1 .. n + 1, NEW k \in 1 .. Len(adj[t.path[i]]), k < t.next[t.path[i]]
        PROVE  \/ Done(t, adj, adj[t.path[i]][k])
               \/ i < n + 1 /\ adj[t.path[i]][k] = t.path[i + 1]
    <3>1. CASE i = n + 1
      <4>1. t.path[i] = id /\ id # node
        BY <3>1, <1>2, <1>7, <1>10
      <4>2. t.next[id] = 1
        BY <4>1, <1>3, <1>11 DEF NoCycleYet, WhiteIsNew
      <4>3. ~(k < 1)
        OBVIOUS
      <4> QED BY <2>1, <4>1, <4>2, <4>3
    <3>2. CASE i = n /\ k = l
      <4>1. n \in Nat \ {0}
        BY <1>2
      <4>2. i < n + 1 /\ i \in 1 .. n
        BY ONLY <3>2, <4>1
      <4>3. t.path[i] = node
        BY <3>2, <4>2, <1>2, <1>7, Zenon
      <4>4. t.path[i + 1] = id
        BY <3>2, <1>7
      <4>5. adj[node][k] = id
        BY <3>2 DEF id
      <4> QED BY <4>2, <4>3, <4>4, <4>5
    <3>3. CASE i = n /\ k # l
      <4>1. t.path[i] = node /\ t.next[node] = l + 1
        BY <3>3, <1>2, <1>7, <1>11
      <4>2. k < s.next[node]
        BY <2>1, <3>3, <4>1, <1>4 DEF l
      <4>3. i \in 1 .. Len(s.path) /\ s.path[i] = node /\ k \in 1 .. Len(adj[s.path[i]]) /\ ~(i < n)
        BY <4>1, <3>3, <1>2 DEF n
      <4>4. Done(s, adj, adj[node][k])
        BY <4>2, <4>3 DEF NoCycleYet, PassedIsDone, n
      <4> QED BY <4>1, <4>4, <1>9
    <3>4. CASE i # n /\ i # n + 1
      <4>1. i \in 1 .. n /\ i < n /\ i + 1 \in 1 .. n
        BY <3>4, <1>2
      <4>2. t.path[i] = s.path[i] /\ t.path[i + 1] = s.path[i + 1]
        BY <4>1, <1>7
      <4>3. s.path[i] # node
        BY <3>4, <4>1, <1>2 DEF NoCycleYet, PathIsGrey, n
      <4>4. k < s.next[s.path[i]]
        BY <2>1, <4>1, <4>2, <4>3, <1>5, <1>11
      <4>5. Done(s, adj, adj[s.path[i]][k]) \/ adj[s.path[i]][k] = s.path[i + 1]
        BY <4>1, <4>2, <4>4 DEF NoCycleYet, PassedIsDone, n
      <4> QED BY <4>1, <4>2, <4>5, <1>2, <1>9
    <3> QED BY <3>1, <3>2, <3>3, <3>4
  <2> QED BY <2>1, <1>7 DEF PassedIsDone
<1>16. BlackHasNoCycle(t, adj)
  BY <1>8 DEF NoCycleYet, BlackHasNoCycle
<1>17. WhiteIsNew(t, adj)
  BY <1>6, <1>8, <1>11 DEF NoCycleYet, WhiteIsNew
<1>18. RootsAreMet(t, roots)
  <2>1. \A i \in 1 .. s.root : roots[i] \in DOMAIN adj
    BY <1>1 DEF Graph
  <2> QED BY <2>1, <1>3, <1>8 DEF NoCycleYet, RootsAreMet
<1> QED BY <1>12, <1>13, <1>14, <1>15, <1>16, <1>17, <1>18 DEF NoCycleYet

LEMMA PastKeeps ==
    ASSUME NEW adj, NEW roots, Graph(adj, roots), NEW s \in Searches(adj, roots), NEW t,
           s.path # <<>>, NEW node, node = Last(s.path), GoesPast(s, t, adj, node),
           NoCycleYet(s, adj, roots)
    PROVE  NoCycleYet(t, adj, roots)
<1> DEFINE n == Len(s.path)
           l == s.next[node]
<1>1. s.path \in Seq(DOMAIN adj) /\ s.next \in [DOMAIN adj -> Nat \ {0}]
  BY SearchesTyped
<1>2. node \in DOMAIN adj /\ n \in Nat \ {0} /\ node = s.path[n]
  BY <1>1, TopOfPath
<1>3. /\ Done(s, adj, adj[node][l]) /\ t.colour = s.colour /\ t.path = s.path
      /\ t.next = [s.next EXCEPT ![node] = @ + 1] /\ t.root = s.root
  BY DEF GoesPast, MovesOn, Done
<1>4. s.colour[node] = "grey"
  BY <1>2 DEF NoCycleYet, PathIsGrey
<1>5. \A i \in 1 .. n : s.path[i] \in DOMAIN adj
  BY <1>1, ElementOfSeq
<1>6. \A v \in DOMAIN adj : t.next[v] = IF v = node THEN l + 1 ELSE s.next[v]
  BY <1>1, <1>3
<1>7. l \in Nat
  BY <1>1, <1>2
<1> HIDE DEF n, l
<1>8. \A v : Done(t, adj, v) <=> Done(s, adj, v)
  BY <1>3 DEF Done
<1>9. PassedIsDone(t, adj)
  <2>1. ASSUME NEW i \in 1 .. n, NEW k \in 1 .. Len(adj[s.path[i]]), k < t.next[s.path[i]]
        PROVE  \/ Done(t, adj, adj[s.path[i]][k])
               \/ i < n /\ adj[s.path[i]][k] = s.path[i + 1]
    <3>1. CASE k < s.next[s.path[i]]
      BY <3>1, <1>8 DEF NoCycleYet, PassedIsDone, n
    <3>2. CASE ~(k < s.next[s.path[i]])
      <4>1. s.path[i] = node /\ k = l
        BY <2>1, <3>2, <1>5, <1>6, <1>7 DEF l
      <4> QED BY <4>1, <1>3, <1>8
    <3> QED BY <3>1, <3>2
  <2> QED BY <2>1, <1>3 DEF PassedIsDone, n
<1>10. WhiteIsNew(t, adj)
  BY <1>3, <1>4, <1>6 DEF NoCycleYet, WhiteIsNew
<1> QED BY <1>3, <1>8, <1>9, <1>10 DEF NoCycleYet, PathIsGrey, PathLeadsOn, BlackIsDone,
             BlackHasNoCycle, RootsAreMet

\* The invariant of the search: nothing on a cycle turns black before one is found.
LEMMA StepKeeps ==
    ASSUME NEW adj, NEW roots, Graph(adj, roots), NEW s \in Searches(adj, roots),
           ~SearchEnded(s, roots), SearchInv(s, adj, roots), NEW t, t = SearchStep(s, adj, roots)
    PROVE  SearchInv(t, adj, roots)
<1>1. CASE s.cycles # <<>>
  BY <1>1, CycleStays DEF SearchInv
<1>2. CASE s.cycles = <<>>
  <2>1. NoCycleYet(s, adj, roots)
    BY <1>2 DEF SearchInv
  <2>2. CASE s.path = <<>>
    <3>1. s.root < Len(roots) /\ roots[s.root + 1] \in DOMAIN adj
          /\ (SkipsRoot(s, t, roots) \/ EntersRoot(s, t, roots))
      BY <2>2, SearchCases
    <3>2. t.cycles = <<>>
      BY <3>1, <1>2 DEF SkipsRoot, EntersRoot
    <3>3. NoCycleYet(t, adj, roots)
      BY <3>1, <2>1, <2>2, SkipKeeps, EnterRootKeeps
    <3> QED BY <3>2, <3>3 DEF SearchInv
  <2>3. CASE s.path # <<>>
    <3>1. PICK node : node = Last(s.path)
      OBVIOUS
    <3>2. Leaves(s, t, adj, node) \/ MeetsGrey(s, t, adj, node) \/ EntersNode(s, t, adj, node)
          \/ GoesPast(s, t, adj, node)
      BY <2>3, <3>1, SearchCases
    <3>3. CASE MeetsGrey(s, t, adj, node)
      BY <3>1, <3>3, <2>1, <2>3, <1>2, GreyIsACycle DEF SearchInv
    <3>4. CASE Leaves(s, t, adj, node)
      <4>1. t.cycles = <<>>
        BY <3>4, <1>2 DEF Leaves
      <4>2. NoCycleYet(t, adj, roots)
        BY <3>1, <3>4, <2>1, <2>3, LeaveKeeps
      <4> QED BY <4>1, <4>2 DEF SearchInv
    <3>5. CASE EntersNode(s, t, adj, node)
      <4>1. t.cycles = <<>>
        BY <3>5, <1>2 DEF EntersNode
      <4>2. NoCycleYet(t, adj, roots)
        BY <3>1, <3>5, <2>1, <2>3, EnterKeeps
      <4> QED BY <4>1, <4>2 DEF SearchInv
    <3>6. CASE GoesPast(s, t, adj, node)
      <4>1. t.cycles = <<>>
        BY <3>6, <1>2 DEF GoesPast
      <4>2. NoCycleYet(t, adj, roots)
        BY <3>1, <3>6, <2>1, <2>3, PastKeeps
      <4> QED BY <4>1, <4>2 DEF SearchInv
    <3> QED BY <3>2, <3>3, <3>4, <3>5, <3>6
  <2> QED BY <2>2, <2>3
<1> QED BY <1>1, <1>2

\* The search reports a cycle exactly when there is one, and the first edge it
\* reports is one of a cycle.
LEMMA SearchFindsCycles ==
    ASSUME NEW adj, NEW roots, Graph(adj, roots), Range(roots) = DOMAIN adj,
           NEW cycles, cycles = Search(adj, roots)[SearchStart(adj)].cycles
    PROVE  /\ cycles \in Seq(Seq(DOMAIN adj))
           /\ cycles = <<>> <=> ~\E S \in SUBSET DOMAIN adj : Closed(S, adj)
           /\ cycles # <<>> =>
                 \E node \in DOMAIN adj : \E k \in 1 .. Len(adj[node]) :
                    /\ adj[node][k] \in DOMAIN adj /\ cycles[1] = <<node, adj[node][k]>>
                    /\ Joined(adj, adj[node][k], node)
<1> DEFINE I == {s \in Searches(adj, roots) : SearchInv(s, adj, roots)}
           start == SearchStart(adj)
<1>1. /\ start.colour = [id \in DOMAIN adj |-> "white"] /\ start.path = <<>>
      /\ start.next = [id \in DOMAIN adj |-> 1] /\ start.root = 0 /\ start.cycles = <<>>
  BY DEF SearchStart, Searching
<1>2. start \in Searches(adj, roots)
  <2>1. 0 \in 0 .. Len(roots)
    BY DEF Graph
  <2>2. <<>> \in Seq(DOMAIN adj) /\ <<>> \in Seq(Seq(DOMAIN adj))
    BY EmptySeq
  <2>3. /\ [id \in DOMAIN adj |-> "white"] \in [DOMAIN adj -> {"white", "grey", "black"}]
        /\ [id \in DOMAIN adj |-> 1] \in [DOMAIN adj -> Nat \ {0}]
    OBVIOUS
  <2> QED BY <2>1, <2>2, <2>3, SearchingTyped DEF SearchStart
<1> HIDE DEF start
<1>3. NoCycleYet(start, adj, roots)
  <2>1. Len(start.path) = 0
    BY <1>1, EmptySeq
  <2>2. PathIsGrey(start, adj)
    BY <1>1, <2>1 DEF PathIsGrey
  <2>3. PathLeadsOn(start, adj) /\ PassedIsDone(start, adj)
    BY <2>1 DEF PathLeadsOn, PassedIsDone
  <2>4. BlackIsDone(start, adj) /\ BlackHasNoCycle(start, adj) /\ WhiteIsNew(start, adj)
    BY <1>1 DEF BlackIsDone, BlackHasNoCycle, WhiteIsNew, Closed
  <2>5. RootsAreMet(start, roots)
    BY <1>1 DEF RootsAreMet
  <2> QED BY <2>2, <2>3, <2>4, <2>5 DEF NoCycleYet
<1>4. start \in I
  BY <1>1, <1>2, <1>3 DEF SearchInv
<1>5. \A s \in I : ~SearchEnded(s, roots) => SearchStep(s, adj, roots) \in I
  BY StepTyped, StepKeeps
<1>6. PICK end : end = Search(adj, roots)[start]
  OBVIOUS
<1>7. end \in I /\ SearchEnded(end, roots)
  <2>1. I \in SUBSET Searches(adj, roots)
    OBVIOUS
  <2> HIDE DEF I
  <2> QED BY <1>4, <1>5, <1>6, <2>1, SearchKeeps
<1>8. end.cycles = cycles /\ end \in Searches(adj, roots) /\ SearchInv(end, adj, roots)
  BY <1>6, <1>7 DEF start
<1>11. cycles \in Seq(Seq(DOMAIN adj))
  BY <1>8, SearchesTyped
<1>9. CASE cycles # <<>>
  BY <1>8, <1>9, <1>11 DEF SearchInv, CycleFound
<1>10. CASE cycles = <<>>
  <2>1. NoCycleYet(end, adj, roots) /\ end.path = <<>> /\ end.root = Len(roots)
    BY <1>7, <1>8, <1>10 DEF SearchInv, SearchEnded
  <2>2. end.colour \in [DOMAIN adj -> {"white", "grey", "black"}]
    BY <1>8, SearchesTyped
  <2>3. ASSUME NEW v \in DOMAIN adj PROVE end.colour[v] = "black"
    <3>1. end.colour[v] # "grey"
      <4>1. Len(end.path) = 0
        BY <2>1, EmptySeq
      <4> QED BY <4>1, <2>1 DEF NoCycleYet, PathIsGrey
    <3>2. PICK i \in 1 .. Len(roots) : roots[i] = v
      <4>1. roots \in Seq(DOMAIN adj)
        BY DEF Graph
      <4>2. Range(roots) = {roots[i] : i \in 1 .. Len(roots)}
        BY <4>1, RangeEquality
      <4> QED BY <4>2
    <3>3. end.colour[v] # "white"
      BY <3>2, <2>1 DEF NoCycleYet, RootsAreMet
    <3> QED BY <3>1, <3>3, <2>2
  <2> QED BY <1>10, <2>1, <2>3 DEF NoCycleYet, BlackHasNoCycle
<1> QED BY <1>9, <1>10, <1>11

----------------------------------------------------------------------------
(* findReachable.                                                             *)

\* A sequence has finitely many elements.
LEMMA RangeFinite ==
    ASSUME NEW S, NEW seq \in Seq(S)
    PROVE  IsFiniteSet(Range(seq))
<1>1. seq \in Surjection(1 .. Len(seq), Range(seq))
  <2>1. seq \in [1 .. Len(seq) -> S] /\ Range(seq) = {seq[i] : i \in 1 .. Len(seq)}
    BY LenProperties, RangeEquality
  <2> QED BY <2>1 DEF Surjection
<1>2. IsFiniteSet(1 .. Len(seq))
  BY LenProperties, FS_Interval
<1> QED BY <1>1, <1>2, FS_Surjection

LEMMA MentionedFinite ==
    ASSUME NEW adj, NEW roots, Graph(adj, roots)
    PROVE  IsFiniteSet(Mentioned(adj))
<1> DEFINE row == [id \in DOMAIN adj |-> Range(adj[id])]
           rows == {row[id] : id \in DOMAIN adj}
<1>1. row \in Surjection(DOMAIN adj, rows)
  BY DEF Surjection
<1>2. IsFiniteSet(rows)
  BY <1>1, FS_Surjection DEF Graph
<1>3. ASSUME NEW id \in DOMAIN adj PROVE IsFiniteSet(row[id])
  BY RangeFinite DEF Graph
<1>4. IsFiniteSet(UNION rows)
  <2> HIDE DEF row
  <2> QED BY <1>2, <1>3, FS_UNION
<1>5. Mentioned(adj) = DOMAIN adj \cup UNION rows
  BY DEF Mentioned
<1> QED BY <1>4, <1>5, FS_Union DEF Graph

\* findReachable visits more with every round but the last.
LEMMA VisitGrows ==
    ASSUME NEW adj, NEW roots, Graph(adj, roots), NEW V \in SUBSET Mentioned(adj)
    PROVE  /\ Visit(V, adj) \in SUBSET Mentioned(adj) /\ V \subseteq Visit(V, adj)
           /\ \A w : w \in Visit(V, adj) <=>
                 w \in V \/ \E id \in V \cap DOMAIN adj : \E k \in 1 .. Len(adj[id]) : adj[id][k] = w
<1>1. \A id \in DOMAIN adj : Range(adj[id]) = {adj[id][k] : k \in 1 .. Len(adj[id])}
  BY RangeEquality DEF Graph
<1>2. V \subseteq Visit(V, adj)
  BY DEF Visit
<1>3. Visit(V, adj) \in SUBSET Mentioned(adj)
  BY DEF Visit, Mentioned
<1>4. \A w : w \in Visit(V, adj) <=> w \in V \/ \E id \in V \cap DOMAIN adj : w \in Range(adj[id])
  BY Zenon DEF Visit
<1>5. \A w : w \in Visit(V, adj) <=>
         w \in V \/ \E id \in V \cap DOMAIN adj : \E k \in 1 .. Len(adj[id]) : adj[id][k] = w
  BY <1>1, <1>4
<1> QED BY <1>2, <1>3, <1>5

\* What is visited from an entry is what every closed set with the entry holds.
LEMMA ReachIsJoined ==
    ASSUME NEW adj, NEW roots, Graph(adj, roots), NEW entry \in DOMAIN adj
    PROVE  \A id \in DOMAIN adj : id \in Reach(adj)[{entry}] <=> Joined(adj, entry, id)
<1> DEFINE S == SUBSET Mentioned(adj)
           done == {V \in S : Visit(V, adj) = V}
           step == [V \in S |-> Visit(V, adj)]
           m == [V \in S |-> Cardinality(Mentioned(adj) \ V)]
           Is(f) == f = [V \in S |-> IF Visit(V, adj) = V THEN V ELSE f[Visit(V, adj)]]
           I == {V \in S : entry \in V /\ \A id \in V \cap DOMAIN adj : Joined(adj, entry, id)}
<1>1. Goes(S, done, step, m)
  <2>1. step \in [S -> S]
    BY VisitGrows
  <2>2. ASSUME NEW V \in S
        PROVE  IsFiniteSet(Mentioned(adj) \ V) /\ Cardinality(Mentioned(adj) \ V) \in Nat
    <3>1. IsFiniteSet(Mentioned(adj) \ V)
      BY MentionedFinite, FS_Subset
    <3> QED BY <3>1, FS_CardinalityType
  <2>3. m \in [S -> Nat]
    BY <2>2
  <2>4. ASSUME NEW V \in S \ done PROVE m[step[V]] < m[V]
    <3>1. Visit(V, adj) \in S /\ V \subseteq Visit(V, adj) /\ Visit(V, adj) # V
      BY VisitGrows
    <3> DEFINE A == Mentioned(adj) \ V
               B == Mentioned(adj) \ Visit(V, adj)
    <3>2. B \subseteq A /\ B # A
      BY <3>1
    <3>3. IsFiniteSet(A) /\ Cardinality(A) \in Nat /\ Cardinality(B) \in Nat
      BY <2>2, <3>1
    <3>4. Cardinality(B) < Cardinality(A)
      <4> HIDE DEF A, B
      <4> QED BY <3>2, <3>3, FS_Subset
    <3> QED BY <3>1, <3>4
  <2> QED BY <2>1, <2>3, <2>4 DEF Goes
<1>2. PICK f : f = [V \in S |-> IF V \in done THEN V ELSE f[step[V]]]
  <2> HIDE DEF S, done, step, m
  <2> QED BY <1>1, LoopExists
<1>3. Is(f)
  <2>1. \A V \in S : (IF V \in done THEN V ELSE f[step[V]])
                       = IF Visit(V, adj) = V THEN V ELSE f[Visit(V, adj)]
    OBVIOUS
  <2> HIDE DEF S, done, step, m
  <2> QED BY <1>2, <2>1
<1>4. Reach(adj) = CHOOSE g : Is(g)
  BY Zenon DEF Reach
<1>5. Is(Reach(adj))
  <2> HIDE DEF Is
  <2> QED BY <1>3, <1>4, Zenon
<1> DEFINE g == Reach(adj)
<1>6. g = [V \in S |-> IF V \in done THEN V ELSE g[step[V]]]
  <2>1. \A V \in S : (IF V \in done THEN V ELSE g[step[V]])
                       = IF Visit(V, adj) = V THEN V ELSE g[Visit(V, adj)]
    OBVIOUS
  <2> HIDE DEF S, done, step, m, g
  <2>2. g = [V \in S |-> IF Visit(V, adj) = V THEN V ELSE g[Visit(V, adj)]]
    BY <1>5 DEF g
  <2> QED BY <2>1, <2>2
<1>7. {entry} \in I
  BY DEF Mentioned, Joined
<1>8. ASSUME NEW V \in I PROVE step[V] \in I
  <2>1. Visit(V, adj) \in S /\ entry \in Visit(V, adj)
    BY VisitGrows
  <2>2. ASSUME NEW w \in Visit(V, adj) \cap DOMAIN adj PROVE Joined(adj, entry, w)
    <3>1. w \in V \/ \E id \in V \cap DOMAIN adj : \E k \in 1 .. Len(adj[id]) : adj[id][k] = w
      BY VisitGrows
    <3>2. CASE w \in V
      BY <3>2
    <3>3. CASE \E id \in V \cap DOMAIN adj : \E k \in 1 .. Len(adj[id]) : adj[id][k] = w
      <4>1. PICK id \in V \cap DOMAIN adj : \E k \in 1 .. Len(adj[id]) : adj[id][k] = w
        BY <3>3
      <4>2. Joined(adj, entry, id)
        BY <4>1
      <4> QED BY <4>1, <4>2 DEF Joined
    <3> QED BY <3>1, <3>2, <3>3
  <2> QED BY <2>1, <2>2
<1>9. g[{entry}] \in I \cap done
  <2>1. I \in SUBSET S /\ \A V \in I \ done : step[V] \in I
    BY <1>8
  <2> HIDE DEF S, done, step, m, g, I
  <2> QED BY <1>1, <1>6, <1>7, <2>1, LoopKeeps
<1> DEFINE R == Reach(adj)[{entry}]
<1>10. R \in S /\ entry \in R /\ Visit(R, adj) = R /\ \A id \in R \cap DOMAIN adj : Joined(adj, entry, id)
  BY <1>9
<1>11. ASSUME NEW id \in DOMAIN adj, Joined(adj, entry, id) PROVE id \in R
  <2>1. \A x \in R \cap DOMAIN adj : \A k \in 1 .. Len(adj[x]) : adj[x][k] \in R
    <3> HIDE DEF R
    <3> QED BY <1>10, VisitGrows
  <2>2. entry \in R \cap DOMAIN adj /\ R \cap DOMAIN adj \in SUBSET DOMAIN adj
    BY <1>10
  <2> HIDE DEF R
  <2>3. id \in R \cap DOMAIN adj
    BY <1>11, <2>1, <2>2 DEF Joined
  <2> QED BY <2>3
<1> QED BY <1>10, <1>11

----------------------------------------------------------------------------
(* compile.  Nothing is asked of a definition but that its tasks are a        *)
(* sequence.                                                                  *)

Roots(tasks) == [i \in DOMAIN tasks |-> tasks[i].id]

\* The routes of a task.
LEMMA NeighboursAreASequence ==
    ASSUME NEW task
    PROVE  IsSequence(Neighbours(task))
<1> DEFINE conditional(o) == IF o \in DOMAIN task.conditional THEN <<task.conditional[o]>> ELSE <<>>
           first == IF task.default = NoTask THEN <<>> ELSE <<task.default>>
           S == {task.default, task.conditional["true"], task.conditional["false"]}
<1>1. first \in Seq(S) /\ conditional("true") \in Seq(S) /\ conditional("false") \in Seq(S)
  <2>1. <<>> \in Seq(S)
    BY EmptySeq
  <2>2. ASSUME NEW x, x \in S PROVE <<x>> \in Seq(S)
    <3> HIDE DEF S
    <3> QED BY <2>2
  <2>3. first \in Seq(S)
    BY <2>1, <2>2
  <2>4. conditional("true") \in Seq(S)
    <3>1. CASE "true" \in DOMAIN task.conditional
      BY <3>1, <2>2
    <3>2. CASE "true" \notin DOMAIN task.conditional
      BY <3>2, <2>1
    <3> QED BY <3>1, <3>2
  <2>5. conditional("false") \in Seq(S)
    <3>1. CASE "false" \in DOMAIN task.conditional
      BY <3>1, <2>2
    <3>2. CASE "false" \notin DOMAIN task.conditional
      BY <3>2, <2>1
    <3> QED BY <3>1, <3>2
  <2> QED BY <2>3, <2>4, <2>5
<1>2. Neighbours(task) = first \o conditional("true") \o conditional("false")
  BY DEF Neighbours
<1> HIDE DEF S, first, conditional
<1>3. Neighbours(task) \in Seq(S)
  BY <1>1, <1>2, ConcatProperties
<1> QED BY <1>3, SeqOfRange DEF IsSequence

\* The adjacency lists of a definition are a graph, and its tasks are the roots.
LEMMA AdjacencyIsAGraph ==
    ASSUME NEW tasks, IsSequence(tasks)
    PROVE  /\ Graph(Adjacency(tasks), Roots(tasks)) /\ DOMAIN Adjacency(tasks) = TaskIds(tasks)
           /\ Roots(tasks) \in Surjection(1 .. Len(tasks), TaskIds(tasks))
           /\ Range(Roots(tasks)) = TaskIds(tasks) /\ Len(tasks) \in Nat
<1> DEFINE adj == Adjacency(tasks)
           roots == Roots(tasks)
           ids == TaskIds(tasks)
<1>1. Len(tasks) \in Nat /\ DOMAIN tasks = 1 .. Len(tasks)
  BY LenProperties DEF IsSequence
<1>2. DOMAIN adj = ids /\ \A id \in ids : adj[id] = Neighbours(LastTask(tasks, id))
  BY DEF Adjacency
<1>3. adj \in [ids -> Seq(Mentioned(adj))]
  <2>1. adj = [id \in ids |-> adj[id]]
    BY <1>2 DEF Adjacency
  <2>2. ASSUME NEW id \in ids PROVE adj[id] \in Seq(Mentioned(adj))
    <3>1. adj[id] \in Seq(Range(adj[id]))
      BY <1>2, NeighboursAreASequence DEF IsSequence
    <3>2. Range(adj[id]) \subseteq Mentioned(adj)
      BY <1>2 DEF Mentioned
    <3> QED BY <3>1, <3>2, SeqMonotonic
  <2> HIDE DEF adj, ids
  <2> QED BY <2>1, <2>2
<1>4. roots \in [1 .. Len(tasks) -> ids] /\ Range(roots) = ids
  <2>1. roots \in [1 .. Len(tasks) -> ids]
    BY <1>1 DEF Roots, TaskIds
  <2>2. Range(roots) = ids
    BY <1>1 DEF Roots, TaskIds, Range
  <2> QED BY <2>1, <2>2
<1>5. roots \in Surjection(1 .. Len(tasks), ids)
  BY <1>1, <1>4 DEF Surjection, Roots, TaskIds
<1>6. IsFiniteSet(ids)
  BY <1>1, <1>5, FS_Interval, FS_Surjection
<1>7. roots \in Seq(ids)
  BY <1>1, <1>4
<1> QED BY <1>1, <1>2, <1>3, <1>4, <1>5, <1>6, <1>7 DEF Graph

\* A cycle in the sense of the documentation is a closed set of the search.
LEMMA CyclicIsClosed ==
    ASSUME NEW tasks, IsSequence(tasks)
    PROVE  Cyclic(TaskIds(tasks), Edges(tasks))
              <=> \E S \in SUBSET DOMAIN Adjacency(tasks) : Closed(S, Adjacency(tasks))
<1> DEFINE adj == Adjacency(tasks)
           ids == TaskIds(tasks)
<1>1. DOMAIN adj = ids /\ \A id \in ids : adj[id] \in Seq(Mentioned(adj))
  BY AdjacencyIsAGraph DEF Graph
<1>2. \A id \in ids : Range(adj[id]) = {adj[id][k] : k \in 1 .. Len(adj[id])}
  BY <1>1, RangeEquality
<1>3. \A v, w \in ids : <<v, w>> \in Edges(tasks) <=> w \in Range(adj[v])
  BY DEF Edges, Adjacency
<1>4. \A v, w \in ids : <<v, w>> \in Edges(tasks) <=> \E k \in 1 .. Len(adj[v]) : adj[v][k] = w
  BY <1>2, <1>3
<1> HIDE DEF adj, ids
<1>5. \A S \in SUBSET ids : Closed(S, adj)
         <=> S # {} /\ \A v \in S : \E w \in S : <<v, w>> \in Edges(tasks)
  <2> SUFFICES ASSUME NEW S \in SUBSET ids
               PROVE  Closed(S, adj) <=> S # {} /\ \A v \in S : \E w \in S : <<v, w>> \in Edges(tasks)
    OBVIOUS
  <2>1. ASSUME NEW v \in S
        PROVE  (\E k \in 1 .. Len(adj[v]) : adj[v][k] \in S)
                  <=> \E w \in S : <<v, w>> \in Edges(tasks)
    <3>1. ASSUME NEW k \in 1 .. Len(adj[v]), adj[v][k] \in S
          PROVE  \E w \in S : <<v, w>> \in Edges(tasks)
      BY <3>1, <1>4
    <3>2. ASSUME NEW w \in S, <<v, w>> \in Edges(tasks)
          PROVE  \E k \in 1 .. Len(adj[v]) : adj[v][k] \in S
      BY <3>2, <1>4
    <3> QED BY <3>1, <3>2
  <2> QED BY <2>1 DEF Closed
<1> QED BY <1>1, <1>5 DEF Cyclic, adj, ids

\* To lead from one task to another means the same in both.
LEMMA LeadsIsJoined ==
    ASSUME NEW tasks, IsSequence(tasks), NEW v \in TaskIds(tasks), NEW w \in TaskIds(tasks)
    PROVE  Leads(TaskIds(tasks), Edges(tasks), v, w) <=> Joined(Adjacency(tasks), v, w)
<1> DEFINE adj == Adjacency(tasks)
           ids == TaskIds(tasks)
<1>1. DOMAIN adj = ids /\ \A id \in ids : adj[id] \in Seq(Mentioned(adj))
  BY AdjacencyIsAGraph DEF Graph
<1>2. \A id \in ids : Range(adj[id]) = {adj[id][k] : k \in 1 .. Len(adj[id])}
  BY <1>1, RangeEquality
<1>3. \A x, y \in ids : <<x, y>> \in Edges(tasks) <=> y \in Range(adj[x])
  BY DEF Edges, Adjacency
<1>4. Edges(tasks) \subseteq ids \X ids
  BY DEF Edges
<1>5. \A x, y \in ids : <<x, y>> \in Edges(tasks) <=> \E k \in 1 .. Len(adj[x]) : adj[x][k] = y
  BY <1>2, <1>3
<1> HIDE DEF adj, ids
<1>6. ASSUME NEW S \in SUBSET ids
      PROVE  (\A e \in Edges(tasks) : e[1] \in S => e[2] \in S)
                <=> \A x \in S : \A k \in 1 .. Len(adj[x]) : adj[x][k] \in ids => adj[x][k] \in S
  <2>1. ASSUME \A e \in Edges(tasks) : e[1] \in S => e[2] \in S, NEW x \in S,
               NEW k \in 1 .. Len(adj[x]), adj[x][k] \in ids
        PROVE  adj[x][k] \in S
    <3>1. <<x, adj[x][k]>> \in Edges(tasks)
      BY <2>1, <1>5
    <3> QED BY <2>1, <3>1
  <2>2. ASSUME \A x \in S : \A k \in 1 .. Len(adj[x]) : adj[x][k] \in ids => adj[x][k] \in S,
               NEW e \in Edges(tasks), e[1] \in S
        PROVE  e[2] \in S
    <3>1. e = <<e[1], e[2]>> /\ e[1] \in ids /\ e[2] \in ids
      BY <1>4
    <3>2. PICK k \in 1 .. Len(adj[e[1]]) : adj[e[1]][k] = e[2]
      BY <3>1, <1>5
    <3> QED BY <2>2, <3>1, <3>2
  <2> QED BY <2>1, <2>2
<1> QED BY <1>1, <1>6 DEF Leads, Joined, ids, adj

\* An id that is on two tasks makes fewer ids than tasks.
LEMMA DuplicatesCount ==
    ASSUME NEW tasks, IsSequence(tasks)
    PROVE  DuplicateErrors(tasks) = {} <=> Cardinality(TaskIds(tasks)) = Len(tasks)
<1> DEFINE n == Len(tasks)
<1>1. n \in Nat /\ Roots(tasks) \in Surjection(1 .. n, TaskIds(tasks))
  BY AdjacencyIsAGraph
<1>2. IsFiniteSet(1 .. n) /\ Cardinality(1 .. n) = n
  BY <1>1, FS_Interval
<1>3. Cardinality(TaskIds(tasks)) = n <=> Roots(tasks) \in Injection(1 .. n, TaskIds(tasks))
  <2> HIDE DEF n
  <2> QED BY <1>1, <1>2, FS_Surjection
<1>4. DOMAIN tasks = 1 .. n
  BY LenProperties DEF IsSequence
<1>5. Roots(tasks) \in Injection(1 .. n, TaskIds(tasks))
         <=> \A i, j \in 1 .. n : tasks[i].id = tasks[j].id => i = j
  BY <1>1, <1>4 DEF Injection, IsInjective, Surjection, Roots
<1>6. DuplicateErrors(tasks) = {} <=> ~\E j \in 1 .. n : \E k \in 1 .. j - 1 : tasks[k].id = tasks[j].id
  BY <1>4 DEF DuplicateErrors
<1> HIDE DEF n
<1>7. (\E j \in 1 .. n : \E k \in 1 .. j - 1 : tasks[k].id = tasks[j].id)
         <=> \E i, j \in 1 .. n : tasks[i].id = tasks[j].id /\ i # j
  <2>1. ASSUME NEW i \in 1 .. n, NEW j \in 1 .. n, tasks[i].id = tasks[j].id, i # j
        PROVE  \E h \in 1 .. n : \E k \in 1 .. h - 1 : tasks[k].id = tasks[h].id
    <3>1. CASE i < j
      <4>1. i \in 1 .. j - 1
        BY <3>1, <1>1
      <4> QED BY <4>1, <2>1
    <3>2. CASE j < i
      <4>1. j \in 1 .. i - 1
        BY <3>2, <1>1
      <4> QED BY <4>1, <2>1
    <3> QED BY <2>1, <3>1, <3>2, <1>1
  <2>2. ASSUME NEW j \in 1 .. n, NEW k \in 1 .. j - 1, tasks[k].id = tasks[j].id
        PROVE  \E i, h \in 1 .. n : tasks[i].id = tasks[h].id /\ i # h
    <3>1. k \in 1 .. n /\ k # j
      BY <1>1
    <3> QED BY <3>1, <2>2
  <2> QED BY <2>1, <2>2
<1>8. Cardinality(TaskIds(tasks)) = n <=> DuplicateErrors(tasks) = {}
  BY <1>3, <1>5, <1>6, <1>7
<1> QED BY <1>8 DEF n

\* The first cycle diagnostic names an edge on a cycle, and there is none without a cycle.
LEMMA CycleErrorsAreCycles ==
    ASSUME NEW tasks, IsSequence(tasks)
    PROVE  /\ DetectCycles(tasks) \in Seq(Seq(TaskIds(tasks)))
           /\ DetectCycles(tasks) = <<>> <=> ~Cyclic(TaskIds(tasks), Edges(tasks))
           /\ DetectCycles(tasks) # <<>> =>
                 /\ DetectCycles(tasks)[1] \in Edges(tasks)
                 /\ Leads(TaskIds(tasks), Edges(tasks), DetectCycles(tasks)[1][2],
                          DetectCycles(tasks)[1][1])
<1> DEFINE adj == Adjacency(tasks)
           roots == Roots(tasks)
           ids == TaskIds(tasks)
<1>1. Graph(adj, roots) /\ Range(roots) = DOMAIN adj /\ DOMAIN adj = ids
  BY AdjacencyIsAGraph
<1>2. PICK cycles : cycles = Search(adj, roots)[SearchStart(adj)].cycles
  OBVIOUS
<1>3. DetectCycles(tasks) = cycles
  BY <1>2 DEF DetectCycles, Roots
<1> HIDE DEF adj, roots, ids
<1>4. /\ cycles \in Seq(Seq(DOMAIN adj))
      /\ cycles = <<>> <=> ~\E S \in SUBSET DOMAIN adj : Closed(S, adj)
      /\ cycles # <<>> =>
            \E node \in DOMAIN adj : \E k \in 1 .. Len(adj[node]) :
               /\ adj[node][k] \in DOMAIN adj /\ cycles[1] = <<node, adj[node][k]>>
               /\ Joined(adj, adj[node][k], node)
  BY <1>1, <1>2, SearchFindsCycles
<1>5. cycles = <<>> <=> ~Cyclic(ids, Edges(tasks))
  BY <1>4, CyclicIsClosed DEF adj, ids
<1>6. ASSUME cycles # <<>>
      PROVE  cycles[1] \in Edges(tasks) /\ Leads(ids, Edges(tasks), cycles[1][2], cycles[1][1])
  <2>0. PICK node \in DOMAIN adj : \E k \in 1 .. Len(adj[node]) :
           /\ adj[node][k] \in DOMAIN adj /\ cycles[1] = <<node, adj[node][k]>>
           /\ Joined(adj, adj[node][k], node)
    BY <1>4, <1>6
  <2>1. PICK k \in 1 .. Len(adj[node]) :
           /\ adj[node][k] \in DOMAIN adj /\ cycles[1] = <<node, adj[node][k]>>
           /\ Joined(adj, adj[node][k], node)
    BY <2>0
  <2>2. node \in ids /\ adj[node][k] \in ids /\ cycles[1][1] = node /\ cycles[1][2] = adj[node][k]
    BY <2>1, <1>1
  <2>3. Leads(ids, Edges(tasks), adj[node][k], node)
    BY <2>1, <2>2, LeadsIsJoined DEF adj, ids
  <2>4. adj[node][k] \in Range(adj[node])
    <3>1. adj[node] \in Seq(Mentioned(adj))
      BY <1>1 DEF Graph
    <3> QED BY <3>1, RangeEquality
  <2>5. <<node, adj[node][k]>> \in Edges(tasks)
    BY <2>2, <2>4 DEF Edges, adj, ids, Adjacency
  <2> QED BY <2>1, <2>2, <2>3, <2>5
<1> QED BY <1>1, <1>3, <1>4, <1>5, <1>6 DEF ids

LEMMA RoutesClosed ==
    ASSUME NEW tasks
    PROVE  RouteErrors(tasks) = {}
              <=> \A t \in Range(tasks) : Range(Neighbours(t)) \subseteq TaskIds(tasks)
BY DEF RouteErrors

\* The compiler accepts exactly the valid definitions.
LEMMA CompileAcceptsValid ==
    ASSUME NEW definition, IsSequence(definition.tasks)
    PROVE  Compile(definition).success <=> ValidDefinition(definition)
<1> DEFINE tasks == definition.tasks
           errors == RouteErrors(tasks) \cup DuplicateErrors(tasks) \cup CycleErrors(tasks)
           warnings == Unreachable(definition) \cup IncompleteConditions(tasks)
<1>1. CASE tasks = <<>>
  <2>1. TaskIds(tasks) = {}
    BY <1>1, EmptySeq DEF TaskIds
  <2> QED BY <1>1, <2>1 DEF Compile, Failed, ValidDefinition
<1>2. CASE tasks # <<>> /\ definition.entry \notin TaskIds(tasks)
  BY <1>2 DEF Compile, Failed, ValidDefinition
<1>3. CASE tasks # <<>> /\ definition.entry \in TaskIds(tasks)
  <2>1. Compile(definition) = Finish(definition, errors, warnings)
    BY <1>3 DEF Compile
  <2>2. Compile(definition).success <=> errors = {}
    <3> HIDE DEF errors, warnings
    <3> QED BY <2>1 DEF Finish, Failed
  <2>3. errors = {} <=> RouteErrors(tasks) = {} /\ DuplicateErrors(tasks) = {} /\ CycleErrors(tasks) = {}
    OBVIOUS
  <2>4. CycleErrors(tasks) = {} <=> DetectCycles(tasks) = <<>>
    <3>1. DetectCycles(tasks) = <<>> => CycleErrors(tasks) = {}
      BY DEF CycleErrors, Range
    <3>2. ASSUME DetectCycles(tasks) # <<>> PROVE CycleErrors(tasks) # {}
      <4>1. Len(DetectCycles(tasks)) \in Nat \ {0}
        BY <3>2, CycleErrorsAreCycles, EmptySeq
      <4>2. DOMAIN DetectCycles(tasks) = 1 .. Len(DetectCycles(tasks))
        BY CycleErrorsAreCycles, LenProperties
      <4>3. 1 \in DOMAIN DetectCycles(tasks)
        BY <4>1, <4>2
      <4> QED BY <4>3 DEF CycleErrors, Range
    <3> QED BY <3>1, <3>2
  <2> QED BY <1>3, <2>2, <2>3, <2>4, RoutesClosed, DuplicatesCount, CycleErrorsAreCycles DEF ValidDefinition
<1> QED BY <1>1, <1>2, <1>3

\* The warnings name exactly the tasks no path from the entry leads to.
LEMMA UnreachableAreNotLed ==
    ASSUME NEW definition, IsSequence(definition.tasks),
           definition.entry \in TaskIds(definition.tasks), NEW id \in TaskIds(definition.tasks)
    PROVE  <<"UNREACHABLE_TASK", id>> \in Compile(definition).warnings
              <=> ~Leads(TaskIds(definition.tasks), Edges(definition.tasks), definition.entry, id)
<1> DEFINE tasks == definition.tasks
           errors == RouteErrors(tasks) \cup DuplicateErrors(tasks) \cup CycleErrors(tasks)
           warnings == Unreachable(definition) \cup IncompleteConditions(tasks)
<1>1. tasks # <<>>
  <2>1. tasks = <<>> => TaskIds(tasks) = {}
    BY EmptySeq DEF TaskIds
  <2> QED BY <2>1
<1>2. Compile(definition).warnings = warnings
  <2>1. Compile(definition) = Finish(definition, errors, warnings)
    BY <1>1 DEF Compile
  <2> HIDE DEF errors, warnings
  <2> QED BY <2>1 DEF Finish, Failed
<1>3. <<"UNREACHABLE_TASK", id>> \in warnings <=> id \notin FindReachable(definition.entry, tasks)
  BY DEF Unreachable, IncompleteConditions
<1>4. id \in FindReachable(definition.entry, tasks) <=> Joined(Adjacency(tasks), definition.entry, id)
  <2>1. Graph(Adjacency(tasks), Roots(tasks)) /\ DOMAIN Adjacency(tasks) = TaskIds(tasks)
    BY AdjacencyIsAGraph
  <2>2. definition.entry \in DOMAIN Adjacency(tasks) /\ id \in DOMAIN Adjacency(tasks)
    BY <2>1
  <2> QED BY <2>1, <2>2, ReachIsJoined DEF FindReachable
<1> QED BY <1>2, <1>3, <1>4, LeadsIsJoined

\* compile does what its diagnostics say, for every definition.
THEOREM CompileIsDocumented ==
    ASSUME NEW definition, IsSequence(definition.tasks)
    PROVE  CompilesAsDocumented(definition)
<1> QED BY CompileAcceptsValid, UnreachableAreNotLed, CycleErrorsAreCycles
        DEF CompilesAsDocumented, Agrees

----------------------------------------------------------------------------
(* Filter.                                                                    *)

\* The positions of what is kept, in their order.
Sifts(t, f, seq, n, kept) ==
    /\ t \in Seq(Range(seq))
    /\ f \in [1 .. Len(t) -> 1 .. n]
    /\ \A k \in 1 .. Len(t) : t[k] = seq[f[k]] /\ seq[f[k]] \in kept
    /\ \A k, m \in 1 .. Len(t) : k < m => f[k] < f[m]
    /\ \A i \in 1 .. n : seq[i] \in kept => \E k \in 1 .. Len(t) : f[k] = i

FilterValue(g, seq, kept) ==
    g = [n \in 0 .. Len(seq) |->
            CASE n = 0 -> <<>>
              [] n > 0 /\ seq[n] \in kept -> Append(g[n - 1], seq[n])
              [] OTHER -> g[n - 1]]

\* The recursion of Filter has a value.
LEMMA FilterValueExists ==
    ASSUME NEW seq, IsSequence(seq), NEW kept
    PROVE  \E g : FilterValue(g, seq, kept)
<1> DEFINE N == Len(seq)
           A == Seq(Range(seq))
           next == [p \in (1 .. N) \X A |-> IF seq[p[1]] \in kept THEN Append(p[2], seq[p[1]]) ELSE p[2]]
<1>1. N \in Nat /\ DOMAIN seq = 1 .. N
  BY LenProperties DEF IsSequence
<1>2. <<>> \in A
  BY EmptySeq
<1>3. ASSUME NEW n \in 1 .. N, NEW s \in A
      PROVE  (IF seq[n] \in kept THEN Append(s, seq[n]) ELSE s) \in A
  <2>1. seq[n] \in Range(seq)
    BY <1>1 DEF Range
  <2>2. Append(s, seq[n]) \in A
    BY <2>1, AppendProperties
  <2> QED BY <2>2
<1>4. next \in [(1 .. N) \X A -> A]
  BY <1>3
<1>4a. PICK g : Repeats(g, N, A, <<>>, next)
  <2> HIDE DEF next, A, N
  <2> QED BY <1>1, <1>2, <1>4, RecursionExists
<1>5. g \in [0 .. N -> A] /\ g[0] = <<>> /\ \A n \in 1 .. N : g[n] = next[<<n, g[n - 1]>>]
  <2> HIDE DEF next, A, N
  <2> QED BY <1>4a DEF Repeats
<1>6. ASSUME NEW n \in 1 .. N
      PROVE  g[n] = IF seq[n] \in kept THEN Append(g[n - 1], seq[n]) ELSE g[n - 1]
  <2>1. g[n - 1] \in A
    BY <1>1, <1>5
  <2>2. <<n, g[n - 1]>> \in (1 .. N) \X A
    BY <2>1
  <2>3. g[n] = next[<<n, g[n - 1]>>]
    BY <1>5
  <2> HIDE DEF A, N
  <2> QED BY <2>2, <2>3
<1>7. g = [n \in 0 .. N |-> g[n]]
  BY <1>5
<1> HIDE DEF N
<1>8. ASSUME NEW n \in 0 .. N
      PROVE  g[n] = CASE n = 0 -> <<>>
                      [] n > 0 /\ seq[n] \in kept -> Append(g[n - 1], seq[n])
                      [] OTHER -> g[n - 1]
  <2>1. n = 0 \/ (n \in 1 .. N /\ n > 0 /\ n # 0)
    BY <1>1 DEF N
  <2>2. CASE n = 0
    BY <2>2, <1>5
  <2>3. CASE n \in 1 .. N /\ n > 0 /\ n # 0
    BY <2>3, <1>6
  <2> QED BY <2>1, <2>2, <2>3
<1>9. g = [n \in 0 .. N |->
            CASE n = 0 -> <<>>
              [] n > 0 /\ seq[n] \in kept -> Append(g[n - 1], seq[n])
              [] OTHER -> g[n - 1]]
  BY <1>7, <1>8, Zenon
<1> QED BY <1>9 DEF FilterValue, N

\* Filter keeps the order and takes every element that is in the set.
LEMMA FilterSifts ==
    ASSUME NEW seq, IsSequence(seq), NEW kept
    PROVE  \E f : Sifts(Filter(seq, kept), f, seq, Len(seq), kept)
<1> DEFINE g == CHOOSE h : FilterValue(h, seq, kept)
           N == Len(seq)
<1>1. Filter(seq, kept) = g[N]
  BY Zenon DEF Filter, FilterValue
<1>2. FilterValue(g, seq, kept)
  BY FilterValueExists
<1> HIDE DEF g
<1>3. N \in Nat /\ DOMAIN seq = 1 .. N
  BY LenProperties DEF IsSequence
<1>4. g[0] = <<>> /\ \A n \in 1 .. N : g[n] = IF seq[n] \in kept THEN Append(g[n - 1], seq[n]) ELSE g[n - 1]
  <2>1. g[0] = <<>>
    BY <1>2, <1>3 DEF FilterValue
  <2>2. ASSUME NEW n \in 1 .. N
        PROVE  g[n] = IF seq[n] \in kept THEN Append(g[n - 1], seq[n]) ELSE g[n - 1]
    <3>1. n \in 0 .. N /\ n > 0 /\ n # 0
      BY <1>3
    <3> QED BY <3>1, <1>2 DEF FilterValue
  <2> QED BY <2>1, <2>2
<1> DEFINE T == {n \in Nat : n <= N => \E f : Sifts(g[n], f, seq, n, kept)}
<1> HIDE DEF N
<1>5. ASSUME NEW n \in Nat, \A k \in 0 .. n - 1 : k \in T PROVE n \in T
  <2>1. CASE n = 0
    <3>1. Sifts(<<>>, <<>>, seq, 0, kept)
      BY EmptySeq DEF Sifts
    <3> QED BY <2>1, <3>1, <1>4
  <2>2. CASE n > 0 /\ n <= N
    <3>0. n - 1 \in 0 .. n - 1 /\ n - 1 <= N /\ n - 1 \in Nat
      BY <2>2, <1>3
    <3>1. n \in 1 .. N
      BY <2>2, <1>3
    <3>2. PICK f : Sifts(g[n - 1], f, seq, n - 1, kept)
      <4>1. n - 1 \in T
        BY ONLY <1>5, <3>0
      <4> QED BY <4>1, <3>0
    <3>3. CASE seq[n] \notin kept
      <4>1. g[n] = g[n - 1]
        BY <3>1, <3>3, <1>4
      <4>2. f \in [1 .. Len(g[n - 1]) -> 1 .. n]
        BY <3>1, <3>2 DEF Sifts
      <4>3. \A i \in 1 .. n : seq[i] \in kept => \E k \in 1 .. Len(g[n - 1]) : f[k] = i
        BY <3>1, <3>2, <3>3 DEF Sifts
      <4>4. Sifts(g[n - 1], f, seq, n, kept)
        BY <3>2, <4>2, <4>3 DEF Sifts
      <4> QED BY <4>1, <4>4
    <3>4. CASE seq[n] \in kept
      <4> DEFINE t == g[n - 1]
                 L == Len(g[n - 1])
                 h == [k \in 1 .. L + 1 |-> IF k = L + 1 THEN n ELSE f[k]]
      <4>1. g[n] = Append(t, seq[n])
        BY <3>1, <3>4, <1>4
      <4>2. seq[n] \in Range(seq) /\ t \in Seq(Range(seq))
        BY <3>1, <1>3, <3>2 DEF Range, Sifts
      <4>3. L \in Nat
        BY <4>2, LenProperties
      <4>4. /\ Append(t, seq[n]) \in Seq(Range(seq)) /\ Len(Append(t, seq[n])) = L + 1
            /\ \A k \in 1 .. L : Append(t, seq[n])[k] = t[k]
            /\ Append(t, seq[n])[L + 1] = seq[n]
        BY <4>2, AppendProperties
      <4>5. /\ f \in [1 .. L -> 1 .. n - 1]
            /\ \A k \in 1 .. L : t[k] = seq[f[k]] /\ seq[f[k]] \in kept
            /\ \A k, m \in 1 .. L : k < m => f[k] < f[m]
            /\ \A i \in 1 .. n - 1 : seq[i] \in kept => \E k \in 1 .. L : f[k] = i
        BY <3>2 DEF Sifts
      <4> HIDE DEF t, L
      <4>6. h \in [1 .. L + 1 -> 1 .. n]
        BY <4>3, <4>5, <3>1
      <4>7. h[L + 1] = n /\ \A k \in 1 .. L : h[k] = f[k]
        BY <4>3
      <4> HIDE DEF h
      <4>8. \A k \in 1 .. L + 1 : k \in 1 .. L \/ k = L + 1
        BY <4>3
      <4>9. \A k \in 1 .. L + 1 : Append(t, seq[n])[k] = seq[h[k]] /\ seq[h[k]] \in kept
        BY <4>4, <4>5, <4>7, <4>8, <3>4
      <4>10. \A k, m \in 1 .. L + 1 : k < m => h[k] < h[m]
        BY <4>3, <4>5, <4>7, <4>8
      <4>11. ASSUME NEW i \in 1 .. n, seq[i] \in kept PROVE \E k \in 1 .. L + 1 : h[k] = i
        <5>1. CASE i = n
          BY <5>1, <4>7, <4>3
        <5>2. CASE i # n
          <6>1. i \in 1 .. n - 1
            BY <5>2, <3>1
          <6>2. PICK k \in 1 .. L : f[k] = i
            BY <6>1, <4>5, <4>11
          <6> QED BY <6>2, <4>7, <4>3
        <5> QED BY <5>1, <5>2
      <4>12. Sifts(Append(t, seq[n]), h, seq, n, kept)
        BY <4>4, <4>6, <4>9, <4>10, <4>11 DEF Sifts
      <4> QED BY <4>1, <4>12
    <3> QED BY <3>3, <3>4
  <2> QED BY <2>1, <2>2
<1>6. T = Nat
  <2>1. T \in SUBSET Nat
    OBVIOUS
  <2> HIDE DEF T
  <2> QED BY <2>1, <1>5, AllNumbers
<1>7. PICK f : Sifts(g[N], f, seq, N, kept)
  BY <1>3, <1>6
<1> QED BY <1>1, <1>7 DEF N

\* What the proofs use of Filter.
LEMMA FilterProperties ==
    ASSUME NEW seq, IsSequence(seq), NEW kept
    PROVE  /\ IsSequence(Filter(seq, kept))
           /\ Range(Filter(seq, kept)) = Range(seq) \cap kept
<1>1. PICK f : Sifts(Filter(seq, kept), f, seq, Len(seq), kept)
  BY FilterSifts
<1> DEFINE t == Filter(seq, kept)
<1>2. t \in Seq(Range(seq)) /\ t \in Seq(Range(t))
  BY <1>1, SeqOfRange DEF Sifts
<1>3. DOMAIN seq = 1 .. Len(seq) /\ DOMAIN t = 1 .. Len(t)
  BY <1>2, LenProperties DEF IsSequence
<1>4. Range(t) \subseteq Range(seq) \cap kept
  BY <1>1, <1>3 DEF Sifts, Range
<1>5. Range(seq) \cap kept \subseteq Range(t)
  BY <1>1, <1>3 DEF Sifts, Range
<1> QED BY <1>2, <1>4, <1>5 DEF IsSequence

(* The shape of a canvas, of a store and of a command.                        *)

IsNode(n) == n = [id |-> n.id, plugin |-> n.plugin, pos |-> n.pos, name |-> n.name, config |-> n.config]
IsEdge(e) == e = [id |-> e.id, src |-> e.src, dst |-> e.dst, label |-> e.label]

Drawn(nodes, edges) ==
    /\ IsSequence(nodes) /\ IsSequence(edges)
    /\ \A n \in Range(nodes) : IsNode(n)
    /\ \A e \in Range(edges) : IsEdge(e)

IsStore(s) ==
    /\ s = [nodes |-> s.nodes, edges |-> s.edges, selected |-> s.selected, errors |-> s.errors, clip |-> s.clip]
    /\ Drawn(s.nodes, s.edges) /\ Drawn(s.clip.nodes, s.clip.edges)

IsCommand(c) ==
    \/ c = AddNodeCommand(c.node) /\ IsNode(c.node)
    \/ c = MoveNodeCommand(c.id, c.new, c.old)
    \/ c = UpdatePropertyCommand(c.id, c.key, c.new, c.old) /\ c.key \in {"name", "config"}
    \/ c = ConnectEdgeCommand(c.edge) /\ IsEdge(c.edge)
    \/ /\ c = Disconnection(c.id, c.index, c.deleted)
       /\ c.index \in Int
       /\ c.deleted = <<>> \/ (c.deleted = <<c.deleted[1]>> /\ IsEdge(c.deleted[1]))
    \/ c = CopySelectionCommand(c.ids)
    \/ c = [type |-> "PASTE", made |-> c.made]
    \/ c = [type |-> "DUPLICATE", ids |-> c.ids, made |-> c.made]
    \/ /\ c = Deletion(c.ids, c.nodes, c.edges)
       /\ Drawn(c.nodes, c.edges)

\* The nodes inside and outside a selection.
LEMMA NodesKept ==
    ASSUME NEW nodes, IsSequence(nodes), NEW ids
    PROVE  /\ IsSequence(Outside(nodes, ids)) /\ IsSequence(Inside(nodes, ids))
           /\ Range(Outside(nodes, ids)) = {n \in Range(nodes) : n.id \notin ids}
           /\ Range(Inside(nodes, ids)) = {n \in Range(nodes) : n.id \in ids}
<1>1. IsSequence(Outside(nodes, ids)) /\ Range(Outside(nodes, ids)) = {n \in Range(nodes) : n.id \notin ids}
  <2> DEFINE kept == {n \in Range(nodes) : n.id \notin ids}
  <2>1. kept \subseteq Range(nodes)
    OBVIOUS
  <2> HIDE DEF kept
  <2>2. IsSequence(Filter(nodes, kept)) /\ Range(Filter(nodes, kept)) = kept
    BY <2>1, FilterProperties
  <2> QED BY <2>2 DEF Outside, kept
<1>2. IsSequence(Inside(nodes, ids)) /\ Range(Inside(nodes, ids)) = {n \in Range(nodes) : n.id \in ids}
  <2> DEFINE kept == {n \in Range(nodes) : n.id \in ids}
  <2>1. kept \subseteq Range(nodes)
    OBVIOUS
  <2> HIDE DEF kept
  <2>2. IsSequence(Filter(nodes, kept)) /\ Range(Filter(nodes, kept)) = kept
    BY <2>1, FilterProperties
  <2> QED BY <2>2 DEF Inside, kept
<1> QED BY <1>1, <1>2

\* The edges within, touching and apart from a selection.
LEMMA EdgesKept ==
    ASSUME NEW edges, IsSequence(edges), NEW ids
    PROVE  /\ IsSequence(Within(edges, ids)) /\ IsSequence(Touching(edges, ids)) /\ IsSequence(Apart(edges, ids))
           /\ Range(Within(edges, ids)) = {e \in Range(edges) : e.src \in ids /\ e.dst \in ids}
           /\ Range(Touching(edges, ids)) = {e \in Range(edges) : e.src \in ids \/ e.dst \in ids}
           /\ Range(Apart(edges, ids)) = {e \in Range(edges) : e.src \notin ids /\ e.dst \notin ids}
<1>1. /\ IsSequence(Within(edges, ids))
      /\ Range(Within(edges, ids)) = {e \in Range(edges) : e.src \in ids /\ e.dst \in ids}
  <2> DEFINE kept == {e \in Range(edges) : e.src \in ids /\ e.dst \in ids}
  <2>1. kept \subseteq Range(edges)
    OBVIOUS
  <2> HIDE DEF kept
  <2>2. IsSequence(Filter(edges, kept)) /\ Range(Filter(edges, kept)) = kept
    BY <2>1, FilterProperties
  <2> QED BY <2>2 DEF Within, kept
<1>2. /\ IsSequence(Touching(edges, ids))
      /\ Range(Touching(edges, ids)) = {e \in Range(edges) : e.src \in ids \/ e.dst \in ids}
  <2> DEFINE kept == {e \in Range(edges) : e.src \in ids \/ e.dst \in ids}
  <2>1. kept \subseteq Range(edges)
    OBVIOUS
  <2> HIDE DEF kept
  <2>2. IsSequence(Filter(edges, kept)) /\ Range(Filter(edges, kept)) = kept
    BY <2>1, FilterProperties
  <2> QED BY <2>2 DEF Touching, kept
<1>3. /\ IsSequence(Apart(edges, ids))
      /\ Range(Apart(edges, ids)) = {e \in Range(edges) : e.src \notin ids /\ e.dst \notin ids}
  <2> DEFINE kept == {e \in Range(edges) : e.src \notin ids /\ e.dst \notin ids}
  <2>1. kept \subseteq Range(edges)
    OBVIOUS
  <2> HIDE DEF kept
  <2>2. IsSequence(Filter(edges, kept)) /\ Range(Filter(edges, kept)) = kept
    BY <2>1, FilterProperties
  <2> QED BY <2>2 DEF Apart, kept
<1> QED BY <1>1, <1>2, <1>3

\* Splice adds its item and drops nothing, at any index.
LEMMA Spliced ==
    ASSUME NEW seq, IsSequence(seq), NEW index \in Int, NEW item
    PROVE  /\ IsSequence(Splice(seq, index, item))
           /\ Range(Splice(seq, index, item)) = Range(seq) \cup {item}
<1> DEFINE at == IF index < 0 THEN Len(seq) + index ELSE index
           cut == IF at < 0 THEN 0 ELSE IF at > Len(seq) THEN Len(seq) ELSE at
           head == SubSeq(seq, 1, cut)
           rest == SubSeq(seq, cut + 1, Len(seq))
<1>1. Len(seq) \in Nat /\ cut \in 0 .. Len(seq)
  BY SequenceParts
<1>2. Splice(seq, index, item) = head \o <<item>> \o rest
  BY DEF Splice
<1> HIDE DEF cut
<1>3. IsSequence(head) /\ Range(head) = {seq[i] : i \in 1 .. cut}
  BY <1>1, SequenceCut
<1>4. IsSequence(rest) /\ Range(rest) = {seq[i] : i \in cut + 1 .. Len(seq)}
  BY <1>1, SequenceCut
<1>5. Range(seq) = {seq[i] : i \in 1 .. Len(seq)}
  BY SequenceParts DEF Range
<1>6. Range(seq) = Range(head) \cup Range(rest)
  <2>1. \A i : i \in 1 .. Len(seq) <=> i \in 1 .. cut \/ i \in cut + 1 .. Len(seq)
    BY <1>1
  <2> QED BY <1>3, <1>4, <1>5, <2>1
<1> HIDE DEF head, rest
<1>7. IsSequence(<<item>>) /\ Range(<<item>>) = {item}
  BY SequenceSingle
<1>8. IsSequence(head \o <<item>>) /\ Range(head \o <<item>>) = Range(head) \cup {item}
  BY <1>3, <1>7, SequencesJoined
<1>9. IsSequence((head \o <<item>>) \o rest) /\ Range((head \o <<item>>) \o rest) = Range(head) \cup {item} \cup Range(rest)
  BY <1>4, <1>8, SequencesJoined
<1> QED BY <1>2, <1>6, <1>9

\* Copies of a drawing are a drawing.
LEMMA CopiesAreDrawn ==
    ASSUME NEW nodes, NEW edges, Drawn(nodes, edges), NEW suffix, NEW now,
           NEW copies, copies = Cloned(nodes, edges, suffix, now)
    PROVE  Drawn(copies.nodes, copies.edges)
<1> DEFINE inner == Within(edges, {nodes[i].id : i \in DOMAIN nodes})
<1>1. IsSequence(inner) /\ \A e \in Range(inner) : IsEdge(e)
  BY EdgesKept DEF Drawn
<1>2. IsSequence(nodes) /\ \A i \in DOMAIN nodes : IsNode(nodes[i])
  BY SequenceParts DEF Drawn
<1> DEFINE rename(name) == IF name[1] = "" THEN name ELSE <<name[1], name[2] + suffix>>
           shift(p) == <<p[1] + PasteOffset, p[2] + PasteOffset>>
           newId(id) == <<now, SelectLastInSeq(nodes, LAMBDA n : n.id = id)>>
<1>3. /\ copies.nodes = [i \in DOMAIN nodes |->
                           [nodes[i] EXCEPT !.id = <<now, i>>, !.pos = shift(@), !.name = rename(@)]]
      /\ copies.edges = [i \in DOMAIN inner |->
                           [inner[i] EXCEPT !.id = <<now, i>>, !.src = newId(@), !.dst = newId(@)]]
  BY DEF Cloned
<1> HIDE DEF rename, shift, newId, inner
<1>4. \A i \in DOMAIN nodes : IsNode(copies.nodes[i])
  <2>1. ASSUME NEW i \in DOMAIN nodes, NEW n, n = copies.nodes[i], NEW o, o = nodes[i],
               NEW p, p = shift(o.pos), NEW m, m = rename(o.name), NEW id, id = <<now, i>>
        PROVE  IsNode(n)
    <3>1. n = [o EXCEPT !.id = id, !.pos = p, !.name = m] /\ IsNode(o)
      BY <1>2, <1>3, <2>1
    <3> QED BY ONLY <3>1 DEF IsNode
  <2> QED BY <2>1
<1>5. IsMapped(nodes, copies.nodes)
  BY <1>3 DEF IsMapped
<1>6. IsSequence(copies.nodes) /\ \A n \in Range(copies.nodes) : IsNode(n)
  BY <1>2, <1>4, <1>5, SequenceMapped
<1>8. \A i \in DOMAIN inner : IsEdge(copies.edges[i])
  <2>1. ASSUME NEW i \in DOMAIN inner, NEW e, e = copies.edges[i], NEW o, o = inner[i],
               NEW s, s = newId(o.src), NEW d, d = newId(o.dst), NEW id, id = <<now, i>>
        PROVE  IsEdge(e)
    <3>1. IsEdge(o)
      BY <1>1, <2>1, SequenceParts
    <3>2. e = [o EXCEPT !.id = id, !.src = s, !.dst = d]
      BY <1>3, <2>1
    <3> QED BY ONLY <3>1, <3>2 DEF IsEdge
  <2> QED BY <2>1
<1>9. IsMapped(inner, copies.edges)
  BY <1>3 DEF IsMapped
<1>10. IsSequence(copies.edges) /\ \A e \in Range(copies.edges) : IsEdge(e)
  BY <1>1, <1>8, <1>9, SequenceMapped
<1> QED BY <1>6, <1>10 DEF Drawn

WithCanvas(s, nodes, edges) == [s EXCEPT !.nodes = nodes, !.edges = edges]
WithNodes(s, nodes) == [s EXCEPT !.nodes = nodes]
WithEdges(s, edges) == [s EXCEPT !.edges = edges]

\* A store with another canvas is a store.
LEMMA Redrawn ==
    ASSUME NEW s, IsStore(s), NEW nodes, NEW edges, Drawn(nodes, edges), NEW t,
           \/ t = WithCanvas(s, nodes, edges)
           \/ t = WithNodes(s, nodes) /\ edges = s.edges
           \/ t = WithEdges(s, edges) /\ nodes = s.nodes
    PROVE  /\ IsStore(t) /\ t.nodes = nodes /\ t.edges = edges
           /\ t.selected = s.selected /\ t.errors = s.errors /\ t.clip = s.clip
<1>1. t = [nodes |-> nodes, edges |-> edges, selected |-> s.selected, errors |-> s.errors, clip |-> s.clip]
  BY DEF IsStore, WithCanvas, WithNodes, WithEdges
<1>2. /\ t.nodes = nodes /\ t.edges = edges
      /\ t.selected = s.selected /\ t.errors = s.errors /\ t.clip = s.clip
  BY <1>1
<1> QED BY <1>1, <1>2 DEF IsStore

\* The nodes with a field of one of them changed.
Replaced(nodes, id, key, value) ==
    [i \in DOMAIN nodes |-> IF nodes[i].id = id THEN [nodes[i] EXCEPT ![key] = value] ELSE nodes[i]]

LEMMA ChangedNodes ==
    ASSUME NEW s, IsStore(s), NEW id, NEW value, NEW key \in {"pos", "name", "config"},
           NEW nodes, nodes = Replaced(s.nodes, id, key, value)
    PROVE  /\ Drawn(nodes, s.edges) /\ DOMAIN nodes = DOMAIN s.nodes
           /\ \A i \in DOMAIN nodes : nodes[i].id = s.nodes[i].id
<1>1. IsSequence(s.nodes) /\ \A i \in DOMAIN s.nodes : IsNode(s.nodes[i])
  BY SequenceParts DEF IsStore, Drawn
<1>2. ASSUME NEW i \in DOMAIN s.nodes, NEW n, n = nodes[i], NEW o, o = s.nodes[i]
      PROVE  IsNode(n) /\ n.id = o.id
  <2>1. IsNode(o) /\ n = IF o.id = id THEN [o EXCEPT ![key] = value] ELSE o
    BY <1>1, <1>2 DEF Replaced
  <2>2. key = "pos" \/ key = "name" \/ key = "config"
    OBVIOUS
  <2> QED BY ONLY <2>1, <2>2 DEF IsNode
<1>3. IsMapped(s.nodes, nodes)
  BY DEF Replaced, IsMapped
<1>4. IsSequence(nodes) /\ DOMAIN nodes = DOMAIN s.nodes /\ \A x \in Range(nodes) : \E i \in DOMAIN s.nodes : x = nodes[i]
  BY <1>1, <1>3, SequenceMapped
<1> QED BY <1>2, <1>4 DEF Drawn, IsStore

LEMMA MovedShape ==
    ASSUME NEW s, IsStore(s), NEW c, NEW pos, NEW t, t = MovedTo(c, s, pos)
    PROVE  IsStore(t)
<1> DEFINE nodes == Replaced(s.nodes, c.id, "pos", pos)
<1>1. t = WithNodes(s, nodes)
  BY DEF MovedTo, Changed, WithNodes, Replaced
<1>2. Drawn(nodes, s.edges)
  BY ChangedNodes
<1> HIDE DEF nodes
<1> QED BY <1>1, <1>2, Redrawn

LEMMA PropertyShape ==
    ASSUME NEW s, IsStore(s), NEW c, c.key \in {"name", "config"}, NEW value, NEW t,
           t = WithProperty(c, s, value)
    PROVE  IsStore(t)
<1> DEFINE nodes == Replaced(s.nodes, c.id, c.key, value)
<1>1. t = WithNodes(s, nodes)
  BY DEF WithProperty, Changed, WithNodes, Replaced
<1>2. Drawn(nodes, s.edges)
  BY ChangedNodes
<1> HIDE DEF nodes
<1> QED BY <1>1, <1>2, Redrawn

LEMMA CloneShape ==
    ASSUME NEW s, IsStore(s), NEW c, NEW nodes, NEW edges, Drawn(nodes, edges), NEW suffix, NEW now,
           NEW done, done = Clone(c, s, nodes, edges, suffix, now)
    PROVE  IsStore(done.store)
<1> DEFINE copies == Cloned(nodes, edges, suffix, now)
<1>1. done.store = WithCanvas(s, s.nodes \o copies.nodes, s.edges \o copies.edges)
  BY DEF Clone, WithCanvas
<1>2. Drawn(copies.nodes, copies.edges)
  BY CopiesAreDrawn
<1> HIDE DEF copies
<1>3. Drawn(s.nodes \o copies.nodes, s.edges \o copies.edges)
  BY <1>2, SequencesJoined DEF Drawn, IsStore
<1> QED BY <1>1, <1>3, Redrawn

LEMMA InnerDrawn ==
    ASSUME NEW nodes, NEW edges, Drawn(nodes, edges), NEW ids
    PROVE  /\ Drawn(Inside(nodes, ids), Within(edges, ids))
           /\ Drawn(Inside(nodes, ids), Touching(edges, ids))
           /\ Drawn(Outside(nodes, ids), Apart(edges, ids))
           /\ Drawn(Outside(nodes, ids), edges) /\ Drawn(nodes, Outside(edges, ids))
BY NodesKept, EdgesKept DEF Drawn

\* execute: the store keeps its shape and the command too.
LEMMA ExecuteShape ==
    ASSUME NEW s, IsStore(s), NEW c, IsCommand(c), NEW now, NEW done, done = Execute(c, s, now)
    PROVE  IsStore(done.store) /\ IsCommand(done.cmd)
<1>1. CASE c = AddNodeCommand(c.node) /\ IsNode(c.node)
  <2>1. done = ExecuteAdd(c, s)
    BY <1>1 DEF Execute, AddNodeCommand
  <2>2. Drawn(Append(s.nodes, c.node), s.edges)
    BY <1>1, SequenceAppended DEF IsStore, Drawn
  <2>3. done.cmd = c /\ done.store = WithNodes(s, Append(s.nodes, c.node))
    BY <2>1 DEF ExecuteAdd, WithNodes
  <2> QED BY <2>2, <2>3, Redrawn
<1>2. CASE c = MoveNodeCommand(c.id, c.new, c.old)
  <2>1. done = [cmd |-> c, store |-> MovedTo(c, s, c.new)]
    BY <1>2 DEF Execute, MoveNodeCommand
  <2> QED BY <2>1, MovedShape
<1>3. CASE c = UpdatePropertyCommand(c.id, c.key, c.new, c.old) /\ c.key \in {"name", "config"}
  <2>1. done = [cmd |-> c, store |-> WithProperty(c, s, c.new)]
    BY <1>3 DEF Execute, UpdatePropertyCommand
  <2> QED BY <1>3, <2>1, PropertyShape
<1>4. CASE c = ConnectEdgeCommand(c.edge) /\ IsEdge(c.edge)
  <2>1. done = ExecuteConnect(c, s)
    BY <1>4 DEF Execute, ConnectEdgeCommand
  <2>2. Drawn(s.nodes, Append(s.edges, c.edge))
    BY <1>4, SequenceAppended DEF IsStore, Drawn
  <2>3. done.cmd = c /\ done.store = WithEdges(s, Append(s.edges, c.edge))
    BY <2>1 DEF ExecuteConnect, WithEdges
  <2> QED BY <2>2, <2>3, Redrawn
<1>5. CASE /\ c = Disconnection(c.id, c.index, c.deleted)
           /\ c.index \in Int
           /\ c.deleted = <<>> \/ (c.deleted = <<c.deleted[1]>> /\ IsEdge(c.deleted[1]))
  <2>1. done = ExecuteDisconnect(c, s)
    BY <1>5 DEF Execute, Disconnection
  <2> DEFINE at == SelectInSeq(s.edges, LAMBDA e : e.id = c.id)
  <2>2. at \in 0 .. Len(s.edges)
    <3> DEFINE I == {i \in 1 .. Len(s.edges) : s.edges[i].id = c.id}
    <3>1. Len(s.edges) \in Nat
      BY SequenceParts DEF IsStore, Drawn
    <3>2. at = IF I # {} THEN Min(I) ELSE 0
      BY DEF SelectInSeq
    <3>3. I \in SUBSET Nat
      BY <3>1
    <3>4. I # {} => Min(I) \in I
      <4> HIDE DEF I
      <4>1. I # {} => \E x \in I : \A y \in I : x <= y
        BY <3>3, LeastNumber
      <4> QED BY <4>1, Zenon DEF Min
    <3> QED BY <3>1, <3>2, <3>4
  <2>3. CASE at = 0
    <3>1. done = [cmd |-> Disconnection(c.id, -1, c.deleted), store |-> s]
      BY <2>1, <2>3 DEF ExecuteDisconnect
    <3>2. done.cmd = Disconnection(c.id, -1, c.deleted)
      BY <3>1
    <3>3. /\ done.cmd.id = c.id /\ done.cmd.index = -1 /\ done.cmd.deleted = c.deleted
      BY <3>2 DEF Disconnection
    <3>4. IsCommand(done.cmd)
      BY <3>2, <3>3, <1>5 DEF IsCommand
    <3> QED BY <3>1, <3>4
  <2>4. CASE at # 0
    <3> DEFINE edge == s.edges[at]
    <3>1. done = [cmd |-> Disconnection(c.id, at - 1, <<edge>>),
                  store |-> [s EXCEPT !.edges = Outside(s.edges, {c.id})]]
      BY <2>1, <2>4 DEF ExecuteDisconnect
    <3>2. at - 1 \in Int /\ IsEdge(edge)
      <4>1. Len(s.edges) \in Nat /\ \A i \in 1 .. Len(s.edges) : s.edges[i] \in Range(s.edges)
        BY SequenceParts DEF IsStore, Drawn
      <4> HIDE DEF at
      <4>2. at \in 1 .. Len(s.edges)
        BY <4>1, <2>2, <2>4
      <4> QED BY <4>1, <4>2 DEF IsStore, Drawn
    <3> HIDE DEF at, edge
    <3>3. done.cmd = Disconnection(c.id, at - 1, <<edge>>)
      BY <3>1
    <3>4. IsCommand(done.cmd)
      BY <3>2, <3>3 DEF IsCommand, Disconnection
    <3>5. Drawn(s.nodes, Outside(s.edges, {c.id}))
      BY InnerDrawn DEF IsStore
    <3>6. done.store = WithEdges(s, Outside(s.edges, {c.id}))
      BY <3>1 DEF WithEdges
    <3> QED BY <3>4, <3>5, <3>6, Redrawn
  <2> QED BY <2>3, <2>4
<1>6. CASE c = CopySelectionCommand(c.ids)
  <2>1. done = ExecuteCopy(c, s)
    BY <1>6 DEF Execute, CopySelectionCommand
  <2> DEFINE nodes == Inside(s.nodes, c.ids)
             edges == Within(s.edges, c.ids)
  <2>2. done = [cmd |-> c, store |-> [s EXCEPT !.clip = [nodes |-> nodes, edges |-> edges]]]
    BY <2>1 DEF ExecuteCopy
  <2>3. Drawn(nodes, edges)
    BY InnerDrawn DEF IsStore
  <2> HIDE DEF nodes, edges
  <2>4. done.store = [nodes |-> s.nodes, edges |-> s.edges, selected |-> s.selected, errors |-> s.errors,
                      clip |-> [nodes |-> nodes, edges |-> edges]]
    BY <2>2 DEF IsStore
  <2>5. IsStore(done.store)
    BY <2>3, <2>4 DEF IsStore
  <2> QED BY <2>2, <2>5
<1>7. CASE c = [type |-> "PASTE", made |-> c.made]
  <2>1. done = Clone(c, s, s.clip.nodes, s.clip.edges, 0, now)
    BY <1>7 DEF Execute, ExecutePaste
  <2>2. IsStore(done.store)
    BY <2>1, CloneShape DEF IsStore
  <2>3. PICK made : made = c.made \cup {<<now, i>> : i \in DOMAIN s.clip.nodes}
    OBVIOUS
  <2>4. done.cmd = [c EXCEPT !.made = made]
    BY <2>1, <2>3 DEF Clone
  <2>5. done.cmd = [type |-> "PASTE", made |-> made]
    BY <2>4, <1>7
  <2> QED BY <2>2, <2>5 DEF IsCommand
<1>8. CASE c = [type |-> "DUPLICATE", ids |-> c.ids, made |-> c.made]
  <2> DEFINE nodes == Inside(s.nodes, c.ids)
             edges == Within(s.edges, c.ids)
  <2>1. done = Clone(c, s, nodes, edges, 1, now)
    BY <1>8 DEF Execute, ExecuteDuplicate
  <2>2. IsStore(done.store)
    <3>1. Drawn(nodes, edges)
      BY InnerDrawn DEF IsStore
    <3> HIDE DEF nodes, edges
    <3> QED BY <2>1, <3>1, CloneShape
  <2>3. PICK made : made = c.made \cup {<<now, i>> : i \in DOMAIN nodes}
    OBVIOUS
  <2>4. done.cmd = [c EXCEPT !.made = made]
    BY <2>1, <2>3 DEF Clone
  <2>5. done.cmd = [type |-> "DUPLICATE", ids |-> c.ids, made |-> made]
    BY <2>4, <1>8
  <2> QED BY <2>2, <2>5 DEF IsCommand
<1>9. CASE /\ c = Deletion(c.ids, c.nodes, c.edges)
           /\ Drawn(c.nodes, c.edges)
  <2>1. done = ExecuteDeleteSelection(c, s)
    BY <1>9 DEF Execute, Deletion
  <2> DEFINE nodes == Inside(s.nodes, c.ids)
             edges == Touching(s.edges, c.ids)
             left == Outside(s.nodes, c.ids)
             apart == Apart(s.edges, c.ids)
             now_selected == IF s.selected \in c.ids THEN NoNode ELSE s.selected
  <2>2. Drawn(nodes, edges) /\ Drawn(left, apart)
    BY InnerDrawn DEF IsStore
  <2>3. /\ done.cmd = Deletion(c.ids, nodes, edges)
        /\ done.store = [s EXCEPT !.nodes = left, !.edges = apart, !.selected = now_selected]
    BY <2>1 DEF ExecuteDeleteSelection
  <2> HIDE DEF nodes, edges, left, apart, now_selected
  <2>4. done.cmd = Deletion(c.ids, nodes, edges)
    BY <2>3
  <2>5. done.store = [nodes |-> left, edges |-> apart, selected |-> now_selected, errors |-> s.errors,
                      clip |-> s.clip]
    BY <2>3 DEF IsStore
  <2>6. IsStore(done.store)
    BY <2>2, <2>5 DEF IsStore
  <2>7. IsCommand(done.cmd)
    BY <2>2, <2>4 DEF IsCommand, Deletion
  <2> QED BY <2>6, <2>7
<1> QED BY <1>1, <1>2, <1>3, <1>4, <1>5, <1>6, <1>7, <1>8, <1>9 DEF IsCommand

\* undo: the store keeps its shape.
LEMMA UndoShape ==
    ASSUME NEW s, IsStore(s), NEW c, IsCommand(c), NEW t, t = Undo(c, s)
    PROVE  IsStore(t)
<1>1. CASE c = AddNodeCommand(c.node) /\ IsNode(c.node)
  <2>1. t = WithNodes(s, Outside(s.nodes, {c.node.id}))
    BY <1>1 DEF Undo, AddNodeCommand, UndoAdd, WithNodes
  <2>2. Drawn(Outside(s.nodes, {c.node.id}), s.edges)
    BY InnerDrawn DEF IsStore
  <2> QED BY <2>1, <2>2, Redrawn
<1>2. CASE c = MoveNodeCommand(c.id, c.new, c.old)
  <2>1. t = MovedTo(c, s, c.old)
    BY <1>2 DEF Undo, MoveNodeCommand
  <2> QED BY <2>1, MovedShape
<1>3. CASE c = UpdatePropertyCommand(c.id, c.key, c.new, c.old) /\ c.key \in {"name", "config"}
  <2>1. t = WithProperty(c, s, c.old)
    BY <1>3 DEF Undo, UpdatePropertyCommand
  <2> QED BY <1>3, <2>1, PropertyShape
<1>4. CASE c = ConnectEdgeCommand(c.edge) /\ IsEdge(c.edge)
  <2>1. t = WithEdges(s, Outside(s.edges, {c.edge.id}))
    BY <1>4 DEF Undo, ConnectEdgeCommand, UndoConnect, WithEdges
  <2>2. Drawn(s.nodes, Outside(s.edges, {c.edge.id}))
    BY InnerDrawn DEF IsStore
  <2> QED BY <2>1, <2>2, Redrawn
<1>5. CASE /\ c = Disconnection(c.id, c.index, c.deleted)
           /\ c.index \in Int
           /\ c.deleted = <<>> \/ (c.deleted = <<c.deleted[1]>> /\ IsEdge(c.deleted[1]))
  <2>1. t = UndoDisconnect(c, s)
    BY <1>5 DEF Undo, Disconnection
  <2>2. CASE c.deleted = <<>>
    BY <2>1, <2>2 DEF UndoDisconnect
  <2>3. CASE c.deleted # <<>>
    <3>1. t = WithEdges(s, Splice(s.edges, c.index, c.deleted[1]))
      BY <2>1, <2>3 DEF UndoDisconnect, WithEdges
    <3>2. /\ IsSequence(Splice(s.edges, c.index, c.deleted[1]))
          /\ Range(Splice(s.edges, c.index, c.deleted[1])) = Range(s.edges) \cup {c.deleted[1]}
      BY <1>5, Spliced DEF IsStore, Drawn
    <3>3. Drawn(s.nodes, Splice(s.edges, c.index, c.deleted[1]))
      BY <3>2, <1>5, <2>3 DEF IsStore, Drawn
    <3> QED BY <3>1, <3>3, Redrawn
  <2> QED BY <2>2, <2>3
<1>6. CASE c = CopySelectionCommand(c.ids)
  BY <1>6 DEF Undo, CopySelectionCommand
<1>7. CASE c = [type |-> "PASTE", made |-> c.made] \/ c = [type |-> "DUPLICATE", ids |-> c.ids, made |-> c.made]
  <2>1. t = WithCanvas(s, Outside(s.nodes, c.made), Apart(s.edges, c.made))
    BY <1>7 DEF Undo, UndoClone, WithCanvas
  <2>2. Drawn(Outside(s.nodes, c.made), Apart(s.edges, c.made))
    BY InnerDrawn DEF IsStore
  <2> QED BY <2>1, <2>2, Redrawn
<1>8. CASE /\ c = Deletion(c.ids, c.nodes, c.edges)
           /\ Drawn(c.nodes, c.edges)
  <2>1. t = WithCanvas(s, s.nodes \o c.nodes, s.edges \o c.edges)
    BY <1>8 DEF Undo, UndoDeleteSelection, Deletion, WithCanvas
  <2>2. Drawn(s.nodes \o c.nodes, s.edges \o c.edges)
    BY <1>8, SequencesJoined DEF IsStore, Drawn
  <2> QED BY <2>1, <2>2, Redrawn
<1> QED BY <1>1, <1>2, <1>3, <1>4, <1>5, <1>6, <1>7, <1>8 DEF IsCommand

(* Serialize, Deserialize and the layout.                                     *)

\* An export has a task for every node.
LEMMA SerializedTasks ==
    ASSUME NEW canvas, IsSequence(canvas.nodes), NEW id, NEW definition, definition = Serialize(id, canvas)
    PROVE  /\ IsSequence(definition.tasks) /\ Len(definition.tasks) = Len(canvas.nodes)
           /\ definition.tasks = [i \in DOMAIN canvas.nodes |-> TaskOf(canvas, canvas.nodes[i])]
           /\ definition.id = id
<1>1. definition.tasks = [i \in DOMAIN canvas.nodes |-> TaskOf(canvas, canvas.nodes[i])] /\ definition.id = id
  BY DEF Serialize
<1>2. IsMapped(canvas.nodes, definition.tasks)
  BY <1>1 DEF IsMapped
<1> QED BY <1>1, <1>2, SequenceMapped

\* The edges a task is drawn with.
LEMMA EdgesOfTask ==
    ASSUME NEW task
    PROVE  /\ IsSequence(EdgesOf(task))
           /\ Range(EdgesOf(task)) =
                 {e \in {[src |-> task.id, dst |-> task.default, label |-> NoLabel]} : task.default # NoTask}
                 \cup {[src |-> task.id, dst |-> task.conditional[o], label |-> o] :
                          o \in {"true", "false"} \cap DOMAIN task.conditional}
<1> DEFINE to(target, label) == [src |-> task.id, dst |-> target, label |-> label]
           conditional(o) == IF o \in DOMAIN task.conditional
                             THEN <<to(task.conditional[o], o)>> ELSE <<>>
           first == IF task.default = NoTask THEN <<>> ELSE <<to(task.default, NoLabel)>>
<1>1. EdgesOf(task) = (first \o conditional("true")) \o conditional("false")
  BY DEF EdgesOf
<1>2. \A o : IsSequence(conditional(o)) /\ Range(conditional(o)) =
                 {to(task.conditional[p], p) : p \in {o} \cap DOMAIN task.conditional}
  <2>1. ASSUME NEW o, o \in DOMAIN task.conditional
        PROVE  IsSequence(conditional(o)) /\ Range(conditional(o)) =
                 {to(task.conditional[p], p) : p \in {o} \cap DOMAIN task.conditional}
    <3>1. conditional(o) = <<to(task.conditional[o], o)>>
      BY <2>1
    <3> HIDE DEF to, conditional
    <3>2. IsSequence(conditional(o)) /\ Range(conditional(o)) = {to(task.conditional[o], o)}
      BY <3>1, SequenceSingle
    <3>3. {o} \cap DOMAIN task.conditional = {o}
      BY <2>1
    <3> QED BY <3>2, <3>3
  <2>2. ASSUME NEW o, o \notin DOMAIN task.conditional
        PROVE  IsSequence(conditional(o)) /\ Range(conditional(o)) =
                 {to(task.conditional[p], p) : p \in {o} \cap DOMAIN task.conditional}
    <3>1. conditional(o) = <<>>
      BY <2>2
    <3> HIDE DEF to, conditional
    <3>2. {o} \cap DOMAIN task.conditional = {}
      BY <2>2
    <3> QED BY <3>1, <3>2, SequenceEmpty
  <2> QED BY <2>1, <2>2
<1>3. IsSequence(first) /\ Range(first) = {e \in {to(task.default, NoLabel)} : task.default # NoTask}
  <2>1. CASE task.default = NoTask
    BY <2>1, SequenceEmpty
  <2>2. CASE task.default # NoTask
    <3>1. first = <<to(task.default, NoLabel)>>
      BY <2>2
    <3> HIDE DEF to, first
    <3> QED BY <2>2, <3>1, SequenceSingle
  <2> QED BY <2>1, <2>2
<1> HIDE DEF first, conditional, to
<1>4. /\ IsSequence(first \o conditional("true"))
      /\ Range(first \o conditional("true")) = Range(first) \cup Range(conditional("true"))
  BY <1>2, <1>3, SequencesJoined
<1>5. /\ IsSequence(EdgesOf(task))
      /\ Range(EdgesOf(task)) = (Range(first) \cup Range(conditional("true"))) \cup Range(conditional("false"))
  BY <1>1, <1>2, <1>4, SequencesJoined
<1>6. {to(task.conditional[o], o) : o \in {"true", "false"} \cap DOMAIN task.conditional}
        = Range(conditional("true")) \cup Range(conditional("false"))
  BY <1>2
<1> QED BY <1>3, <1>5, <1>6 DEF to

\* The edges drawn for tasks, numbered.
DrawnEdges(tasks) == FlattenSeq([i \in DOMAIN tasks |-> EdgesOf(tasks[i])])

\* The edges of an import are those of its tasks.
LEMMA DrawnEdgesOfTasks ==
    ASSUME NEW tasks, IsSequence(tasks)
    PROVE  /\ IsSequence(DrawnEdges(tasks))
           /\ \A x : x \in Range(DrawnEdges(tasks)) <=> \E i \in DOMAIN tasks : x \in Range(EdgesOf(tasks[i]))
<1> DEFINE seqs == [i \in DOMAIN tasks |-> EdgesOf(tasks[i])]
<1>1. IsMapped(tasks, seqs) /\ DOMAIN seqs = DOMAIN tasks
  BY DEF IsMapped
<1>2. \A i \in DOMAIN seqs : seqs[i] = EdgesOf(tasks[i])
  OBVIOUS
<1> HIDE DEF seqs
<1>3. \A i \in DOMAIN seqs : IsSequence(seqs[i])
  BY <1>2, EdgesOfTask
<1>4. IsSequence(seqs)
  BY <1>1, SequenceMapped
<1>5. /\ IsSequence(FlattenSeq(seqs))
      /\ \A x : x \in Range(FlattenSeq(seqs)) <=> \E i \in DOMAIN seqs : x \in Range(seqs[i])
  BY <1>3, <1>4, Flattened
<1> QED BY <1>1, <1>2, <1>5 DEF DrawnEdges, seqs

IsCanvas(canvas) == canvas = [nodes |-> canvas.nodes, edges |-> canvas.edges]

\* The canvas has a node for every task and an edge for every route.
Recalls(canvas, tasks) ==
    /\ DOMAIN canvas.nodes = DOMAIN tasks
    /\ \A i \in DOMAIN tasks :
          /\ canvas.nodes[i].id = tasks[i].id /\ canvas.nodes[i].plugin = tasks[i].plugin
          /\ canvas.nodes[i].name = tasks[i].name /\ canvas.nodes[i].config = tasks[i].config
    /\ \A e \in Range(canvas.edges) : \E d \in Range(DrawnEdges(tasks)) :
          e.src = d.src /\ e.dst = d.dst /\ e.label = d.label
    /\ \A d \in Range(DrawnEdges(tasks)) : \E e \in Range(canvas.edges) :
          e.src = d.src /\ e.dst = d.dst /\ e.label = d.label

\* An import has a node for every task and an edge for every route.
LEMMA DeserializedCanvas ==
    ASSUME NEW definition, IsSequence(definition.tasks), NEW canvas, canvas = Deserialize(definition)
    PROVE  /\ IsCanvas(canvas) /\ Drawn(canvas.nodes, canvas.edges) /\ Recalls(canvas, definition.tasks)
           /\ \A k \in DOMAIN canvas.edges : canvas.edges[k].id = <<0, k>>
<1> DEFINE tasks == definition.tasks
           drawn == DrawnEdges(tasks)
<1>1. /\ canvas = [nodes |-> [i \in DOMAIN tasks |->
                      [id |-> tasks[i].id, plugin |-> tasks[i].plugin,
                       pos |-> IF tasks[i].id \in DOMAIN definition.positions
                               THEN definition.positions[tasks[i].id] ELSE Origin,
                       name |-> tasks[i].name, config |-> tasks[i].config]],
                    edges |-> [k \in DOMAIN drawn |->
                      [id |-> <<0, k>>, src |-> drawn[k].src, dst |-> drawn[k].dst,
                       label |-> drawn[k].label]]]
  BY DEF Deserialize, DrawnEdges
<1>2. /\ canvas.nodes = [i \in DOMAIN tasks |->
                      [id |-> tasks[i].id, plugin |-> tasks[i].plugin,
                       pos |-> IF tasks[i].id \in DOMAIN definition.positions
                               THEN definition.positions[tasks[i].id] ELSE Origin,
                       name |-> tasks[i].name, config |-> tasks[i].config]]
      /\ canvas.edges = [k \in DOMAIN drawn |->
                      [id |-> <<0, k>>, src |-> drawn[k].src, dst |-> drawn[k].dst,
                       label |-> drawn[k].label]]
      /\ canvas = [nodes |-> canvas.nodes, edges |-> canvas.edges]
  BY <1>1
<1>3. IsSequence(drawn) /\ IsSequence(tasks)
  BY DrawnEdgesOfTasks
<1> HIDE DEF drawn, tasks
<1>4. \A i \in DOMAIN tasks :
         /\ IsNode(canvas.nodes[i]) /\ canvas.nodes[i].id = tasks[i].id /\ canvas.nodes[i].plugin = tasks[i].plugin
         /\ canvas.nodes[i].name = tasks[i].name /\ canvas.nodes[i].config = tasks[i].config
  BY <1>2 DEF IsNode
<1>5. \A k \in DOMAIN drawn :
         /\ IsEdge(canvas.edges[k]) /\ canvas.edges[k].id = <<0, k>> /\ canvas.edges[k].src = drawn[k].src
         /\ canvas.edges[k].dst = drawn[k].dst /\ canvas.edges[k].label = drawn[k].label
  BY <1>2 DEF IsEdge
<1>6. IsMapped(tasks, canvas.nodes) /\ IsMapped(drawn, canvas.edges)
  BY <1>2 DEF IsMapped
<1>7. /\ IsSequence(canvas.nodes) /\ DOMAIN canvas.nodes = DOMAIN tasks
      /\ \A n \in Range(canvas.nodes) : IsNode(n)
  BY <1>3, <1>4, <1>6, SequenceMapped
<1>8. /\ IsSequence(canvas.edges) /\ DOMAIN canvas.edges = DOMAIN drawn
      /\ \A x \in Range(canvas.edges) : \E i \in DOMAIN drawn : x = canvas.edges[i]
      /\ \A i \in DOMAIN drawn : canvas.edges[i] \in Range(canvas.edges)
  BY <1>3, <1>6, SequenceMapped
<1>9. /\ \A i \in DOMAIN drawn : drawn[i] \in Range(drawn)
      /\ \A x \in Range(drawn) : \E i \in DOMAIN drawn : drawn[i] = x
  BY DEF Range
<1>10. \A e \in Range(canvas.edges) : \E d \in Range(drawn) : e.src = d.src /\ e.dst = d.dst /\ e.label = d.label
  BY <1>5, <1>8, <1>9
<1>11. \A d \in Range(drawn) : \E e \in Range(canvas.edges) : e.src = d.src /\ e.dst = d.dst /\ e.label = d.label
  BY <1>5, <1>8, <1>9
<1>12. \A e \in Range(canvas.edges) : IsEdge(e)
  BY <1>5, <1>8
<1> QED BY <1>2, <1>4, <1>5, <1>7, <1>8, <1>10, <1>11, <1>12 DEF Drawn, drawn, tasks, IsCanvas, Recalls

\* A layout moves nodes and does nothing else.
LEMMA LayoutMoves ==
    ASSUME NEW canvas, IsCanvas(canvas), Drawn(canvas.nodes, canvas.edges), NEW t, t = WithLayout(canvas)
    PROVE  /\ Drawn(t.nodes, t.edges) /\ t.edges = canvas.edges /\ DOMAIN t.nodes = DOMAIN canvas.nodes
           /\ \A i \in DOMAIN t.nodes :
                 /\ t.nodes[i].id = canvas.nodes[i].id /\ t.nodes[i].plugin = canvas.nodes[i].plugin
                 /\ t.nodes[i].name = canvas.nodes[i].name /\ t.nodes[i].config = canvas.nodes[i].config
<1>1. CASE t = canvas
  BY <1>1
<1>2. CASE t # canvas
  <2>1. t = Placed(canvas, Layers(canvas))
    BY <1>2 DEF WithLayout, Layout
  <2> DEFINE pos(i) == Coordinates(PlaceOf(canvas.nodes[i].id, Layers(canvas)), Layers(canvas))
             nodes == [i \in DOMAIN canvas.nodes |-> [canvas.nodes[i] EXCEPT !.pos = pos(i)]]
  <2>2. t = [canvas EXCEPT !.nodes = nodes]
    BY <2>1 DEF Placed
  <2>3. t.nodes = nodes /\ t.edges = canvas.edges
    <3> HIDE DEF nodes
    <3> QED BY <2>2 DEF IsCanvas
  <2> HIDE DEF pos
  <2>4. ASSUME NEW i \in DOMAIN canvas.nodes, NEW n, n = nodes[i], NEW o, o = canvas.nodes[i]
        PROVE  IsNode(n) /\ n.id = o.id /\ n.plugin = o.plugin /\ n.name = o.name /\ n.config = o.config
    <3>1. PICK p : p = pos(i)
      OBVIOUS
    <3>2. n = [o EXCEPT !.pos = p]
      BY <3>1, <2>4
    <3>3. IsNode(o)
      BY <2>4, SequenceParts DEF Drawn
    <3> QED BY ONLY <3>2, <3>3 DEF IsNode
  <2>5. IsMapped(canvas.nodes, nodes)
    BY DEF IsMapped
  <2> HIDE DEF nodes
  <2>6. /\ IsSequence(nodes) /\ DOMAIN nodes = DOMAIN canvas.nodes
        /\ \A x \in Range(nodes) : \E i \in DOMAIN canvas.nodes : x = nodes[i]
    BY <2>5, SequenceMapped DEF Drawn
  <2> QED BY <2>3, <2>4, <2>6 DEF Drawn
<1> QED BY <1>1, <1>2

Shape ==
    /\ IsStore(store)
    /\ IsSequence(history.undo) /\ IsSequence(history.redo)
    /\ \A c \in Range(history.undo) \cup Range(history.redo) : IsCommand(c)
    /\ IsSequence(file.tasks)

\* What the handlers of the canvas dispatch are commands.
LEMMA EditsAreCommands ==
    ASSUME Shape,
           NEW c \in Drops \cup DragStops \cup DrawnConnections \cup EdgeDeletions \cup Shortcuts \cup PropertyEdits
    PROVE  IsCommand(c)
<1>1. CASE c \in Drops
  <2>1. PICK plugin \in Plugins, pos \in Places :
           c = AddNodeCommand(NewNode(plugin, pos))
    BY <1>1 DEF Drops
  <2> DEFINE node == NewNode(plugin, pos)
  <2>2. IsNode(node)
    BY DEF IsNode, NewNode
  <2> HIDE DEF node
  <2>3. c = AddNodeCommand(node)
    BY <2>1 DEF node
  <2>4. c.node = node
    BY <2>3 DEF AddNodeCommand
  <2> QED BY <2>2, <2>3, <2>4 DEF IsCommand
<1>2. CASE c \in DragStops
  <2>1. PICK id \in NodeIds(store), pos \in Places : c = MoveNodeCommand(id, pos, NodeOf(id).pos)
    BY <1>2 DEF DragStops
  <2>2. c = MoveNodeCommand(c.id, c.new, c.old)
    BY <2>1 DEF MoveNodeCommand
  <2> QED BY <2>2 DEF IsCommand
<1>3. CASE c \in DrawnConnections
  <2>1. c \in Connections
    BY <1>3 DEF DrawnConnections
  <2>2. PICK source \in Range(store.nodes), target \in NodeIds(store), handle \in Outcomes \cup {NoLabel} :
           c = ConnectEdgeCommand(NewEdge(source, target, handle))
    BY <2>1 DEF Connections
  <2> DEFINE edge == NewEdge(source, target, handle)
  <2>3. IsEdge(edge)
    BY DEF IsEdge, NewEdge
  <2> HIDE DEF edge
  <2>4. c = ConnectEdgeCommand(edge)
    BY <2>2 DEF edge
  <2>5. c.edge = edge
    BY <2>4 DEF ConnectEdgeCommand
  <2> QED BY <2>3, <2>4, <2>5 DEF IsCommand
<1>4. CASE c \in EdgeDeletions
  <2>1. PICK edge \in Range(store.edges) : c = Disconnection(edge.id, -1, <<>>)
    BY <1>4 DEF EdgeDeletions, DisconnectEdgeCommand
  <2>2. c.id = edge.id /\ c.index = -1 /\ c.deleted = <<>>
    BY <2>1 DEF Disconnection
  <2> QED BY <2>1, <2>2 DEF IsCommand
<1>5. CASE c \in Shortcuts
  <2>1. CASE c = PasteCommand
    <3>1. c.made = {} /\ c = [type |-> "PASTE", made |-> {}]
      BY <2>1 DEF PasteCommand
    <3>2. c = [type |-> "PASTE", made |-> c.made]
      BY <3>1
    <3> QED BY <3>2 DEF IsCommand
  <2>2. CASE c = CopySelectionCommand(selection)
    <3>1. c = CopySelectionCommand(c.ids)
      BY <2>2 DEF CopySelectionCommand
    <3> QED BY <3>1 DEF IsCommand
  <2>3. CASE c = DuplicateCommand(selection)
    <3>1. c.ids = selection /\ c.made = {} /\ c = [type |-> "DUPLICATE", ids |-> selection, made |-> {}]
      BY <2>3 DEF DuplicateCommand
    <3>2. c = [type |-> "DUPLICATE", ids |-> c.ids, made |-> c.made]
      BY <3>1
    <3> QED BY <3>2 DEF IsCommand
  <2>4. CASE c = DeleteSelectionCommand(selection)
    <3>1. c = Deletion(selection, <<>>, <<>>)
      BY <2>4 DEF DeleteSelectionCommand
    <3>2. c.ids = selection /\ c.nodes = <<>> /\ c.edges = <<>>
      BY <3>1 DEF Deletion
    <3>3. Drawn(<<>>, <<>>)
      BY SequenceEmpty DEF Drawn
    <3> QED BY <3>1, <3>2, <3>3 DEF IsCommand
  <2> QED BY <1>5, <2>1, <2>2, <2>3, <2>4 DEF Shortcuts
<1>6. CASE c \in PropertyEdits
  <2> DEFINE node == NodeOf(store.selected)
             edits == {e \in {"name"} \X Names \cup {"config"} \X Configs : e[2] # node[e[1]]}
  <2>1. PICK edit \in edits : c = UpdatePropertyCommand(node.id, edit[1], edit[2], node[edit[1]])
    BY <1>6 DEF PropertyEdits
  <2>2. edit[1] \in {"name", "config"}
    OBVIOUS
  <2> HIDE DEF node, edits
  <2>3. c = UpdatePropertyCommand(c.id, c.key, c.new, c.old) /\ c.key = edit[1]
    BY <2>1 DEF UpdatePropertyCommand
  <2> QED BY <2>2, <2>3 DEF IsCommand
<1> QED BY <1>1, <1>2, <1>3, <1>4, <1>5, <1>6

LEMMA ShapeInit == Init => Shape
<1> SUFFICES ASSUME Init PROVE Shape
  OBVIOUS
<1>1. Drawn(<<>>, <<>>)
  BY SequenceEmpty DEF Drawn
<1>2. /\ store.nodes = <<>> /\ store.edges = <<>> /\ store.clip.nodes = <<>> /\ store.clip.edges = <<>>
      /\ store = [nodes |-> store.nodes, edges |-> store.edges, selected |-> store.selected,
                  errors |-> store.errors, clip |-> store.clip]
  BY DEF Init
<1>3. history.undo = <<>> /\ history.redo = <<>> /\ file.tasks = <<>>
  BY DEF Init, NoFile
<1> QED BY <1>1, <1>2, <1>3, SequenceEmpty DEF Shape, IsStore

LEMMA ShapeKept == ASSUME Shape, UNCHANGED <<store, history, file>> PROVE Shape'
BY DEF Shape, IsStore, Drawn, IsSequence, IsNode, IsEdge, IsCommand

LEMMA DispatchShape == ASSUME Shape, NEW c, IsCommand(c), Dispatch(c) PROVE Shape'
<1> DEFINE done == Execute(c, store, clock)
           longer == Append(history.undo, done.cmd)
<1>1. IsStore(done.store) /\ IsCommand(done.cmd)
  BY ExecuteShape DEF Shape
<1>2. store' = done.store /\ history' = Push(history, done.cmd, MaxHistory) /\ file' = file
  BY DEF Dispatch
<1> HIDE DEF done
<1>3. IsSequence(longer) /\ Range(longer) = Range(history.undo) \cup {done.cmd} /\ longer # <<>>
  <2>1. /\ IsSequence(longer) /\ Range(longer) = Range(history.undo) \cup {done.cmd}
        /\ Len(longer) = Len(history.undo) + 1 /\ Len(history.undo) \in Nat
    BY SequenceAppended, SequenceParts DEF Shape
  <2>2. Len(<<>>) = 0
    OBVIOUS
  <2> QED BY <2>1, <2>2
<1>4. /\ history'.undo = IF Len(longer) > MaxHistory THEN Tail(longer) ELSE longer
      /\ history'.redo = <<>>
  BY <1>2 DEF Push
<1> HIDE DEF longer
<1>5. IsSequence(history'.undo) /\ Range(history'.undo) \subseteq Range(history.undo) \cup {done.cmd}
  BY <1>3, <1>4, SequenceTail
<1>6. IsSequence(history'.redo) /\ Range(history'.redo) = {}
  BY <1>4, SequenceEmpty
<1> QED BY <1>1, <1>2, <1>5, <1>6 DEF Shape

LEMMA UndoLastShape == ASSUME Shape, UndoLast PROVE Shape'
<1>1. /\ store' = Undo(Last(history.undo), store) /\ history' = PopUndo(history)
      /\ history.undo # <<>> /\ file' = file
  BY DEF UndoLast
<1>2. /\ IsSequence(Front(history.undo)) /\ Range(Front(history.undo)) \subseteq Range(history.undo)
      /\ Last(history.undo) \in Range(history.undo)
  BY <1>1, SequenceFront DEF Shape
<1>3. IsStore(store')
  BY <1>1, <1>2, UndoShape DEF Shape
<1>4. history'.undo = Front(history.undo) /\ history'.redo = Append(history.redo, Last(history.undo))
  BY <1>1 DEF PopUndo
<1>5. IsSequence(history'.redo) /\ Range(history'.redo) = Range(history.redo) \cup {Last(history.undo)}
  BY <1>4, SequenceAppended DEF Shape
<1> QED BY <1>1, <1>2, <1>3, <1>4, <1>5 DEF Shape

LEMMA RedoLastShape == ASSUME Shape, RedoLast PROVE Shape'
<1> DEFINE done == Execute(Last(history.redo), store, clock)
<1>1. /\ store' = done.store /\ history' = PopRedo(history, done.cmd) /\ history.redo # <<>> /\ file' = file
  BY DEF RedoLast
<1>2. /\ IsSequence(Front(history.redo)) /\ Range(Front(history.redo)) \subseteq Range(history.redo)
      /\ Last(history.redo) \in Range(history.redo)
  BY <1>1, SequenceFront DEF Shape
<1>3. IsStore(done.store) /\ IsCommand(done.cmd)
  BY <1>2, ExecuteShape DEF Shape
<1> HIDE DEF done
<1>4. history'.undo = Append(history.undo, done.cmd) /\ history'.redo = Front(history.redo)
  BY <1>1 DEF PopRedo
<1>5. IsSequence(history'.undo) /\ Range(history'.undo) = Range(history.undo) \cup {done.cmd}
  BY <1>4, SequenceAppended DEF Shape
<1> QED BY <1>1, <1>2, <1>3, <1>4, <1>5 DEF Shape

LEMMA ImportShape ==
    ASSUME Shape, NEW definition, IsSequence(definition.tasks), Import(definition) PROVE Shape'
<1> DEFINE drawing == Deserialize(definition)
           canvas == WithLayout(drawing)
<1>1. IsCanvas(drawing) /\ Drawn(drawing.nodes, drawing.edges)
  BY DeserializedCanvas
<1> HIDE DEF drawing
<1>2. Drawn(canvas.nodes, canvas.edges)
  BY <1>1, LayoutMoves
<1>3. /\ store' = [store EXCEPT !.nodes = canvas.nodes, !.edges = canvas.edges, !.selected = NoNode, !.errors = {}]
      /\ UNCHANGED <<history, file>>
  BY DEF Import, Imported, drawing
<1> HIDE DEF canvas
<1>4. store' = [nodes |-> canvas.nodes, edges |-> canvas.edges, selected |-> NoNode, errors |-> {}, clip |-> store.clip]
  BY <1>3 DEF Shape, IsStore
<1>5. Drawn(store.clip.nodes, store.clip.edges)
  BY DEF Shape, IsStore
<1>6. IsStore(store')
  BY <1>2, <1>4, <1>5 DEF IsStore
<1> QED BY <1>3, <1>6 DEF Shape

\* Only these steps change the store, the history or the file.
LEMMA BuilderSteps ==
    ASSUME [Next]_vars
    PROVE  \/ \E c \in Drops \cup DragStops \cup DrawnConnections \cup EdgeDeletions
                        \cup Shortcuts \cup PropertyEdits : Dispatch(c)
           \/ UndoLast \/ RedoLast
           \/ \E ids \in SUBSET NodeIds(store) : SelectionChange(ids)
           \/ ValidateClick \/ Export
           \/ \E definition \in Files \cup {file} : definition # NoFile /\ Import(definition)
           \/ UNCHANGED <<store, history, file>>
BY DEF Next, vars, Edit, Toolbar, Click, ServeCompile, RequestFails, ServeExecute, BackToBuilder,
       EditorUnchanged

\* Every step keeps the shapes: Shape is inductive.
LEMMA ShapeNext == ASSUME Shape, [Next]_vars PROVE Shape'
<1>1. ASSUME NEW c \in Drops \cup DragStops \cup DrawnConnections \cup EdgeDeletions
                        \cup Shortcuts \cup PropertyEdits, Dispatch(c)
      PROVE  Shape'
  BY <1>1, EditsAreCommands, DispatchShape
<1>2. ASSUME NEW ids, SelectionChange(ids) PROVE Shape'
  <2>1. PICK selected : store' = [store EXCEPT !.selected = selected] /\ UNCHANGED <<history, file>>
    BY <1>2 DEF SelectionChange
  <2>2. store' = [nodes |-> store.nodes, edges |-> store.edges, selected |-> selected, errors |-> store.errors,
                  clip |-> store.clip]
    BY <2>1 DEF Shape, IsStore
  <2>3. IsStore(store')
    BY <2>2 DEF IsStore, Shape
  <2> QED BY <2>1, <2>3 DEF Shape
<1>3. ASSUME ValidateClick PROVE Shape'
  <2>1. PICK errors : store' = [store EXCEPT !.errors = errors] /\ UNCHANGED <<history, file>>
    BY <1>3 DEF ValidateClick
  <2>2. store' = [nodes |-> store.nodes, edges |-> store.edges, selected |-> store.selected, errors |-> errors,
                  clip |-> store.clip]
    BY <2>1 DEF Shape, IsStore
  <2>3. IsStore(store')
    BY <2>2 DEF IsStore, Shape
  <2> QED BY <2>1, <2>3 DEF Shape
<1>4. ASSUME Export PROVE Shape'
  <2>1. file' = Serialize(<<clock>>, store) /\ UNCHANGED <<store, history>>
    BY <1>4 DEF Export
  <2>2. IsSequence(file'.tasks)
    BY <2>1, SerializedTasks DEF Shape, IsStore, Drawn
  <2>3. IsStore(store') /\ IsSequence(history'.undo) /\ IsSequence(history'.redo)
        /\ \A c \in Range(history'.undo) \cup Range(history'.redo) : IsCommand(c)
    BY <2>1 DEF Shape
  <2> QED BY <2>2, <2>3 DEF Shape
<1>5. ASSUME NEW definition \in Files \cup {file}, Import(definition) PROVE Shape'
  <2>1. IsSequence(definition.tasks)
    BY BuilderAssumption DEF Shape, IsSequence
  <2> QED BY <1>5, <2>1, ImportShape
<1> QED BY <1>1, <1>2, <1>3, <1>4, <1>5, BuilderSteps, UndoLastShape, RedoLastShape, ShapeKept

\* Whatever is drawn, undone, pasted and imported, the store holds sequences of nodes
\* and edges, the stacks hold commands, and the file a sequence of tasks: no handler of
\* the builder leaves a hole in a list or a half-built element in it.
THEOREM BuilderShape == Spec => []Shape
<1>1. Init => Shape
  BY ShapeInit
<1>2. Shape /\ [Next]_vars => Shape'
  BY ShapeNext
<1> QED BY <1>1, <1>2, PTL DEF Spec

\* CompileIsDocumented, for the canvas and for what others post.
LEMMA ShapeCompiles == Shape => CompilerAgrees
<1> SUFFICES ASSUME Shape PROVE CompilerAgrees
  OBVIOUS
<1>1. CompilesAsDocumented(Serialize(<<clock>>, store))
  <2>1. IsSequence(Serialize(<<clock>>, store).tasks)
    BY SerializedTasks DEF Shape, IsStore, Drawn
  <2> QED BY <2>1, CompileIsDocumented
<1>2. PostedCompile
  BY BuilderAssumption, CompileIsDocumented DEF PostedCompile, IsSequence
<1> QED BY <1>1, <1>2 DEF CompilerAgrees

\* CompilationService.compile accepts exactly the valid definitions, warns of exactly
\* the unreachable tasks and names a real cycle, for every canvas that can be drawn and
\* every definition that is posted (compilation-service.ts).
THEOREM CompilerIsRight == Spec => []CompilerAgrees
BY BuilderShape, ShapeCompiles, PTL

\* The id of a definition made of the clock before time now.
Stamped(id, now) == \E t \in Nat : t < now /\ id = <<t>>
Request(phase, definition) == [phase |-> phase, definition |-> definition]
Buttons == {"compile", "run"}

\* What the compile route accepted and holds.
Held(definition) ==
    /\ ValidDefinition(definition)
    /\ ComputeHash(definition) \in DOMAIN compiled
    /\ compiled[ComputeHash(definition)] = Translate(definition)

RequestOK(button) ==
    LET r == requests[button]
    IN  \/ r = Idle
        \/ /\ r = Request(r.phase, r.definition) /\ r.phase \in {"compile", "execute"}
           /\ IsSequence(r.definition.tasks) /\ Stamped(r.definition.id, clock)

Waiting(button) == requests[button] # Idle /\ requests[button].phase = "compile"
Executing(button) == requests[button] # Idle /\ requests[button].phase = "execute"

RequestsOK ==
    /\ requests = [button \in Buttons |-> requests[button]]
    /\ \A button \in Buttons : RequestOK(button)

RequestsDiffer ==
    requests["compile"] # Idle /\ requests["run"] # Idle =>
        requests["compile"].definition.id # requests["run"].definition.id

HashesAreOld == \A hash \in DOMAIN compiled : Stamped(hash[1], clock)

\* Nothing is held yet under the id of a definition that waits for its compilation.
WaitingIsNew ==
    \A button \in Buttons : Waiting(button) =>
        \A hash \in DOMAIN compiled : hash[1] # requests[button].definition.id

ExecutingIsHeld == ~Executing("compile") /\ (Executing("run") => Held(requests["run"].definition))

Runs ==
    /\ clock \in Nat
    /\ RequestsOK /\ RequestsDiffer
    /\ HashesAreOld /\ WaitingIsNew
    /\ ExecutingIsHeld

LEMMA PutHolds ==
    ASSUME NEW map, NEW key, NEW value, NEW t, t = Put(map, key, value)
    PROVE  /\ DOMAIN t = DOMAIN map \cup {key} /\ t[key] = value
           /\ \A k \in DOMAIN map : k # key => t[k] = map[k]
BY DEF Put

LEMMA RequestFields ==
    ASSUME NEW phase, NEW definition, NEW r, r = Request(phase, definition)
    PROVE  r.phase = phase /\ r.definition = definition
BY DEF Request

LEMMA HashBegins == ASSUME NEW definition PROVE ComputeHash(definition)[1] = definition.id
BY DEF ComputeHash

LEMMA SuccessTranslates ==
    ASSUME NEW definition, Compile(definition).success
    PROVE  Compile(definition).workflow = Translate(definition)
BY DEF Compile, Finish, Failed

LEMMA StampsStay ==
    ASSUME NEW id, NEW now \in Nat, Stamped(id, now)
    PROVE  Stamped(id, now + 1)
BY DEF Stamped

\* An id made earlier is not the id made now.
LEMMA StampsAreOld ==
    ASSUME NEW id, NEW now \in Nat, Stamped(id, now)
    PROVE  id # <<now>>
BY DEF Stamped

LEMMA StampedNow == ASSUME NEW now \in Nat PROVE Stamped(<<now>>, now + 1)
BY DEF Stamped

\* The parts of the state the runs do not depend on.
LEMMA ClockOfNext ==
    ASSUME clock \in Nat, [Next]_vars
    PROVE  clock' \in {clock, clock + 1}
BY DEF Next, vars, Edit, Dispatch, Tick, UndoLast, RedoLast, SelectionChange, Toolbar, ValidateClick,
       Export, Import, Click, ServeCompile, ServeExecute, RequestFails, BackToBuilder, EditorUnchanged

\* Only these steps touch the requests or the compile route.
LEMMA RunSteps ==
    ASSUME [Next]_vars
    PROVE  \/ \E button \in DOMAIN requests : Click(button) \/ ServeCompile(button) \/ RequestFails(button)
           \/ ServeExecute
           \/ UNCHANGED <<requests, compiled>>
BY DEF Next, vars, Edit, Dispatch, UndoLast, RedoLast, SelectionChange, Toolbar, ValidateClick,
       Export, Import, BackToBuilder, ServerUnchanged

LEMMA RunsInit == Init => Runs
BY DEF Init, Runs, RequestsOK, RequestsDiffer, HashesAreOld, WaitingIsNew, ExecutingIsHeld, Buttons, RequestOK, Waiting, Executing, Idle

LEMMA RunsKept ==
    ASSUME Runs, clock' \in {clock, clock + 1}, UNCHANGED <<requests, compiled>>
    PROVE  Runs'
<1>1. \A id : Stamped(id, clock) => Stamped(id, clock')
  BY StampsStay DEF Runs
<1>2. clock' \in Nat
  BY DEF Runs
<1> QED BY <1>1, <1>2 DEF Runs, RequestsOK, RequestsDiffer, HashesAreOld, WaitingIsNew, ExecutingIsHeld, RequestOK, Waiting,
       Executing, Held

\* A click makes a definition under an id nobody has used yet.
LEMMA ClickRuns ==
    ASSUME Shape, Runs, NEW button \in DOMAIN requests, Click(button)
    PROVE  Runs'
<1> DEFINE definition == Serialize(<<clock>>, store)
<1>1. /\ requests[button] = Idle /\ clock' = clock + 1
      /\ requests' = [requests EXCEPT ![button] = Request("compile", definition)]
      /\ UNCHANGED compiled
  BY DEF Click, Tick, Request
<1>2. IsSequence(definition.tasks) /\ definition.id = <<clock>>
  BY SerializedTasks DEF Shape, IsStore, Drawn
<1> HIDE DEF definition
<1>3. DOMAIN requests = Buttons /\ clock \in Nat
  BY DEF Runs, RequestsOK
<1>4. /\ requests'[button] = Request("compile", definition)
      /\ \A b \in Buttons : b # button => requests'[b] = requests[b]
      /\ requests' = [b \in Buttons |-> requests'[b]]
  BY <1>1, <1>3
<1>5. requests'[button].phase = "compile" /\ requests'[button].definition = definition
  BY <1>4, RequestFields
<1>6. \A id : Stamped(id, clock) => Stamped(id, clock') /\ id # <<clock>>
  BY <1>1, <1>3, StampsStay, StampsAreOld
<1>7. ASSUME NEW b \in Buttons PROVE RequestOK(b)'
  <2>1. CASE b = button
    BY <1>1, <1>2, <1>3, <1>4, <1>5, <2>1, StampedNow DEF RequestOK
  <2>2. CASE b # button
    BY <1>4, <1>6, <2>2 DEF RequestOK, RequestsOK, Runs
  <2> QED BY <2>1, <2>2
<1>8. RequestsDiffer'
  <2>1. ASSUME NEW b \in Buttons, b # button, requests[b] # Idle
        PROVE  requests[b].definition.id # <<clock>>
    BY <1>6, <2>1 DEF Runs, RequestsOK, RequestOK
  <2> QED BY <1>2, <1>3, <1>4, <1>5, <2>1 DEF RequestsDiffer, Buttons
<1>9. HashesAreOld'
  BY <1>1, <1>6 DEF Runs, HashesAreOld
<1>10. WaitingIsNew'
  <2>1. ASSUME NEW b \in Buttons, Waiting(b)', NEW hash \in DOMAIN compiled'
        PROVE  hash[1] # requests'[b].definition.id
    <3>1. CASE b = button
      BY <1>1, <1>2, <1>5, <1>6, <2>1, <3>1 DEF Runs, HashesAreOld
    <3>2. CASE b # button
      BY <1>1, <1>4, <2>1, <3>2 DEF Runs, Waiting, WaitingIsNew
    <3> QED BY <3>1, <3>2
  <2> QED BY <2>1 DEF WaitingIsNew
<1>11. ExecutingIsHeld'
  BY <1>1, <1>4, <1>5 DEF Runs, ExecutingIsHeld, Executing, Held, Buttons
<1>13. clock' \in Nat /\ RequestsOK'
  <2>1. clock' \in Nat
    BY <1>1, <1>3
  <2>2. requests' = [b \in Buttons |-> requests'[b]]
    BY <1>4
  <2>3. RequestsOK'
    BY <1>7, <2>2 DEF RequestsOK
  <2> QED BY <2>1, <2>3
<1> QED BY <1>8, <1>9, <1>10, <1>11, <1>13 DEF Runs


\* What the compile route accepts is new to it, so nothing held is replaced.
LEMMA ServeCompileRuns ==
    ASSUME Runs, NEW button \in DOMAIN requests, ServeCompile(button)
    PROVE  Runs'
<1>0. PICK definition : definition = requests[button].definition
  OBVIOUS
<1> DEFINE hash == ComputeHash(definition)
           success == Compile(definition).success
<1>1. requests[button].phase = "compile" /\ UNCHANGED clock
  BY DEF ServeCompile, EditorUnchanged
<1>2. /\ button \in Buttons /\ requests[button] # Idle /\ RequestOK(button)
      /\ requests[button] = Request("compile", definition)
      /\ IsSequence(definition.tasks) /\ Stamped(definition.id, clock) /\ clock \in Nat
  BY <1>0, <1>1 DEF Runs, RequestsOK, RequestOK, Idle
<1>3. compiled' = IF success THEN Put(compiled, hash, Compile(definition).workflow) ELSE compiled
  BY <1>0 DEF ServeCompile
<1>19. \/ requests' = [requests EXCEPT ![button] = Idle]
       \/ /\ button = "run" /\ success
          /\ requests' = [requests EXCEPT ![button] = [@ EXCEPT !.phase = "execute"]]
  BY <1>0 DEF ServeCompile
<1>4. success => ValidDefinition(definition) /\ Compile(definition).workflow = Translate(definition)
  BY <1>2, CompileAcceptsValid, SuccessTranslates
<1>5. hash[1] = definition.id
  BY HashBegins
<1>6. [requests[button] EXCEPT !.phase = "execute"] = Request("execute", definition)
  BY <1>2 DEF Request
<1> HIDE DEF success, hash
<1>7. hash \notin DOMAIN compiled
  BY <1>1, <1>2, <1>5, <1>0 DEF Runs, WaitingIsNew, Waiting
<1>8. /\ \A h \in DOMAIN compiled : h \in DOMAIN compiled' /\ compiled'[h] = compiled[h]
      /\ \A h \in DOMAIN compiled' : h \in DOMAIN compiled \/ h = hash
      /\ success => hash \in DOMAIN compiled' /\ compiled'[hash] = Translate(definition)
  <2>1. CASE success
    <3>1. compiled' = Put(compiled, hash, Translate(definition))
      BY <1>3, <1>4, <2>1
    <3>2. /\ DOMAIN compiled' = DOMAIN compiled \cup {hash} /\ compiled'[hash] = Translate(definition)
          /\ \A k \in DOMAIN compiled : k # hash => compiled'[k] = compiled[k]
      BY <3>1 DEF Put
    <3> QED BY <1>7, <3>2
  <2>2. CASE ~success
    BY <1>3, <2>2
  <2>3. success \/ ~success
    OBVIOUS
  <2> QED BY ONLY <2>1, <2>2, <2>3
<1>9. /\ requests' = [b \in Buttons |-> requests'[b]]
      /\ \A b \in Buttons : b # button => requests'[b] = requests[b]
      /\ \/ requests'[button] = Idle
         \/ button = "run" /\ success /\ requests'[button] = Request("execute", definition)
  BY <1>2, <1>6, <1>19 DEF Runs, RequestsOK
<1>10. \A d : Held(d) => Held(d)'
  BY <1>8 DEF Held
<1>11. success => Held(definition)'
  BY <1>4, <1>8 DEF Held, hash
<1>12. RequestsOK'
  <2>1. ASSUME NEW b \in Buttons PROVE RequestOK(b)'
    <3>1. CASE b = button
      BY <1>1, <1>2, <1>9, <3>1, RequestFields DEF RequestOK
    <3>2. CASE b # button
      BY <1>1, <1>9, <3>2 DEF RequestOK, RequestsOK, Runs
    <3> QED BY <3>1, <3>2
  <2> QED BY <1>9, <2>1 DEF RequestsOK
<1>13. requests'[button] # Idle => requests'[button].definition = definition /\ requests'[button].phase = "execute"
  BY <1>9, RequestFields
<1>14. RequestsDiffer'
  BY <1>0, <1>2, <1>9, <1>13 DEF Runs, RequestsDiffer, Buttons
<1>15. HashesAreOld'
  BY <1>1, <1>2, <1>5, <1>8 DEF Runs, HashesAreOld
<1>16. WaitingIsNew'
  <2>1. ASSUME NEW b \in Buttons, Waiting(b)', NEW h \in DOMAIN compiled'
        PROVE  h[1] # requests'[b].definition.id
    <3>1. b # button
      BY <1>13, <2>1 DEF Waiting
    <3>2. requests'[b] = requests[b] /\ Waiting(b)
      BY <1>9, <2>1, <3>1 DEF Waiting
    <3>3. requests[b].definition.id # definition.id
      BY <1>0, <1>2, <3>1, <3>2 DEF Runs, RequestsDiffer, Buttons, Waiting
    <3> QED BY <1>5, <1>8, <2>1, <3>2, <3>3 DEF Runs, WaitingIsNew
  <2> QED BY <2>1 DEF WaitingIsNew
<1>17. ExecutingIsHeld'
  <2>1. CASE button = "run"
    <3>1. Executing("run")' => Held(definition)'
      BY <1>9, <1>11, <2>1 DEF Executing
    <3>2. Executing("run")' => requests'["run"].definition = definition
      BY <1>13, <2>1 DEF Executing
    <3>3. requests'["compile"] = requests["compile"]
      BY <1>9, <2>1 DEF Buttons
    <3> QED BY <3>1, <3>2, <3>3 DEF Runs, ExecutingIsHeld, Executing, Held
  <2>2. CASE button = "compile"
    BY <1>9, <1>10, <2>2 DEF Runs, ExecutingIsHeld, Executing, Buttons
  <2> QED BY <1>2, <2>1, <2>2 DEF Buttons
<1> QED BY <1>1, <1>2, <1>12, <1>14, <1>15, <1>16, <1>17 DEF Runs

\* A button that is idle again asks for nothing.
LEMMA IdleRuns ==
    ASSUME Runs, NEW button \in Buttons, requests' = [requests EXCEPT ![button] = Idle],
           UNCHANGED <<compiled, clock>>
    PROVE  Runs'
<1>1. /\ requests' = [b \in Buttons |-> requests'[b]] /\ requests'[button] = Idle
      /\ \A b \in Buttons : b # button => requests'[b] = requests[b]
  BY DEF Runs, RequestsOK
<1>2. RequestsOK' /\ RequestsDiffer'
  BY <1>1 DEF Runs, RequestsOK, RequestOK, RequestsDiffer, Buttons
<1>3. HashesAreOld' /\ WaitingIsNew'
  BY <1>1 DEF Runs, HashesAreOld, WaitingIsNew, Waiting
<1>4. ExecutingIsHeld'
  BY <1>1 DEF Runs, ExecutingIsHeld, Executing, Held, Buttons
<1> QED BY <1>2, <1>3, <1>4 DEF Runs

LEMMA ServeExecuteRuns == ASSUME Runs, ServeExecute PROVE Runs'
BY IdleRuns DEF ServeExecute, Buttons

\* Runs is inductive, beside Shape.
LEMMA RunsNext == ASSUME Shape, Runs, [Next]_vars PROVE Runs'
<1>1. DOMAIN requests = Buttons
  BY DEF Runs, RequestsOK
<1>2. ASSUME NEW button \in DOMAIN requests, RequestFails(button) PROVE Runs'
  <2>1. requests' = [requests EXCEPT ![button] = Idle] /\ UNCHANGED <<compiled, clock>>
    BY <1>2 DEF RequestFails, EditorUnchanged
  <2> QED BY <1>1, <2>1, IdleRuns
<1>3. clock' \in {clock, clock + 1}
  BY ClockOfNext DEF Runs
<1> QED BY <1>2, <1>3, RunSteps, ClickRuns, ServeCompileRuns, ServeExecuteRuns, RunsKept

\* However the two buttons, their answers and the edits in between interleave, the
\* workflow the run button hands to the execute route was accepted by the compile route,
\* is valid, and is still held there under its hash (BuilderToolbar.tsx:140-176,
\* app/api/compile).
THEOREM OnlyValidRuns == Spec => []RunsOnlyValid
<1>1. Init => Shape /\ Runs
  BY ShapeInit, RunsInit
<1>2. Shape /\ Runs /\ [Next]_vars => Shape' /\ Runs'
  BY ShapeNext, RunsNext
<1>3. Runs => RunsOnlyValid
  <2>1. requests["run"].phase = "execute" => Executing("run")
    BY DEF Executing, Idle
  <2> QED BY <2>1 DEF Runs, ExecutingIsHeld, Held, RunsOnlyValid
<1> QED BY <1>1, <1>2, <1>3, PTL DEF Spec

\* The parts of the task that stands for a node.
Named(node) == IF node.name[1] = "" THEN <<node.plugin, 0>> ELSE node.name
FirstWith(out, o) == SelectInSeq(out, LAMBDA e : e.label = o)
DefaultOf(branching, out) == IF branching \/ out = <<>> THEN NoTask ELSE out[1].dst
RoutesOf(branching, out) ==
    [o \in {p \in Outcomes : branching /\ FirstWith(out, p) # 0} |-> out[FirstWith(out, o)].dst]
MakeTask(id, plugin, config, name, default, conditional) ==
    [id |-> id, plugin |-> plugin, config |-> config, name |-> name, default |-> default,
     conditional |-> conditional]

\* A task is made of its node and the edges that leave it.
LEMMA TaskOfParts ==
    ASSUME NEW canvas, NEW node, NEW out, out = Outgoing(canvas, node.id),
           NEW branching, branching = (node.plugin = Condition)
    PROVE  TaskOf(canvas, node) = MakeTask(node.id, node.plugin, node.config, Named(node),
                                           DefaultOf(branching, out), RoutesOf(branching, out))
BY DEF TaskOf, MakeTask, Named, DefaultOf, RoutesOf, FirstWith

LEMMA TaskFields ==
    ASSUME NEW id, NEW plugin, NEW config, NEW name, NEW default, NEW conditional, NEW t,
           t = MakeTask(id, plugin, config, name, default, conditional)
    PROVE  /\ t.id = id /\ t.plugin = plugin /\ t.config = config /\ t.name = name
           /\ t.default = default /\ t.conditional = conditional
BY DEF MakeTask

\* find: the first edge with a label, if there is one.
LEMMA FirstWithFinds ==
    ASSUME NEW out, IsSequence(out), NEW o
    PROVE  \/ FirstWith(out, o) = 0 /\ \A e \in Range(out) : e.label # o
           \/ FirstWith(out, o) \in 1 .. Len(out) /\ out[FirstWith(out, o)].label = o
<1> DEFINE I == {i \in 1 .. Len(out) : out[i].label = o}
<1>1. FirstWith(out, o) = IF I # {} THEN Min(I) ELSE 0
  BY DEF FirstWith, SelectInSeq
<1>2. Len(out) \in Nat /\ \A e \in Range(out) : \E i \in 1 .. Len(out) : out[i] = e
  BY SequenceParts
<1>3. CASE I = {}
  <2>1. FirstWith(out, o) = 0
    BY <1>1, <1>3
  <2>2. ASSUME NEW e \in Range(out), e.label = o PROVE FALSE
    <3>1. PICK i \in 1 .. Len(out) : out[i] = e
      BY <1>2
    <3>2. i \in I
      BY <2>2, <3>1
    <3> QED BY <1>3, <3>2
  <2> QED BY <2>1, <2>2
<1>4. CASE I # {}
  <2>1. I \in SUBSET Nat
    BY <1>2
  <2> HIDE DEF I
  <2>2. \E x \in I : \A y \in I : x <= y
    BY <1>4, <2>1, LeastNumber
  <2>3. Min(I) \in I
    BY <2>2 DEF Min
  <2>4. FirstWith(out, o) \in I
    BY <1>1, <1>4, <2>3
  <2> QED BY <2>4 DEF I
<1> QED BY <1>3, <1>4

\* The edges of out stand for these routes.
Draws(out, default, conditional) ==
    /\ \A e \in Range(out) :
          \/ e.label = NoLabel /\ default # NoTask /\ e.dst = default
          \/ e.label \in Outcomes \cap DOMAIN conditional /\ e.dst = conditional[e.label]
    /\ default # NoTask => \E e \in Range(out) : e.label = NoLabel
    /\ \A o \in Outcomes \cap DOMAIN conditional : \E e \in Range(out) : e.label = o

\* Edges that stand for routes give these routes back, in whatever order they lie.
LEMMA RoutesRedrawn ==
    ASSUME NEW out, IsSequence(out), NEW branching \in BOOLEAN, NEW redrawn, IsSequence(redrawn),
           NEW default, default = DefaultOf(branching, out),
           NEW conditional, conditional = RoutesOf(branching, out),
           Draws(redrawn, default, conditional)
    PROVE  DefaultOf(branching, redrawn) = default /\ RoutesOf(branching, redrawn) = conditional
<1>1. DOMAIN conditional \subseteq Outcomes /\ conditional = [o \in DOMAIN conditional |-> conditional[o]]
      /\ (~branching => DOMAIN conditional = {}) /\ (branching => default = NoTask)
  BY DEF RoutesOf, DefaultOf
<1>2. NoLabel \notin Outcomes
  BY DEF NoLabel, Outcomes
<1>3. DefaultOf(branching, redrawn) = default
  <2>1. CASE branching
    BY <1>1, <2>1 DEF DefaultOf
  <2>2. CASE ~branching /\ default = NoTask
    <3>1. Range(redrawn) = {}
      BY <1>1, <2>2 DEF Draws
    <3>2. redrawn = <<>> \/ redrawn[1] \in Range(redrawn)
      BY SequenceParts, EmptySeq DEF IsSequence
    <3> QED BY <2>2, <3>1, <3>2 DEF DefaultOf
  <2>3. CASE ~branching /\ default # NoTask
    <3>1. Range(redrawn) # {} /\ \A e \in Range(redrawn) : e.dst = default
      BY <1>1, <2>3 DEF Draws
    <3>2. redrawn # <<>>
      BY <3>1, SequenceEmpty
    <3>3. redrawn[1] \in Range(redrawn)
      BY <3>2, SequenceParts, EmptySeq DEF IsSequence
    <3> QED BY <2>3, <3>1, <3>2, <3>3 DEF DefaultOf
  <2> QED BY <2>1, <2>2, <2>3
<1>4. ASSUME NEW o \in Outcomes
      PROVE  /\ o \in DOMAIN conditional <=> FirstWith(redrawn, o) # 0
             /\ o \in DOMAIN conditional => redrawn[FirstWith(redrawn, o)].dst = conditional[o]
  <2>1. \A i \in 1 .. Len(redrawn) : redrawn[i] \in Range(redrawn)
    BY SequenceParts
  <2>2. CASE FirstWith(redrawn, o) = 0 /\ \A e \in Range(redrawn) : e.label # o
    BY <2>2 DEF Draws
  <2>3. CASE FirstWith(redrawn, o) \in 1 .. Len(redrawn) /\ redrawn[FirstWith(redrawn, o)].label = o
    <3>1. redrawn[FirstWith(redrawn, o)] \in Range(redrawn) /\ FirstWith(redrawn, o) # 0
      BY <2>1, <2>3
    <3>2. PICK e \in Range(redrawn) : e = redrawn[FirstWith(redrawn, o)] /\ e.label = o
      BY <2>3, <3>1
    <3>3. o \in Outcomes \cap DOMAIN conditional /\ e.dst = conditional[o]
      BY <1>2, <3>2 DEF Draws
    <3> QED BY <3>1, <3>2, <3>3
  <2> QED BY <2>2, <2>3, FirstWithFinds
<1>5. RoutesOf(branching, redrawn) = conditional
  <2>1. {p \in Outcomes : branching /\ FirstWith(redrawn, p) # 0} = DOMAIN conditional
    BY <1>1, <1>4
  <2> DEFINE other == RoutesOf(branching, redrawn)
  <2>2. other = [o \in DOMAIN conditional |-> redrawn[FirstWith(redrawn, o)].dst]
    BY <2>1 DEF RoutesOf
  <2>3. \A o \in DOMAIN conditional : redrawn[FirstWith(redrawn, o)].dst = conditional[o]
    BY <1>1, <1>4
  <2> HIDE DEF other
  <2>4. other = [o \in DOMAIN conditional |-> conditional[o]]
    BY <2>2, <2>3
  <2> QED BY <1>1, <2>4 DEF other
<1> QED BY <1>3, <1>5

\* The edges a task is drawn with stand for its routes.
LEMMA EdgesOfTaskDraw ==
    ASSUME NEW t, DOMAIN t.conditional \subseteq Outcomes
    PROVE  /\ \A e \in Range(EdgesOf(t)) :
                 /\ e.src = t.id
                 /\ \/ e.label = NoLabel /\ t.default # NoTask /\ e.dst = t.default
                    \/ e.label \in Outcomes \cap DOMAIN t.conditional /\ e.dst = t.conditional[e.label]
           /\ t.default # NoTask => \E e \in Range(EdgesOf(t)) : e.src = t.id /\ e.label = NoLabel
           /\ \A o \in Outcomes \cap DOMAIN t.conditional :
                 \E e \in Range(EdgesOf(t)) : e.src = t.id /\ e.label = o
<1> DEFINE to(target, label) == [src |-> t.id, dst |-> target, label |-> label]
<1>1. Range(EdgesOf(t)) = {e \in {to(t.default, NoLabel)} : t.default # NoTask}
                          \cup {to(t.conditional[o], o) : o \in {"true", "false"} \cap DOMAIN t.conditional}
  BY EdgesOfTask
<1>2. ASSUME NEW target, NEW label, NEW e, e = to(target, label)
      PROVE  e.src = t.id /\ e.dst = target /\ e.label = label
  BY <1>2
<1> HIDE DEF to
<1>3. Outcomes = {"true", "false"}
  BY DEF Outcomes
<1>4. ASSUME NEW e \in Range(EdgesOf(t))
      PROVE  /\ e.src = t.id
             /\ \/ e.label = NoLabel /\ t.default # NoTask /\ e.dst = t.default
                \/ e.label \in Outcomes \cap DOMAIN t.conditional /\ e.dst = t.conditional[e.label]
  <2>1. CASE e = to(t.default, NoLabel) /\ t.default # NoTask
    BY <1>2, <2>1
  <2>2. CASE \E o \in {"true", "false"} \cap DOMAIN t.conditional : e = to(t.conditional[o], o)
    <3>1. PICK o \in {"true", "false"} \cap DOMAIN t.conditional : e = to(t.conditional[o], o)
      BY <2>2
    <3>2. e.src = t.id /\ e.dst = t.conditional[o] /\ e.label = o
      BY <1>2, <3>1
    <3> QED BY <1>3, <3>2
  <2> QED BY <1>1, <2>1, <2>2
<1>5. ASSUME t.default # NoTask
      PROVE  \E e \in Range(EdgesOf(t)) : e.src = t.id /\ e.label = NoLabel
  <2>1. to(t.default, NoLabel) \in Range(EdgesOf(t))
    BY <1>1, <1>5
  <2> QED BY <1>2, <2>1
<1>6. ASSUME NEW o \in Outcomes \cap DOMAIN t.conditional
      PROVE  \E e \in Range(EdgesOf(t)) : e.src = t.id /\ e.label = o
  <2>1. to(t.conditional[o], o) \in Range(EdgesOf(t))
    BY <1>1, <1>3
  <2> QED BY <1>2, <2>1
<1> QED BY <1>4, <1>5, <1>6

\* The nodes of a canvas have their ids for themselves.
LEMMA ImportDraws ==
    ASSUME NEW canvas, Drawn(canvas.nodes, canvas.edges), Distinct(canvas.nodes),
           NEW id, NEW exported, exported = Serialize(id, canvas),
           NEW other, other = Imported(exported)
    PROVE  /\ Drawn(other.nodes, other.edges) /\ DOMAIN other.nodes = DOMAIN canvas.nodes
           /\ \A i \in DOMAIN canvas.nodes :
                 /\ other.nodes[i].id = canvas.nodes[i].id
                 /\ other.nodes[i].plugin = canvas.nodes[i].plugin
                 /\ other.nodes[i].config = canvas.nodes[i].config
                 /\ other.nodes[i].name = Named(canvas.nodes[i])
                 /\ Draws(Outgoing(other, canvas.nodes[i].id), exported.tasks[i].default,
                          exported.tasks[i].conditional)
<1> DEFINE nodes == canvas.nodes
           tasks == exported.tasks
           bare == Deserialize(exported)
           branching(i) == nodes[i].plugin = Condition
           out(i) == Outgoing(canvas, nodes[i].id)
<1>1. /\ IsSequence(tasks) /\ Len(tasks) = Len(nodes)
      /\ tasks = [i \in DOMAIN nodes |-> TaskOf(canvas, nodes[i])]
  BY SerializedTasks DEF Drawn
<1>2. DOMAIN tasks = DOMAIN nodes
  BY <1>1
<1>3. \A i \in DOMAIN nodes :
         tasks[i] = MakeTask(nodes[i].id, nodes[i].plugin, nodes[i].config, Named(nodes[i]),
                             DefaultOf(branching(i), out(i)), RoutesOf(branching(i), out(i)))
  BY <1>1, TaskOfParts
<1>4. \A i \in DOMAIN nodes :
         /\ tasks[i].id = nodes[i].id /\ tasks[i].plugin = nodes[i].plugin
         /\ tasks[i].config = nodes[i].config /\ tasks[i].name = Named(nodes[i])
         /\ tasks[i].conditional = RoutesOf(branching(i), out(i))
  BY <1>3, TaskFields
<1>5. \A i \in DOMAIN nodes : DOMAIN tasks[i].conditional \subseteq Outcomes
  BY <1>4 DEF RoutesOf
<1>9. bare = Deserialize(exported)
  OBVIOUS
<1> HIDE DEF bare
<1>6. IsCanvas(bare) /\ Drawn(bare.nodes, bare.edges) /\ Recalls(bare, tasks)
  BY <1>1, <1>9, DeserializedCanvas
<1> HIDE DEF nodes, tasks, branching, out
<1>7. /\ Drawn(other.nodes, other.edges) /\ other.edges = bare.edges /\ DOMAIN other.nodes = DOMAIN bare.nodes
      /\ \A i \in DOMAIN other.nodes :
            /\ other.nodes[i].id = bare.nodes[i].id /\ other.nodes[i].plugin = bare.nodes[i].plugin
            /\ other.nodes[i].name = bare.nodes[i].name /\ other.nodes[i].config = bare.nodes[i].config
  BY <1>6, LayoutMoves DEF Imported, bare
<1>8. ASSUME NEW i \in DOMAIN nodes
      PROVE  Draws(Outgoing(other, nodes[i].id), tasks[i].default, tasks[i].conditional)
  <2> DEFINE left == Outgoing(other, nodes[i].id)
  <2>1. Range(left) = {e \in Range(other.edges) : e.src = nodes[i].id}
    <3>1. Range(left) = Range(other.edges) \cap {e \in Range(other.edges) : e.src = nodes[i].id}
      BY <1>7, FilterProperties DEF Outgoing, Drawn
    <3> QED BY <3>1
  <2> HIDE DEF left
  <2>2. \A d : d \in Range(DrawnEdges(tasks)) <=> \E j \in DOMAIN tasks : d \in Range(EdgesOf(tasks[j]))
    BY <1>1, DrawnEdgesOfTasks DEF tasks
  <2>3. \A j \in DOMAIN tasks : tasks[j].id = nodes[i].id => j = i
    BY <1>2, <1>4 DEF Distinct, nodes
  <2>4. ASSUME NEW e \in Range(left)
        PROVE  \/ e.label = NoLabel /\ tasks[i].default # NoTask /\ e.dst = tasks[i].default
               \/ /\ e.label \in Outcomes \cap DOMAIN tasks[i].conditional
                  /\ e.dst = tasks[i].conditional[e.label]
    <3>1. e \in Range(bare.edges) /\ e.src = nodes[i].id
      BY <1>7, <2>1
    <3>2. PICK d \in Range(DrawnEdges(tasks)) : e.src = d.src /\ e.dst = d.dst /\ e.label = d.label
      BY <1>6, <3>1 DEF Recalls
    <3>3. PICK j \in DOMAIN tasks : d \in Range(EdgesOf(tasks[j]))
      BY <2>2, <3>2
    <3>4. /\ d.src = tasks[j].id
          /\ \/ d.label = NoLabel /\ tasks[j].default # NoTask /\ d.dst = tasks[j].default
             \/ d.label \in Outcomes \cap DOMAIN tasks[j].conditional /\ d.dst = tasks[j].conditional[d.label]
      BY <1>2, <1>5, <3>3, EdgesOfTaskDraw
    <3>5. j = i
      BY <2>3, <3>1, <3>2, <3>4
    <3> QED BY <3>2, <3>4, <3>5
  <2>5. ASSUME NEW label, NEW d \in Range(EdgesOf(tasks[i])), d.src = tasks[i].id, d.label = label
        PROVE  \E e \in Range(left) : e.label = label
    <3>1. d \in Range(DrawnEdges(tasks))
      BY <1>2, <2>2
    <3>2. PICK e \in Range(bare.edges) : e.src = d.src /\ e.label = d.label
      BY <1>6, <3>1 DEF Recalls
    <3> QED BY <1>2, <1>4, <1>7, <2>1, <2>5, <3>2
  <2>6. DOMAIN tasks[i].conditional \subseteq Outcomes
    BY <1>5
  <2>7. tasks[i].default # NoTask => \E e \in Range(left) : e.label = NoLabel
    BY <2>5, <2>6, EdgesOfTaskDraw
  <2>8. \A o \in Outcomes \cap DOMAIN tasks[i].conditional : \E e \in Range(left) : e.label = o
    BY <2>5, <2>6, EdgesOfTaskDraw
  <2> QED BY <2>4, <2>7, <2>8 DEF Draws, left
<1> QED BY <1>2, <1>4, <1>6, <1>7, <1>8 DEF nodes, tasks, Recalls

\* An export that is imported again, laid out or not, has the tasks it had.
LEMMA ExportSurvives ==
    ASSUME NEW canvas, Drawn(canvas.nodes, canvas.edges), Distinct(canvas.nodes)
    PROVE  SurvivesExport(canvas)
<1> DEFINE exported == Serialize(NoTask, canvas)
           other == Imported(exported)
           again == Serialize(NoTask, other)
           nodes == canvas.nodes
<1>1. /\ Drawn(other.nodes, other.edges) /\ DOMAIN other.nodes = DOMAIN nodes
      /\ \A i \in DOMAIN nodes :
            /\ other.nodes[i].id = nodes[i].id /\ other.nodes[i].plugin = nodes[i].plugin
            /\ other.nodes[i].config = nodes[i].config /\ other.nodes[i].name = Named(nodes[i])
            /\ Draws(Outgoing(other, nodes[i].id), exported.tasks[i].default, exported.tasks[i].conditional)
  BY ImportDraws
<1>2. exported.tasks = [i \in DOMAIN nodes |-> TaskOf(canvas, nodes[i])]
  BY SerializedTasks DEF Drawn
<1> HIDE DEF other
<1>3. again.tasks = [i \in DOMAIN other.nodes |-> TaskOf(other, other.nodes[i])]
  BY <1>1, SerializedTasks DEF Drawn
<1> HIDE DEF exported, again, nodes
<1>4. ASSUME NEW i \in DOMAIN nodes PROVE TaskOf(other, other.nodes[i]) = TaskOf(canvas, nodes[i])
  <2> DEFINE node == nodes[i]
             redrawn == other.nodes[i]
             branching == node.plugin = Condition
             out == Outgoing(canvas, node.id)
             left == Outgoing(other, node.id)
             default == DefaultOf(branching, out)
             conditional == RoutesOf(branching, out)
  <2>1. /\ redrawn.id = node.id /\ redrawn.plugin = node.plugin /\ redrawn.config = node.config
        /\ redrawn.name = Named(node)
    BY <1>1
  <2>2. IsSequence(out) /\ IsSequence(left)
    BY <1>1, FilterProperties DEF Outgoing, Drawn
  <2>3. TaskOf(canvas, node) = MakeTask(node.id, node.plugin, node.config, Named(node), default, conditional)
    BY TaskOfParts
  <2>4. exported.tasks[i].default = default /\ exported.tasks[i].conditional = conditional
    BY <1>2, <2>3, TaskFields
  <2>5. Draws(left, default, conditional)
    BY <1>1, <2>4
  <2>6. branching \in BOOLEAN
    OBVIOUS
  <2> HIDE DEF branching, left, out
  <2>7. DefaultOf(branching, left) = default /\ RoutesOf(branching, left) = conditional
    BY <2>2, <2>5, <2>6, RoutesRedrawn
  <2>8. Named(redrawn) = Named(node)
    BY <2>1 DEF Named
  <2>9. TaskOf(other, redrawn) = MakeTask(redrawn.id, redrawn.plugin, redrawn.config, Named(redrawn),
                                          DefaultOf(branching, left), RoutesOf(branching, left))
    BY <2>1, TaskOfParts DEF branching, left
  <2> QED BY <2>1, <2>3, <2>7, <2>8, <2>9
<1>5. again.tasks = exported.tasks
  BY <1>1, <1>2, <1>3, <1>4
<1> QED BY <1>5 DEF SurvivesExport, exported, again, other

\* Exporting a canvas without repeated ids and importing the file again changes no task
\* and no route: name defaults, dropped labels and new edge ids notwithstanding
\* (WorkflowDefinitionAdapter.serialize and deserialize, BuilderToolbar.handleFileChange).
THEOREM ReimportIsHarmless == Spec => []ReimportKeepsTasks
<1>1. Shape => ReimportKeepsTasks
  <2> SUFFICES ASSUME Shape, Distinct(store.nodes) PROVE SurvivesExport([nodes |-> store.nodes, edges |-> store.edges])
    BY DEF ReimportKeepsTasks
  <2> DEFINE canvas == [nodes |-> store.nodes, edges |-> store.edges]
  <2>1. canvas.nodes = store.nodes /\ canvas.edges = store.edges
    OBVIOUS
  <2> HIDE DEF canvas
  <2>2. SurvivesExport(canvas)
    BY <2>1, ExportSurvives DEF Shape, IsStore
  <2> QED BY <2>2 DEF canvas
<1> QED BY <1>1, BuilderShape, PTL

----------------------------------------------------------------------------
(* The layout: counting.                                                      *)

\* As many elements as places.
LEMMA CountOfSequence ==
    ASSUME NEW s, IsSequence(s), IsInjective(s)
    PROVE  IsFiniteSet(Range(s)) /\ Cardinality(Range(s)) = Len(s)
<1>1. /\ Len(s) \in Nat /\ DOMAIN s = 1 .. Len(s)
      /\ \A i \in 1 .. Len(s) : s[i] \in Range(s)
      /\ \A x \in Range(s) : \E i \in 1 .. Len(s) : s[i] = x
  BY SequenceParts
<1>2. s \in [1 .. Len(s) -> Range(s)]
  <2>1. s = [i \in 1 .. Len(s) |-> s[i]]
    BY SequenceParts
  <2> QED BY <1>1, <2>1
<1>3. s \in Surjection(1 .. Len(s), Range(s)) /\ s \in Injection(1 .. Len(s), Range(s))
  <2> DEFINE n == Len(s)
  <2> HIDE DEF n
  <2>1. s \in [1 .. n -> Range(s)] /\ \A x \in Range(s) : \E i \in 1 .. n : s[i] = x
    BY <1>1, <1>2 DEF n
  <2>2. s \in Surjection(1 .. n, Range(s))
    BY <2>1, Zenon DEF Surjection
  <2>3. s \in Injection(1 .. n, Range(s))
    BY <2>1, Zenon DEF Injection
  <2> QED BY <2>2, <2>3 DEF n
<1>4. IsFiniteSet(1 .. Len(s)) /\ Cardinality(1 .. Len(s)) = Len(s)
  BY <1>1, FS_Interval
<1> QED BY <1>3, <1>4, FS_Surjection

\* filter of a sequence without repeats.
LEMMA FilterCounts ==
    ASSUME NEW seq, IsSequence(seq), IsInjective(seq), NEW kept
    PROVE  /\ IsInjective(Filter(seq, kept)) /\ IsFiniteSet(Range(seq) \cap kept)
           /\ Len(Filter(seq, kept)) = Cardinality(Range(seq) \cap kept)
<1> DEFINE t == Filter(seq, kept)
<1>1. IsSequence(t) /\ Range(t) = Range(seq) \cap kept
  BY FilterProperties
<1>2. PICK f : Sifts(t, f, seq, Len(seq), kept)
  BY FilterSifts
<1> HIDE DEF t
<1>3. Len(t) \in Nat /\ DOMAIN t = 1 .. Len(t) /\ Len(seq) \in Nat /\ DOMAIN seq = 1 .. Len(seq)
  BY <1>1, SequenceParts
<1>4. ASSUME NEW i \in 1 .. Len(t), NEW j \in 1 .. Len(t), t[i] = t[j] PROVE i = j
  <2>1. /\ f[i] \in 1 .. Len(seq) /\ f[j] \in 1 .. Len(seq) /\ seq[f[i]] = seq[f[j]]
        /\ i < j => f[i] < f[j]
        /\ j < i => f[j] < f[i]
    BY <1>2, <1>4 DEF Sifts
  <2>2. f[i] = f[j]
    BY <1>3, <2>1 DEF IsInjective
  <2> QED BY <1>3, <2>1, <2>2
<1>5. IsInjective(t)
  BY <1>3, <1>4 DEF IsInjective
<1>6. IsFiniteSet(Range(t)) /\ Cardinality(Range(t)) = Len(t)
  BY <1>1, <1>5, CountOfSequence
<1> QED BY <1>1, <1>5, <1>6 DEF t

----------------------------------------------------------------------------
(* The layout: its loops.                                                     *)

LayoutIds(canvas) == NodeIds(canvas) \cup {canvas.edges[i].dst : i \in DOMAIN canvas.edges}
Counts(canvas) == [degree : [LayoutIds(canvas) -> Nat], queue : Seq(LayoutIds(canvas))]

LEMMA ReleaseTyped ==
    ASSUME NEW canvas, NEW acc \in Counts(canvas), NEW id \in LayoutIds(canvas)
    PROVE  Release(acc, id) \in Counts(canvas)
<1> DEFINE left == (IF acc.degree[id] = 0 THEN 1 ELSE acc.degree[id]) - 1
<1>1. acc.degree[id] \in Nat /\ acc.degree \in [LayoutIds(canvas) -> Nat] /\ acc.queue \in Seq(LayoutIds(canvas))
  BY DEF Counts
<1>2. left \in Nat
  BY <1>1
<1> HIDE DEF left
<1>3. [acc.degree EXCEPT ![id] = left] \in [LayoutIds(canvas) -> Nat]
  BY <1>1, <1>2
<1>4. Append(acc.queue, id) \in Seq(LayoutIds(canvas))
  BY <1>1, AppendProperties
<1>5. Release(acc, id) = [degree |-> [acc.degree EXCEPT ![id] = left],
                          queue |-> IF left = 0 THEN Append(acc.queue, id) ELSE acc.queue]
  BY DEF Release, left
<1> QED BY <1>1, <1>3, <1>4, <1>5 DEF Counts

\* The nodes that an id leads to.
Out(canvas, id) == IF id \in NodeIds(canvas) THEN Outgoing(canvas, id) ELSE <<>>
EdgesFrom(canvas, id) == {e \in Range(canvas.edges) : e.src = id}

LEMMA OutIs ==
    ASSUME NEW canvas, Drawn(canvas.nodes, canvas.edges), NEW id
    PROVE  /\ IsSequence(Out(canvas, id)) /\ Len(Out(canvas, id)) \in Nat
           /\ Range(Out(canvas, id)) = IF id \in NodeIds(canvas) THEN EdgesFrom(canvas, id) ELSE {}
           /\ \A k \in 1 .. Len(Out(canvas, id)) :
                 /\ Out(canvas, id)[k] \in Range(Out(canvas, id))
                 /\ Out(canvas, id)[k].dst \in LayoutIds(canvas)
<1> DEFINE out == Out(canvas, id)
<1>1. IsSequence(canvas.edges)
  BY DEF Drawn
<1>2. IsSequence(out) /\ Range(out) = IF id \in NodeIds(canvas) THEN EdgesFrom(canvas, id) ELSE {}
  <2>1. CASE id \in NodeIds(canvas)
    <3>1. out = Filter(canvas.edges, EdgesFrom(canvas, id))
      BY <2>1 DEF Out, Outgoing, EdgesFrom
    <3>2. IsSequence(out) /\ Range(out) = Range(canvas.edges) \cap EdgesFrom(canvas, id)
      BY <1>1, <3>1, FilterProperties
    <3> QED BY <2>1, <3>2 DEF EdgesFrom
  <2>2. CASE id \notin NodeIds(canvas)
    BY <2>2, SequenceEmpty DEF Out
  <2> QED BY <2>1, <2>2
<1> HIDE DEF out
<1>3. Len(out) \in Nat /\ \A k \in 1 .. Len(out) : out[k] \in Range(out)
  BY <1>2, SequenceParts
<1>4. ASSUME NEW e \in Range(canvas.edges) PROVE e.dst \in LayoutIds(canvas)
  <2>1. PICK i \in DOMAIN canvas.edges : canvas.edges[i] = e
    BY <1>1, SequenceParts
  <2> QED BY <2>1 DEF LayoutIds
<1>5. Range(out) \subseteq Range(canvas.edges)
  BY <1>2 DEF EdgesFrom
<1> QED BY <1>2, <1>3, <1>4, <1>5 DEF out

TargetsRun(r, out, acc) ==
    r = [k \in 0 .. Len(out) |-> IF k = 0 THEN acc ELSE Release(r[k - 1], out[k].dst)]

\* The inner loop, for the edges that leave a node.
LEMMA TargetsRunExists ==
    ASSUME NEW canvas, NEW out, Len(out) \in Nat, \A k \in 1 .. Len(out) : out[k].dst \in LayoutIds(canvas),
           NEW acc \in Counts(canvas)
    PROVE  \E r : TargetsRun(r, out, acc) /\ \A k \in 0 .. Len(out) : r[k] \in Counts(canvas)
<1> DEFINE N == Len(out)
           A == Counts(canvas)
           next == [p \in (1 .. N) \X A |-> Release(p[2], out[p[1]].dst)]
<1>1. next \in [(1 .. N) \X A -> A]
  BY ReleaseTyped
<1>2. PICK r : Repeats(r, N, A, acc, next)
  <2> HIDE DEF next, N, A
  <2>1. N \in Nat /\ acc \in A
    BY DEF N, A
  <2> QED BY <1>1, <2>1, RecursionExists
<1>3. r \in [0 .. N -> A] /\ r[0] = acc /\ \A n \in 1 .. N : r[n] = next[<<n, r[n - 1]>>]
  <2> HIDE DEF next, A, N
  <2> QED BY <1>2 DEF Repeats
<1>4. ASSUME NEW k \in 1 .. N PROVE r[k] = Release(r[k - 1], out[k].dst)
  <2>1. k - 1 \in 0 .. N
    BY <1>4
  <2>2. r[k - 1] \in A
    BY <1>3, <2>1
  <2>3. <<k, r[k - 1]>> \in (1 .. N) \X A
    BY <2>2
  <2>4. r[k] = next[<<k, r[k - 1]>>]
    BY <1>3
  <2> HIDE DEF A, N
  <2> QED BY <2>3, <2>4
<1>5. ASSUME NEW k \in 0 .. N PROVE r[k] = IF k = 0 THEN acc ELSE Release(r[k - 1], out[k].dst)
  <2>1. k = 0 \/ (k \in 1 .. N /\ k # 0)
    BY <1>5
  <2> HIDE DEF N
  <2> QED BY <2>1, <1>3, <1>4
<1>6. r = [k \in 0 .. N |-> r[k]]
  BY <1>3
<1>7. TargetsRun(r, out, acc)
  BY <1>5, <1>6, Zenon DEF TargetsRun
<1> QED BY <1>3, <1>7

\* The two nested loops of a pass, and their types.
LEMMA TargetsRunIs ==
    ASSUME NEW canvas, Drawn(canvas.nodes, canvas.edges), NEW acc \in Counts(canvas), NEW id
    PROVE  \E r : /\ r[0] = acc /\ ReleaseTargets(canvas, acc, id) = r[Len(Out(canvas, id))]
                  /\ \A k \in 0 .. Len(Out(canvas, id)) : r[k] \in Counts(canvas)
                  /\ \A k \in 1 .. Len(Out(canvas, id)) : r[k] = Release(r[k - 1], Out(canvas, id)[k].dst)
<1> DEFINE out == Out(canvas, id)
           r == CHOOSE f : TargetsRun(f, out, acc)
<1>1. Len(out) \in Nat /\ \A k \in 1 .. Len(out) : out[k].dst \in LayoutIds(canvas)
  BY OutIs
<1>2. ReleaseTargets(canvas, acc, id) = r[Len(out)]
  BY Zenon DEF ReleaseTargets, TargetsRun, Out
<1> HIDE DEF out
<1>3. PICK g : TargetsRun(g, out, acc) /\ \A k \in 0 .. Len(out) : g[k] \in Counts(canvas)
  BY <1>1, TargetsRunExists
<1>4. TargetsRun(r, out, acc)
  BY <1>3
<1> HIDE DEF r
<1>5. r[0] = acc
  BY <1>1, <1>4 DEF TargetsRun
<1>6. ASSUME NEW k \in 1 .. Len(out) PROVE r[k] = Release(r[k - 1], out[k].dst)
  <2>1. k \in 0 .. Len(out) /\ k # 0
    BY <1>1
  <2> QED BY <2>1, <1>4 DEF TargetsRun
<1> DEFINE T == {k \in Nat : k <= Len(out) => r[k] \in Counts(canvas)}
<1>7. ASSUME NEW k \in Nat, \A m \in 0 .. k - 1 : m \in T PROVE k \in T
  <2>1. CASE k = 0
    BY <1>5, <2>1
  <2>2. CASE k > 0 /\ k <= Len(out)
    <3>1. k - 1 \in 0 .. k - 1 /\ k - 1 <= Len(out) /\ k \in 1 .. Len(out)
      BY <1>1, <2>2
    <3>2. r[k - 1] \in Counts(canvas)
      BY <1>7, <3>1
    <3> QED BY <1>1, <1>6, <3>1, <3>2, ReleaseTyped
  <2> QED BY <2>1, <2>2
<1>8. T = Nat
  <2>1. T \in SUBSET Nat
    OBVIOUS
  <2> HIDE DEF T
  <2> QED BY <2>1, <1>7, AllNumbers
<1>9. \A k \in 0 .. Len(out) : r[k] \in Counts(canvas)
  BY <1>1, <1>8
<1> QED BY <1>2, <1>5, <1>6, <1>9 DEF out

----------------------------------------------------------------------------
(* The layout: what a pass does. X are the edges that are released.           *)

Into(canvas, id) == {e \in Range(canvas.edges) : e.dst = id}
From(canvas, P) == {e \in Range(canvas.edges) : e.src \in P}

\* A canvas whose ids are distinct and whose edges start at nodes.
Sketch(canvas) ==
    /\ Drawn(canvas.nodes, canvas.edges) /\ Distinct(canvas.nodes) /\ Distinct(canvas.edges)
    /\ \A e \in Range(canvas.edges) : e.src \in NodeIds(canvas)

\* The degrees count the edges left, and what has none left since X0 is queued, once.
Freed(acc, canvas, X, X0) ==
    /\ acc \in Counts(canvas)
    /\ \A t \in LayoutIds(canvas) : acc.degree[t] = Cardinality(Into(canvas, t) \ X)
    /\ IsInjective(acc.queue)
    /\ Range(acc.queue) = {t \in LayoutIds(canvas) : Into(canvas, t) \subseteq X /\ ~(Into(canvas, t) \subseteq X0)}

LEMMA DistinctIsInjective ==
    ASSUME NEW s, Distinct(s)
    PROVE  IsInjective(s)
BY DEF Distinct, IsInjective

LEMMA InjectiveAppended ==
    ASSUME NEW s, IsSequence(s), IsInjective(s), NEW x, x \notin Range(s)
    PROVE  IsInjective(Append(s, x))
<1>1. /\ Len(s) \in Nat /\ DOMAIN s = 1 .. Len(s)
      /\ \A i \in 1 .. Len(s) : s[i] \in Range(s)
  BY SequenceParts
<1> DEFINE t == Append(s, x)
           n == Len(s)
<1>2. IsSequence(t) /\ Len(t) = n + 1 /\ t[n + 1] = x /\ \A i \in 1 .. n : t[i] = s[i]
  BY SequenceAppended
<1>3. DOMAIN t = 1 .. Len(t)
  BY <1>2, SequenceParts
<1> HIDE DEF t
<1>4. \A i, j \in 1 .. n : s[i] = s[j] => i = j
  BY <1>1 DEF IsInjective
<1> HIDE DEF n
<1>5. ASSUME NEW i \in 1 .. n + 1, NEW j \in 1 .. n + 1, t[i] = t[j] PROVE i = j
  <2>0. n \in Nat
    BY <1>1 DEF n
  <2>1. (i \in 1 .. n \/ i = n + 1) /\ (j \in 1 .. n \/ j = n + 1)
    BY <2>0
  <2>2. \A k \in 1 .. n : t[k] # x
    BY <1>1, <1>2 DEF n
  <2> QED BY <1>2, <1>4, <1>5, <2>1, <2>2
<1> QED BY <1>2, <1>3, <1>5 DEF IsInjective, t

\* One edge is released.
LEMMA ReleaseFrees ==
    ASSUME NEW canvas, IsFiniteSet(Range(canvas.edges)), NEW X, NEW X0, X0 \subseteq X,
           NEW acc, Freed(acc, canvas, X, X0),
           NEW e \in Range(canvas.edges), e \notin X, NEW id \in LayoutIds(canvas), id = e.dst
    PROVE  Freed(Release(acc, id), canvas, X \cup {e}, X0)
<1> DEFINE Y == X \cup {e}
           left == (IF acc.degree[id] = 0 THEN 1 ELSE acc.degree[id]) - 1
           I(t) == Into(canvas, t)
<1>1. acc.degree \in [LayoutIds(canvas) -> Nat] /\ acc.queue \in Seq(LayoutIds(canvas))
  BY DEF Freed, Counts
<1>2. \A t : IsFiniteSet(I(t) \ X)
  <2>1. ASSUME NEW t PROVE IsFiniteSet(I(t) \ X)
    <3>1. I(t) \ X \in SUBSET Range(canvas.edges)
      BY DEF Into
    <3> HIDE DEF I
    <3> QED BY <3>1, FS_Subset
  <2> QED BY <2>1
<1>3. /\ e \in I(id) /\ I(id) \ Y = (I(id) \ X) \ {e} /\ e \in I(id) \ X
      /\ \A t : t # id => I(t) \ Y = I(t) \ X /\ e \notin I(t)
  BY DEF Into
<1>4. \A t \in LayoutIds(canvas) : acc.degree[t] = Cardinality(I(t) \ X)
  BY DEF Freed
<1> HIDE DEF I
<1>5. /\ Cardinality(I(id) \ Y) = acc.degree[id] - 1 /\ IsFiniteSet(I(id) \ Y)
      /\ Cardinality(I(id) \ Y) \in Nat
  <2>1. /\ IsFiniteSet((I(id) \ X) \ {e})
        /\ Cardinality((I(id) \ X) \ {e}) = Cardinality(I(id) \ X) - 1
    BY <1>2, <1>3, FS_RemoveElement
  <2>2. Cardinality((I(id) \ X) \ {e}) \in Nat
    BY <2>1, FS_CardinalityType
  <2> QED BY <1>3, <1>4, <2>1, <2>2
<1>6. left = Cardinality(I(id) \ Y)
  BY <1>1, <1>5
<1>7. left = 0 <=> I(id) \subseteq Y
  <2>1. left = 0 <=> I(id) \ Y = {}
    BY <1>5, <1>6, FS_EmptySet
  <2> QED BY <2>1
<1> DEFINE after == Release(acc, id)
<1>8. /\ after.degree = [acc.degree EXCEPT ![id] = left]
      /\ after.queue = IF left = 0 THEN Append(acc.queue, id) ELSE acc.queue
  BY DEF Release
<1>9. after \in Counts(canvas)
  BY ReleaseTyped DEF Freed
<1> HIDE DEF left, after, Y
<1>10. ASSUME NEW t \in LayoutIds(canvas) PROVE after.degree[t] = Cardinality(I(t) \ Y)
  <2>1. CASE t = id
    BY <1>1, <1>6, <1>8, <2>1
  <2>2. CASE t # id
    BY <1>1, <1>3, <1>4, <1>8, <2>2
  <2> QED BY <2>1, <2>2
<1>11. IsSequence(acc.queue) /\ IsInjective(acc.queue)
  BY <1>1, SequenceOf DEF Freed
<1>12. \A t : t \in Range(acc.queue) <=> t \in LayoutIds(canvas) /\ I(t) \subseteq X /\ ~(I(t) \subseteq X0)
  BY DEF Freed, I
<1>13. id \notin Range(acc.queue)
  BY <1>3, <1>12
<1>14. IsInjective(after.queue)
  BY <1>8, <1>11, <1>13, InjectiveAppended
<1>15. \A t : t \in Range(after.queue) <=> t \in Range(acc.queue) \/ (t = id /\ left = 0)
  BY <1>8, <1>11, SequenceAppended
<1>16. ASSUME NEW t
       PROVE  t \in Range(after.queue) <=> t \in LayoutIds(canvas) /\ I(t) \subseteq Y /\ ~(I(t) \subseteq X0)
  <2>1. CASE t = id
    <3>1. ~(I(id) \subseteq X0)
      BY <1>3
    <3> QED BY <1>7, <1>13, <1>15, <2>1, <3>1
  <2>2. CASE t # id
    <3>1. I(t) \subseteq Y <=> I(t) \subseteq X
      BY <1>3, <2>2 DEF Y
    <3> QED BY <1>12, <1>15, <2>2, <3>1
  <2> QED BY <2>1, <2>2
<1> QED BY <1>9, <1>10, <1>14, <1>16 DEF Freed, I, after, Y

\* All edges that leave a node are released.
LEMMA TargetsFree ==
    ASSUME NEW canvas, Sketch(canvas), IsFiniteSet(Range(canvas.edges)), NEW X, NEW X0, X0 \subseteq X,
           NEW acc, Freed(acc, canvas, X, X0), NEW id, EdgesFrom(canvas, id) \cap X = {}
    PROVE  Freed(ReleaseTargets(canvas, acc, id), canvas, X \cup EdgesFrom(canvas, id), X0)
<1> DEFINE out == Out(canvas, id)
           N == Len(out)
           Y(k) == X \cup {out[i] : i \in 1 .. k}
<1>1. /\ IsSequence(out) /\ N \in Nat
      /\ Range(out) = IF id \in NodeIds(canvas) THEN EdgesFrom(canvas, id) ELSE {}
      /\ \A k \in 1 .. N : out[k] \in Range(out) /\ out[k].dst \in LayoutIds(canvas)
  BY OutIs DEF Sketch
<1>2. Range(out) = EdgesFrom(canvas, id)
  BY <1>1 DEF Sketch, EdgesFrom
<1>3. \A i, j \in 1 .. N : out[i] = out[j] => i = j
  <2>1. IsInjective(out)
    <3>1. CASE id \in NodeIds(canvas)
      <4>1. out = Filter(canvas.edges, EdgesFrom(canvas, id))
        BY <3>1 DEF Out, Outgoing, EdgesFrom
      <4>2. IsSequence(canvas.edges) /\ IsInjective(canvas.edges)
        BY DistinctIsInjective DEF Sketch, Drawn
      <4> QED BY <4>1, <4>2, FilterCounts
    <3>2. CASE id \notin NodeIds(canvas)
      <4>1. out = <<>> /\ DOMAIN <<>> = {}
        BY <3>2 DEF Out
      <4> QED BY <4>1 DEF IsInjective
    <3> QED BY <3>1, <3>2
  <2>2. DOMAIN out = 1 .. N
    BY <1>1, SequenceParts
  <2> QED BY <2>1, <2>2 DEF IsInjective
<1>4. PICK r : /\ r[0] = acc /\ ReleaseTargets(canvas, acc, id) = r[N]
               /\ \A k \in 0 .. N : r[k] \in Counts(canvas)
               /\ \A k \in 1 .. N : r[k] = Release(r[k - 1], out[k].dst)
  BY TargetsRunIs DEF Sketch, Freed
<1>5. Range(out) = {out[i] : i \in 1 .. N}
  BY <1>1, SequenceParts
<1> HIDE DEF out, N
<1> DEFINE T == {k \in Nat : k <= N => Freed(r[k], canvas, Y(k), X0)}
<1>6. ASSUME NEW k \in Nat, \A m \in 0 .. k - 1 : m \in T PROVE k \in T
  <2>1. CASE k = 0
    <3>1. Y(0) = X
      OBVIOUS
    <3> QED BY <1>4, <2>1, <3>1
  <2>2. CASE k > 0 /\ k <= N
    <3>1. k - 1 \in 0 .. k - 1 /\ k - 1 <= N /\ k \in 1 .. N
      BY <1>1, <2>2
    <3>2. Freed(r[k - 1], canvas, Y(k - 1), X0)
      BY <1>6, <3>1
    <3>3. Y(k) = Y(k - 1) \cup {out[k]}
      <4>1. \A i : i \in 1 .. k <=> i \in 1 .. k - 1 \/ i = k
        BY <2>2
      <4> QED BY <4>1
    <3>4. out[k] \notin Y(k - 1)
      <4>1. out[k] \notin X
        BY <1>1, <1>2, <3>1
      <4>2. \A i \in 1 .. k - 1 : i \in 1 .. N /\ i # k
        BY <1>1, <2>2
      <4> QED BY <1>3, <3>1, <4>1, <4>2
    <3>5. out[k] \in Range(canvas.edges) /\ out[k].dst \in LayoutIds(canvas)
      BY <1>1, <1>2, <3>1 DEF EdgesFrom
    <3>6. X0 \subseteq Y(k - 1)
      OBVIOUS
    <3> HIDE DEF Y
    <3>7. Freed(Release(r[k - 1], out[k].dst), canvas, Y(k - 1) \cup {out[k]}, X0)
      BY <3>2, <3>4, <3>5, <3>6, ReleaseFrees
    <3> QED BY <1>4, <3>1, <3>3, <3>7
  <2> QED BY <2>1, <2>2
<1>7. T = Nat
  <2>1. T \in SUBSET Nat
    OBVIOUS
  <2> HIDE DEF T
  <2> QED BY <2>1, <1>6, AllNumbers
<1>8. Freed(r[N], canvas, Y(N), X0)
  <2> HIDE DEF Y
  <2>1. N \in T /\ N <= N
    BY <1>1, <1>7
  <2> QED BY <2>1
<1>9. Y(N) = X \cup EdgesFrom(canvas, id)
  BY <1>2, <1>5
<1> HIDE DEF Y
<1> QED BY <1>4, <1>8, <1>9

----------------------------------------------------------------------------
LEMMA TargetsTyped ==
    ASSUME NEW canvas, Drawn(canvas.nodes, canvas.edges), NEW acc \in Counts(canvas), NEW id
    PROVE  ReleaseTargets(canvas, acc, id) \in Counts(canvas)
<1> DEFINE N == Len(Out(canvas, id))
<1>1. PICK r : /\ ReleaseTargets(canvas, acc, id) = r[N]
               /\ \A k \in 0 .. N : r[k] \in Counts(canvas)
  BY TargetsRunIs
<1>2. N \in 0 .. N
  <2>1. N \in Nat
    BY OutIs
  <2> QED BY <2>1
<1> QED BY <1>1, <1>2

LayerRun(r, canvas, queue, start) ==
    r = [k \in 0 .. Len(queue) |-> IF k = 0 THEN start ELSE ReleaseTargets(canvas, r[k - 1], queue[k])]

LEMMA LayerRunExists ==
    ASSUME NEW canvas, Drawn(canvas.nodes, canvas.edges), NEW queue, Len(queue) \in Nat,
           NEW start \in Counts(canvas)
    PROVE  \E r : LayerRun(r, canvas, queue, start)
<1> DEFINE N == Len(queue)
           A == Counts(canvas)
           next == [p \in (1 .. N) \X A |-> ReleaseTargets(canvas, p[2], queue[p[1]])]
<1>1. next \in [(1 .. N) \X A -> A]
  BY TargetsTyped
<1>2. PICK r : Repeats(r, N, A, start, next)
  <2> HIDE DEF next, N, A
  <2>1. N \in Nat /\ start \in A
    BY DEF N, A
  <2> QED BY <1>1, <2>1, RecursionExists
<1>3. r \in [0 .. N -> A] /\ r[0] = start /\ \A n \in 1 .. N : r[n] = next[<<n, r[n - 1]>>]
  <2> HIDE DEF next, A, N
  <2> QED BY <1>2 DEF Repeats
<1>4. ASSUME NEW k \in 1 .. N PROVE r[k] = ReleaseTargets(canvas, r[k - 1], queue[k])
  <2>1. k - 1 \in 0 .. N
    BY <1>4
  <2>2. r[k - 1] \in A
    BY <1>3, <2>1
  <2>3. <<k, r[k - 1]>> \in (1 .. N) \X A
    BY <2>2
  <2>4. r[k] = next[<<k, r[k - 1]>>]
    BY <1>3
  <2> HIDE DEF A, N
  <2> QED BY <2>3, <2>4
<1>5. ASSUME NEW k \in 0 .. N
      PROVE  r[k] = IF k = 0 THEN start ELSE ReleaseTargets(canvas, r[k - 1], queue[k])
  <2>1. k = 0 \/ (k \in 1 .. N /\ k # 0)
    BY <1>5
  <2> HIDE DEF N
  <2> QED BY <2>1, <1>3, <1>4
<1>6. r = [k \in 0 .. N |-> r[k]]
  BY <1>3
<1>7. LayerRun(r, canvas, queue, start)
  BY <1>5, <1>6, Zenon DEF LayerRun
<1> QED BY <1>7

\* The loop over the queue, step by step.
LEMMA LayerRunIs ==
    ASSUME NEW canvas, Drawn(canvas.nodes, canvas.edges), NEW queue, Len(queue) \in Nat,
           NEW degree \in [LayoutIds(canvas) -> Nat],
           NEW start, start = [degree |-> degree, queue |-> <<>>]
    PROVE  \E r : /\ r[0] = start /\ NextLayer(canvas, queue, degree) = r[Len(queue)]
                  /\ \A k \in 1 .. Len(queue) : r[k] = ReleaseTargets(canvas, r[k - 1], queue[k])
<1> DEFINE r == CHOOSE f : LayerRun(f, canvas, queue, start)
<1>1. NextLayer(canvas, queue, degree) = r[Len(queue)]
  BY Zenon DEF NextLayer, LayerRun
<1>2. start \in Counts(canvas)
  <2>1. <<>> \in Seq(LayoutIds(canvas))
    BY EmptySeq
  <2> QED BY <2>1 DEF Counts
<1>3. LayerRun(r, canvas, queue, start)
  BY <1>2, LayerRunExists
<1> HIDE DEF r
<1>4. r[0] = start
  BY <1>3 DEF LayerRun
<1>5. ASSUME NEW k \in 1 .. Len(queue) PROVE r[k] = ReleaseTargets(canvas, r[k - 1], queue[k])
  <2>1. k \in 0 .. Len(queue) /\ k # 0
    OBVIOUS
  <2> QED BY <1>3, <2>1 DEF LayerRun
<1> QED BY <1>1, <1>4, <1>5

LEMMA LayerTyped ==
    ASSUME NEW canvas, Drawn(canvas.nodes, canvas.edges), NEW queue, Len(queue) \in Nat,
           NEW degree \in [LayoutIds(canvas) -> Nat]
    PROVE  NextLayer(canvas, queue, degree) \in Counts(canvas)
<1> DEFINE start == [degree |-> degree, queue |-> <<>>]
           N == Len(queue)
<1>1. start \in Counts(canvas)
  <2>1. <<>> \in Seq(LayoutIds(canvas))
    BY EmptySeq
  <2> QED BY <2>1 DEF Counts
<1>2. PICK r : /\ r[0] = start /\ NextLayer(canvas, queue, degree) = r[N]
               /\ \A k \in 1 .. N : r[k] = ReleaseTargets(canvas, r[k - 1], queue[k])
  BY LayerRunIs
<1> HIDE DEF start, N
<1> DEFINE T == {k \in Nat : k <= N => r[k] \in Counts(canvas)}
<1>0. N \in Nat
  BY DEF N
<1>3. ASSUME NEW k \in Nat, \A m \in 0 .. k - 1 : m \in T PROVE k \in T
  <2>1. CASE k = 0
    BY <1>1, <1>2, <2>1
  <2>2. CASE k > 0 /\ k <= N
    <3>1. k - 1 \in 0 .. k - 1 /\ k - 1 <= N /\ k \in 1 .. N
      BY <1>0, <2>2
    <3>2. r[k - 1] \in Counts(canvas)
      BY <1>3, <3>1
    <3> QED BY <1>2, <3>1, <3>2, TargetsTyped
  <2> QED BY <2>1, <2>2
<1>4. T = Nat
  <2>1. T \in SUBSET Nat
    OBVIOUS
  <2> HIDE DEF T
  <2> QED BY <2>1, <1>3, AllNumbers
<1>5. r[N] \in Counts(canvas)
  BY <1>0, <1>4
<1> QED BY <1>2, <1>5

\* A pass releases the edges that leave the queue.
LEMMA LayerFrees ==
    ASSUME NEW canvas, Sketch(canvas), IsFiniteSet(Range(canvas.edges)), NEW P,
           NEW queue \in Seq(LayoutIds(canvas)), IsInjective(queue), Range(queue) \cap P = {},
           NEW degree \in [LayoutIds(canvas) -> Nat],
           \A t \in LayoutIds(canvas) : degree[t] = Cardinality(Into(canvas, t) \ From(canvas, P))
    PROVE  Freed(NextLayer(canvas, queue, degree), canvas, From(canvas, P \cup Range(queue)), From(canvas, P))
<1> DEFINE start == [degree |-> degree, queue |-> <<>>]
           N == Len(queue)
           Q(k) == P \cup {queue[i] : i \in 1 .. k}
<1>1. /\ N \in Nat /\ DOMAIN queue = 1 .. N /\ \A i \in 1 .. N : queue[i] \in Range(queue)
      /\ Range(queue) = {queue[i] : i \in 1 .. N}
  BY SequenceOf, SequenceParts
<1>2. \A i, j \in 1 .. N : queue[i] = queue[j] => i = j
  BY <1>1 DEF IsInjective
<1>3. PICK r : /\ r[0] = start /\ NextLayer(canvas, queue, degree) = r[N]
               /\ \A k \in 1 .. N : r[k] = ReleaseTargets(canvas, r[k - 1], queue[k])
  <2>1. Drawn(canvas.nodes, canvas.edges) /\ Len(queue) \in Nat
    BY <1>1 DEF Sketch
  <2> QED BY <2>1, LayerRunIs
<1>4. Freed(start, canvas, From(canvas, P), From(canvas, P))
  <2>1. <<>> \in Seq(LayoutIds(canvas)) /\ DOMAIN <<>> = {} /\ Range(<<>>) = {}
    BY EmptySeq, SequenceEmpty
  <2>2. IsInjective(<<>>)
    BY <2>1 DEF IsInjective
  <2>3. start.queue = <<>> /\ start.degree = degree /\ start \in Counts(canvas)
    BY <2>1 DEF Counts
  <2> HIDE DEF start
  <2> QED BY <2>1, <2>2, <2>3 DEF Freed
<1> HIDE DEF start, N
<1> DEFINE T == {k \in Nat : k <= N => Freed(r[k], canvas, From(canvas, Q(k)), From(canvas, P))}
<1>5. ASSUME NEW k \in Nat, \A m \in 0 .. k - 1 : m \in T PROVE k \in T
  <2>1. CASE k = 0
    <3>1. Q(0) = P
      OBVIOUS
    <3> QED BY <1>3, <1>4, <2>1, <3>1
  <2>2. CASE k > 0 /\ k <= N
    <3>1. k - 1 \in 0 .. k - 1 /\ k - 1 <= N /\ k \in 1 .. N
      BY <1>1, <2>2
    <3>2. Freed(r[k - 1], canvas, From(canvas, Q(k - 1)), From(canvas, P))
      BY <1>5, <3>1
    <3>3. Q(k) = Q(k - 1) \cup {queue[k]}
      <4>1. \A i : i \in 1 .. k <=> i \in 1 .. k - 1 \/ i = k
        BY <2>2
      <4> QED BY <4>1
    <3>4. queue[k] \notin Q(k - 1)
      <4>1. queue[k] \notin P
        BY <1>1, <3>1
      <4>2. \A i \in 1 .. k - 1 : i \in 1 .. N /\ i # k
        BY <1>1, <2>2
      <4> QED BY <1>2, <3>1, <4>1, <4>2
    <3>5. P \subseteq Q(k - 1)
      OBVIOUS
    <3> HIDE DEF Q
    <3>6. /\ EdgesFrom(canvas, queue[k]) \cap From(canvas, Q(k - 1)) = {}
          /\ From(canvas, Q(k)) = From(canvas, Q(k - 1)) \cup EdgesFrom(canvas, queue[k])
          /\ From(canvas, P) \subseteq From(canvas, Q(k - 1))
      BY <3>3, <3>4, <3>5 DEF From, EdgesFrom
    <3>7. Freed(ReleaseTargets(canvas, r[k - 1], queue[k]), canvas, From(canvas, Q(k)), From(canvas, P))
      BY <3>2, <3>6, TargetsFree
    <3> QED BY <1>3, <3>1, <3>7
  <2> QED BY <2>1, <2>2
<1>6. T = Nat
  <2>1. T \in SUBSET Nat
    OBVIOUS
  <2> HIDE DEF T
  <2> QED BY <2>1, <1>5, AllNumbers
<1>7. Freed(r[N], canvas, From(canvas, Q(N)), From(canvas, P))
  <2> HIDE DEF Q
  <2>1. N \in T /\ N <= N
    BY <1>1, <1>6
  <2> QED BY <2>1
<1>8. Q(N) = P \cup Range(queue)
  BY <1>1
<1> HIDE DEF Q
<1> QED BY <1>3, <1>7, <1>8

----------------------------------------------------------------------------
(* The layout: the passes.                                                    *)

Passes(canvas) ==
    [layers : Seq(Seq(LayoutIds(canvas))), degree : [LayoutIds(canvas) -> Nat], queue : Seq(LayoutIds(canvas))]

Incoming(canvas, id) == Len(Filter(canvas.edges, {e \in Range(canvas.edges) : e.dst = id}))
FirstPass(canvas) ==
    [layers |-> <<>>, degree |-> [id \in LayoutIds(canvas) |-> Incoming(canvas, id)],
     queue |-> Filter([i \in DOMAIN canvas.nodes |-> canvas.nodes[i].id],
                      {id \in NodeIds(canvas) : Incoming(canvas, id) = 0})]

\* The values of a function on a finite set.
LEMMA ImageFinite ==
    ASSUME NEW S, IsFiniteSet(S), NEW f, f = [x \in S |-> f[x]]
    PROVE  IsFiniteSet({f[x] : x \in S})
<1> DEFINE T == {f[x] : x \in S}
<1>1. f \in [S -> T] /\ \A y \in T : \E x \in S : f[x] = y
  OBVIOUS
<1> HIDE DEF T
<1>2. f \in Surjection(S, T)
  BY ONLY <1>1, Zenon DEF Surjection
<1>3. IsFiniteSet(T)
  BY <1>2, FS_Surjection
<1> QED BY <1>3 DEF T

LEMMA IdsFinite ==
    ASSUME NEW canvas, Drawn(canvas.nodes, canvas.edges)
    PROVE  IsFiniteSet(LayoutIds(canvas)) /\ IsFiniteSet(Range(canvas.edges)) /\ Cardinality(LayoutIds(canvas)) \in Nat
<1>1. ASSUME NEW s, IsSequence(s) PROVE IsFiniteSet(DOMAIN s)
  <2>1. DOMAIN s = 1 .. Len(s) /\ Len(s) \in Nat
    BY <1>1, SequenceParts
  <2> QED BY <2>1, FS_Interval
<1>2. IsSequence(canvas.nodes) /\ IsSequence(canvas.edges)
  BY DEF Drawn
<1>3. IsFiniteSet(NodeIds(canvas))
  <2> DEFINE f == [i \in DOMAIN canvas.nodes |-> canvas.nodes[i].id]
  <2>1. IsFiniteSet({f[i] : i \in DOMAIN canvas.nodes})
    <3>1. f = [i \in DOMAIN canvas.nodes |-> f[i]]
      OBVIOUS
    <3> HIDE DEF f
    <3> QED BY <1>1, <1>2, <3>1, ImageFinite
  <2>2. {f[i] : i \in DOMAIN canvas.nodes} = NodeIds(canvas)
    BY DEF NodeIds
  <2> QED BY <2>1, <2>2
<1>4. IsFiniteSet({canvas.edges[i].dst : i \in DOMAIN canvas.edges})
  <2> DEFINE f == [i \in DOMAIN canvas.edges |-> canvas.edges[i].dst]
  <2>1. IsFiniteSet({f[i] : i \in DOMAIN canvas.edges})
    <3>1. f = [i \in DOMAIN canvas.edges |-> f[i]]
      OBVIOUS
    <3> HIDE DEF f
    <3> QED BY <1>1, <1>2, <3>1, ImageFinite
  <2>2. {f[i] : i \in DOMAIN canvas.edges} = {canvas.edges[i].dst : i \in DOMAIN canvas.edges}
    OBVIOUS
  <2> QED BY <2>1, <2>2
<1>5. IsFiniteSet(Range(canvas.edges))
  <2> DEFINE f == [i \in DOMAIN canvas.edges |-> canvas.edges[i]]
  <2>1. IsFiniteSet({f[i] : i \in DOMAIN canvas.edges})
    <3>1. f = [i \in DOMAIN canvas.edges |-> f[i]]
      OBVIOUS
    <3> HIDE DEF f
    <3> QED BY <1>1, <1>2, <3>1, ImageFinite
  <2>2. {f[i] : i \in DOMAIN canvas.edges} = Range(canvas.edges)
    BY DEF Range
  <2> QED BY <2>1, <2>2
<1>6. IsFiniteSet(LayoutIds(canvas))
  BY <1>3, <1>4, FS_Union DEF LayoutIds
<1> QED BY <1>5, <1>6, FS_CardinalityType

LEMMA NextPassTyped ==
    ASSUME NEW canvas, Drawn(canvas.nodes, canvas.edges), NEW pass \in Passes(canvas)
    PROVE  NextPass(canvas, pass) \in Passes(canvas)
<1> DEFINE next == NextLayer(canvas, pass.queue, pass.degree)
<1>1. /\ pass.layers \in Seq(Seq(LayoutIds(canvas))) /\ pass.degree \in [LayoutIds(canvas) -> Nat]
      /\ pass.queue \in Seq(LayoutIds(canvas))
  BY DEF Passes
<1>2. Len(pass.queue) \in Nat
  BY <1>1, LenProperties
<1>3. next \in Counts(canvas)
  BY <1>1, <1>2, LayerTyped
<1>4. Append(pass.layers, pass.queue) \in Seq(Seq(LayoutIds(canvas)))
  BY <1>1, AppendProperties
<1>5. NextPass(canvas, pass) =
          IF pass.queue = <<>> THEN pass
          ELSE [layers |-> Append(pass.layers, pass.queue), queue |-> next.queue, degree |-> next.degree]
  BY DEF NextPass
<1> HIDE DEF next
<1> QED BY <1>3, <1>4, <1>5 DEF Passes, Counts

LEMMA FirstPassTyped ==
    ASSUME NEW canvas, Drawn(canvas.nodes, canvas.edges)
    PROVE  /\ FirstPass(canvas) \in Passes(canvas) /\ IsSequence(canvas.nodes)
           /\ Range(FirstPass(canvas).queue) = {id \in NodeIds(canvas) : Incoming(canvas, id) = 0}
           /\ Distinct(canvas.nodes) => IsInjective(FirstPass(canvas).queue)
<1> DEFINE ids == [i \in DOMAIN canvas.nodes |-> canvas.nodes[i].id]
           free == {id \in NodeIds(canvas) : Incoming(canvas, id) = 0}
<1>1. IsSequence(canvas.nodes) /\ IsSequence(canvas.edges)
  BY DEF Drawn
<1>2. IsMapped(canvas.nodes, ids)
  BY DEF IsMapped
<1>3. /\ IsSequence(ids) /\ DOMAIN ids = DOMAIN canvas.nodes
      /\ \A i \in DOMAIN ids : ids[i] = canvas.nodes[i].id
  <2>1. \A i \in DOMAIN ids : ids[i] = canvas.nodes[i].id
    OBVIOUS
  <2> HIDE DEF ids
  <2> QED BY <1>1, <1>2, <2>1, SequenceMapped
<1>4. Range(ids) = NodeIds(canvas)
  BY DEF Range, NodeIds
<1> HIDE DEF ids
<1>5. IsSequence(Filter(ids, free)) /\ Range(Filter(ids, free)) = free
  <2>1. free \subseteq Range(ids)
    BY <1>4
  <2> HIDE DEF free
  <2>2. IsSequence(ids)
    BY <1>3
  <2>3. IsSequence(Filter(ids, free)) /\ Range(Filter(ids, free)) = Range(ids) \cap free
    BY <2>2, FilterProperties
  <2> QED BY <2>1, <2>3
<1>6. Distinct(canvas.nodes) => IsInjective(Filter(ids, free))
  <2>1. Distinct(canvas.nodes) => IsInjective(ids)
    BY <1>3 DEF Distinct, IsInjective
  <2> HIDE DEF free
  <2> QED BY <1>3, <2>1, FilterCounts
<1>7. Filter(ids, free) \in Seq(LayoutIds(canvas))
  <2>1. free \subseteq LayoutIds(canvas)
    BY DEF LayoutIds
  <2> HIDE DEF free
  <2> QED BY <1>5, <2>1, SeqMonotonic DEF IsSequence
<1>8. \A id : Incoming(canvas, id) \in Nat
  <2>1. \A kept : IsSequence(Filter(canvas.edges, kept))
    BY <1>1, FilterProperties
  <2>2. \A kept : Len(Filter(canvas.edges, kept)) \in Nat
    BY <2>1, SequenceParts
  <2> QED BY <2>2 DEF Incoming
<1>9. FirstPass(canvas) = [layers |-> <<>>, degree |-> [id \in LayoutIds(canvas) |-> Incoming(canvas, id)],
                           queue |-> Filter(ids, free)]
  BY DEF FirstPass, ids
<1>10. <<>> \in Seq(Seq(LayoutIds(canvas)))
  BY EmptySeq
<1> HIDE DEF free
<1> QED BY <1>1, <1>5, <1>6, <1>7, <1>8, <1>9, <1>10 DEF Passes, free

KahnRun(r, canvas) ==
    r = [n \in 0 .. Cardinality(LayoutIds(canvas)) |->
            IF n = 0 THEN FirstPass(canvas) ELSE NextPass(canvas, r[n - 1])]

LEMMA KahnRunExists ==
    ASSUME NEW canvas, Drawn(canvas.nodes, canvas.edges)
    PROVE  \E r : KahnRun(r, canvas)
<1> DEFINE N == Cardinality(LayoutIds(canvas))
           A == Passes(canvas)
           start == FirstPass(canvas)
           next == [p \in (1 .. N) \X A |-> NextPass(canvas, p[2])]
<1>1. next \in [(1 .. N) \X A -> A]
  BY NextPassTyped
<1>2. PICK r : Repeats(r, N, A, start, next)
  <2> HIDE DEF next, N, A, start
  <2>1. N \in Nat /\ start \in A
    BY IdsFinite, FirstPassTyped DEF N, A, start
  <2> QED BY <1>1, <2>1, RecursionExists
<1>3. r \in [0 .. N -> A] /\ r[0] = start /\ \A n \in 1 .. N : r[n] = next[<<n, r[n - 1]>>]
  <2> HIDE DEF next, A, N, start
  <2> QED BY <1>2 DEF Repeats
<1> HIDE DEF start
<1>4. ASSUME NEW k \in 1 .. N PROVE r[k] = NextPass(canvas, r[k - 1])
  <2>1. k - 1 \in 0 .. N
    <3>1. N \in Nat
      BY IdsFinite
    <3> HIDE DEF N
    <3> QED BY <1>4, <3>1
  <2>2. r[k - 1] \in A
    BY <1>3, <2>1
  <2>3. <<k, r[k - 1]>> \in (1 .. N) \X A
    BY <2>2
  <2>4. r[k] = next[<<k, r[k - 1]>>]
    BY <1>3
  <2> HIDE DEF A, N
  <2> QED BY <2>3, <2>4
<1>5. ASSUME NEW k \in 0 .. N PROVE r[k] = IF k = 0 THEN start ELSE NextPass(canvas, r[k - 1])
  <2>1. k = 0 \/ (k \in 1 .. N /\ k # 0)
    BY <1>5
  <2> HIDE DEF N
  <2> QED BY <2>1, <1>3, <1>4
<1>6. r = [k \in 0 .. N |-> r[k]]
  BY <1>3
<1>7. KahnRun(r, canvas)
  BY <1>5, <1>6, Zenon DEF KahnRun, start
<1> QED BY <1>7

\* The while loop, pass by pass.
LEMMA KahnRunIs ==
    ASSUME NEW canvas, Drawn(canvas.nodes, canvas.edges), NEW N, N = Cardinality(LayoutIds(canvas))
    PROVE  /\ N \in Nat
           /\ \E r : /\ r[0] = FirstPass(canvas) /\ Kahn(canvas) = r[N]
                     /\ \A n \in 1 .. N : r[n] = NextPass(canvas, r[n - 1])
                     /\ \A n \in 0 .. N : r[n] \in Passes(canvas)
<1> DEFINE r == CHOOSE f : KahnRun(f, canvas)
<1>1. Kahn(canvas) = r[N]
  BY Zenon DEF Kahn, KahnRun, FirstPass, LayoutIds, Incoming
<1>2. KahnRun(r, canvas)
  BY KahnRunExists
<1> HIDE DEF r
<1>3. N \in Nat
  BY IdsFinite
<1>4. r[0] = FirstPass(canvas)
  BY <1>2, <1>3 DEF KahnRun
<1>5. ASSUME NEW n \in 1 .. N PROVE r[n] = NextPass(canvas, r[n - 1])
  <2>1. n \in 0 .. N /\ n # 0
    BY <1>3
  <2> QED BY <1>2, <2>1 DEF KahnRun
<1> DEFINE T == {k \in Nat : k <= N => r[k] \in Passes(canvas)}
<1>6. ASSUME NEW k \in Nat, \A m \in 0 .. k - 1 : m \in T PROVE k \in T
  <2>1. CASE k = 0
    BY <1>4, <2>1, FirstPassTyped
  <2>2. CASE k > 0 /\ k <= N
    <3>1. k - 1 \in 0 .. k - 1 /\ k - 1 <= N /\ k \in 1 .. N
      BY <1>3, <2>2
    <3>2. r[k - 1] \in Passes(canvas)
      BY <1>6, <3>1
    <3> QED BY <1>5, <3>1, <3>2, NextPassTyped
  <2> QED BY <2>1, <2>2
<1>7. T = Nat
  <2>1. T \in SUBSET Nat
    OBVIOUS
  <2> HIDE DEF T
  <2> QED BY <2>1, <1>6, AllNumbers
<1>8. \A n \in 0 .. N : r[n] \in Passes(canvas)
  BY <1>3, <1>7
<1> QED BY <1>1, <1>3, <1>4, <1>5, <1>8

----------------------------------------------------------------------------
(* The layout: rows.                                                          *)

\* The ids of the first n rows.
Settled(layers, n) == UNION {Range(layers[r]) : r \in 1 .. n}
AllSettled(layers) == Settled(layers, Len(layers))

\* All edges to an id of a row come from earlier rows, and it is in none of these.
Rowed(layers, canvas) ==
    \A r \in 1 .. Len(layers) : \A t \in Range(layers[r]) :
        /\ t \in LayoutIds(canvas) \ Settled(layers, r - 1)
        /\ Into(canvas, t) \subseteq From(canvas, Settled(layers, r - 1))

\* What has no edge left from outside of P.
Ready(canvas, P) == {t \in LayoutIds(canvas) : Into(canvas, t) \subseteq From(canvas, P)}

\* The queue holds what is ready and in no row yet.
PassInv(p, canvas) ==
    /\ p \in Passes(canvas) /\ Rowed(p.layers, canvas)
    /\ \A t \in LayoutIds(canvas) :
          p.degree[t] = Cardinality(Into(canvas, t) \ From(canvas, AllSettled(p.layers)))
    /\ IsInjective(p.queue)
    /\ Range(p.queue) = Ready(canvas, AllSettled(p.layers)) \ AllSettled(p.layers)

LEMMA SettledGrows ==
    ASSUME NEW canvas, NEW layers, Len(layers) \in Nat, NEW r \in Nat, NEW n \in Nat, r <= n
    PROVE  /\ Settled(layers, r) \subseteq Settled(layers, n)
           /\ From(canvas, Settled(layers, r)) \subseteq From(canvas, Settled(layers, n))
<1>1. \A i \in 1 .. r : i \in 1 .. n
  OBVIOUS
<1>2. Settled(layers, r) \subseteq Settled(layers, n)
  BY <1>1 DEF Settled
<1> QED BY <1>2 DEF From

\* Once in a row, always ready.
LEMMA SettledIsReady ==
    ASSUME NEW canvas, NEW layers, Len(layers) \in Nat, Rowed(layers, canvas)
    PROVE  AllSettled(layers) \subseteq Ready(canvas, AllSettled(layers))
<1>1. ASSUME NEW t \in AllSettled(layers) PROVE t \in Ready(canvas, AllSettled(layers))
  <2>1. PICK r \in 1 .. Len(layers) : t \in Range(layers[r])
    BY DEF AllSettled, Settled
  <2>2. t \in LayoutIds(canvas) /\ Into(canvas, t) \subseteq From(canvas, Settled(layers, r - 1))
    BY <2>1 DEF Rowed
  <2>3. r - 1 \in Nat /\ r - 1 <= Len(layers)
    OBVIOUS
  <2>4. From(canvas, Settled(layers, r - 1)) \subseteq From(canvas, AllSettled(layers))
    BY <2>3, SettledGrows DEF AllSettled
  <2> QED BY <2>2, <2>4 DEF Ready
<1> QED BY <1>1

OneMoreRow(all, layers, row) ==
    /\ Len(all) = Len(layers) + 1 /\ all[Len(layers) + 1] = row
    /\ \A r \in 1 .. Len(layers) : all[r] = layers[r]
    /\ \A n \in 0 .. Len(layers) : Settled(all, n) = Settled(layers, n)
    /\ AllSettled(all) = AllSettled(layers) \cup Range(row)

LEMMA SettledAppended ==
    ASSUME NEW S, NEW layers \in Seq(S), NEW row \in S
    PROVE  OneMoreRow(Append(layers, row), layers, row)
<1> DEFINE all == Append(layers, row)
<1>1. /\ Len(layers) \in Nat /\ Len(all) = Len(layers) + 1 /\ all[Len(layers) + 1] = row
      /\ \A r \in 1 .. Len(layers) : all[r] = layers[r]
  BY AppendProperties, LenProperties
<1> HIDE DEF all
<1>2. ASSUME NEW n \in 0 .. Len(layers) PROVE Settled(all, n) = Settled(layers, n)
  <2>1. \A r \in 1 .. n : r \in 1 .. Len(layers)
    BY <1>1
  <2>2. \A r \in 1 .. n : all[r] = layers[r]
    BY <1>1, <2>1
  <2> QED BY <2>2 DEF Settled
<1>3. Settled(all, Len(layers) + 1) = Settled(all, Len(layers)) \cup Range(row)
  <2>1. \A r : r \in 1 .. Len(layers) + 1 <=> r \in 1 .. Len(layers) \/ r = Len(layers) + 1
    BY <1>1
  <2>2. \A t : t \in Settled(all, Len(layers) + 1)
                 <=> t \in Settled(all, Len(layers)) \/ t \in Range(all[Len(layers) + 1])
    BY <2>1 DEF Settled
  <2> QED BY <1>1, <2>2
<1>4. Len(layers) \in 0 .. Len(layers)
  BY <1>1
<1>5. AllSettled(all) = AllSettled(layers) \cup Range(row)
  BY <1>1, <1>2, <1>3, <1>4 DEF AllSettled
<1>6. OneMoreRow(all, layers, row)
  BY <1>1, <1>2, <1>5 DEF OneMoreRow
<1> QED BY <1>6 DEF all

LEMMA FirstPassInv ==
    ASSUME NEW canvas, Sketch(canvas)
    PROVE  PassInv(FirstPass(canvas), canvas)
<1> DEFINE p == FirstPass(canvas)
<1>1. p \in Passes(canvas) /\ Range(p.queue) = {id \in NodeIds(canvas) : Incoming(canvas, id) = 0}
      /\ IsInjective(p.queue)
  BY FirstPassTyped DEF Sketch
<1>2. p.layers = <<>> /\ p.degree = [id \in LayoutIds(canvas) |-> Incoming(canvas, id)]
  BY DEF FirstPass
<1> HIDE DEF p
<1>3. Len(p.layers) = 0
  BY <1>2
<1>4. AllSettled(p.layers) = {} /\ From(canvas, {}) = {}
  BY <1>3 DEF AllSettled, Settled, From
<1>5. Rowed(p.layers, canvas)
  BY <1>3 DEF Rowed
<1>6. \A id : Incoming(canvas, id) = Cardinality(Into(canvas, id)) /\ IsFiniteSet(Into(canvas, id))
  <2>1. ASSUME NEW id
        PROVE  Incoming(canvas, id) = Cardinality(Into(canvas, id)) /\ IsFiniteSet(Into(canvas, id))
    <3>1. IsSequence(canvas.edges) /\ IsInjective(canvas.edges)
      BY DistinctIsInjective DEF Sketch, Drawn
    <3>2. Range(canvas.edges) \cap Into(canvas, id) = Into(canvas, id)
      BY DEF Into
    <3>3. Len(Filter(canvas.edges, Into(canvas, id))) = Cardinality(Into(canvas, id)) /\ IsFiniteSet(Into(canvas, id))
      BY <3>1, <3>2, FilterCounts
    <3> QED BY <3>3 DEF Incoming, Into
  <2> QED BY <2>1
<1>7. \A t \in LayoutIds(canvas) : p.degree[t] = Cardinality(Into(canvas, t) \ From(canvas, AllSettled(p.layers)))
  BY <1>2, <1>4, <1>6
<1>8. \A id : Incoming(canvas, id) = 0 <=> Into(canvas, id) = {}
  BY <1>6, FS_EmptySet
<1>9. ASSUME NEW t \in LayoutIds(canvas), Into(canvas, t) = {} PROVE t \in NodeIds(canvas)
  <2>1. SUFFICES ASSUME t \notin NodeIds(canvas) PROVE FALSE
    OBVIOUS
  <2>2. PICK i \in DOMAIN canvas.edges : t = canvas.edges[i].dst
    BY <2>1 DEF LayoutIds
  <2>3. canvas.edges[i] \in Into(canvas, t)
    BY <2>2 DEF Into, Range
  <2> QED BY <1>9, <2>3
<1>10. Range(p.queue) = Ready(canvas, AllSettled(p.layers)) \ AllSettled(p.layers)
  <2>1. \A t : t \in Range(p.queue) <=> t \in LayoutIds(canvas) /\ Into(canvas, t) = {}
    <3>1. NodeIds(canvas) \subseteq LayoutIds(canvas)
      BY DEF LayoutIds
    <3> QED BY <1>1, <1>8, <1>9, <3>1
  <2> QED BY <1>4, <2>1 DEF Ready
<1> QED BY <1>1, <1>5, <1>7, <1>10 DEF PassInv, p

LEMMA NextPassInv ==
    ASSUME NEW canvas, Sketch(canvas), NEW p, PassInv(p, canvas), p.queue # <<>>,
           NEW after, after = NextPass(canvas, p)
    PROVE  /\ PassInv(after, canvas)
           /\ AllSettled(after.layers) = AllSettled(p.layers) \cup Range(p.queue)
<1> DEFINE P == AllSettled(p.layers)
           Q == Range(p.queue)
           next == NextLayer(canvas, p.queue, p.degree)
<1>1. /\ p.layers \in Seq(Seq(LayoutIds(canvas))) /\ p.degree \in [LayoutIds(canvas) -> Nat]
      /\ p.queue \in Seq(LayoutIds(canvas)) /\ Len(p.layers) \in Nat
  <2>1. p.layers \in Seq(Seq(LayoutIds(canvas)))
    BY DEF PassInv, Passes
  <2> QED BY <2>1, LenProperties DEF PassInv, Passes
<1>2. after.layers = Append(p.layers, p.queue) /\ after.queue = next.queue /\ after.degree = next.degree
  BY DEF NextPass
<1>3. /\ Len(after.layers) = Len(p.layers) + 1 /\ after.layers[Len(p.layers) + 1] = p.queue
      /\ \A r \in 1 .. Len(p.layers) : after.layers[r] = p.layers[r]
      /\ \A n \in 0 .. Len(p.layers) : Settled(after.layers, n) = Settled(p.layers, n)
      /\ AllSettled(after.layers) = P \cup Q
  <2>1. OneMoreRow(Append(p.layers, p.queue), p.layers, p.queue)
    BY <1>1, SettledAppended
  <2> QED BY <1>2, <2>1 DEF OneMoreRow
<1>4. Drawn(canvas.nodes, canvas.edges) /\ IsFiniteSet(Range(canvas.edges))
  BY IdsFinite DEF Sketch
<1>5. Q = Ready(canvas, P) \ P /\ IsInjective(p.queue)
  BY DEF PassInv
<1>6. Freed(next, canvas, From(canvas, P \cup Q), From(canvas, P))
  <2>1. \A t \in LayoutIds(canvas) : p.degree[t] = Cardinality(Into(canvas, t) \ From(canvas, P))
    BY DEF PassInv
  <2>2. Range(p.queue) \cap P = {}
    BY <1>5
  <2> HIDE DEF P
  <2> QED BY <1>1, <1>4, <1>5, <2>1, <2>2, LayerFrees
<1> HIDE DEF P, Q, next
<1>7. after \in Passes(canvas)
  BY <1>4, NextPassTyped DEF PassInv
<1>8. P \cup Q = Ready(canvas, P)
  <2>1. P \subseteq Ready(canvas, P)
    BY <1>1, SettledIsReady DEF PassInv, P
  <2> QED BY <1>5, <2>1
<1>9. Range(after.queue) = Ready(canvas, P \cup Q) \ (P \cup Q)
  <2>1. \A t : t \in Range(after.queue)
                 <=> t \in LayoutIds(canvas) /\ Into(canvas, t) \subseteq From(canvas, P \cup Q)
                        /\ ~(Into(canvas, t) \subseteq From(canvas, P))
    BY <1>2, <1>6 DEF Freed
  <2>2. \A t \in LayoutIds(canvas) : t \in P \cup Q <=> Into(canvas, t) \subseteq From(canvas, P)
    BY <1>8 DEF Ready
  <2> QED BY <2>1, <2>2 DEF Ready
<1>10. Rowed(after.layers, canvas)
  <2>1. ASSUME NEW r \in 1 .. Len(after.layers), NEW t \in Range(after.layers[r])
        PROVE  /\ t \in LayoutIds(canvas) \ Settled(after.layers, r - 1)
               /\ Into(canvas, t) \subseteq From(canvas, Settled(after.layers, r - 1))
    <3>1. Settled(after.layers, r - 1) = Settled(p.layers, r - 1)
      <4>1. r - 1 \in 0 .. Len(p.layers)
        BY <1>1, <1>3
      <4> QED BY <1>3, <4>1
    <3>2. CASE r \in 1 .. Len(p.layers)
      <4>1. after.layers[r] = p.layers[r] /\ Rowed(p.layers, canvas)
        BY <1>3, <3>2 DEF PassInv
      <4> QED BY <2>1, <3>1, <3>2, <4>1 DEF Rowed
    <3>3. CASE r = Len(p.layers) + 1
      <4>1. t \in Q
        BY <1>3, <2>1, <3>3 DEF Q
      <4>2. Settled(p.layers, r - 1) = P
        BY <1>1, <3>3 DEF P, AllSettled
      <4> QED BY <1>5, <3>1, <4>1, <4>2 DEF Ready
    <3>4. r \in 1 .. Len(p.layers) \/ r = Len(p.layers) + 1
      BY <1>1, <1>3
    <3> QED BY <3>2, <3>3, <3>4
  <2> QED BY <2>1 DEF Rowed
<1>11. /\ IsInjective(after.queue)
       /\ \A t \in LayoutIds(canvas) : after.degree[t] = Cardinality(Into(canvas, t) \ From(canvas, P \cup Q))
  BY <1>2, <1>6 DEF Freed
<1>12. PassInv(after, canvas)
  BY <1>3, <1>7, <1>9, <1>10, <1>11 DEF PassInv
<1> QED BY <1>3, <1>12 DEF P, Q

\* After the loop nothing is ready that is in no row.
LEMMA KahnEnds ==
    ASSUME NEW canvas, Sketch(canvas)
    PROVE  PassInv(Kahn(canvas), canvas) /\ Kahn(canvas).queue = <<>>
<1> DEFINE N == Cardinality(LayoutIds(canvas))
           Count(p) == Cardinality(AllSettled(p.layers))
<1>1. PICK r : /\ r[0] = FirstPass(canvas) /\ Kahn(canvas) = r[N]
               /\ \A n \in 1 .. N : r[n] = NextPass(canvas, r[n - 1])
  BY KahnRunIs DEF Sketch
<1>2. N \in Nat /\ IsFiniteSet(LayoutIds(canvas))
  BY IdsFinite DEF Sketch
<1>3. ASSUME NEW p, PassInv(p, canvas)
      PROVE  /\ AllSettled(p.layers) \subseteq LayoutIds(canvas) /\ Range(p.queue) \subseteq LayoutIds(canvas)
             /\ IsFiniteSet(AllSettled(p.layers)) /\ Count(p) \in Nat /\ Count(p) <= N
             /\ Count(p) = N => AllSettled(p.layers) = LayoutIds(canvas)
             /\ p.queue # <<>> => Range(p.queue) # {}
             /\ Range(p.queue) \cap AllSettled(p.layers) = {}
  <2>1. p.queue \in Seq(LayoutIds(canvas)) /\ p.layers \in Seq(Seq(LayoutIds(canvas)))
    BY <1>3 DEF PassInv, Passes
  <2>2. Len(p.layers) \in Nat
    BY <2>1, LenProperties
  <2>3. AllSettled(p.layers) \subseteq LayoutIds(canvas)
    BY <1>3 DEF PassInv, Rowed, AllSettled, Settled
  <2>4. /\ IsFiniteSet(AllSettled(p.layers)) /\ Cardinality(AllSettled(p.layers)) <= N
        /\ N = Cardinality(AllSettled(p.layers)) => LayoutIds(canvas) = AllSettled(p.layers)
    BY <1>2, <2>3, FS_Subset
  <2>5. Cardinality(AllSettled(p.layers)) \in Nat
    BY <2>4, FS_CardinalityType
  <2>6. IsSequence(p.queue) /\ Range(p.queue) \subseteq LayoutIds(canvas)
    BY <2>1, SequenceOf
  <2>7. p.queue # <<>> => Range(p.queue) # {}
    <3>1. ASSUME p.queue # <<>> PROVE Last(p.queue) \in Range(p.queue)
      BY <2>6, <3>1, SequenceFront
    <3> QED BY <3>1
  <2>8. Range(p.queue) \cap AllSettled(p.layers) = {}
    BY <1>3 DEF PassInv
  <2> QED BY <2>3, <2>4, <2>5, <2>6, <2>7, <2>8
<1> HIDE DEF N
<1> DEFINE T == {n \in Nat : n <= N => PassInv(r[n], canvas) /\ (r[n].queue = <<>> \/ n <= Count(r[n]))}
<1>4. ASSUME NEW n \in Nat, \A m \in 0 .. n - 1 : m \in T PROVE n \in T
  <2>1. CASE n = 0
    <3>1. PassInv(r[0], canvas)
      BY <1>1, FirstPassInv
    <3>2. 0 <= Count(r[0])
      BY <1>3, <3>1
    <3> QED BY <2>1, <3>1, <3>2
  <2>2. CASE n > 0 /\ n <= N
    <3>1. n - 1 \in 0 .. n - 1 /\ n - 1 <= N /\ n \in 1 .. N
      BY <1>2, <2>2
    <3>2. PassInv(r[n - 1], canvas) /\ (r[n - 1].queue = <<>> \/ n - 1 <= Count(r[n - 1]))
      BY <1>4, <3>1
    <3>3. r[n] = NextPass(canvas, r[n - 1])
      BY <1>1, <3>1
    <3>4. CASE r[n - 1].queue = <<>>
      <4>1. r[n] = r[n - 1]
        BY <3>3, <3>4 DEF NextPass
      <4> QED BY <3>2, <3>4, <4>1
    <3>5. CASE r[n - 1].queue # <<>>
      <4>1. PassInv(r[n], canvas)
            /\ AllSettled(r[n].layers) = AllSettled(r[n - 1].layers) \cup Range(r[n - 1].queue)
        BY <3>2, <3>3, <3>5, NextPassInv
      <4>2. PICK x \in Range(r[n - 1].queue) : x \notin AllSettled(r[n - 1].layers)
        BY <1>3, <3>2, <3>5
      <4>3. IsFiniteSet(AllSettled(r[n - 1].layers)) /\ IsFiniteSet(AllSettled(r[n].layers))
            /\ Count(r[n - 1]) \in Nat /\ Count(r[n]) \in Nat
        BY <1>3, <3>2, <4>1
      <4>4. Cardinality(AllSettled(r[n - 1].layers) \cup {x}) = Count(r[n - 1]) + 1
        BY <4>2, <4>3, FS_AddElement
      <4>5. AllSettled(r[n - 1].layers) \cup {x} \in SUBSET AllSettled(r[n].layers)
        BY <4>1, <4>2
      <4>6. Cardinality(AllSettled(r[n - 1].layers) \cup {x}) <= Count(r[n])
        BY <4>3, <4>5, FS_Subset
      <4>7. n <= Count(r[n])
        <5> HIDE DEF Count
        <5> QED BY <3>2, <3>5, <4>3, <4>4, <4>6
      <4> QED BY <4>1, <4>7
    <3> QED BY <3>4, <3>5
  <2> QED BY <2>1, <2>2
<1>5. T = Nat
  <2>1. T \in SUBSET Nat
    OBVIOUS
  <2> HIDE DEF T
  <2> QED BY <2>1, <1>4, AllNumbers
<1>6. PassInv(r[N], canvas) /\ (r[N].queue = <<>> \/ N <= Count(r[N]))
  <2> HIDE DEF Count
  <2>1. N \in T /\ N <= N
    BY <1>2, <1>5
  <2> QED BY <2>1
<1>7. r[N].queue = <<>>
  <2>1. SUFFICES ASSUME r[N].queue # <<>> PROVE FALSE
    OBVIOUS
  <2>2. Count(r[N]) = N
    <3> HIDE DEF Count
    <3> QED BY <1>2, <1>3, <1>6, <2>1
  <2> QED BY <1>3, <1>6, <2>1, <2>2
<1> QED BY <1>1, <1>6, <1>7

----------------------------------------------------------------------------
(* The layout: places.                                                        *)

\* A finite set each of whose elements is reached from another of them holds a cycle:
\* the smallest such set has nobody that leads nowhere.
LEMMA ReachedIsCyclic ==
    ASSUME NEW ids, NEW edges, NEW U, U \in SUBSET ids, U # {}, IsFiniteSet(U),
           \A v \in U : \E w \in U : <<w, v>> \in edges
    PROVE  Cyclic(ids, edges)
<1> DEFINE Reached(S) == S # {} /\ \A v \in S : \E w \in S : <<w, v>> \in edges
           C == {Cardinality(S) : S \in {S \in SUBSET U : Reached(S)}}
<1>1. \A S \in SUBSET U : IsFiniteSet(S) /\ Cardinality(S) \in Nat
  <2>1. ASSUME NEW S \in SUBSET U PROVE IsFiniteSet(S) /\ Cardinality(S) \in Nat
    <3>1. IsFiniteSet(S)
      BY FS_Subset
    <3> QED BY <3>1, FS_CardinalityType
  <2> QED BY <2>1
<1>2. C \in SUBSET Nat /\ C # {}
  <2>1. C \in SUBSET Nat
    BY <1>1
  <2>2. Cardinality(U) \in C
    OBVIOUS
  <2> QED BY <2>1, <2>2
<1> HIDE DEF C
<1>3. PICK c \in C : \A d \in C : c <= d
  BY <1>2, LeastNumber
<1>4. PICK S \in SUBSET U : Reached(S) /\ Cardinality(S) = c
  BY <1>3 DEF C
<1>5. ASSUME NEW v \in S PROVE \E w \in S : <<v, w>> \in edges
  <2>1. SUFFICES ASSUME \A w \in S : <<v, w>> \notin edges PROVE FALSE
    OBVIOUS
  <2> DEFINE R == S \ {v}
  <2>2. Reached(R)
    <3>1. R # {}
      <4>1. PICK w \in S : <<w, v>> \in edges
        BY <1>4
      <4> QED BY <2>1, <4>1
    <3>2. ASSUME NEW x \in R PROVE \E w \in R : <<w, x>> \in edges
      <4>1. PICK w \in S : <<w, x>> \in edges
        BY <1>4
      <4> QED BY <2>1, <4>1
    <3> QED BY <3>1, <3>2
  <2>3. Cardinality(R) \in C
    BY <2>2 DEF C
  <2>4. Cardinality(R) = Cardinality(S) - 1
    BY <1>1, FS_RemoveElement
  <2>5. Cardinality(S) \in Nat
    BY <1>1
  <2> QED BY <1>3, <1>4, <2>3, <2>4, <2>5
<1>6. S \in SUBSET ids /\ S # {}
  BY <1>4
<1> QED BY <1>5, <1>6 DEF Cyclic

Pairs(canvas) == {<<e.src, e.dst>> : e \in Range(canvas.edges)}

\* Without a cycle every node is in a row.
LEMMA AcyclicIsSettled ==
    ASSUME NEW canvas, Sketch(canvas), ~Cyclic(NodeIds(canvas), Pairs(canvas))
    PROVE  NodeIds(canvas) \subseteq AllSettled(Kahn(canvas).layers)
<1> DEFINE P == AllSettled(Kahn(canvas).layers)
           U == NodeIds(canvas) \ P
<1>1. PassInv(Kahn(canvas), canvas) /\ Kahn(canvas).queue = <<>>
  BY KahnEnds
<1>2. Ready(canvas, P) \subseteq P
  BY <1>1, SequenceEmpty DEF PassInv
<1> HIDE DEF P
<1>3. ASSUME NEW v \in U PROVE \E w \in U : <<w, v>> \in Pairs(canvas)
  <2>1. ~(Into(canvas, v) \subseteq From(canvas, P))
    BY <1>2 DEF Ready, LayoutIds
  <2>2. PICK e \in Into(canvas, v) : e \notin From(canvas, P)
    BY <2>1
  <2>3. e \in Range(canvas.edges) /\ e.dst = v /\ e.src \notin P /\ e.src \in NodeIds(canvas)
    BY <2>2 DEF Into, From, Sketch
  <2> QED BY <2>3 DEF Pairs
<1>4. U \in SUBSET NodeIds(canvas) /\ IsFiniteSet(U)
  <2>1. U \in SUBSET LayoutIds(canvas)
    BY DEF LayoutIds
  <2>2. IsFiniteSet(LayoutIds(canvas))
    BY IdsFinite DEF Sketch
  <2> QED BY <2>1, <2>2, FS_Subset
<1> HIDE DEF U
<1>5. U = {}
  BY <1>3, <1>4, ReachedIsCyclic
<1> QED BY <1>5 DEF U, P

\* Every node is in a row of the drawing.
LEMMA LayersPlace ==
    ASSUME NEW canvas, Drawn(canvas.nodes, canvas.edges)
    PROVE  /\ Kahn(canvas).layers \in Seq(Seq(LayoutIds(canvas)))
           /\ Layers(canvas) \in Seq(Seq(LayoutIds(canvas)))
           /\ NodeIds(canvas) \subseteq AllSettled(Layers(canvas))
           /\ NodeIds(canvas) \subseteq AllSettled(Kahn(canvas).layers) => Layers(canvas) = Kahn(canvas).layers
<1> DEFINE layers == Kahn(canvas).layers
           placed == Range(FlattenSeq(layers))
           left == {n \in Range(canvas.nodes) : n.id \notin placed}
           unplaced == Filter(canvas.nodes, left)
           last == [i \in DOMAIN unplaced |-> unplaced[i].id]
           S == Seq(LayoutIds(canvas))
<1>1. layers \in Seq(S)
  <2>1. Cardinality(LayoutIds(canvas)) \in Nat /\ Kahn(canvas) \in Passes(canvas)
    BY KahnRunIs
  <2> QED BY <2>1 DEF Passes
<1>2. Layers(canvas) = IF NodeIds(canvas) \subseteq placed THEN layers ELSE Append(layers, last)
  BY DEF Layers, WithUnplaced
<1>3. placed = AllSettled(layers)
  <2>1. IsSequence(layers) /\ \A i \in DOMAIN layers : IsSequence(layers[i])
    <3>1. IsSequence(layers) /\ Range(layers) \subseteq S
      BY <1>1, SequenceOf
    <3>2. \A i \in DOMAIN layers : layers[i] \in S
      BY <3>1 DEF Range
    <3> QED BY <3>1, <3>2, SequenceOf
  <2>2. \A x : x \in placed <=> \E i \in DOMAIN layers : x \in Range(layers[i])
    BY <2>1, Flattened
  <2>3. DOMAIN layers = 1 .. Len(layers)
    BY <2>1, SequenceParts
  <2> QED BY <2>2, <2>3 DEF AllSettled, Settled
<1> HIDE DEF placed, layers
<1>4. /\ IsSequence(unplaced) /\ Range(unplaced) = left
  <2>1. IsSequence(canvas.nodes) /\ left \subseteq Range(canvas.nodes)
    BY DEF Drawn
  <2> HIDE DEF left
  <2>2. IsSequence(unplaced) /\ Range(unplaced) = Range(canvas.nodes) \cap left
    BY <2>1, FilterProperties
  <2> QED BY <2>1, <2>2
<1>5. \A n : n \in left <=> n \in Range(canvas.nodes) /\ n.id \notin placed
  OBVIOUS
<1> HIDE DEF unplaced, left
<1>6. IsMapped(unplaced, last) /\ \A i \in DOMAIN unplaced : last[i] = unplaced[i].id
  BY DEF IsMapped
<1> HIDE DEF last
<1>7. /\ IsSequence(last) /\ DOMAIN last = DOMAIN unplaced
      /\ \A x \in Range(last) : \E i \in DOMAIN unplaced : x = last[i]
      /\ \A i \in DOMAIN unplaced : last[i] \in Range(last)
  BY <1>4, <1>6, SequenceMapped
<1>8. Range(last) = NodeIds(canvas) \ placed
  <2>1. ASSUME NEW x \in Range(last) PROVE x \in NodeIds(canvas) \ placed
    <3>1. PICK n \in left : x = n.id
      BY <1>4, <1>6, <1>7, SequenceParts
    <3>2. PICK i \in DOMAIN canvas.nodes : canvas.nodes[i] = n
      BY <1>5 DEF Range
    <3> QED BY <1>5, <3>1, <3>2 DEF NodeIds
  <2>2. ASSUME NEW x \in NodeIds(canvas) \ placed PROVE x \in Range(last)
    <3>1. PICK j \in DOMAIN canvas.nodes : x = canvas.nodes[j].id
      BY DEF NodeIds
    <3>2. canvas.nodes[j] \in left
      BY <1>5, <2>2, <3>1 DEF Range
    <3>3. PICK i \in DOMAIN unplaced : unplaced[i] = canvas.nodes[j]
      BY <1>4, <3>2, SequenceParts
    <3> QED BY <1>6, <1>7, <3>1, <3>3
  <2> QED BY <2>1, <2>2
<1>9. last \in S
  <2>1. Range(last) \subseteq LayoutIds(canvas)
    BY <1>8 DEF LayoutIds
  <2> QED BY <1>7, <2>1, SeqMonotonic DEF IsSequence
<1> HIDE DEF S
<1>10. Append(layers, last) \in Seq(S) /\ OneMoreRow(Append(layers, last), layers, last)
  BY <1>1, <1>9, AppendProperties, SettledAppended
<1>11. AllSettled(Append(layers, last)) = placed \cup Range(last)
  BY <1>3, <1>10 DEF OneMoreRow
<1>12. NodeIds(canvas) \subseteq AllSettled(Layers(canvas)) /\ Layers(canvas) \in Seq(S)
  BY <1>1, <1>2, <1>3, <1>8, <1>10, <1>11
<1> QED BY <1>1, <1>2, <1>3, <1>12 DEF layers, S

\* The place of an id in the drawing.
IsPlace(p, id, layers) ==
    /\ p = <<p[1], p[2]>> /\ p[1] \in 1 .. Len(layers) /\ p[2] \in 1 .. Len(layers[p[1]])
    /\ layers[p[1]][p[2]] = id

Widest(layers) == Max({Len(layers[r]) : r \in DOMAIN layers})

LEMMA SomeBound ==
    ASSUME NEW N \in Nat, NEW len, \A r \in 1 .. N : len[r] \in Nat
    PROVE  \E b \in Nat : \A r \in 1 .. N : len[r] <= b
<1> DEFINE T == {n \in Nat : n <= N => \E b \in Nat : \A r \in 1 .. n : len[r] <= b}
<1>1. ASSUME NEW n \in Nat, \A m \in 0 .. n - 1 : m \in T PROVE n \in T
  <2>1. CASE n = 0
    <3>1. \A r \in 1 .. n : len[r] <= 0
      BY <2>1
    <3>2. 0 \in Nat
      OBVIOUS
    <3> QED BY <3>1, <3>2
  <2>2. CASE n > 0 /\ n <= N
    <3>1. n - 1 \in 0 .. n - 1 /\ n - 1 <= N /\ n \in 1 .. N
      BY <2>2
    <3>2. PICK b \in Nat : \A r \in 1 .. n - 1 : len[r] <= b
      BY <1>1, <3>1
    <3>3. len[n] \in Nat /\ \A r \in 1 .. n : (r \in 1 .. n - 1 \/ r = n) /\ r \in 1 .. N
      BY <3>1
    <3>4. b + len[n] \in Nat
      BY <3>3
    <3>5. \A r \in 1 .. n : len[r] <= b + len[n]
      BY <3>2, <3>3
    <3> QED BY <3>4, <3>5
  <2>3. CASE n > N
    BY <2>3
  <2> QED BY <2>1, <2>2, <2>3
<1>2. T \in SUBSET Nat
  OBVIOUS
<1> HIDE DEF T
<1>3. T = Nat
  BY <1>1, <1>2, AllNumbers
<1>4. N \in T /\ N <= N
  BY <1>3
<1> QED BY <1>4 DEF T

LEMMA WidestIs ==
    ASSUME NEW S, NEW layers \in Seq(Seq(S)), layers # <<>>
    PROVE  /\ Widest(layers) \in Nat /\ Len(layers) \in Nat \ {0} /\ DOMAIN layers = 1 .. Len(layers)
           /\ \A r \in 1 .. Len(layers) : Len(layers[r]) \in 0 .. Widest(layers)
<1> DEFINE N == Len(layers)
           W == {Len(layers[r]) : r \in DOMAIN layers}
           B == {b \in Nat : \A r \in 1 .. N : Len(layers[r]) <= b}
<1>1. N \in Nat /\ DOMAIN layers = 1 .. N /\ \A r \in 1 .. N : layers[r] \in Seq(S)
  BY LenProperties, ElementOfSeq
<1>2. N # 0
  BY EmptySeq
<1>3. \A r \in 1 .. N : Len(layers[r]) \in Nat
  BY <1>1, LenProperties
<1> DEFINE len(r) == Len(layers[r])
<1> HIDE DEF N
<1>6. B # {} /\ B \in SUBSET Nat
  <2>1. N \in Nat /\ \A r \in 1 .. N : len(r) \in Nat
    BY <1>1, <1>3
  <2> DEFINE f == [r \in 1 .. N |-> len(r)]
  <2>2. \A r \in 1 .. N : f[r] = len(r)
    OBVIOUS
  <2> HIDE DEF len, f
  <2>3. \E b \in Nat : \A r \in 1 .. N : f[r] <= b
    BY <2>1, <2>2, SomeBound
  <2>4. PICK b \in Nat : \A r \in 1 .. N : len(r) <= b
    BY <2>2, <2>3
  <2> QED BY <2>4 DEF len
<1> HIDE DEF B
<1>7. PICK b \in B : \A c \in B : b <= c
  BY <1>6, LeastNumber
<1>8. b \in Nat /\ \A r \in 1 .. N : len(r) <= b
  BY <1>7 DEF B
<1>9. \E r \in 1 .. N : len(r) = b
  <2>1. SUFFICES ASSUME \A r \in 1 .. N : len(r) # b PROVE FALSE
    OBVIOUS
  <2>2. \A r \in 1 .. N : len(r) \in Nat /\ len(r) <= b - 1
    BY <1>3, <1>8, <2>1
  <2>3. 1 \in 1 .. N
    BY <1>1, <1>2
  <2>4. b - 1 \in Nat
    BY <1>8, <2>2, <2>3
  <2>5. b - 1 \in B
    BY <2>2, <2>4 DEF B
  <2>6. b <= b - 1
    BY <1>7, <2>5
  <2> QED BY <1>8, <2>6
<1>10. b \in W /\ \A y \in W : b >= y
  BY <1>1, <1>3, <1>8, <1>9
<1>11. W \subseteq Nat
  BY <1>1, <1>3
<1>12. Widest(layers) = CHOOSE x \in W : \A y \in W : x >= y
  BY DEF Widest, Max
<1> HIDE DEF W
<1>13. Widest(layers) = b
  <2>1. Widest(layers) \in W /\ \A y \in W : Widest(layers) >= y
    BY <1>10, <1>12
  <2>2. Widest(layers) >= b /\ b >= Widest(layers) /\ b \in Nat /\ Widest(layers) \in Nat
    BY <1>8, <1>10, <1>11, <2>1
  <2> QED BY <2>2
<1>14. \A r \in 1 .. N : Len(layers[r]) \in 0 .. b
  BY <1>3, <1>8
<1> QED BY <1>1, <1>2, <1>8, <1>13, <1>14 DEF N

\* findIndex by id: the place of the first element, or there is none.
IndexById(s, id) == SelectInSeq(s, LAMBDA x : x.id = id)

LEMMA FoundById ==
    ASSUME NEW s, IsSequence(s), NEW id, NEW at, at = IndexById(s, id)
    PROVE  \/ at = 0 /\ \A e \in Range(s) : e.id # id
           \/ at \in 1 .. Len(s) /\ s[at].id = id /\ s[at] \in Range(s)
<1> DEFINE I == {i \in 1 .. Len(s) : s[i].id = id}
<1>1. at = IF I # {} THEN Min(I) ELSE 0
  BY DEF IndexById, SelectInSeq
<1>2. /\ Len(s) \in Nat /\ \A i \in 1 .. Len(s) : s[i] \in Range(s)
      /\ \A e \in Range(s) : \E i \in 1 .. Len(s) : s[i] = e
  BY SequenceParts
<1>3. CASE I = {}
  <2>1. at = 0
    BY <1>1, <1>3
  <2>2. ASSUME NEW e \in Range(s), e.id = id PROVE FALSE
    <3>1. PICK i \in 1 .. Len(s) : s[i] = e
      BY <1>2
    <3>2. i \in I
      BY <2>2, <3>1
    <3> QED BY <1>3, <3>2
  <2> QED BY <2>1, <2>2
<1>4. CASE I # {}
  <2>1. I \in SUBSET Nat
    BY <1>2
  <2> HIDE DEF I
  <2>2. \E x \in I : \A y \in I : x <= y
    BY <1>4, <2>1, LeastNumber
  <2>3. Min(I) \in I
    BY <2>2 DEF Min
  <2>4. at \in I
    BY <1>1, <1>4, <2>3
  <2> QED BY <1>2, <2>4 DEF I
<1> QED BY <1>3, <1>4

----------------------------------------------------------------------------
(* The layout: coordinates.                                                   *)

\* The place of an id that is in a row.
LEMMA PlaceFound ==
    ASSUME NEW S, NEW layers \in Seq(Seq(S)), NEW id \in AllSettled(layers)
    PROVE  IsPlace(PlaceOf(id, layers), id, layers)
<1> DEFINE places == {p \in (DOMAIN layers) \X (1 .. Widest(layers)) :
                         p[2] <= Len(layers[p[1]]) /\ layers[p[1]][p[2]] = id}
           R == {r \in 1 .. Len(layers) : \E c \in 1 .. Widest(layers) : <<r, c>> \in places}
           Latest(p) == \A q \in places : q[1] < p[1] \/ (q[1] = p[1] /\ q[2] <= p[2])
<1>1. PlaceOf(id, layers) = CHOOSE p \in places : Latest(p)
  BY DEF PlaceOf, Widest
<1>2. layers # <<>>
  <2>1. CASE layers = <<>>
    <3>1. Len(layers) = 0
      BY <2>1
    <3>2. AllSettled(layers) = {}
      BY <3>1 DEF AllSettled, Settled
    <3> QED BY <3>2
  <2> QED BY <2>1
<1>3. /\ Widest(layers) \in Nat /\ Len(layers) \in Nat /\ DOMAIN layers = 1 .. Len(layers)
      /\ \A r \in 1 .. Len(layers) : Len(layers[r]) \in 0 .. Widest(layers)
  BY <1>2, WidestIs
<1>4. R # {}
  <2>1. PICK r \in 1 .. Len(layers) : id \in Range(layers[r])
    BY DEF AllSettled, Settled
  <2>2. layers[r] \in Seq(S)
    BY ElementOfSeq
  <2>3. IsSequence(layers[r])
    BY <2>2, SequenceOf
  <2>7. \A x \in Range(layers[r]) : \E c \in 1 .. Len(layers[r]) : layers[r][c] = x
    BY <2>3, SequenceParts
  <2>4. PICK c \in 1 .. Len(layers[r]) : layers[r][c] = id
    BY <2>1, <2>7
  <2>5. c \in 1 .. Widest(layers) /\ c <= Len(layers[r])
    BY <1>3, <2>1, <2>4
  <2>6. <<r, c>> \in places
    BY <1>3, <2>1, <2>4, <2>5
  <2> QED BY <2>1, <2>5, <2>6
<1>5. \A p \in places : p = <<p[1], p[2]>> /\ p[1] \in R /\ p[2] \in 1 .. Widest(layers)
  BY <1>3
<1>6. \A p \in places : IsPlace(p, id, layers)
  BY <1>3 DEF IsPlace
<1> HIDE DEF places
<1>7. R \in SUBSET (1 .. Len(layers))
  OBVIOUS
<1>8. PICK r \in R : \A x \in R : x <= r
  <2> HIDE DEF R
  <2> QED BY <1>3, <1>4, <1>7, GreatestNumber
<1> DEFINE C == {c \in 1 .. Widest(layers) : <<r, c>> \in places}
<1>9. C # {} /\ C \in SUBSET (1 .. Widest(layers))
  BY <1>8
<1>10. PICK c \in C : \A y \in C : y <= c
  <2> HIDE DEF C
  <2> QED BY <1>3, <1>9, GreatestNumber
<1>11. <<r, c>> \in places
  BY <1>10
<1>12. \A q \in places : q[1] < r \/ (q[1] = r /\ q[2] <= c)
  <2> SUFFICES ASSUME NEW q \in places, q[1] # r PROVE q[1] < r
    <3>1. ASSUME NEW q \in places, q[1] = r PROVE q[2] <= c
      <4>1. q[2] \in C
        BY <1>5, <3>1
      <4> HIDE DEF C
      <4> QED BY <1>10, <4>1
    <3> QED BY <3>1
  <2>1. q[1] \in R /\ r \in R
    BY <1>5
  <2>2. q[1] \in Nat /\ r \in Nat
    BY <1>3, <1>7, <2>1
  <2> HIDE DEF R
  <2> QED BY <1>8, <2>1, <2>2
<1>13. Latest(<<r, c>>)
  BY <1>12
<1> HIDE DEF Latest
<1>14. PlaceOf(id, layers) \in places
  BY <1>1, <1>11, <1>13
<1> QED BY <1>6, <1>14

\* The units of a row and of a column.
LEMMA Units ==
    ASSUME NEW w \in Nat, NEW l \in Nat, l <= w, NEW c \in Nat \ {0}, NEW d \in Nat \ {0}
    PROVE  /\ 13 * (w - l) + 4 + 26 * (c - 1) \in Nat /\ 16 * (c - 1) \in Nat
           /\ 13 * (w - l) + 4 + 26 * (c - 1) = 13 * (w - l) + 4 + 26 * (d - 1) => c = d
           /\ 16 * (c - 1) = 16 * (d - 1) => c = d
           /\ c < d => 16 * (c - 1) < 16 * (d - 1)
OBVIOUS

\* No two places of a drawing have the same coordinates.
LEMMA CoordinatesApart ==
    ASSUME NEW S, NEW layers \in Seq(Seq(S)), layers # <<>>, NEW p, NEW q, NEW i, NEW j,
           IsPlace(p, i, layers), IsPlace(q, j, layers)
    PROVE  /\ Coordinates(p, layers) \in Nat \X Nat /\ Coordinates(p, layers)[2] = 16 * (p[1] - 1)
           /\ Coordinates(p, layers) = Coordinates(q, layers) => i = j
           /\ p[1] < q[1] => Coordinates(p, layers)[2] < Coordinates(q, layers)[2]
<1> DEFINE w == Widest(layers)
           left(r) == 13 * (w - Len(layers[r])) + 4
           x(a) == 13 * (w - Len(layers[a[1]])) + 4 + 26 * (a[2] - 1)
           y(a) == 16 * (a[1] - 1)
<1>1. Coordinates(p, layers) = <<x(p), y(p)>> /\ Coordinates(q, layers) = <<x(q), y(q)>>
  BY DEF Coordinates, Widest
<1>2. /\ w \in Nat /\ Len(layers) \in Nat
      /\ \A r \in 1 .. Len(layers) : Len(layers[r]) \in 0 .. w
  BY WidestIs
<1>3. /\ p = <<p[1], p[2]>> /\ p[1] \in 1 .. Len(layers) /\ p[2] \in 1 .. Len(layers[p[1]]) /\ layers[p[1]][p[2]] = i
      /\ q = <<q[1], q[2]>> /\ q[1] \in 1 .. Len(layers) /\ q[2] \in 1 .. Len(layers[q[1]]) /\ layers[q[1]][q[2]] = j
  BY DEF IsPlace
<1>4. /\ p[1] \in Nat \ {0} /\ p[2] \in Nat \ {0} /\ Len(layers[p[1]]) \in Nat /\ Len(layers[p[1]]) <= w
      /\ q[1] \in Nat \ {0} /\ q[2] \in Nat \ {0} /\ Len(layers[q[1]]) \in Nat /\ Len(layers[q[1]]) <= w
  BY <1>2, <1>3
<1> HIDE DEF w
<1>5. x(p) \in Nat /\ y(p) \in Nat
  BY <1>2, <1>4, Units
<1>6. ASSUME x(p) = x(q), y(p) = y(q) PROVE i = j
  <2>1. p[1] = q[1]
    BY <1>4, <1>6
  <2>2. x(q) = 13 * (w - Len(layers[p[1]])) + 4 + 26 * (q[2] - 1)
    BY <2>1
  <2>3. x(p) = 13 * (w - Len(layers[p[1]])) + 4 + 26 * (q[2] - 1)
    BY <1>6, <2>2
  <2>4. 13 * (w - Len(layers[p[1]])) + 4 + 26 * (p[2] - 1) = 13 * (w - Len(layers[p[1]])) + 4 + 26 * (q[2] - 1)
    BY <2>3
  <2>5. p[2] = q[2]
    BY ONLY <1>2, <1>4, <2>4, Units
  <2> QED BY <1>3, <2>1, <2>5
<1>7. p[1] < q[1] => y(p) < y(q)
  BY <1>4
<1> HIDE DEF x, y
<1>8. /\ Coordinates(p, layers) \in Nat \X Nat /\ Coordinates(p, layers)[2] = y(p)
      /\ Coordinates(q, layers)[2] = y(q)
      /\ Coordinates(p, layers) = Coordinates(q, layers) => x(p) = x(q) /\ y(p) = y(q)
  BY <1>1, <1>5
<1> QED BY <1>6, <1>7, <1>8 DEF y

----------------------------------------------------------------------------
(* The layout: the drawing.                                                   *)

\* A layout keeps the ids and moves each node to the coordinates of its place.
LEMMA LayoutDraws ==
    ASSUME NEW canvas, IsCanvas(canvas), Drawn(canvas.nodes, canvas.edges), canvas.nodes # <<>>,
           NEW t, t = Layout(canvas), NEW layers, layers = Layers(canvas)
    PROVE  /\ IsSequence(t.nodes) /\ DOMAIN t.nodes = DOMAIN canvas.nodes /\ t.edges = canvas.edges
           /\ \A i \in DOMAIN t.nodes :
                 /\ t.nodes[i].id = canvas.nodes[i].id
                 /\ t.nodes[i].pos = Coordinates(PlaceOf(canvas.nodes[i].id, layers), layers)
<1>1. t = Placed(canvas, layers)
  BY DEF Layout
<1> DEFINE pos(i) == Coordinates(PlaceOf(canvas.nodes[i].id, layers), layers)
           nodes == [i \in DOMAIN canvas.nodes |-> [canvas.nodes[i] EXCEPT !.pos = pos(i)]]
<1>2. t = [canvas EXCEPT !.nodes = nodes]
  BY <1>1 DEF Placed
<1>3. t.nodes = nodes /\ t.edges = canvas.edges
  <2> HIDE DEF nodes
  <2> QED BY <1>2 DEF IsCanvas
<1> HIDE DEF pos
<1>4. ASSUME NEW i \in DOMAIN canvas.nodes, NEW n, n = nodes[i], NEW o, o = canvas.nodes[i]
      PROVE  n.id = o.id /\ n.pos = pos(i)
  <2>1. PICK p : p = pos(i)
    OBVIOUS
  <2>2. n = [o EXCEPT !.pos = p]
    BY <2>1, <1>4
  <2>3. IsNode(o)
    BY <1>4, SequenceParts DEF Drawn
  <2>4. n.id = o.id /\ n.pos = p
    BY ONLY <2>2, <2>3 DEF IsNode
  <2> QED BY <2>1, <2>4
<1>5. IsMapped(canvas.nodes, nodes)
  BY DEF IsMapped
<1> HIDE DEF nodes
<1>6. IsSequence(nodes) /\ DOMAIN nodes = DOMAIN canvas.nodes
  BY <1>5, SequenceMapped DEF Drawn
<1> QED BY <1>3, <1>4, <1>6 DEF pos

\* In the rows of a drawing an edge leads to a later row.
LEMMA EdgesGoDown ==
    ASSUME NEW canvas, NEW S, NEW layers \in Seq(Seq(S)), Rowed(layers, canvas),
           NEW a, NEW b, NEW p, NEW q, IsPlace(p, a, layers), IsPlace(q, b, layers),
           <<a, b>> \in Pairs(canvas)
    PROVE  p[1] < q[1]
<1>1. /\ Len(layers) \in Nat /\ p[1] \in 1 .. Len(layers) /\ q[1] \in 1 .. Len(layers)
      /\ layers[p[1]] \in Seq(S) /\ layers[q[1]] \in Seq(S)
  BY LenProperties, ElementOfSeq DEF IsPlace
<1>2. a \in Range(layers[p[1]]) /\ b \in Range(layers[q[1]])
  <2>1. IsSequence(layers[p[1]]) /\ IsSequence(layers[q[1]])
    BY <1>1, SequenceOf
  <2>2. \A i \in 1 .. Len(layers[p[1]]) : layers[p[1]][i] \in Range(layers[p[1]])
    BY <2>1, SequenceParts
  <2>3. \A i \in 1 .. Len(layers[q[1]]) : layers[q[1]][i] \in Range(layers[q[1]])
    BY <2>1, SequenceParts
  <2> QED BY <2>2, <2>3 DEF IsPlace
<1>3. PICK e \in Range(canvas.edges) : e.src = a /\ e.dst = b
  BY DEF Pairs
<1>4. e \in Into(canvas, b)
  BY <1>3 DEF Into
<1>5. Into(canvas, b) \subseteq From(canvas, Settled(layers, q[1] - 1)) /\ a \notin Settled(layers, p[1] - 1)
  BY <1>1, <1>2 DEF Rowed
<1>6. a \in Settled(layers, q[1] - 1)
  BY <1>3, <1>4, <1>5 DEF From
<1>7. PICK r \in 1 .. q[1] - 1 : a \in Range(layers[r])
  BY <1>6 DEF Settled
<1>8. r \notin 1 .. p[1] - 1
  BY <1>5, <1>7 DEF Settled
<1> QED BY <1>1, <1>7, <1>8

\* The layout of a canvas without repeated ids is tidy.
LEMMA SketchIsLaidOut ==
    ASSUME NEW canvas, Sketch(canvas), IsCanvas(canvas)
    PROVE  LaidOut(canvas)
<1> DEFINE t == Layout(canvas)
           layers == Layers(canvas)
           S == LayoutIds(canvas)
           row(id) == t.nodes[IndexById(t.nodes, id)].pos[2]
           Tidy ==
               /\ \A i, j \in DOMAIN t.nodes : i # j => t.nodes[i].pos # t.nodes[j].pos
               /\ ~Cyclic(NodeIds(t), Pairs(canvas)) =>
                      \A e \in Pairs(canvas) : {e[1], e[2]} \subseteq NodeIds(t) => row(e[1]) < row(e[2])
<1>1. LaidOut(canvas) <=> Tidy
  BY DEF LaidOut, TidyDrawing, IndexById, Pairs
<1>2. CASE canvas.nodes = <<>>
  <2>1. t = canvas
    BY <1>2 DEF Layout
  <2>2. DOMAIN t.nodes = {} /\ NodeIds(t) = {}
    BY <1>2, <2>1 DEF NodeIds
  <2> HIDE DEF t
  <2> QED BY <1>1, <2>2
<1>3. CASE canvas.nodes # <<>>
  <2>1. Drawn(canvas.nodes, canvas.edges)
    BY DEF Sketch
  <2>2. /\ IsSequence(t.nodes) /\ DOMAIN t.nodes = DOMAIN canvas.nodes
        /\ \A i \in DOMAIN t.nodes :
              /\ t.nodes[i].id = canvas.nodes[i].id
              /\ t.nodes[i].pos = Coordinates(PlaceOf(canvas.nodes[i].id, layers), layers)
    BY <1>3, <2>1, LayoutDraws
  <2>3. /\ layers \in Seq(Seq(S)) /\ Kahn(canvas).layers \in Seq(Seq(S)) /\ NodeIds(canvas) \subseteq AllSettled(layers)
        /\ NodeIds(canvas) \subseteq AllSettled(Kahn(canvas).layers) => layers = Kahn(canvas).layers
    BY <2>1, LayersPlace
  <2>4. NodeIds(t) = NodeIds(canvas) /\ \A i \in DOMAIN t.nodes : t.nodes[i].id \in NodeIds(canvas)
    BY <2>2 DEF NodeIds
  <2> HIDE DEF t, layers, S
  <2> DEFINE place(id) == PlaceOf(id, layers)
  <2>5. \A id \in NodeIds(canvas) : IsPlace(place(id), id, layers)
    BY <2>3, PlaceFound
  <2>6. layers # <<>>
    <3>1. SUFFICES ASSUME layers = <<>> PROVE FALSE
      OBVIOUS
    <3>2. Len(layers) = 0
      BY <3>1
    <3>3. AllSettled(layers) = {}
      BY <3>2 DEF AllSettled, Settled
    <3>4. 1 \in DOMAIN canvas.nodes
      <4>1. Len(canvas.nodes) \in Nat /\ DOMAIN canvas.nodes = 1 .. Len(canvas.nodes)
        BY <2>1, SequenceParts DEF Drawn
      <4>2. Len(canvas.nodes) # 0
        BY <1>3, <2>1, EmptySeq DEF Drawn, IsSequence
      <4> QED BY <4>1, <4>2
    <3>5. canvas.nodes[1].id \in NodeIds(canvas)
      BY <3>4 DEF NodeIds
    <3> QED BY <2>3, <3>3, <3>5
  <2> HIDE DEF place
  <2>7. \A i \in DOMAIN t.nodes : t.nodes[i].pos = Coordinates(place(t.nodes[i].id), layers)
    BY <2>2 DEF place
  <2>8. ASSUME NEW i \in DOMAIN t.nodes, NEW j \in DOMAIN t.nodes, i # j
        PROVE  t.nodes[i].pos # t.nodes[j].pos
    <3>1. t.nodes[i].id # t.nodes[j].id
      BY <2>2, <2>8 DEF Sketch, Distinct
    <3>2. IsPlace(place(t.nodes[i].id), t.nodes[i].id, layers) /\ IsPlace(place(t.nodes[j].id), t.nodes[j].id, layers)
      BY <2>4, <2>5
    <3>3. Coordinates(place(t.nodes[i].id), layers) # Coordinates(place(t.nodes[j].id), layers)
      BY <2>3, <2>6, <3>1, <3>2, CoordinatesApart
    <3> QED BY <2>7, <3>3
  <2>9. ASSUME ~Cyclic(NodeIds(t), Pairs(canvas)),
               NEW e \in Pairs(canvas), {e[1], e[2]} \subseteq NodeIds(t)
        PROVE  row(e[1]) < row(e[2])
    <3>1. layers = Kahn(canvas).layers
      BY <2>3, <2>4, <2>9, AcyclicIsSettled
    <3>2. Rowed(layers, canvas)
      BY <3>1, KahnEnds DEF PassInv
    <3>3. e[1] \in NodeIds(canvas) /\ e[2] \in NodeIds(canvas) /\ e = <<e[1], e[2]>>
      BY <2>4, <2>9 DEF Pairs
    <3>4. IsPlace(place(e[1]), e[1], layers) /\ IsPlace(place(e[2]), e[2], layers)
      BY <2>5, <3>3
    <3>5. place(e[1])[1] < place(e[2])[1]
      BY <2>3, <3>2, <3>3, <3>4, EdgesGoDown
    <3>6. Coordinates(place(e[1]), layers)[2] < Coordinates(place(e[2]), layers)[2]
      BY <2>3, <2>6, <3>4, <3>5, CoordinatesApart
    <3>7. ASSUME NEW id \in NodeIds(canvas) PROVE row(id) = Coordinates(place(id), layers)[2]
      <4>1. PICK i \in DOMAIN t.nodes : t.nodes[i].id = id
        BY <2>2 DEF NodeIds
      <4>2. t.nodes[i] \in Range(t.nodes)
        BY <4>1 DEF Range
      <4>3. PICK at : at = IndexById(t.nodes, id)
        OBVIOUS
      <4>4. at \in 1 .. Len(t.nodes) /\ t.nodes[at].id = id
        BY <2>2, <4>1, <4>2, <4>3, FoundById
      <4>5. at \in DOMAIN t.nodes
        BY <2>2, <4>4, SequenceParts
      <4> QED BY <2>7, <4>3, <4>4, <4>5
    <3> QED BY <3>3, <3>6, <3>7
  <2> QED BY <1>1, <2>8, <2>9
<1> QED BY <1>2, <1>3

----------------------------------------------------------------------------
(* The layout of an import.                                                   *)

LEMMA ImportIsASketch ==
    ASSUME NEW definition, IsSequence(definition.tasks), Distinct(definition.tasks),
           NEW canvas, canvas = Deserialize(definition)
    PROVE  Sketch(canvas) /\ IsCanvas(canvas)
<1> DEFINE tasks == definition.tasks
<1>1. /\ IsCanvas(canvas) /\ Drawn(canvas.nodes, canvas.edges)
      /\ \A k \in DOMAIN canvas.edges : canvas.edges[k].id = <<0, k>>
      /\ Recalls(canvas, tasks)
  BY DeserializedCanvas
<1>2. Distinct(canvas.nodes) /\ Distinct(canvas.edges)
  BY <1>1 DEF Distinct, Recalls
<1>3. ASSUME NEW e \in Range(canvas.edges) PROVE e.src \in NodeIds(canvas)
  <2>1. PICK d \in Range(DrawnEdges(tasks)) : e.src = d.src
    BY <1>1 DEF Recalls
  <2>2. \A x : x \in Range(DrawnEdges(tasks)) <=> \E i \in DOMAIN tasks : x \in Range(EdgesOf(tasks[i]))
    BY DrawnEdgesOfTasks
  <2>3. PICK i \in DOMAIN tasks : d \in Range(EdgesOf(tasks[i]))
    BY <2>1, <2>2
  <2>4. \A x \in Range(EdgesOf(tasks[i])) : x.src = tasks[i].id
    BY EdgesOfTask
  <2>5. i \in DOMAIN canvas.nodes /\ canvas.nodes[i].id = tasks[i].id
    BY <1>1, <2>3 DEF Recalls
  <2> QED BY <2>1, <2>3, <2>4, <2>5 DEF NodeIds
<1> QED BY <1>1, <1>2, <1>3 DEF Sketch

LEMMA ImportIsLaidOut ==
    ASSUME NEW definition, IsSequence(definition.tasks), Distinct(definition.tasks)
    PROVE  LaidOut(Deserialize(definition))
BY ImportIsASketch, SketchIsLaidOut

LEMMA ShapeIsLaidOut == Shape => LayoutFollowsEdges
<1> SUFFICES ASSUME Shape PROVE LayoutFollowsEdges
  OBVIOUS
<1>1. PostedLaidOut
  <2>1. \A definition \in Posted : IsSequence(definition.tasks)
    BY BuilderAssumption DEF IsSequence
  <2> QED BY <2>1, ImportIsLaidOut DEF PostedLaidOut
<1>2. ASSUME Distinct(store.nodes) PROVE LaidOut(Deserialize(Serialize(<<clock>>, store)))
  <2>1. PICK definition : definition = Serialize(<<clock>>, store)
    OBVIOUS
  <2>2. IsSequence(store.nodes)
    BY DEF Shape, IsStore, Drawn
  <2>3. IsSequence(definition.tasks) /\ definition.tasks = [i \in DOMAIN store.nodes |-> TaskOf(store, store.nodes[i])]
    BY <2>1, <2>2, SerializedTasks
  <2>4. \A node : TaskOf(store, node).id = node.id
    BY DEF TaskOf
  <2>5. Distinct(definition.tasks)
    BY <1>2, <2>3, <2>4 DEF Distinct
  <2> QED BY <2>1, <2>3, <2>5, ImportIsLaidOut
<1> QED BY <1>1, <1>2 DEF LayoutFollowsEdges

\* Whatever was edited, pasted, undone or imported before, an import without positions
\* is drawn with no node over another and, without a cycle, with every edge going
\* down a row: TopologicalLayoutEngine.layout, auto-layout-service.ts:25-96.
THEOREM LayoutIsTidy == Spec => []LayoutFollowsEdges
<1>1. Spec => []Shape
  BY BuilderShape
<1>2. Shape => LayoutFollowsEdges
  BY ShapeIsLaidOut
<1> QED BY <1>1, <1>2, PTL

\* The layout of an import without repeated ids ends: the while loop of
\* auto-layout-service.ts:46-60 empties its queue, cycle or not.
THEOREM LayoutTerminates ==
    ASSUME NEW definition, IsSequence(definition.tasks), Distinct(definition.tasks)
    PROVE  LayoutEnds(Deserialize(definition))
BY ImportIsASketch, KahnEnds DEF LayoutEnds

----------------------------------------------------------------------------
(* The values that the nodes, edges, commands and files carry.                *)

FitNode(n) == n.plugin \in STRING /\ n.pos \in Int \X Int /\ n.name[2] \in Nat
FitEdge(e) == e.label \in Outcomes \cup {NoLabel}
Fit(nodes, edges) == (\A n \in Range(nodes) : FitNode(n)) /\ (\A e \in Range(edges) : FitEdge(e))
FitStore(s) == Fit(s.nodes, s.edges) /\ Fit(s.clip.nodes, s.clip.edges)
FitCommand(c) ==
    /\ c.type = "ADD_NODE" => FitNode(c.node)
    /\ c.type = "MOVE_NODE" => c.new \in Int \X Int /\ c.old \in Int \X Int
    /\ c.type = "UPDATE_PROPERTY" /\ c.key = "name" => c.new[2] \in Nat /\ c.old[2] \in Nat
    /\ c.type = "CONNECT_EDGE" => FitEdge(c.edge)
    /\ c.type = "DISCONNECT_EDGE" /\ c.deleted # <<>> => FitEdge(c.deleted[1])
    /\ c.type = "DELETE_SELECTION" => Fit(c.nodes, c.edges)
FitDefinition(definition) ==
    /\ \A task \in Range(definition.tasks) : task.plugin \in STRING /\ task.name[2] \in Nat
    /\ \A id \in DOMAIN definition.positions : definition.positions[id] \in Int \X Int

\* What a handler picks from fit nodes and edges is fit.
LEMMA PartsAreFit ==
    ASSUME NEW nodes, NEW edges, Drawn(nodes, edges), Fit(nodes, edges), NEW ids
    PROVE  /\ Fit(Inside(nodes, ids), Within(edges, ids)) /\ Fit(Inside(nodes, ids), Touching(edges, ids))
           /\ Fit(Outside(nodes, ids), Apart(edges, ids))
           /\ Fit(Outside(nodes, ids), edges) /\ Fit(nodes, Outside(edges, ids))
BY NodesKept, EdgesKept DEF Drawn, Fit

LEMMA JoinedAreFit ==
    ASSUME NEW nodes, NEW edges, Drawn(nodes, edges), Fit(nodes, edges),
           NEW more, NEW others, Drawn(more, others), Fit(more, others)
    PROVE  Drawn(nodes \o more, edges \o others) /\ Fit(nodes \o more, edges \o others)
BY SequencesJoined DEF Drawn, Fit

LEMMA RedrawnIsFit ==
    ASSUME NEW s, IsStore(s), FitStore(s), NEW nodes, NEW edges, Drawn(nodes, edges), Fit(nodes, edges), NEW t,
           \/ t = WithCanvas(s, nodes, edges)
           \/ t = WithNodes(s, nodes) /\ edges = s.edges
           \/ t = WithEdges(s, edges) /\ nodes = s.nodes
    PROVE  FitStore(t)
BY Redrawn DEF FitStore

\* A field of a node is replaced by a value that is fit.
LEMMA ReplacedIsFit ==
    ASSUME NEW s, IsStore(s), FitStore(s), NEW id, NEW value, NEW key \in {"pos", "name", "config"},
           key = "pos" => value \in Int \X Int, key = "name" => value[2] \in Nat,
           NEW t, t = WithNodes(s, Replaced(s.nodes, id, key, value))
    PROVE  FitStore(t)
<1> DEFINE nodes == Replaced(s.nodes, id, key, value)
<1>1. IsSequence(s.nodes) /\ \A i \in DOMAIN s.nodes : IsNode(s.nodes[i]) /\ FitNode(s.nodes[i])
  BY SequenceParts DEF IsStore, Drawn, FitStore, Fit
<1>2. ASSUME NEW i \in DOMAIN s.nodes, NEW n, n = nodes[i], NEW o, o = s.nodes[i] PROVE FitNode(n)
  <2>1. IsNode(o) /\ FitNode(o) /\ n = IF o.id = id THEN [o EXCEPT ![key] = value] ELSE o
    BY <1>1, <1>2 DEF Replaced
  <2>2. CASE key = "pos"
    <3>1. value \in Int \X Int
      BY <2>2
    <3> QED BY ONLY <2>1, <2>2, <3>1 DEF IsNode, FitNode
  <2>3. CASE key = "name"
    <3>1. value[2] \in Nat
      BY <2>3
    <3> QED BY ONLY <2>1, <2>3, <3>1 DEF IsNode, FitNode
  <2>4. CASE key = "config"
    BY ONLY <2>1, <2>4 DEF IsNode, FitNode
  <2> QED BY <2>2, <2>3, <2>4
<1>3. IsMapped(s.nodes, nodes)
  BY DEF Replaced, IsMapped
<1>4. Drawn(nodes, s.edges)
  BY ChangedNodes
<1> HIDE DEF nodes
<1>5. \A x \in Range(nodes) : \E i \in DOMAIN s.nodes : x = nodes[i]
  BY <1>1, <1>3, SequenceMapped
<1>6. Fit(nodes, s.edges)
  BY <1>2, <1>5 DEF Fit, FitStore
<1> QED BY <1>4, <1>6, RedrawnIsFit DEF nodes

\* Copies are shifted and renamed to fit values.
LEMMA CopiesAreFit ==
    ASSUME NEW nodes, NEW edges, Drawn(nodes, edges), Fit(nodes, edges), NEW suffix \in Nat, NEW now,
           NEW copies, copies = Cloned(nodes, edges, suffix, now)
    PROVE  Fit(copies.nodes, copies.edges)
<1> DEFINE inner == Within(edges, {nodes[i].id : i \in DOMAIN nodes})
<1>1. IsSequence(inner) /\ \A e \in Range(inner) : IsEdge(e) /\ FitEdge(e)
  BY EdgesKept DEF Drawn, Fit
<1>2. IsSequence(nodes) /\ \A i \in DOMAIN nodes : IsNode(nodes[i]) /\ FitNode(nodes[i])
  BY SequenceParts DEF Drawn, Fit
<1> DEFINE rename(name) == IF name[1] = "" THEN name ELSE <<name[1], name[2] + suffix>>
           shift(p) == <<p[1] + PasteOffset, p[2] + PasteOffset>>
           newId(id) == <<now, SelectLastInSeq(nodes, LAMBDA n : n.id = id)>>
<1>3. /\ copies.nodes = [i \in DOMAIN nodes |->
                           [nodes[i] EXCEPT !.id = <<now, i>>, !.pos = shift(@), !.name = rename(@)]]
      /\ copies.edges = [i \in DOMAIN inner |->
                           [inner[i] EXCEPT !.id = <<now, i>>, !.src = newId(@), !.dst = newId(@)]]
  BY DEF Cloned
<1>4. \A p \in Int \X Int : shift(p) \in Int \X Int
  BY DEF PasteOffset
<1>5. \A m : m[2] \in Nat => rename(m)[2] \in Nat
  <2>1. ASSUME NEW m, m[2] \in Nat PROVE rename(m)[2] \in Nat
    <3>1. CASE m[1] = ""
      <4>1. rename(m) = m
        BY <3>1
      <4> HIDE DEF rename
      <4> QED BY <2>1, <4>1
    <3>2. CASE m[1] # ""
      <4>1. rename(m) = <<m[1], m[2] + suffix>>
        BY <3>2
      <4>2. m[2] + suffix \in Nat
        BY <2>1
      <4> HIDE DEF rename
      <4> QED BY <4>1, <4>2
    <3> QED BY <3>1, <3>2
  <2> QED BY <2>1
<1> HIDE DEF rename, shift, newId, inner
<1>6. \A i \in DOMAIN nodes : FitNode(copies.nodes[i])
  <2>1. ASSUME NEW i \in DOMAIN nodes, NEW n, n = copies.nodes[i], NEW o, o = nodes[i],
               NEW p, p = shift(o.pos), NEW m, m = rename(o.name), NEW id, id = <<now, i>>
        PROVE  FitNode(n)
    <3>1. n = [o EXCEPT !.id = id, !.pos = p, !.name = m] /\ IsNode(o) /\ FitNode(o)
      BY <1>2, <1>3, <2>1
    <3>2. p \in Int \X Int /\ m[2] \in Nat
      BY <1>4, <1>5, <2>1, <3>1 DEF FitNode
    <3>3. n.plugin = o.plugin /\ n.pos = p /\ n.name = m
      BY ONLY <3>1 DEF IsNode
    <3> QED BY <3>1, <3>2, <3>3 DEF FitNode
  <2> QED BY <2>1
<1>7. \A i \in DOMAIN inner : FitEdge(copies.edges[i])
  <2>1. ASSUME NEW i \in DOMAIN inner, NEW e, e = copies.edges[i], NEW o, o = inner[i],
               NEW s, s = newId(o.src), NEW d, d = newId(o.dst), NEW id, id = <<now, i>>
        PROVE  FitEdge(e)
    <3>1. IsEdge(o) /\ FitEdge(o)
      BY <1>1, <2>1, SequenceParts
    <3>2. e = [o EXCEPT !.id = id, !.src = s, !.dst = d]
      BY <1>3, <2>1
    <3>3. e.label = o.label
      BY ONLY <3>1, <3>2 DEF IsEdge
    <3> QED BY <3>1, <3>3 DEF FitEdge
  <2> QED BY <2>1
<1>8. IsMapped(nodes, copies.nodes) /\ IsMapped(inner, copies.edges)
  BY <1>3 DEF IsMapped
<1>9. /\ \A x \in Range(copies.nodes) : \E i \in DOMAIN nodes : x = copies.nodes[i]
      /\ \A x \in Range(copies.edges) : \E i \in DOMAIN inner : x = copies.edges[i]
  BY <1>1, <1>2, <1>8, SequenceMapped
<1> QED BY <1>6, <1>7, <1>9 DEF Fit

LEMMA CloneIsFit ==
    ASSUME NEW s, IsStore(s), FitStore(s), NEW c, NEW nodes, NEW edges, Drawn(nodes, edges), Fit(nodes, edges),
           NEW suffix \in Nat, NEW now, NEW done, done = Clone(c, s, nodes, edges, suffix, now)
    PROVE  FitStore(done.store)
<1> DEFINE copies == Cloned(nodes, edges, suffix, now)
<1>1. done.store = WithCanvas(s, s.nodes \o copies.nodes, s.edges \o copies.edges)
  BY DEF Clone, WithCanvas
<1>2. Drawn(copies.nodes, copies.edges) /\ Fit(copies.nodes, copies.edges)
  BY CopiesAreDrawn, CopiesAreFit
<1> HIDE DEF copies
<1>3. Drawn(s.nodes, s.edges) /\ Fit(s.nodes, s.edges)
  BY DEF IsStore, FitStore
<1>4. /\ Drawn(s.nodes \o copies.nodes, s.edges \o copies.edges)
      /\ Fit(s.nodes \o copies.nodes, s.edges \o copies.edges)
  BY <1>2, <1>3, JoinedAreFit
<1> QED BY <1>1, <1>4, RedrawnIsFit

\* execute: the store stays fit and the command too.
LEMMA ExecuteIsFit ==
    ASSUME NEW s, IsStore(s), FitStore(s), NEW c, IsCommand(c), FitCommand(c), NEW now,
           NEW done, done = Execute(c, s, now)
    PROVE  FitStore(done.store) /\ FitCommand(done.cmd)
<1>0. Drawn(s.nodes, s.edges) /\ Fit(s.nodes, s.edges) /\ Drawn(s.clip.nodes, s.clip.edges) /\ Fit(s.clip.nodes, s.clip.edges)
  BY DEF IsStore, FitStore
<1>1. CASE c = AddNodeCommand(c.node) /\ IsNode(c.node)
  <2>1. done = ExecuteAdd(c, s) /\ FitNode(c.node)
    BY <1>1 DEF Execute, AddNodeCommand, FitCommand
  <2>2. Drawn(Append(s.nodes, c.node), s.edges) /\ Fit(Append(s.nodes, c.node), s.edges)
    BY <1>0, <1>1, <2>1, SequenceAppended DEF Drawn, Fit
  <2>3. done.cmd = c /\ done.store = WithNodes(s, Append(s.nodes, c.node))
    BY <2>1 DEF ExecuteAdd, WithNodes
  <2> QED BY <2>2, <2>3, RedrawnIsFit
<1>2. CASE c = MoveNodeCommand(c.id, c.new, c.old)
  <2>1. done = [cmd |-> c, store |-> MovedTo(c, s, c.new)] /\ c.new \in Int \X Int
    BY <1>2 DEF Execute, MoveNodeCommand, FitCommand
  <2>2. done.cmd = c /\ done.store = WithNodes(s, Replaced(s.nodes, c.id, "pos", c.new))
    BY <2>1 DEF MovedTo, Changed, WithNodes, Replaced
  <2> QED BY <2>1, <2>2, ReplacedIsFit
<1>3. CASE c = UpdatePropertyCommand(c.id, c.key, c.new, c.old) /\ c.key \in {"name", "config"}
  <2>1. done = [cmd |-> c, store |-> WithProperty(c, s, c.new)] /\ (c.key = "name" => c.new[2] \in Nat)
    BY <1>3 DEF Execute, UpdatePropertyCommand, FitCommand
  <2>2. done.cmd = c /\ done.store = WithNodes(s, Replaced(s.nodes, c.id, c.key, c.new))
    BY <2>1 DEF WithProperty, Changed, WithNodes, Replaced
  <2>3. c.key \in {"pos", "name", "config"} /\ c.key # "pos"
    BY <1>3
  <2> QED BY <2>1, <2>2, <2>3, ReplacedIsFit
<1>4. CASE c = ConnectEdgeCommand(c.edge) /\ IsEdge(c.edge)
  <2>1. done = ExecuteConnect(c, s) /\ FitEdge(c.edge)
    BY <1>4 DEF Execute, ConnectEdgeCommand, FitCommand
  <2>2. Drawn(s.nodes, Append(s.edges, c.edge)) /\ Fit(s.nodes, Append(s.edges, c.edge))
    BY <1>0, <1>4, <2>1, SequenceAppended DEF Drawn, Fit
  <2>3. done.cmd = c /\ done.store = WithEdges(s, Append(s.edges, c.edge))
    BY <2>1 DEF ExecuteConnect, WithEdges
  <2> QED BY <2>2, <2>3, RedrawnIsFit
<1>5. CASE /\ c = Disconnection(c.id, c.index, c.deleted)
           /\ c.index \in Int
           /\ c.deleted = <<>> \/ (c.deleted = <<c.deleted[1]>> /\ IsEdge(c.deleted[1]))
  <2>1. done = ExecuteDisconnect(c, s) /\ (c.deleted # <<>> => FitEdge(c.deleted[1]))
    BY <1>5 DEF Execute, Disconnection, FitCommand
  <2> DEFINE at == IndexById(s.edges, c.id)
  <2>2. CASE at = 0
    <3>1. done = [cmd |-> Disconnection(c.id, -1, c.deleted), store |-> s]
      BY <2>1, <2>2 DEF ExecuteDisconnect, IndexById
    <3>2. done.cmd = Disconnection(c.id, -1, c.deleted) /\ done.store = s
      BY <3>1
    <3>3. done.cmd.type = "DISCONNECT_EDGE" /\ done.cmd.deleted = c.deleted
      BY <3>2 DEF Disconnection
    <3>4. FitCommand(done.cmd)
      BY <2>1, <3>3 DEF FitCommand
    <3> QED BY <3>2, <3>4
  <2>3. CASE at # 0
    <3> DEFINE edge == s.edges[at]
    <3>1. done = [cmd |-> Disconnection(c.id, at - 1, <<edge>>),
                  store |-> [s EXCEPT !.edges = Outside(s.edges, {c.id})]]
      BY <2>1, <2>3 DEF ExecuteDisconnect, IndexById
    <3>2. FitEdge(edge)
      <4>1. IsSequence(s.edges)
        BY <1>0 DEF Drawn
      <4>2. edge \in Range(s.edges)
        <5> HIDE DEF at
        <5> QED BY <2>3, <4>1, FoundById DEF at
      <4> QED BY <1>0, <4>2 DEF Fit
    <3> HIDE DEF at, edge
    <3>3. done.cmd = Disconnection(c.id, at - 1, <<edge>>) /\ done.store = WithEdges(s, Outside(s.edges, {c.id}))
      BY <3>1 DEF WithEdges
    <3>4. done.cmd.type = "DISCONNECT_EDGE" /\ done.cmd.deleted = <<edge>>
      BY <3>3 DEF Disconnection
    <3>5. FitCommand(done.cmd)
      BY <3>2, <3>4 DEF FitCommand
    <3>6. Drawn(s.nodes, Outside(s.edges, {c.id})) /\ Fit(s.nodes, Outside(s.edges, {c.id}))
      BY <1>0, InnerDrawn, PartsAreFit
    <3> QED BY <3>3, <3>5, <3>6, RedrawnIsFit
  <2> QED BY <2>2, <2>3
<1>6. CASE c = CopySelectionCommand(c.ids)
  <2>1. done = ExecuteCopy(c, s)
    BY <1>6 DEF Execute, CopySelectionCommand
  <2> DEFINE nodes == Inside(s.nodes, c.ids)
             edges == Within(s.edges, c.ids)
  <2>2. done = [cmd |-> c, store |-> [s EXCEPT !.clip = [nodes |-> nodes, edges |-> edges]]]
    BY <2>1 DEF ExecuteCopy
  <2>3. Fit(nodes, edges)
    BY <1>0, PartsAreFit
  <2> HIDE DEF nodes, edges
  <2>4. done.cmd = c /\ done.store = [nodes |-> s.nodes, edges |-> s.edges, selected |-> s.selected,
                                      errors |-> s.errors, clip |-> [nodes |-> nodes, edges |-> edges]]
    BY <2>2 DEF IsStore
  <2>5. FitStore(done.store)
    BY <1>0, <2>3, <2>4 DEF FitStore
  <2> QED BY <2>4, <2>5
<1>7. CASE c = [type |-> "PASTE", made |-> c.made]
  <2>1. done = Clone(c, s, s.clip.nodes, s.clip.edges, 0, now)
    BY <1>7 DEF Execute, ExecutePaste
  <2>2. FitStore(done.store)
    BY <1>0, <2>1, CloneIsFit
  <2>3. PICK made : made = c.made \cup {<<now, i>> : i \in DOMAIN s.clip.nodes}
    OBVIOUS
  <2>4. done.cmd = [c EXCEPT !.made = made]
    BY <2>1, <2>3 DEF Clone
  <2>5. done.cmd.type = "PASTE"
    BY <2>4, <1>7
  <2> QED BY <2>2, <2>5 DEF FitCommand
<1>8. CASE c = [type |-> "DUPLICATE", ids |-> c.ids, made |-> c.made]
  <2> DEFINE nodes == Inside(s.nodes, c.ids)
             edges == Within(s.edges, c.ids)
  <2>1. done = Clone(c, s, nodes, edges, 1, now)
    BY <1>8 DEF Execute, ExecuteDuplicate
  <2>2. Drawn(nodes, edges) /\ Fit(nodes, edges)
    BY <1>0, InnerDrawn, PartsAreFit
  <2>3. PICK made : made = c.made \cup {<<now, i>> : i \in DOMAIN nodes}
    OBVIOUS
  <2>4. done.cmd = [c EXCEPT !.made = made]
    BY <2>1, <2>3 DEF Clone
  <2> HIDE DEF nodes, edges
  <2>5. FitStore(done.store)
    BY <2>1, <2>2, CloneIsFit
  <2>6. done.cmd.type = "DUPLICATE"
    BY <2>4, <1>8
  <2> QED BY <2>5, <2>6 DEF FitCommand
<1>9. CASE /\ c = Deletion(c.ids, c.nodes, c.edges)
           /\ Drawn(c.nodes, c.edges)
  <2>1. done = ExecuteDeleteSelection(c, s)
    BY <1>9 DEF Execute, Deletion
  <2> DEFINE nodes == Inside(s.nodes, c.ids)
             edges == Touching(s.edges, c.ids)
             left == Outside(s.nodes, c.ids)
             apart == Apart(s.edges, c.ids)
             selected == IF s.selected \in c.ids THEN NoNode ELSE s.selected
  <2>2. Fit(nodes, edges) /\ Fit(left, apart)
    BY <1>0, PartsAreFit
  <2>3. /\ done.cmd = Deletion(c.ids, nodes, edges)
        /\ done.store = [s EXCEPT !.nodes = left, !.edges = apart, !.selected = selected]
    BY <2>1 DEF ExecuteDeleteSelection
  <2> HIDE DEF nodes, edges, left, apart, selected
  <2>4. done.cmd.type = "DELETE_SELECTION" /\ done.cmd.nodes = nodes /\ done.cmd.edges = edges
    BY <2>3 DEF Deletion
  <2>5. done.store = [nodes |-> left, edges |-> apart, selected |-> selected, errors |-> s.errors, clip |-> s.clip]
    BY <2>3 DEF IsStore
  <2>6. FitStore(done.store)
    BY <1>0, <2>2, <2>5 DEF FitStore
  <2>7. FitCommand(done.cmd)
    BY <2>2, <2>4 DEF FitCommand
  <2> QED BY <2>6, <2>7
<1> QED BY <1>1, <1>2, <1>3, <1>4, <1>5, <1>6, <1>7, <1>8, <1>9 DEF IsCommand

\* undo: the store stays fit.
LEMMA UndoIsFit ==
    ASSUME NEW s, IsStore(s), FitStore(s), NEW c, IsCommand(c), FitCommand(c), NEW t, t = Undo(c, s)
    PROVE  FitStore(t)
<1>0. Drawn(s.nodes, s.edges) /\ Fit(s.nodes, s.edges)
  BY DEF IsStore, FitStore
<1>1. CASE c = AddNodeCommand(c.node) /\ IsNode(c.node)
  <2>1. t = WithNodes(s, Outside(s.nodes, {c.node.id}))
    BY <1>1 DEF Undo, AddNodeCommand, UndoAdd, WithNodes
  <2>2. Drawn(Outside(s.nodes, {c.node.id}), s.edges) /\ Fit(Outside(s.nodes, {c.node.id}), s.edges)
    BY <1>0, InnerDrawn, PartsAreFit
  <2> QED BY <2>1, <2>2, RedrawnIsFit
<1>2. CASE c = MoveNodeCommand(c.id, c.new, c.old)
  <2>1. t = MovedTo(c, s, c.old) /\ c.old \in Int \X Int
    BY <1>2 DEF Undo, MoveNodeCommand, FitCommand
  <2>2. t = WithNodes(s, Replaced(s.nodes, c.id, "pos", c.old))
    BY <2>1 DEF MovedTo, Changed, WithNodes, Replaced
  <2> QED BY <2>1, <2>2, ReplacedIsFit
<1>3. CASE c = UpdatePropertyCommand(c.id, c.key, c.new, c.old) /\ c.key \in {"name", "config"}
  <2>1. t = WithProperty(c, s, c.old) /\ (c.key = "name" => c.old[2] \in Nat)
    BY <1>3 DEF Undo, UpdatePropertyCommand, FitCommand
  <2>2. t = WithNodes(s, Replaced(s.nodes, c.id, c.key, c.old))
    BY <2>1 DEF WithProperty, Changed, WithNodes, Replaced
  <2>3. c.key \in {"pos", "name", "config"} /\ c.key # "pos"
    BY <1>3
  <2> QED BY <2>1, <2>2, <2>3, ReplacedIsFit
<1>4. CASE c = ConnectEdgeCommand(c.edge) /\ IsEdge(c.edge)
  <2>1. t = WithEdges(s, Outside(s.edges, {c.edge.id}))
    BY <1>4 DEF Undo, ConnectEdgeCommand, UndoConnect, WithEdges
  <2>2. Drawn(s.nodes, Outside(s.edges, {c.edge.id})) /\ Fit(s.nodes, Outside(s.edges, {c.edge.id}))
    BY <1>0, InnerDrawn, PartsAreFit
  <2> QED BY <2>1, <2>2, RedrawnIsFit
<1>5. CASE /\ c = Disconnection(c.id, c.index, c.deleted)
           /\ c.index \in Int
           /\ c.deleted = <<>> \/ (c.deleted = <<c.deleted[1]>> /\ IsEdge(c.deleted[1]))
  <2>1. t = UndoDisconnect(c, s) /\ (c.deleted # <<>> => FitEdge(c.deleted[1]))
    BY <1>5 DEF Undo, Disconnection, FitCommand
  <2>2. CASE c.deleted = <<>>
    BY <2>1, <2>2 DEF UndoDisconnect
  <2>3. CASE c.deleted # <<>>
    <3>1. t = WithEdges(s, Splice(s.edges, c.index, c.deleted[1]))
      BY <2>1, <2>3 DEF UndoDisconnect, WithEdges
    <3>2. /\ IsSequence(Splice(s.edges, c.index, c.deleted[1]))
          /\ Range(Splice(s.edges, c.index, c.deleted[1])) = Range(s.edges) \cup {c.deleted[1]}
      BY <1>0, <1>5, Spliced DEF Drawn
    <3>3. Drawn(s.nodes, Splice(s.edges, c.index, c.deleted[1])) /\ Fit(s.nodes, Splice(s.edges, c.index, c.deleted[1]))
      BY <1>0, <1>5, <2>1, <2>3, <3>2 DEF Drawn, Fit
    <3> QED BY <3>1, <3>3, RedrawnIsFit
  <2> QED BY <2>2, <2>3
<1>6. CASE c = CopySelectionCommand(c.ids)
  BY <1>6 DEF Undo, CopySelectionCommand
<1>7. CASE c = [type |-> "PASTE", made |-> c.made] \/ c = [type |-> "DUPLICATE", ids |-> c.ids, made |-> c.made]
  <2>1. t = WithCanvas(s, Outside(s.nodes, c.made), Apart(s.edges, c.made))
    BY <1>7 DEF Undo, UndoClone, WithCanvas
  <2>2. Drawn(Outside(s.nodes, c.made), Apart(s.edges, c.made)) /\ Fit(Outside(s.nodes, c.made), Apart(s.edges, c.made))
    BY <1>0, InnerDrawn, PartsAreFit
  <2> QED BY <2>1, <2>2, RedrawnIsFit
<1>8. CASE /\ c = Deletion(c.ids, c.nodes, c.edges)
           /\ Drawn(c.nodes, c.edges)
  <2>1. t = WithCanvas(s, s.nodes \o c.nodes, s.edges \o c.edges) /\ Fit(c.nodes, c.edges)
    BY <1>8 DEF Undo, UndoDeleteSelection, Deletion, WithCanvas, FitCommand
  <2>2. Drawn(s.nodes \o c.nodes, s.edges \o c.edges) /\ Fit(s.nodes \o c.nodes, s.edges \o c.edges)
    BY <1>0, <1>8, <2>1, JoinedAreFit
  <2> QED BY <2>1, <2>2, RedrawnIsFit
<1> QED BY <1>1, <1>2, <1>3, <1>4, <1>5, <1>6, <1>7, <1>8 DEF IsCommand

\* findLastIndex by id finds what is there.
LastIndexById(s, id) == SelectLastInSeq(s, LAMBDA x : x.id = id)

LEMMA LastFoundById ==
    ASSUME NEW nodes, IsSequence(nodes), NEW n \in Range(nodes), NEW id, id = n.id,
           NEW at, at = LastIndexById(nodes, id)
    PROVE  nodes[at] \in Range(nodes)
<1> DEFINE I == {i \in 1 .. Len(nodes) : nodes[i].id = id}
<1>1. at = IF I # {} THEN Max(I) ELSE 0
  BY DEF LastIndexById, SelectLastInSeq
<1>2. Len(nodes) \in Nat /\ \A i \in 1 .. Len(nodes) : nodes[i] \in Range(nodes)
  BY SequenceParts
<1>3. \A x \in Range(nodes) : \E i \in 1 .. Len(nodes) : nodes[i] = x
  BY SequenceParts
<1>4. I # {} /\ I \in SUBSET (1 .. Len(nodes))
  BY <1>3
<1> HIDE DEF I
<1>5. \E x \in I : \A y \in I : y <= x
  BY <1>2, <1>4, GreatestNumber
<1>6. \A y \in I : y \in Int
  BY <1>4
<1>7. Max(I) \in I
  BY <1>5, <1>6 DEF Max
<1> QED BY <1>1, <1>2, <1>4, <1>7

\* An export of what is fit is fit.
LEMMA ExportIsFit ==
    ASSUME NEW canvas, Drawn(canvas.nodes, canvas.edges), Fit(canvas.nodes, canvas.edges), NEW id,
           NEW definition, definition = Serialize(id, canvas)
    PROVE  FitDefinition(definition)
<1>1. IsSequence(canvas.nodes) /\ \A n \in Range(canvas.nodes) : FitNode(n)
  BY DEF Drawn, Fit
<1>2. definition.tasks = [i \in DOMAIN canvas.nodes |-> TaskOf(canvas, canvas.nodes[i])]
  BY <1>1, SerializedTasks
<1>3. ASSUME NEW task \in Range(definition.tasks) PROVE task.plugin \in STRING /\ task.name[2] \in Nat
  <2>1. PICK i \in DOMAIN canvas.nodes : task = TaskOf(canvas, canvas.nodes[i])
    BY <1>2 DEF Range
  <2>2. PICK node : node = canvas.nodes[i]
    OBVIOUS
  <2>3. FitNode(node)
    BY <1>1, <2>1, <2>2 DEF Range
  <2>4. task.plugin = node.plugin /\ task.name = Named(node)
    BY <2>1, <2>2, TaskOfParts, TaskFields
  <2>5. Named(node)[2] \in Nat
    <3>1. CASE node.name[1] = ""
      <4>1. Named(node) = <<node.plugin, 0>>
        BY <3>1 DEF Named
      <4> QED BY <4>1
    <3>2. CASE node.name[1] # ""
      BY <2>3, <3>2 DEF Named, FitNode
    <3> QED BY <3>1, <3>2
  <2> QED BY <2>3, <2>4, <2>5 DEF FitNode
<1> DEFINE last(n) == LastIndexById(canvas.nodes, n)
<1>4. definition.positions = [n \in NodeIds(canvas) |-> canvas.nodes[last(n)].pos]
  BY DEF Serialize, LastIndexById
<1>5. ASSUME NEW n \in NodeIds(canvas) PROVE canvas.nodes[last(n)].pos \in Int \X Int
  <2>1. PICK i \in DOMAIN canvas.nodes : canvas.nodes[i].id = n
    BY DEF NodeIds
  <2>2. canvas.nodes[i] \in Range(canvas.nodes)
    BY DEF Range
  <2>3. canvas.nodes[last(n)] \in Range(canvas.nodes)
    BY <1>1, <2>1, <2>2, LastFoundById
  <2> QED BY <1>1, <2>3 DEF FitNode
<1> HIDE DEF last
<1> QED BY <1>3, <1>4, <1>5 DEF FitDefinition

\* An import of what is fit is fit, laid out or not.
LEMMA ImportIsFit ==
    ASSUME NEW definition, IsSequence(definition.tasks), FitDefinition(definition),
           NEW canvas, canvas = Imported(definition)
    PROVE  Fit(canvas.nodes, canvas.edges)
<1> DEFINE drawing == Deserialize(definition)
           tasks == definition.tasks
           pos(i) == IF tasks[i].id \in DOMAIN definition.positions
                     THEN definition.positions[tasks[i].id] ELSE Origin
<1>1. IsCanvas(drawing) /\ Drawn(drawing.nodes, drawing.edges) /\ Recalls(drawing, tasks)
  BY DeserializedCanvas
<1>2. \A i \in DOMAIN tasks : drawing.nodes[i].pos = pos(i)
  BY DEF Deserialize
<1>3. \A i \in DOMAIN tasks : pos(i) \in Int \X Int
  <2>1. Origin \in Int \X Int
    BY DEF Origin
  <2> QED BY <2>1 DEF FitDefinition
<1> HIDE DEF drawing, pos, tasks
<1>4. ASSUME NEW i \in DOMAIN tasks PROVE FitNode(drawing.nodes[i])
  <2>1. tasks[i] \in Range(tasks)
    BY DEF Range
  <2> QED BY <1>1, <1>2, <1>3, <2>1 DEF FitNode, FitDefinition, Recalls, tasks
<1>5. ASSUME NEW e \in Range(drawing.edges) PROVE FitEdge(e)
  <2>1. PICK d \in Range(DrawnEdges(tasks)) : e.label = d.label
    BY <1>1 DEF Recalls
  <2>2. \A x : x \in Range(DrawnEdges(tasks)) <=> \E i \in DOMAIN tasks : x \in Range(EdgesOf(tasks[i]))
    BY DrawnEdgesOfTasks DEF tasks
  <2>3. PICK i \in DOMAIN tasks : d \in Range(EdgesOf(tasks[i]))
    BY <2>2
  <2>4. \A x \in Range(EdgesOf(tasks[i])) : x.label \in Outcomes \cup {NoLabel}
    BY EdgesOfTask DEF Outcomes
  <2> QED BY <2>1, <2>3, <2>4 DEF FitEdge
<1>6. DOMAIN drawing.nodes = DOMAIN tasks
  BY <1>1 DEF Recalls
<1>7. Fit(drawing.nodes, drawing.edges)
  BY <1>4, <1>5, <1>6 DEF Fit, Range
<1>8. canvas = WithLayout(drawing)
  BY DEF Imported, drawing
<1>9. CASE canvas = drawing
  BY <1>7, <1>9
<1>10. CASE canvas # drawing
  <2>1. canvas = Layout(drawing) /\ drawing.nodes # <<>>
    BY <1>8, <1>10 DEF WithLayout, Layout
  <2>2. PICK layers : layers = Layers(drawing)
    OBVIOUS
  <2>3. /\ IsSequence(canvas.nodes) /\ DOMAIN canvas.nodes = DOMAIN drawing.nodes /\ canvas.edges = drawing.edges
        /\ \A i \in DOMAIN canvas.nodes :
              canvas.nodes[i].pos = Coordinates(PlaceOf(drawing.nodes[i].id, layers), layers)
    BY <1>1, <2>1, <2>2, LayoutDraws
  <2>4. \A i \in DOMAIN canvas.nodes :
           canvas.nodes[i].plugin = drawing.nodes[i].plugin /\ canvas.nodes[i].name = drawing.nodes[i].name
    BY <1>1, <1>8, LayoutMoves
  <2>5. layers \in Seq(Seq(LayoutIds(drawing))) /\ NodeIds(drawing) \subseteq AllSettled(layers)
    BY <1>1, <2>2, LayersPlace
  <2>6. ASSUME NEW i \in DOMAIN canvas.nodes PROVE canvas.nodes[i].pos \in Int \X Int
    <3>1. PICK n : n = drawing.nodes[i].id
      OBVIOUS
    <3>2. n \in AllSettled(layers)
      BY <2>3, <2>5, <3>1 DEF NodeIds
    <3>3. IsPlace(PlaceOf(n, layers), n, layers)
      BY <2>5, <3>2, PlaceFound
    <3>4. layers # <<>>
      <4>1. CASE layers = <<>>
        <5>1. Len(layers) = 0
          BY <4>1
        <5>2. AllSettled(layers) = {}
          BY <5>1 DEF AllSettled, Settled
        <5> QED BY <3>2, <5>2
      <4> QED BY <4>1
    <3>5. Coordinates(PlaceOf(n, layers), layers) \in Nat \X Nat
      BY <2>5, <3>3, <3>4, CoordinatesApart
    <3> QED BY <2>3, <3>1, <3>5
  <2>7. \A i \in DOMAIN canvas.nodes : FitNode(canvas.nodes[i])
    BY <1>4, <1>6, <2>3, <2>4, <2>6 DEF FitNode
  <2> QED BY <1>7, <2>3, <2>7 DEF Fit, Range
<1> QED BY <1>9, <1>10

FitFile(definition) == definition = NoFile \/ FitDefinition(definition)
FitStacks(undo, redo) ==
    /\ \A c \in Range(undo) \cup Range(redo) : FitCommand(c)
    /\ Len(undo) + Len(redo) <= MaxHistory

\* What the clock, the stacks, the file and the page carry too.
Typed ==
    /\ FitStore(store) /\ FitStacks(history.undo, history.redo) /\ FitFile(file)
    /\ clock \in 1 .. MaxClock /\ page \in {"builder", Undefined}

\* The handlers of the canvas dispatch fit commands.
LEMMA EditsAreFit ==
    ASSUME Shape, FitStore(store),
           NEW c \in Drops \cup DragStops \cup DrawnConnections \cup EdgeDeletions \cup Shortcuts \cup PropertyEdits
    PROVE  FitCommand(c)
<1>0. ASSUME NEW id \in NodeIds(store) PROVE FitNode(NodeOf(id))
  <2>1. IsSequence(store.nodes) /\ \A n \in Range(store.nodes) : FitNode(n)
    BY DEF Shape, IsStore, Drawn, FitStore, Fit
  <2>2. PICK i \in DOMAIN store.nodes : store.nodes[i].id = id
    BY DEF NodeIds
  <2>3. store.nodes[i] \in Range(store.nodes)
    BY DEF Range
  <2>4. PICK at : at = IndexById(store.nodes, id)
    OBVIOUS
  <2>5. store.nodes[at] \in Range(store.nodes)
    BY <2>1, <2>2, <2>3, <2>4, FoundById
  <2> QED BY <2>1, <2>4, <2>5 DEF NodeOf, IndexById
<1>1. CASE c \in Drops
  <2>1. PICK plugin \in Plugins, pos \in Places : c = AddNodeCommand(NewNode(plugin, pos))
    BY <1>1 DEF Drops
  <2> DEFINE node == NewNode(plugin, pos)
  <2>2. node.plugin = plugin /\ node.pos = pos /\ node.name = <<plugin, 0>>
    BY DEF NewNode
  <2> HIDE DEF node
  <2>3. c.type = "ADD_NODE" /\ c.node = node
    BY <2>1 DEF AddNodeCommand, node
  <2>4. plugin \in STRING /\ pos \in Int \X Int
    BY ValuesAreTyped, BuilderAssumption
  <2>5. node.name[2] \in Nat
    BY <2>2
  <2>6. FitNode(node)
    BY <2>2, <2>4, <2>5 DEF FitNode
  <2> QED BY <2>3, <2>6 DEF FitCommand
<1>2. CASE c \in DragStops
  <2>1. PICK id \in NodeIds(store), pos \in Places : c = MoveNodeCommand(id, pos, NodeOf(id).pos)
    BY <1>2 DEF DragStops
  <2>2. c.type = "MOVE_NODE" /\ c.new = pos /\ c.old = NodeOf(id).pos
    BY <2>1 DEF MoveNodeCommand
  <2>3. pos \in Int \X Int /\ NodeOf(id).pos \in Int \X Int
    BY <1>0, BuilderAssumption DEF FitNode
  <2> QED BY <2>2, <2>3 DEF FitCommand
<1>3. CASE c \in DrawnConnections
  <2>1. c \in Connections
    BY <1>3 DEF DrawnConnections
  <2>2. PICK source \in Range(store.nodes), target \in NodeIds(store), handle \in Outcomes \cup {NoLabel} :
           c = ConnectEdgeCommand(NewEdge(source, target, handle))
    BY <2>1 DEF Connections
  <2>3. NewEdge(source, target, handle).label = handle
    BY DEF NewEdge
  <2>4. c.type = "CONNECT_EDGE" /\ c.edge = NewEdge(source, target, handle)
    BY <2>2 DEF ConnectEdgeCommand
  <2> QED BY <2>3, <2>4 DEF FitCommand, FitEdge
<1>4. CASE c \in EdgeDeletions
  <2>1. PICK edge \in Range(store.edges) : c = Disconnection(edge.id, -1, <<>>)
    BY <1>4 DEF EdgeDeletions, DisconnectEdgeCommand
  <2>2. c.type = "DISCONNECT_EDGE" /\ c.deleted = <<>>
    BY <2>1 DEF Disconnection
  <2> QED BY <2>2 DEF FitCommand
<1>5. CASE c \in Shortcuts
  <2>1. c.type \in {"PASTE", "COPY_SELECTION", "DUPLICATE"} \/ c = Deletion(selection, <<>>, <<>>)
    BY <1>5 DEF Shortcuts, PasteCommand, CopySelectionCommand, DuplicateCommand, DeleteSelectionCommand
  <2>2. CASE c.type \in {"PASTE", "COPY_SELECTION", "DUPLICATE"}
    BY <2>2 DEF FitCommand
  <2>3. CASE c = Deletion(selection, <<>>, <<>>)
    <3>1. c.type = "DELETE_SELECTION" /\ c.nodes = <<>> /\ c.edges = <<>>
      BY <2>3 DEF Deletion
    <3>2. Fit(<<>>, <<>>)
      BY SequenceEmpty DEF Fit
    <3> QED BY <3>1, <3>2 DEF FitCommand
  <2> QED BY <2>1, <2>2, <2>3
<1>6. CASE c \in PropertyEdits
  <2> DEFINE node == NodeOf(store.selected)
             edits == {e \in {"name"} \X Names \cup {"config"} \X Configs : e[2] # node[e[1]]}
  <2>1. PICK edit \in edits : c = UpdatePropertyCommand(node.id, edit[1], edit[2], node[edit[1]])
    BY <1>6 DEF PropertyEdits
  <2>2. store.selected \in NodeIds(store)
    BY <1>6 DEF PropertyEdits
  <2>3. FitNode(node)
    BY <1>0, <2>2
  <2>4. edit[1] = "name" => edit[2] = <<"", 0>>
    BY DEF Names
  <2> HIDE DEF node, edits
  <2>5. c.type = "UPDATE_PROPERTY" /\ c.key = edit[1] /\ c.new = edit[2] /\ c.old = node[edit[1]]
    BY <2>1 DEF UpdatePropertyCommand
  <2>6. c.key = "name" => c.new[2] \in Nat /\ c.old[2] \in Nat
    <3>1. SUFFICES ASSUME c.key = "name" PROVE c.new[2] \in Nat /\ c.old[2] \in Nat
      OBVIOUS
    <3>2. edit[1] = "name"
      BY <2>5, <3>1
    <3>3. c.new = <<"", 0>>
      BY <2>4, <2>5, <3>2
    <3>4. c.old = node.name
      BY <2>5, <3>2
    <3>5. c.new[2] = 0
      <4>1. \A text : <<text, 0>>[2] = 0
        OBVIOUS
      <4>2. <<"", 0>>[2] = 0
        BY <4>1
      <4>3. PICK name : name = c.new
        OBVIOUS
      <4>4. name = <<"", 0>>
        BY <3>3, <4>3
      <4>5. name[2] = 0
        BY ONLY <4>2, <4>4
      <4> QED BY <4>3, <4>5
    <3> QED BY <2>3, <3>4, <3>5 DEF FitNode
  <2> QED BY <2>5, <2>6 DEF FitCommand
<1> QED BY <1>1, <1>2, <1>3, <1>4, <1>5, <1>6

LEMMA TypedInit == Init => Typed
<1> SUFFICES ASSUME Init PROVE Typed
  OBVIOUS
<1>1. /\ store.nodes = <<>> /\ store.edges = <<>> /\ store.clip.nodes = <<>> /\ store.clip.edges = <<>>
      /\ history.undo = <<>> /\ history.redo = <<>> /\ file = NoFile /\ clock = 1 /\ page = "builder"
  BY DEF Init
<1>2. Range(<<>>) = {} /\ Len(<<>>) = 0
  BY SequenceEmpty
<1>3. MaxHistory \in Nat /\ 1 \in 1 .. MaxClock
  BY BuilderAssumption
<1>4. FitStore(store)
  BY <1>1, <1>2 DEF FitStore, Fit
<1>5. 0 + 0 <= MaxHistory
  BY <1>3
<1>6. FitStacks(history.undo, history.redo)
  BY <1>1, <1>2, <1>5 DEF FitStacks
<1> QED BY <1>1, <1>3, <1>4, <1>6 DEF Typed, FitFile

LEMMA ClockTicks == ASSUME Typed, clock' = clock \/ Tick PROVE clock' \in 1 .. MaxClock
<1>1. clock \in 1 .. MaxClock /\ MaxClock \in Nat
  BY BuilderAssumption DEF Typed
<1> QED BY <1>1 DEF Tick

LEMMA DispatchTyped ==
    ASSUME Shape, Typed, NEW c, IsCommand(c), FitCommand(c), Dispatch(c) PROVE Typed'
<1> DEFINE done == Execute(c, store, clock)
           longer == Append(history.undo, done.cmd)
<1>1. FitStore(done.store) /\ FitCommand(done.cmd)
  BY ExecuteIsFit DEF Shape, Typed
<1>2. /\ store' = done.store /\ history' = Push(history, done.cmd, MaxHistory) /\ file' = file /\ page' = page
      /\ Tick
  BY DEF Dispatch, ServerUnchanged
<1> HIDE DEF done
<1>3. /\ IsSequence(longer) /\ Range(longer) = Range(history.undo) \cup {done.cmd}
      /\ Len(longer) = Len(history.undo) + 1
  BY SequenceAppended DEF Shape
<1>4. /\ history'.undo = IF Len(longer) > MaxHistory THEN Tail(longer) ELSE longer
      /\ history'.redo = <<>>
  BY <1>2 DEF Push
<1>5. Len(history.undo) \in Nat /\ Len(history.redo) \in Nat
  BY SequenceParts DEF Shape
<1>6. longer # <<>>
  <2>1. Len(longer) # 0
    BY <1>3, <1>5
  <2> HIDE DEF longer
  <2> QED BY <2>1
<1> HIDE DEF longer
<1>7. Range(history'.undo) \subseteq Range(history.undo) \cup {done.cmd} /\ Range(history'.redo) = {}
  <2>1. Range(Tail(longer)) \subseteq Range(longer)
    BY <1>3, <1>6, SequenceTail
  <2> QED BY <1>3, <1>4, <2>1, SequenceEmpty
<1>8. Len(history'.undo) + Len(history'.redo) <= MaxHistory
  <2>1. Len(Tail(longer)) = Len(longer) - 1 /\ Len(<<>>) = 0
    BY <1>3, <1>6, SequenceTail
  <2>2. PICK u, l : u = Len(history.undo) /\ l = Len(history.redo)
    OBVIOUS
  <2>3. u + l <= MaxHistory /\ MaxHistory \in Nat /\ u \in Nat /\ l \in Nat
    BY <1>5, <2>2, BuilderAssumption DEF Typed, FitStacks
  <2>4. Len(longer) = u + 1
    BY <1>3, <2>2
  <2>5. Len(history'.undo) = IF u + 1 > MaxHistory THEN u ELSE u + 1
    <3>1. CASE u + 1 > MaxHistory
      <4>1. history'.undo = Tail(longer)
        BY <1>4, <2>4, <3>1
      <4> QED BY <2>1, <2>3, <2>4, <3>1, <4>1
    <3>2. CASE ~(u + 1 > MaxHistory)
      <4>1. history'.undo = longer
        BY <1>4, <2>4, <3>2
      <4> QED BY <2>4, <3>2, <4>1
    <3> QED BY <3>1, <3>2
  <2>6. Len(history'.redo) = 0
    BY <1>4, <2>1
  <2> QED BY ONLY <2>3, <2>5, <2>6
<1>9. FitStacks(history'.undo, history'.redo)
  BY <1>1, <1>7, <1>8 DEF Typed, FitStacks
<1> QED BY <1>1, <1>2, <1>9, ClockTicks DEF Typed

\* The top of a stack goes to the other.
LEMMA TopMoves ==
    ASSUME NEW from, IsSequence(from), from # <<>>, NEW to, IsSequence(to), NEW c, FitCommand(c),
           FitStacks(from, to) \/ FitStacks(to, from)
    PROVE  FitStacks(Front(from), Append(to, c)) /\ FitStacks(Append(to, c), Front(from))
<1>1. Range(Front(from)) \subseteq Range(from) /\ Range(Append(to, c)) = Range(to) \cup {c}
  BY SequenceFront, SequenceAppended
<1>2. PICK f, t : f = Len(from) /\ t = Len(to)
  OBVIOUS
<1>3. f \in Nat \ {0} /\ t \in Nat /\ Len(Front(from)) = f - 1 /\ Len(Append(to, c)) = t + 1
  BY <1>2, SequenceFront, SequenceAppended, SequenceParts
<1>4. f + t <= MaxHistory \/ t + f <= MaxHistory
  BY <1>2 DEF FitStacks
<1>5. MaxHistory \in Nat
  BY BuilderAssumption
<1>6. (f - 1) + (t + 1) <= MaxHistory /\ (t + 1) + (f - 1) <= MaxHistory
  BY ONLY <1>3, <1>4, <1>5
<1> QED BY <1>1, <1>3, <1>6 DEF FitStacks

LEMMA UndoLastTyped == ASSUME Shape, Typed, UndoLast PROVE Typed'
<1>1. /\ store' = Undo(Last(history.undo), store) /\ history' = PopUndo(history)
      /\ history.undo # <<>> /\ file' = file /\ clock' = clock /\ page' = page
  BY DEF UndoLast, ServerUnchanged
<1>2. Last(history.undo) \in Range(history.undo)
  BY <1>1, SequenceFront DEF Shape
<1>3. FitCommand(Last(history.undo)) /\ IsCommand(Last(history.undo))
  BY <1>2 DEF Shape, Typed, FitStacks
<1>4. FitStore(store')
  BY <1>1, <1>3, UndoIsFit DEF Shape, Typed
<1>5. history'.undo = Front(history.undo) /\ history'.redo = Append(history.redo, Last(history.undo))
  BY <1>1 DEF PopUndo
<1>6. FitStacks(history'.undo, history'.redo)
  BY <1>1, <1>3, <1>5, TopMoves DEF Shape, Typed
<1> QED BY <1>1, <1>4, <1>6 DEF Typed

LEMMA RedoLastTyped == ASSUME Shape, Typed, RedoLast PROVE Typed'
<1> DEFINE done == Execute(Last(history.redo), store, clock)
<1>1. /\ store' = done.store /\ history' = PopRedo(history, done.cmd) /\ history.redo # <<>> /\ file' = file
      /\ page' = page /\ (clock' = clock \/ Tick)
  BY DEF RedoLast, ServerUnchanged
<1>2. Last(history.redo) \in Range(history.redo)
  BY <1>1, SequenceFront DEF Shape
<1>3. FitCommand(Last(history.redo)) /\ IsCommand(Last(history.redo))
  BY <1>2 DEF Shape, Typed, FitStacks
<1>4. FitStore(done.store) /\ FitCommand(done.cmd)
  BY <1>3, ExecuteIsFit DEF Shape, Typed
<1> HIDE DEF done
<1>5. history'.undo = Append(history.undo, done.cmd) /\ history'.redo = Front(history.redo)
  BY <1>1 DEF PopRedo
<1>6. FitStacks(history'.undo, history'.redo)
  BY <1>1, <1>4, <1>5, TopMoves DEF Shape, Typed
<1> QED BY <1>1, <1>4, <1>6, ClockTicks DEF Typed

LEMMA ImportTyped ==
    ASSUME Shape, Typed, NEW definition \in Files \cup {file}, definition # NoFile, Import(definition)
    PROVE  Typed'
<1> DEFINE canvas == Imported(definition)
<1>1. IsSequence(definition.tasks) /\ FitDefinition(definition)
  <2>1. CASE definition \in Files
    <3>1. IsSequence(definition.tasks)
      BY <2>1, BuilderAssumption DEF IsSequence
    <3>2. FitDefinition(definition)
      BY <2>1, ValuesAreTyped DEF FitDefinition
    <3> QED BY <3>1, <3>2
  <2>2. CASE definition = file
    BY <2>2 DEF Shape, Typed, FitFile
  <2> QED BY <2>1, <2>2
<1>2. Fit(canvas.nodes, canvas.edges)
  BY <1>1, ImportIsFit
<1>3. /\ store' = [store EXCEPT !.nodes = canvas.nodes, !.edges = canvas.edges, !.selected = NoNode, !.errors = {}]
      /\ history' = history /\ file' = file /\ page' = page /\ Tick
  BY DEF Import, ServerUnchanged
<1> HIDE DEF canvas
<1>4. store' = [nodes |-> canvas.nodes, edges |-> canvas.edges, selected |-> NoNode, errors |-> {}, clip |-> store.clip]
  BY <1>3 DEF Shape, IsStore
<1>5. FitStore(store')
  BY <1>2, <1>4 DEF Typed, FitStore
<1> QED BY <1>3, <1>5, ClockTicks DEF Typed

\* Steps that change the page, the file or the clock and no list.
LEMMA OtherTyped ==
    ASSUME Shape, Typed,
           store'.nodes = store.nodes /\ store'.edges = store.edges /\ store'.clip = store.clip,
           history' = history, FitFile(file)', clock' = clock \/ Tick, page' \in {page, "builder", Undefined}
    PROVE  Typed'
<1>1. FitStore(store')
  BY DEF Typed, FitStore
<1>2. FitStacks(history'.undo, history'.redo)
  BY DEF Typed
<1>3. clock' \in 1 .. MaxClock
  BY ClockTicks
<1> QED BY <1>1, <1>2, <1>3 DEF Typed

\* Which steps there are, by what they do to the lists, the file, the clock and the page.
LEMMA TypedSteps ==
    ASSUME Shape, [Next]_vars
    PROVE  \/ \E c \in Drops \cup DragStops \cup DrawnConnections \cup EdgeDeletions
                        \cup Shortcuts \cup PropertyEdits : Dispatch(c)
           \/ UndoLast \/ RedoLast
           \/ \E definition \in Files \cup {file} : definition # NoFile /\ Import(definition)
           \/ Export
           \/ /\ store'.nodes = store.nodes /\ store'.edges = store.edges /\ store'.clip = store.clip
              /\ history' = history /\ file' = file /\ (clock' = clock \/ Tick)
              /\ page' \in {page, "builder", Undefined}
<1> DEFINE Other ==
              /\ store'.nodes = store.nodes /\ store'.edges = store.edges /\ store'.clip = store.clip
              /\ history' = history /\ file' = file /\ (clock' = clock \/ Tick)
              /\ page' \in {page, "builder", Undefined}
<1>1. ASSUME NEW ids, SelectionChange(ids) PROVE Other
  <2>1. PICK selected : store' = [store EXCEPT !.selected = selected] /\ UNCHANGED <<history, file, clock, page>>
    BY <1>1 DEF SelectionChange, ServerUnchanged
  <2>2. store' = [nodes |-> store.nodes, edges |-> store.edges, selected |-> selected, errors |-> store.errors,
                  clip |-> store.clip]
    BY <2>1 DEF Shape, IsStore
  <2> QED BY <2>1, <2>2
<1>2. ASSUME ValidateClick PROVE Other
  <2>1. PICK errors : store' = [store EXCEPT !.errors = errors] /\ UNCHANGED <<history, file, clock, page>>
    BY <1>2 DEF ValidateClick, ServerUnchanged
  <2>2. store' = [nodes |-> store.nodes, edges |-> store.edges, selected |-> store.selected, errors |-> errors,
                  clip |-> store.clip]
    BY <2>1 DEF Shape, IsStore
  <2> QED BY <2>1, <2>2
<1>3. ASSUME NEW button, Click(button) \/ ServeCompile(button) \/ RequestFails(button) PROVE Other
  BY <1>3 DEF Click, ServeCompile, RequestFails, EditorUnchanged
<1>4. ASSUME ServeExecute \/ BackToBuilder PROVE Other
  BY <1>4 DEF ServeExecute, BackToBuilder
<1>5. ASSUME UNCHANGED vars PROVE Other
  BY <1>5 DEF vars
<1> HIDE DEF Other
<1>6. \/ \E c \in Drops \cup DragStops \cup DrawnConnections \cup EdgeDeletions
                        \cup Shortcuts \cup PropertyEdits : Dispatch(c)
      \/ UndoLast \/ RedoLast
      \/ \E definition \in Files \cup {file} : definition # NoFile /\ Import(definition)
      \/ Export \/ Other
  BY <1>1, <1>2, <1>3, <1>4, <1>5 DEF Next, Edit, Toolbar
<1> QED BY <1>6 DEF Other

LEMMA TypedNext == ASSUME Shape, Typed, [Next]_vars PROVE Typed'
<1>1. ASSUME NEW c \in Drops \cup DragStops \cup DrawnConnections \cup EdgeDeletions
                        \cup Shortcuts \cup PropertyEdits, Dispatch(c)
      PROVE  Typed'
  <2>1. FitStore(store)
    BY DEF Typed
  <2>2. IsCommand(c) /\ FitCommand(c)
    BY <2>1, EditsAreCommands, EditsAreFit
  <2> QED BY <1>1, <2>2, DispatchTyped
<1>2. ASSUME Export PROVE Typed'
  <2>1. file' = Serialize(<<clock>>, store) /\ UNCHANGED <<store, history, page>> /\ Tick
    BY <1>2 DEF Export, ServerUnchanged
  <2>2. Drawn(store.nodes, store.edges) /\ Fit(store.nodes, store.edges)
    BY DEF Shape, IsStore, Typed, FitStore
  <2>3. FitDefinition(file')
    BY <2>1, <2>2, ExportIsFit
  <2>4. FitFile(file)'
    BY <2>3 DEF FitFile, FitDefinition
  <2> QED BY <2>1, <2>4, OtherTyped
<1>3. ASSUME /\ store'.nodes = store.nodes /\ store'.edges = store.edges /\ store'.clip = store.clip
             /\ history' = history /\ file' = file /\ (clock' = clock \/ Tick)
             /\ page' \in {page, "builder", Undefined}
      PROVE  Typed'
  <2>1. FitFile(file)'
    BY <1>3 DEF Typed
  <2> QED BY <1>3, <2>1, OtherTyped
<1> QED BY <1>1, <1>2, <1>3, TypedSteps, UndoLastTyped, RedoLastTyped, ImportTyped

LEMMA TypedIsTypeOK == Shape /\ Typed => TypeOK
<1> SUFFICES ASSUME Shape, Typed PROVE TypeOK
  OBVIOUS
<1>1. Len(history.undo) <= MaxHistory /\ Len(history.redo) <= MaxHistory
  <2>1. Len(history.undo) \in Nat /\ Len(history.redo) \in Nat /\ MaxHistory \in Nat
    BY SequenceParts, BuilderAssumption DEF Shape
  <2>2. Len(history.undo) + Len(history.redo) <= MaxHistory
    BY DEF Typed, FitStacks
  <2>3. \A u \in Nat, l \in Nat, m \in Nat : u + l <= m => u <= m /\ l <= m
    OBVIOUS
  <2> QED BY <2>1, <2>2, <2>3
<1> QED BY <1>1 DEF Typed, FitStore, Fit, FitNode, FitEdge, TypeOK

\* Whatever is pasted, renamed, dragged, laid out and imported, positions are pairs of
\* numbers, names count their copies, labels are outcomes, and no stack of the history
\* is longer than maxHistory (builder-store.ts, history-manager.ts).
THEOREM BuilderTyped == Spec => []TypeOK
<1>1. Spec => []Shape
  BY BuilderShape
<1>2. Init => Typed
  BY TypedInit
<1>3. Shape /\ Typed /\ [Next]_vars => Typed'
  BY TypedNext
<1>4. Shape /\ Typed => TypeOK
  BY TypedIsTypeOK
<1> QED BY <1>1, <1>2, <1>3, <1>4, PTL DEF Spec

=============================================================================
