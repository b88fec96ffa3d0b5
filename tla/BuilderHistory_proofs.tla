------------------------ MODULE BuilderHistory_proofs -------------------------
(* Proofs about undo and redo of the workflow builder, for every length of    *)
(* the history and whatever is edited, undone, redone, copied and imported in *)
(* between: undoing everything gives back the canvas the history began with,  *)
(* and no two nodes and no two edges have the same id. What is shown of a     *)
(* state is that the commands tell a tale: the executed ones lead from the    *)
(* first canvas to this one, and the undone ones on from it.                  *)
EXTENDS Builder_proofs

----------------------------------------------------------------------------
(* What a command does to a canvas. The commands that bring something are     *)
(* undone by taking away all that has its ids; those that take something      *)
(* away remember it.                                                          *)

Clones(c) == c.type \in {"PASTE", "DUPLICATE"}
Brings(c) == Clones(c) \/ c.type \in {"ADD_NODE", "CONNECT_EDGE"}
Takes(c) == c.type \in {"DISCONNECT_EDGE", "DELETE_SELECTION"}
Changes(c) == c.type \in {"MOVE_NODE", "UPDATE_PROPERTY"}

\* The ids of the nodes and of the edges, and the ends of edges, that the command
\* brings or takes.
ClaimedNodes(c) ==
    IF c.type = "ADD_NODE" THEN {c.node.id}
    ELSE IF Clones(c) THEN c.made ELSE IF c.type = "DELETE_SELECTION" THEN c.ids ELSE {}
ClaimedEnds(c) ==
    IF Clones(c) THEN c.made ELSE IF c.type = "DELETE_SELECTION" THEN c.ids ELSE {}
ClaimedEdges(c) ==
    IF c.type = "CONNECT_EDGE" THEN {c.edge.id}
    ELSE IF c.type = "DISCONNECT_EDGE" THEN {c.id} ELSE {}

\* What the command itself holds of the canvas.
AddedNodes(c) ==
    IF c.type = "ADD_NODE" THEN {c.node}
    ELSE IF c.type = "DELETE_SELECTION" THEN Range(c.nodes) ELSE {}
AddedEdges(c) ==
    IF c.type = "CONNECT_EDGE" THEN {c.edge}
    ELSE IF c.type = "DISCONNECT_EDGE" THEN Range(c.deleted)
    ELSE IF c.type = "DELETE_SELECTION" THEN Range(c.edges) ELSE {}

KeyOf(c) == IF c.type = "MOVE_NODE" THEN "pos" ELSE c.key
Forth(id, node, c) == IF Changes(c) /\ c.id = id THEN [node EXCEPT ![KeyOf(c)] = c.new] ELSE node
Back(id, node, c) == IF Changes(c) /\ c.id = id THEN [node EXCEPT ![KeyOf(c)] = c.old] ELSE node

FreeNode(id, c) == id \notin ClaimedNodes(c)
FreeEdge(e, c) == e.id \notin ClaimedEdges(c) /\ e.src \notin ClaimedEnds(c) /\ e.dst \notin ClaimedEnds(c)
Kept(nodes, c) == {x \in nodes : FreeNode(x.id, c)}
KeptEdges(edges, c) == {e \in edges : FreeEdge(e, c)}

Ids(nodes) == {x.id : x \in nodes}
BackIds(ids, c) == IF Brings(c) THEN {id \in ids : FreeNode(id, c)} ELSE ids \cup Ids(AddedNodes(c))
BackEdges(edges, c) == IF Brings(c) THEN KeptEdges(edges, c) ELSE edges \cup AddedEdges(c)

\* The set of nodes after undo.
BackNodes(nodes, c) ==
    IF Brings(c) THEN Kept(nodes, c) ELSE {Back(x.id, x, c) : x \in nodes} \cup AddedNodes(c)

----------------------------------------------------------------------------
(* The types of the commands.                                                 *)

LEMMA AddIs ==
    ASSUME NEW c, c = AddNodeCommand(c.node)
    PROVE  /\ c.type = "ADD_NODE" /\ Brings(c) /\ ~Takes(c) /\ ~Changes(c) /\ ~Clones(c)
           /\ ClaimedNodes(c) = {c.node.id} /\ ClaimedEnds(c) = {} /\ ClaimedEdges(c) = {}
           /\ AddedNodes(c) = {c.node} /\ AddedEdges(c) = {}
<1>1. c.type = "ADD_NODE"
  BY DEF AddNodeCommand
<1> QED BY ONLY <1>1 DEF Brings, Takes, Changes, Clones, ClaimedNodes, ClaimedEnds, ClaimedEdges,
       AddedNodes, AddedEdges

LEMMA MoveIs ==
    ASSUME NEW c, c = MoveNodeCommand(c.id, c.new, c.old)
    PROVE  /\ c.type = "MOVE_NODE" /\ ~Brings(c) /\ ~Takes(c) /\ Changes(c) /\ ~Clones(c)
           /\ KeyOf(c) = "pos" /\ ClaimedNodes(c) = {} /\ ClaimedEnds(c) = {} /\ ClaimedEdges(c) = {}
           /\ AddedNodes(c) = {} /\ AddedEdges(c) = {}
<1>1. c.type = "MOVE_NODE"
  BY DEF MoveNodeCommand
<1> QED BY ONLY <1>1 DEF Brings, Takes, Changes, Clones, ClaimedNodes, ClaimedEnds, ClaimedEdges,
       AddedNodes, AddedEdges, KeyOf

LEMMA UpdateIs ==
    ASSUME NEW c, c = UpdatePropertyCommand(c.id, c.key, c.new, c.old)
    PROVE  /\ c.type = "UPDATE_PROPERTY" /\ ~Brings(c) /\ ~Takes(c) /\ Changes(c) /\ ~Clones(c)
           /\ KeyOf(c) = c.key /\ ClaimedNodes(c) = {} /\ ClaimedEnds(c) = {} /\ ClaimedEdges(c) = {}
           /\ AddedNodes(c) = {} /\ AddedEdges(c) = {}
<1>1. c.type = "UPDATE_PROPERTY"
  BY DEF UpdatePropertyCommand
<1> QED BY ONLY <1>1 DEF Brings, Takes, Changes, Clones, ClaimedNodes, ClaimedEnds, ClaimedEdges,
       AddedNodes, AddedEdges, KeyOf

LEMMA ConnectIs ==
    ASSUME NEW c, c = ConnectEdgeCommand(c.edge)
    PROVE  /\ c.type = "CONNECT_EDGE" /\ Brings(c) /\ ~Takes(c) /\ ~Changes(c) /\ ~Clones(c)
           /\ ClaimedNodes(c) = {} /\ ClaimedEnds(c) = {} /\ ClaimedEdges(c) = {c.edge.id}
           /\ AddedNodes(c) = {} /\ AddedEdges(c) = {c.edge}
<1>1. c.type = "CONNECT_EDGE"
  BY DEF ConnectEdgeCommand
<1> QED BY ONLY <1>1 DEF Brings, Takes, Changes, Clones, ClaimedNodes, ClaimedEnds, ClaimedEdges,
       AddedNodes, AddedEdges

LEMMA DisconnectIs ==
    ASSUME NEW c, c = Disconnection(c.id, c.index, c.deleted)
    PROVE  /\ c.type = "DISCONNECT_EDGE" /\ ~Brings(c) /\ Takes(c) /\ ~Changes(c) /\ ~Clones(c)
           /\ ClaimedNodes(c) = {} /\ ClaimedEnds(c) = {} /\ ClaimedEdges(c) = {c.id}
           /\ AddedNodes(c) = {} /\ AddedEdges(c) = Range(c.deleted)
<1>1. c.type = "DISCONNECT_EDGE"
  BY DEF Disconnection
<1> QED BY ONLY <1>1 DEF Brings, Takes, Changes, Clones, ClaimedNodes, ClaimedEnds, ClaimedEdges,
       AddedNodes, AddedEdges

LEMMA CopyIs ==
    ASSUME NEW c, c = CopySelectionCommand(c.ids)
    PROVE  /\ c.type = "COPY_SELECTION" /\ ~Brings(c) /\ ~Takes(c) /\ ~Changes(c) /\ ~Clones(c)
           /\ ClaimedNodes(c) = {} /\ ClaimedEnds(c) = {} /\ ClaimedEdges(c) = {}
           /\ AddedNodes(c) = {} /\ AddedEdges(c) = {}
<1>1. c.type = "COPY_SELECTION"
  BY DEF CopySelectionCommand
<1> QED BY ONLY <1>1 DEF Brings, Takes, Changes, Clones, ClaimedNodes, ClaimedEnds, ClaimedEdges,
       AddedNodes, AddedEdges

IsClone(c) ==
    \/ c = [type |-> "PASTE", made |-> c.made]
    \/ c = [type |-> "DUPLICATE", ids |-> c.ids, made |-> c.made]

LEMMA CloneIs ==
    ASSUME NEW c, IsClone(c)
    PROVE  /\ Brings(c) /\ ~Takes(c) /\ ~Changes(c) /\ Clones(c)
           /\ ClaimedNodes(c) = c.made /\ ClaimedEnds(c) = c.made /\ ClaimedEdges(c) = {}
           /\ AddedNodes(c) = {} /\ AddedEdges(c) = {}
<1>1. c.type = "PASTE" \/ c.type = "DUPLICATE"
  BY DEF IsClone
<1> QED BY ONLY <1>1 DEF Brings, Takes, Changes, Clones, ClaimedNodes, ClaimedEnds, ClaimedEdges,
       AddedNodes, AddedEdges

LEMMA DeleteIs ==
    ASSUME NEW c, c = Deletion(c.ids, c.nodes, c.edges)
    PROVE  /\ c.type = "DELETE_SELECTION" /\ ~Brings(c) /\ Takes(c) /\ ~Changes(c) /\ ~Clones(c)
           /\ ClaimedNodes(c) = c.ids /\ ClaimedEnds(c) = c.ids /\ ClaimedEdges(c) = {}
           /\ AddedNodes(c) = Range(c.nodes) /\ AddedEdges(c) = Range(c.edges)
<1>1. c.type = "DELETE_SELECTION"
  BY DEF Deletion
<1> QED BY ONLY <1>1 DEF Brings, Takes, Changes, Clones, ClaimedNodes, ClaimedEnds, ClaimedEdges,
       AddedNodes, AddedEdges

\* Only a change makes other nodes of the nodes.
LEMMA Unchanging ==
    ASSUME NEW c, ~Changes(c), NEW nodes
    PROVE  /\ \A id, x : Forth(id, x, c) = x /\ Back(id, x, c) = x
           /\ {Forth(x.id, x, c) : x \in nodes} = nodes /\ {Back(x.id, x, c) : x \in nodes} = nodes
BY DEF Forth, Back

LEMMA ReplacedRange ==
    ASSUME NEW nodes, IsSequence(nodes), NEW id, NEW key, NEW value, NEW t, t = Replaced(nodes, id, key, value)
    PROVE  Range(t) = {IF x.id = id THEN [x EXCEPT ![key] = value] ELSE x : x \in Range(nodes)}
<1> DEFINE f(x) == IF x.id = id THEN [x EXCEPT ![key] = value] ELSE x
<1>1. t = [i \in DOMAIN nodes |-> f(nodes[i])]
  BY DEF Replaced
<1> HIDE DEF f
<1>2. Range(t) = {f(x) : x \in Range(nodes)}
  BY <1>1 DEF Range
<1> QED BY <1>2 DEF f

LEMMA MovedDoes ==
    ASSUME NEW s, IsStore(s), NEW c, NEW pos, NEW t, t = MovedTo(c, s, pos)
    PROVE  /\ t.edges = s.edges /\ t.nodes = Replaced(s.nodes, c.id, "pos", pos)
           /\ Range(t.nodes) = {IF x.id = c.id THEN [x EXCEPT !["pos"] = pos] ELSE x : x \in Range(s.nodes)}
<1> DEFINE nodes == Replaced(s.nodes, c.id, "pos", pos)
<1>1. t = WithNodes(s, nodes)
  BY DEF MovedTo, Changed, WithNodes, Replaced
<1>2. Drawn(nodes, s.edges)
  BY ChangedNodes
<1>3. t.nodes = nodes /\ t.edges = s.edges
  <2> HIDE DEF nodes
  <2> QED BY <1>1, <1>2, Redrawn
<1> QED BY <1>3, ReplacedRange DEF IsStore, Drawn

LEMMA PropertyDoes ==
    ASSUME NEW s, IsStore(s), NEW c, c.key \in {"name", "config"}, NEW value, NEW t,
           t = WithProperty(c, s, value)
    PROVE  /\ t.edges = s.edges /\ t.nodes = Replaced(s.nodes, c.id, c.key, value)
           /\ Range(t.nodes) = {IF x.id = c.id THEN [x EXCEPT ![c.key] = value] ELSE x : x \in Range(s.nodes)}
<1> DEFINE nodes == Replaced(s.nodes, c.id, c.key, value)
<1>1. t = WithNodes(s, nodes)
  BY DEF WithProperty, Changed, WithNodes, Replaced
<1>2. Drawn(nodes, s.edges)
  BY ChangedNodes
<1>3. t.nodes = nodes /\ t.edges = s.edges
  <2> HIDE DEF nodes
  <2> QED BY <1>1, <1>2, Redrawn
<1> QED BY <1>3, ReplacedRange DEF IsStore, Drawn

\* undo of a command that neither brings nor changes anything.
LEMMA BackAdds ==
    ASSUME NEW c, ~Brings(c), ~Changes(c), NEW nodes, NEW edges
    PROVE  BackNodes(nodes, c) = nodes \cup AddedNodes(c) /\ BackEdges(edges, c) = edges \cup AddedEdges(c)
<1>1. {Back(x.id, x, c) : x \in nodes} = nodes
  BY Unchanging
<1> QED BY <1>1 DEF BackNodes, BackEdges

\* undo, as a step of the sets of nodes and edges.
LEMMA UndoDoes ==
    ASSUME NEW s, IsStore(s), NEW c, IsCommand(c), NEW t, t = Undo(c, s)
    PROVE  /\ Range(t.nodes) = BackNodes(Range(s.nodes), c)
           /\ Range(t.edges) = BackEdges(Range(s.edges), c)
<1> DEFINE N == Range(s.nodes)
           E == Range(s.edges)
<1>0. IsSequence(s.nodes) /\ IsSequence(s.edges)
  BY DEF IsStore, Drawn
<1>1. CASE c = AddNodeCommand(c.node) /\ IsNode(c.node)
  <2>1. t = WithNodes(s, Outside(s.nodes, {c.node.id}))
    BY <1>1 DEF Undo, AddNodeCommand, UndoAdd, WithNodes
  <2>2. Drawn(Outside(s.nodes, {c.node.id}), s.edges)
    BY InnerDrawn DEF IsStore
  <2>3. t.nodes = Outside(s.nodes, {c.node.id}) /\ t.edges = s.edges
    BY <2>1, <2>2, Redrawn
  <2>4. Range(t.nodes) = {x \in N : x.id \notin {c.node.id}}
    BY <2>3, <1>0, NodesKept
  <2> QED BY <1>1, <2>3, <2>4, AddIs DEF BackNodes, BackEdges, Kept, KeptEdges, FreeNode, FreeEdge
<1>2. CASE c = MoveNodeCommand(c.id, c.new, c.old)
  <2>1. t = MovedTo(c, s, c.old)
    BY <1>2 DEF Undo, MoveNodeCommand
  <2>2. t.edges = s.edges
        /\ Range(t.nodes) = {IF x.id = c.id THEN [x EXCEPT !["pos"] = c.old] ELSE x : x \in N}
    BY <2>1, MovedDoes
  <2>3. ~Brings(c) /\ Changes(c) /\ KeyOf(c) = "pos" /\ AddedNodes(c) = {} /\ AddedEdges(c) = {}
    BY <1>2, MoveIs
  <2>4. \A x \in N : Back(x.id, x, c) = IF x.id = c.id THEN [x EXCEPT !["pos"] = c.old] ELSE x
    BY <2>3 DEF Back
  <2> QED BY <2>2, <2>3, <2>4 DEF BackNodes, BackEdges
<1>3. CASE c = UpdatePropertyCommand(c.id, c.key, c.new, c.old) /\ c.key \in {"name", "config"}
  <2>1. t = WithProperty(c, s, c.old)
    BY <1>3 DEF Undo, UpdatePropertyCommand
  <2>2. t.edges = s.edges
        /\ Range(t.nodes) = {IF x.id = c.id THEN [x EXCEPT ![c.key] = c.old] ELSE x : x \in N}
    BY <1>3, <2>1, PropertyDoes
  <2>3. ~Brings(c) /\ Changes(c) /\ KeyOf(c) = c.key /\ AddedNodes(c) = {} /\ AddedEdges(c) = {}
    BY <1>3, UpdateIs
  <2>4. \A x \in N : Back(x.id, x, c) = IF x.id = c.id THEN [x EXCEPT ![c.key] = c.old] ELSE x
    BY <2>3 DEF Back
  <2> QED BY <2>2, <2>3, <2>4 DEF BackNodes, BackEdges
<1>4. CASE c = ConnectEdgeCommand(c.edge) /\ IsEdge(c.edge)
  <2>1. t = WithEdges(s, Outside(s.edges, {c.edge.id}))
    BY <1>4 DEF Undo, ConnectEdgeCommand, UndoConnect, WithEdges
  <2>2. Drawn(s.nodes, Outside(s.edges, {c.edge.id}))
    BY InnerDrawn DEF IsStore
  <2>3. t.nodes = s.nodes /\ t.edges = Outside(s.edges, {c.edge.id})
    BY <2>1, <2>2, Redrawn
  <2>4. Range(t.edges) = {x \in E : x.id \notin {c.edge.id}}
    BY <2>3, <1>0, NodesKept
  <2> QED BY <1>4, <2>3, <2>4, ConnectIs DEF BackNodes, BackEdges, Kept, KeptEdges, FreeNode, FreeEdge
<1>5. CASE /\ c = Disconnection(c.id, c.index, c.deleted)
           /\ c.index \in Int
           /\ c.deleted = <<>> \/ (c.deleted = <<c.deleted[1]>> /\ IsEdge(c.deleted[1]))
  <2>1. t = UndoDisconnect(c, s)
    BY <1>5 DEF Undo, Disconnection
  <2>a. /\ ~Brings(c) /\ ~Changes(c) /\ AddedNodes(c) = {} /\ AddedEdges(c) = Range(c.deleted)
    BY <1>5, DisconnectIs
  <2>2. CASE c.deleted = <<>>
    <3>1. t = s
      BY <2>1, <2>2 DEF UndoDisconnect
    <3>2. AddedEdges(c) = {}
      BY <2>a, <2>2, SequenceEmpty
    <3>3. BackNodes(N, c) = N \cup {} /\ BackEdges(E, c) = E \cup {}
      BY <3>2, <2>a, BackAdds
    <3> QED BY <3>1, <3>3
  <2>3. CASE c.deleted # <<>>
    <3> DEFINE item == c.deleted[1]
               edges == Splice(s.edges, c.index, item)
    <3>1. t = WithEdges(s, edges)
      BY <2>1, <2>3 DEF UndoDisconnect, WithEdges
    <3>2. IsSequence(edges) /\ Range(edges) = E \cup {item}
      BY <1>5, <1>0, Spliced
    <3>3. Range(c.deleted) = {item}
      <4>1. c.deleted = <<item>>
        BY <1>5, <2>3
      <4> HIDE DEF item
      <4> QED BY <4>1, SequenceSingle
    <3>4. Drawn(s.nodes, edges)
      <4>1. IsEdge(item)
        BY <1>5, <2>3
      <4> HIDE DEF edges, item
      <4> QED BY <3>2, <4>1 DEF IsStore, Drawn
    <3> HIDE DEF edges, item
    <3>5. t.nodes = s.nodes /\ t.edges = edges
      BY <3>1, <3>4, Redrawn
    <3>6. BackNodes(N, c) = N \cup {} /\ BackEdges(E, c) = E \cup {item}
      BY <3>3, <2>a, BackAdds
    <3> QED BY <3>2, <3>5, <3>6
  <2> QED BY <2>2, <2>3
<1>6. CASE c = CopySelectionCommand(c.ids)
  <2>1. t = s
    BY <1>6 DEF Undo, CopySelectionCommand
  <2>2. BackNodes(N, c) = N \cup {} /\ BackEdges(E, c) = E \cup {}
    BY <1>6, CopyIs, BackAdds
  <2> QED BY <2>1, <2>2
<1>7. CASE IsClone(c)
  <2>1. t = WithCanvas(s, Outside(s.nodes, c.made), Apart(s.edges, c.made))
    BY <1>7 DEF Undo, UndoClone, WithCanvas, IsClone
  <2>2. Drawn(Outside(s.nodes, c.made), Apart(s.edges, c.made))
    BY InnerDrawn DEF IsStore
  <2>3. t.nodes = Outside(s.nodes, c.made) /\ t.edges = Apart(s.edges, c.made)
    BY <2>1, <2>2, Redrawn
  <2>4. /\ Range(t.nodes) = {x \in N : x.id \notin c.made}
        /\ Range(t.edges) = {e \in E : e.src \notin c.made /\ e.dst \notin c.made}
    BY <2>3, <1>0, NodesKept, EdgesKept
  <2> QED BY <1>7, <2>4, CloneIs DEF BackNodes, BackEdges, Kept, KeptEdges, FreeNode, FreeEdge
<1>8. CASE /\ c = Deletion(c.ids, c.nodes, c.edges)
           /\ Drawn(c.nodes, c.edges)
  <2>1. t = WithCanvas(s, s.nodes \o c.nodes, s.edges \o c.edges)
    BY <1>8 DEF Undo, UndoDeleteSelection, Deletion, WithCanvas
  <2>2. /\ IsSequence(s.nodes \o c.nodes) /\ Range(s.nodes \o c.nodes) = N \cup Range(c.nodes)
        /\ IsSequence(s.edges \o c.edges) /\ Range(s.edges \o c.edges) = E \cup Range(c.edges)
    BY <1>0, <1>8, SequencesJoined DEF Drawn
  <2>3. Drawn(s.nodes \o c.nodes, s.edges \o c.edges)
    BY <1>8, <2>2 DEF IsStore, Drawn
  <2>4. t.nodes = s.nodes \o c.nodes /\ t.edges = s.edges \o c.edges
    <3> DEFINE nodes == s.nodes \o c.nodes
               edges == s.edges \o c.edges
    <3>1. t = WithCanvas(s, nodes, edges) /\ Drawn(nodes, edges)
      BY <2>1, <2>3
    <3> HIDE DEF nodes, edges
    <3>2. t.nodes = nodes /\ t.edges = edges
      BY <3>1, Redrawn
    <3> QED BY <3>2 DEF nodes, edges
  <2>5. BackNodes(N, c) = N \cup Range(c.nodes) /\ BackEdges(E, c) = E \cup Range(c.edges)
    BY <1>8, DeleteIs, BackAdds
  <2> QED BY <2>2, <2>4, <2>5
<1> QED BY <1>1, <1>2, <1>3, <1>4, <1>5, <1>6, <1>7, <1>8 DEF IsCommand, IsClone

----------------------------------------------------------------------------
(* Sequences without repeated ids.                                            *)

LEMMA DistinctParts ==
    ASSUME NEW s, IsSequence(s), Distinct(s)
    PROVE  \A x, y \in Range(s) : x.id = y.id => x = y
<1>1. DOMAIN s = 1 .. Len(s) /\ \A x \in Range(s) : \E i \in 1 .. Len(s) : s[i] = x
  BY SequenceParts
<1> QED BY <1>1 DEF Distinct

LEMMA DistinctEmpty == Distinct(<<>>)
<1>1. DOMAIN <<>> = {}
  OBVIOUS
<1> QED BY <1>1 DEF Distinct

LEMMA DistinctSingle == ASSUME NEW x PROVE Distinct(<<x>>)
<1>1. DOMAIN <<x>> = {1}
  OBVIOUS
<1> QED BY <1>1 DEF Distinct

LEMMA DistinctJoined ==
    ASSUME NEW s, IsSequence(s), Distinct(s), NEW t, IsSequence(t), Distinct(t),
           \A x \in Range(s), y \in Range(t) : x.id # y.id
    PROVE  Distinct(s \o t)
<1> DEFINE S == Range(s) \cup Range(t)
           m == Len(s)
           n == Len(t)
<1>1. s \in Seq(S) /\ t \in Seq(S)
  BY SeqMonotonic DEF IsSequence
<1>2. /\ Len(s \o t) = m + n
      /\ \A i \in 1 .. m + n : (s \o t)[i] = IF i <= m THEN s[i] ELSE t[i - m]
  BY <1>1, ConcatProperties
<1>3. /\ m \in Nat /\ DOMAIN s = 1 .. m /\ \A i \in 1 .. m : s[i] \in Range(s)
      /\ n \in Nat /\ DOMAIN t = 1 .. n /\ \A i \in 1 .. n : t[i] \in Range(t)
  BY SequenceParts
<1>4. DOMAIN (s \o t) = 1 .. m + n
  BY <1>2, SequencesJoined, SequenceParts
<1>5. ASSUME NEW i \in 1 .. m + n, NEW j \in 1 .. m + n, (s \o t)[i].id = (s \o t)[j].id
      PROVE  i = j
  <2> HIDE DEF m, n
  <2>1. CASE i <= m /\ j <= m
    <3>1. i \in DOMAIN s /\ j \in DOMAIN s /\ s[i].id = s[j].id
      BY <1>2, <1>3, <1>5, <2>1
    <3> QED BY <3>1 DEF Distinct
  <2>2. CASE i > m /\ j > m
    <3>1. i - m \in DOMAIN t /\ j - m \in DOMAIN t
      BY <1>3, <2>2
    <3>2. t[i - m].id = t[j - m].id
      BY <1>2, <1>3, <1>5, <2>2
    <3>3. i - m = j - m
      BY <3>1, <3>2 DEF Distinct
    <3> QED BY <1>3, <3>3
  <2>3. CASE i <= m /\ j > m
    <3>1. i \in 1 .. m /\ j - m \in 1 .. n
      BY <1>3, <2>3
    <3>2. s[i].id = t[j - m].id
      BY <1>2, <1>3, <1>5, <2>3
    <3> QED BY <1>3, <3>1, <3>2
  <2>4. CASE i > m /\ j <= m
    <3>1. j \in 1 .. m /\ i - m \in 1 .. n
      BY <1>3, <2>4
    <3>2. s[j].id = t[i - m].id
      BY <1>2, <1>3, <1>5, <2>4
    <3> QED BY <1>3, <3>1, <3>2
  <2> QED BY <1>3, <2>1, <2>2, <2>3, <2>4
<1> QED BY <1>4, <1>5 DEF Distinct

LEMMA DistinctAppended ==
    ASSUME NEW s, IsSequence(s), Distinct(s), NEW x, \A y \in Range(s) : y.id # x.id
    PROVE  Distinct(Append(s, x))
<1>1. /\ Len(Append(s, x)) = Len(s) + 1 /\ Append(s, x)[Len(s) + 1] = x
      /\ \A i \in 1 .. Len(s) : Append(s, x)[i] = s[i]
      /\ IsSequence(Append(s, x))
  BY SequenceAppended
<1>2. /\ Len(s) \in Nat /\ DOMAIN s = 1 .. Len(s) /\ \A i \in 1 .. Len(s) : s[i] \in Range(s)
      /\ DOMAIN Append(s, x) = 1 .. Len(s) + 1
  BY <1>1, SequenceParts
<1>3. ASSUME NEW i \in 1 .. Len(s) + 1, NEW j \in 1 .. Len(s) + 1,
             Append(s, x)[i].id = Append(s, x)[j].id
      PROVE  i = j
  <2>1. (i \in 1 .. Len(s) \/ i = Len(s) + 1) /\ (j \in 1 .. Len(s) \/ j = Len(s) + 1)
    BY <1>2
  <2> QED BY <2>1, <1>1, <1>2, <1>3 DEF Distinct
<1> QED BY <1>2, <1>3 DEF Distinct

LEMMA DistinctCut ==
    ASSUME NEW s, IsSequence(s), Distinct(s), NEW m \in Int, NEW n \in Int, m >= 1, n <= Len(s)
    PROVE  Distinct(SubSeq(s, m, n))
<1> DEFINE t == SubSeq(s, m, n)
<1>1. /\ IsSequence(t) /\ Len(t) = (IF m <= n THEN n - m + 1 ELSE 0)
      /\ \A i \in 1 .. n - m + 1 : t[i] = s[m + i - 1]
  BY SequenceCut
<1>2. Len(s) \in Nat /\ DOMAIN s = 1 .. Len(s) /\ DOMAIN t = 1 .. Len(t)
  BY <1>1, SequenceParts
<1> HIDE DEF t
<1>3. ASSUME NEW i \in 1 .. Len(t), NEW j \in 1 .. Len(t), t[i].id = t[j].id PROVE i = j
  <2>1. i \in 1 .. n - m + 1 /\ j \in 1 .. n - m + 1 /\ m + i - 1 \in 1 .. Len(s) /\ m + j - 1 \in 1 .. Len(s)
    BY <1>1, <1>2
  <2>2. s[m + i - 1].id = s[m + j - 1].id
    BY <1>1, <1>3, <2>1
  <2>3. m + i - 1 = m + j - 1
    BY <1>2, <2>1, <2>2 DEF Distinct
  <2> QED BY <2>3
<1> QED BY <1>2, <1>3 DEF Distinct, t

LEMMA DistinctSpliced ==
    ASSUME NEW seq, IsSequence(seq), Distinct(seq), NEW index \in Int, NEW item,
           \A x \in Range(seq) : x.id # item.id
    PROVE  Distinct(Splice(seq, index, item))
<1> DEFINE at == IF index < 0 THEN Len(seq) + index ELSE index
           cut == IF at < 0 THEN 0 ELSE IF at > Len(seq) THEN Len(seq) ELSE at
           head == SubSeq(seq, 1, cut)
           rest == SubSeq(seq, cut + 1, Len(seq))
<1>1. Len(seq) \in Nat /\ cut \in 0 .. Len(seq)
  BY SequenceParts
<1>2. Splice(seq, index, item) = head \o <<item>> \o rest
  BY DEF Splice
<1> HIDE DEF cut
<1>3. IsSequence(head) /\ Distinct(head) /\ Range(head) = {seq[i] : i \in 1 .. cut}
  BY <1>1, SequenceCut, DistinctCut
<1>4. IsSequence(rest) /\ Distinct(rest) /\ Range(rest) = {seq[i] : i \in cut + 1 .. Len(seq)}
  BY <1>1, SequenceCut, DistinctCut
<1>5. DOMAIN seq = 1 .. Len(seq) /\ \A i \in 1 .. Len(seq) : seq[i] \in Range(seq)
  BY SequenceParts
<1>6. /\ \A x \in Range(head) : x.id # item.id
      /\ \A x \in Range(rest) : x.id # item.id
      /\ \A x \in Range(head), y \in Range(rest) : x.id # y.id
  <2>1. /\ \A x \in Range(head) : \E i \in 1 .. cut : x = seq[i] /\ i \in 1 .. Len(seq)
        /\ \A y \in Range(rest) : \E j \in cut + 1 .. Len(seq) : y = seq[j] /\ j \in 1 .. Len(seq)
    BY <1>1, <1>3, <1>4
  <2>2. \A i \in 1 .. cut, j \in cut + 1 .. Len(seq) : i # j
    BY <1>1
  <2> QED BY <2>1, <2>2, <1>5 DEF Distinct
<1> HIDE DEF head, rest
<1>7. IsSequence(<<item>>) /\ Range(<<item>>) = {item} /\ Distinct(<<item>>)
  BY SequenceSingle, DistinctSingle
<1>8. IsSequence(head \o <<item>>) /\ Range(head \o <<item>>) = Range(head) \cup {item}
  BY <1>3, <1>7, SequencesJoined
<1>9. Distinct(head \o <<item>>)
  BY <1>3, <1>6, <1>7, DistinctJoined
<1>10. Distinct((head \o <<item>>) \o rest)
  BY <1>4, <1>6, <1>8, <1>9, DistinctJoined
<1> QED BY <1>2, <1>10

LEMMA DistinctFiltered ==
    ASSUME NEW seq, IsSequence(seq), Distinct(seq), NEW kept
    PROVE  Distinct(Filter(seq, kept))
<1> DEFINE t == Filter(seq, kept)
<1>1. PICK f : Sifts(t, f, seq, Len(seq), kept)
  BY FilterSifts
<1>2. Len(seq) \in Nat /\ DOMAIN seq = 1 .. Len(seq) /\ Len(t) \in Nat /\ DOMAIN t = 1 .. Len(t)
  BY FilterProperties, SequenceParts
<1> HIDE DEF t
<1>3. ASSUME NEW i \in 1 .. Len(t), NEW j \in 1 .. Len(t), t[i].id = t[j].id PROVE i = j
  <2>1. f[i] \in 1 .. Len(seq) /\ f[j] \in 1 .. Len(seq) /\ t[i] = seq[f[i]] /\ t[j] = seq[f[j]]
    BY <1>1 DEF Sifts
  <2>2. f[i] = f[j]
    BY <1>2, <1>3, <2>1 DEF Distinct
  <2>3. ~(i < j) /\ ~(j < i)
    <3>1. (i < j => f[i] < f[j]) /\ (j < i => f[j] < f[i])
      BY <1>1 DEF Sifts
    <3>2. f[i] \in Int
      BY <2>1
    <3> QED BY <3>1, <3>2, <2>2
  <2> QED BY <2>3
<1> QED BY <1>2, <1>3 DEF Distinct, t

\* What keeps the ids of a sequence keeps them distinct.
LEMMA DistinctMapped ==
    ASSUME NEW s, Distinct(s), NEW t, DOMAIN t = DOMAIN s, \A i \in DOMAIN t : t[i].id = s[i].id
    PROVE  Distinct(t)
BY DEF Distinct

----------------------------------------------------------------------------
(* What execute does, as a step of the sets of nodes and edges.               *)

\* The ids made of the clock.
NewIds(now) == {now} \X Nat

\* The ids made before.
OldIds(now) == {id \in Nat \X Nat : id[1] < now}

LEMMA NewAreNotOld == ASSUME NEW now \in Nat PROVE NewIds(now) \cap OldIds(now) = {}
<1> SUFFICES ASSUME NEW id \in NewIds(now), id \in OldIds(now) PROVE FALSE
  OBVIOUS
<1>1. id[1] = now /\ id[1] < now
  BY DEF NewIds, OldIds
<1> QED BY <1>1

\* What a clone, executed at a time, brings: copies under new ids.
Copied(c, d, nodes, edges, now) ==
    /\ IsClone(d) /\ d.type = c.type /\ d.made = c.made \cup Ids(nodes)
    /\ Ids(nodes) \subseteq NewIds(now)
    /\ \A e \in edges : e.id \in NewIds(now) /\ e.src \in Ids(nodes) /\ e.dst \in Ids(nodes)
    /\ \A x, y \in nodes : x.id = y.id => x = y
    /\ \A x, y \in edges : x.id = y.id => x = y

\* What a command takes away it remembers; an edge that is not there leaves the one
\* it remembers from an earlier time.
TakenAway(c, d, nodes, edges) ==
    /\ Takes(d) /\ d.type = c.type
    /\ ClaimedNodes(d) = ClaimedNodes(c) /\ ClaimedEnds(d) = ClaimedEnds(c)
    /\ ClaimedEdges(d) = ClaimedEdges(c)
    /\ AddedNodes(d) = nodes \ Kept(nodes, c)
    /\ AddedEdges(d) \subseteq (edges \ KeptEdges(edges, c)) \cup AddedEdges(c)
    /\ (\A x, y \in edges : x.id = y.id => x = y) =>
           \/ AddedEdges(d) = edges \ KeptEdges(edges, c)
           \/ c.type = "DISCONNECT_EDGE" /\ KeptEdges(edges, c) = edges /\ AddedEdges(d) = AddedEdges(c)

Forwarded(c, d, N, E, P, F, now) ==
    \/ /\ Brings(c)
       /\ \E nodes, edges :
             /\ IF Clones(c) THEN Copied(c, d, nodes, edges, now)
                ELSE d = c /\ nodes = {} /\ edges = {}
             /\ P = N \cup AddedNodes(c) \cup nodes /\ F = E \cup AddedEdges(c) \cup edges
    \/ Takes(c) /\ TakenAway(c, d, N, E) /\ P = Kept(N, c) /\ F = KeptEdges(E, c)
    \/ ~Brings(c) /\ ~Takes(c) /\ d = c /\ P = {Forth(x.id, x, c) : x \in N} /\ F = E

DistinctCommand(c) == c.type = "DELETE_SELECTION" => Distinct(c.nodes) /\ Distinct(c.edges)
DistinctStore(s) == Distinct(s.nodes) /\ Distinct(s.edges)

\* What the command brings has no id that is there already.
Differ(c, N, E) ==
    /\ \A x \in N, y \in AddedNodes(c) : x.id # y.id
    /\ \A x \in E, y \in AddedEdges(c) : x.id # y.id

\* The copies of a drawing have new ids, and their edges join the copies.
LEMMA CopiesAreNew ==
    ASSUME NEW nodes, NEW edges, Drawn(nodes, edges), NEW suffix, NEW now,
           NEW copies, copies = Cloned(nodes, edges, suffix, now)
    PROVE  /\ Distinct(copies.nodes) /\ Distinct(copies.edges)
           /\ Ids(Range(copies.nodes)) = {<<now, i>> : i \in DOMAIN nodes}
           /\ {<<now, i>> : i \in DOMAIN nodes} \subseteq NewIds(now)
           /\ \A e \in Range(copies.edges) : /\ e.id \in NewIds(now)
                                             /\ e.src \in {<<now, i>> : i \in DOMAIN nodes}
                                             /\ e.dst \in {<<now, i>> : i \in DOMAIN nodes}
<1> DEFINE ids == {nodes[i].id : i \in DOMAIN nodes}
           inner == Within(edges, ids)
           made == {<<now, i>> : i \in DOMAIN nodes}
<1>1. /\ IsSequence(inner) /\ \A e \in Range(inner) : IsEdge(e) /\ e.src \in ids /\ e.dst \in ids
  BY EdgesKept DEF Drawn
<1>2. /\ IsSequence(nodes) /\ \A i \in DOMAIN nodes : IsNode(nodes[i])
      /\ Len(nodes) \in Nat /\ DOMAIN nodes = 1 .. Len(nodes)
  BY SequenceParts DEF Drawn
<1> DEFINE rename(name) == IF name[1] = "" THEN name ELSE <<name[1], name[2] + suffix>>
           shift(p) == <<p[1] + PasteOffset, p[2] + PasteOffset>>
           last(id) == SelectLastInSeq(nodes, LAMBDA n : n.id = id)
           newId(id) == <<now, last(id)>>
<1>3. /\ copies.nodes = [i \in DOMAIN nodes |->
                           [nodes[i] EXCEPT !.id = <<now, i>>, !.pos = shift(@), !.name = rename(@)]]
      /\ copies.edges = [i \in DOMAIN inner |->
                           [inner[i] EXCEPT !.id = <<now, i>>, !.src = newId(@), !.dst = newId(@)]]
  BY DEF Cloned
<1>4. \A id \in ids : newId(id) \in made
  <2>1. ASSUME NEW id \in ids PROVE last(id) \in DOMAIN nodes
    <3> DEFINE I == {i \in 1 .. Len(nodes) : nodes[i].id = id}
    <3>1. last(id) = IF I # {} THEN Max(I) ELSE 0
      BY DEF SelectLastInSeq
    <3>2. I # {} /\ I \in SUBSET (1 .. Len(nodes))
      BY <1>2
    <3> HIDE DEF I
    <3>3. \E x \in I : \A y \in I : y <= x
      BY <1>2, <3>2, GreatestNumber
    <3>4. \A y \in I : y \in Int
      BY <3>2
    <3>5. Max(I) \in I
      BY <3>3, <3>4 DEF Max
    <3> HIDE DEF last
    <3> QED BY <1>2, <3>1, <3>2, <3>5
  <2> QED BY <2>1
<1> HIDE DEF rename, shift, newId, last
<1>5. DOMAIN copies.nodes = DOMAIN nodes /\ \A i \in DOMAIN nodes : copies.nodes[i].id = <<now, i>>
  <2>1. ASSUME NEW i \in DOMAIN nodes, NEW n, n = copies.nodes[i], NEW o, o = nodes[i],
               NEW p, p = shift(o.pos), NEW m, m = rename(o.name), NEW id, id = <<now, i>>
        PROVE  n.id = id
    <3>1. n = [o EXCEPT !.id = id, !.pos = p, !.name = m] /\ IsNode(o)
      BY <1>2, <1>3, <2>1
    <3> QED BY ONLY <3>1 DEF IsNode
  <2>2. DOMAIN copies.nodes = DOMAIN nodes
    BY <1>3
  <2> QED BY <2>1, <2>2
<1> HIDE DEF inner
<1>6. /\ DOMAIN copies.edges = DOMAIN inner
      /\ \A i \in DOMAIN inner : /\ copies.edges[i].id = <<now, i>>
                                 /\ copies.edges[i].src \in made /\ copies.edges[i].dst \in made
  <2>1. ASSUME NEW i \in DOMAIN inner, NEW e, e = copies.edges[i], NEW o, o = inner[i],
               NEW s, s = newId(o.src), NEW d, d = newId(o.dst), NEW id, id = <<now, i>>
        PROVE  e.id = id /\ e.src \in made /\ e.dst \in made
    <3>1. IsEdge(o) /\ o.src \in ids /\ o.dst \in ids
      BY <1>1, <2>1, SequenceParts
    <3>2. e = [o EXCEPT !.id = id, !.src = s, !.dst = d]
      BY <1>3, <2>1
    <3>3. e.id = id /\ e.src = s /\ e.dst = d
      BY ONLY <3>1, <3>2 DEF IsEdge
    <3> QED BY <1>4, <2>1, <3>1, <3>3
  <2>2. DOMAIN copies.edges = DOMAIN inner
    BY <1>3
  <2> QED BY <2>1, <2>2
<1>7. Distinct(copies.nodes) /\ Distinct(copies.edges)
  <2>1. \A i, j : <<now, i>> = <<now, j>> => i = j
    OBVIOUS
  <2> QED BY <1>5, <1>6, <2>1 DEF Distinct
<1>8. Ids(Range(copies.nodes)) = made
  BY <1>5 DEF Ids, Range
<1>9. made \subseteq NewIds(now)
  BY <1>2 DEF NewIds
<1>10. \A e \in Range(copies.edges) : e.id \in NewIds(now) /\ e.src \in made /\ e.dst \in made
  <2>1. \A i \in DOMAIN inner : <<now, i>> \in NewIds(now)
    <3>1. Len(inner) \in Nat /\ DOMAIN inner = 1 .. Len(inner)
      BY <1>1, SequenceParts
    <3> QED BY <3>1 DEF NewIds
  <2>2. \A e \in Range(copies.edges) : \E i \in DOMAIN inner : e = copies.edges[i]
    BY <1>6 DEF Range
  <2> QED BY <1>6, <2>1, <2>2
<1> QED BY <1>7, <1>8, <1>9, <1>10

\* execute of a command that makes copies.
LEMMA CloneDoes ==
    ASSUME NEW s, IsStore(s), NEW c, IsClone(c), NEW nodes, NEW edges, Drawn(nodes, edges), NEW suffix,
           NEW now, NEW done, done = Clone(c, s, nodes, edges, suffix, now)
    PROVE  /\ Forwarded(c, done.cmd, Range(s.nodes), Range(s.edges),
                        Range(done.store.nodes), Range(done.store.edges), now)
           /\ DistinctStore(s) /\ (\A x \in Range(s.nodes) : x.id \notin NewIds(now))
              /\ (\A x \in Range(s.edges) : x.id \notin NewIds(now)) => DistinctStore(done.store)
           /\ DistinctCommand(done.cmd)
<1> DEFINE copies == Cloned(nodes, edges, suffix, now)
           made == {<<now, i>> : i \in DOMAIN nodes}
           ns == s.nodes \o copies.nodes
           es == s.edges \o copies.edges
<1>1. done.store = WithCanvas(s, ns, es) /\ done.cmd = [c EXCEPT !.made = @ \cup made]
  BY DEF Clone, WithCanvas
<1>2. Drawn(copies.nodes, copies.edges)
  BY CopiesAreDrawn
<1>3. /\ Distinct(copies.nodes) /\ Distinct(copies.edges) /\ Ids(Range(copies.nodes)) = made
      /\ made \subseteq NewIds(now)
      /\ \A e \in Range(copies.edges) : e.id \in NewIds(now) /\ e.src \in made /\ e.dst \in made
  BY CopiesAreNew
<1> HIDE DEF copies, made
<1>4. /\ Drawn(ns, es)
      /\ Range(ns) = Range(s.nodes) \cup Range(copies.nodes)
      /\ Range(es) = Range(s.edges) \cup Range(copies.edges)
  BY <1>2, SequencesJoined DEF Drawn, IsStore
<1>5. done.store.nodes = ns /\ done.store.edges = es
  <2> HIDE DEF ns, es
  <2> QED BY <1>1, <1>4, Redrawn
<1>6. PICK d : d = done.cmd
  OBVIOUS
<1>7. IsClone(d) /\ d.type = c.type /\ d.made = c.made \cup made /\ d.type # "DELETE_SELECTION"
  <2>1. PICK all : all = c.made \cup made
    OBVIOUS
  <2>2. d = [c EXCEPT !.made = all]
    BY <1>1, <1>6, <2>1
  <2>3. d.made = all /\ d.type = c.type /\ IsClone(d) /\ d.type # "DELETE_SELECTION"
    BY ONLY IsClone(c), <2>2 DEF IsClone
  <2> QED BY <2>1, <2>3
<1>8. Copied(c, d, Range(copies.nodes), Range(copies.edges), now)
  <2>1. /\ \A x, y \in Range(copies.nodes) : x.id = y.id => x = y
        /\ \A x, y \in Range(copies.edges) : x.id = y.id => x = y
    BY <1>2, <1>3, DistinctParts DEF Drawn
  <2> QED BY <1>3, <1>7, <2>1 DEF Copied
<1>9. Brings(c) /\ Clones(c) /\ AddedNodes(c) = {} /\ AddedEdges(c) = {}
  BY CloneIs
<1>10. Forwarded(c, d, Range(s.nodes), Range(s.edges), Range(ns), Range(es), now)
  BY <1>4, <1>8, <1>9 DEF Forwarded
<1>11. ASSUME DistinctStore(s), \A x \in Range(s.nodes) : x.id \notin NewIds(now),
              \A x \in Range(s.edges) : x.id \notin NewIds(now)
       PROVE  Distinct(ns) /\ Distinct(es)
  <2>1. \A x \in Range(copies.nodes) : x.id \in NewIds(now)
    BY <1>3 DEF Ids
  <2>2. Distinct(ns)
    <3>1. \A x \in Range(s.nodes), y \in Range(copies.nodes) : x.id # y.id
      BY <1>11, <2>1
    <3>2. IsSequence(s.nodes) /\ IsSequence(copies.nodes) /\ Distinct(s.nodes)
      BY <1>2, <1>11 DEF IsStore, Drawn, DistinctStore
    <3> QED BY <1>3, <3>1, <3>2, DistinctJoined
  <2>3. Distinct(es)
    <3>1. \A x \in Range(s.edges), y \in Range(copies.edges) : x.id # y.id
      BY <1>3, <1>11
    <3>2. IsSequence(s.edges) /\ IsSequence(copies.edges) /\ Distinct(s.edges)
      BY <1>2, <1>11 DEF IsStore, Drawn, DistinctStore
    <3> QED BY <1>3, <3>1, <3>2, DistinctJoined
  <2> QED BY <2>2, <2>3
<1> QED BY <1>5, <1>6, <1>7, <1>10, <1>11 DEF DistinctStore, DistinctCommand

LEMMA AddDoes ==
    ASSUME NEW s, IsStore(s), NEW c, c = AddNodeCommand(c.node), IsNode(c.node), NEW now,
           NEW done, done = Execute(c, s, now)
    PROVE  /\ Forwarded(c, done.cmd, Range(s.nodes), Range(s.edges),
                        Range(done.store.nodes), Range(done.store.edges), now)
           /\ DistinctStore(s) /\ Differ(c, Range(s.nodes), Range(s.edges)) => DistinctStore(done.store)
           /\ DistinctCommand(done.cmd)
<1> DEFINE nodes == Append(s.nodes, c.node)
<1>1. done.cmd = c /\ done.store = WithNodes(s, nodes)
  <2>1. done = ExecuteAdd(c, s)
    BY DEF Execute, AddNodeCommand
  <2> QED BY <2>1 DEF ExecuteAdd, WithNodes
<1>2. Drawn(nodes, s.edges) /\ Range(nodes) = Range(s.nodes) \cup {c.node}
  BY SequenceAppended DEF IsStore, Drawn
<1>3. done.store.nodes = nodes /\ done.store.edges = s.edges
  <2> HIDE DEF nodes
  <2> QED BY <1>1, <1>2, Redrawn
<1>4. /\ c.type = "ADD_NODE" /\ Brings(c) /\ ~Clones(c) /\ AddedNodes(c) = {c.node} /\ AddedEdges(c) = {}
  BY AddIs
<1>5. Forwarded(c, c, Range(s.nodes), Range(s.edges), Range(nodes), Range(s.edges), now)
  <2>1. /\ Range(nodes) = Range(s.nodes) \cup AddedNodes(c) \cup {}
        /\ Range(s.edges) = Range(s.edges) \cup AddedEdges(c) \cup {}
    BY <1>2, <1>4
  <2> HIDE DEF nodes
  <2> QED BY <1>4, <2>1 DEF Forwarded
<1>6. ASSUME DistinctStore(s), Differ(c, Range(s.nodes), Range(s.edges)) PROVE Distinct(nodes)
  BY <1>4, <1>6, DistinctAppended DEF DistinctStore, Differ, IsStore, Drawn
<1> QED BY <1>1, <1>3, <1>4, <1>5, <1>6 DEF DistinctStore, DistinctCommand

LEMMA ConnectDoes ==
    ASSUME NEW s, IsStore(s), NEW c, c = ConnectEdgeCommand(c.edge), IsEdge(c.edge), NEW now,
           NEW done, done = Execute(c, s, now)
    PROVE  /\ Forwarded(c, done.cmd, Range(s.nodes), Range(s.edges),
                        Range(done.store.nodes), Range(done.store.edges), now)
           /\ DistinctStore(s) /\ Differ(c, Range(s.nodes), Range(s.edges)) => DistinctStore(done.store)
           /\ DistinctCommand(done.cmd)
<1> DEFINE edges == Append(s.edges, c.edge)
<1>1. done.cmd = c /\ done.store = WithEdges(s, edges)
  <2>1. done = ExecuteConnect(c, s)
    BY DEF Execute, ConnectEdgeCommand
  <2> QED BY <2>1 DEF ExecuteConnect, WithEdges
<1>2. Drawn(s.nodes, edges) /\ Range(edges) = Range(s.edges) \cup {c.edge}
  BY SequenceAppended DEF IsStore, Drawn
<1>3. done.store.nodes = s.nodes /\ done.store.edges = edges
  <2> HIDE DEF edges
  <2> QED BY <1>1, <1>2, Redrawn
<1>4. /\ c.type = "CONNECT_EDGE" /\ Brings(c) /\ ~Clones(c) /\ AddedNodes(c) = {} /\ AddedEdges(c) = {c.edge}
  BY ConnectIs
<1>5. Forwarded(c, c, Range(s.nodes), Range(s.edges), Range(s.nodes), Range(edges), now)
  <2>1. /\ Range(s.nodes) = Range(s.nodes) \cup AddedNodes(c) \cup {}
        /\ Range(edges) = Range(s.edges) \cup AddedEdges(c) \cup {}
    BY <1>2, <1>4
  <2> HIDE DEF edges
  <2> QED BY <1>4, <2>1 DEF Forwarded
<1>6. ASSUME DistinctStore(s), Differ(c, Range(s.nodes), Range(s.edges)) PROVE Distinct(edges)
  BY <1>4, <1>6, DistinctAppended DEF DistinctStore, Differ, IsStore, Drawn
<1> QED BY <1>1, <1>3, <1>4, <1>5, <1>6 DEF DistinctStore, DistinctCommand

LEMMA DistinctReplaced ==
    ASSUME NEW nodes, IsSequence(nodes), \A n \in Range(nodes) : IsNode(n), Distinct(nodes),
           NEW id, NEW value, NEW key \in {"pos", "name", "config"}
    PROVE  Distinct(Replaced(nodes, id, key, value))
<1> DEFINE t == Replaced(nodes, id, key, value)
<1>1. \A i \in DOMAIN nodes : IsNode(nodes[i])
  BY SequenceParts
<1>2. DOMAIN t = DOMAIN nodes
  BY DEF Replaced
<1>3. ASSUME NEW i \in DOMAIN nodes, NEW n, n = t[i], NEW o, o = nodes[i]
      PROVE  n.id = o.id
  <2>1. IsNode(o) /\ n = IF o.id = id THEN [o EXCEPT ![key] = value] ELSE o
    BY <1>1, <1>3 DEF Replaced
  <2>2. key = "pos" \/ key = "name" \/ key = "config"
    OBVIOUS
  <2> QED BY ONLY <2>1, <2>2 DEF IsNode
<1>4. \A i \in DOMAIN nodes : t[i].id = nodes[i].id
  BY <1>3
<1> HIDE DEF t
<1> QED BY <1>2, <1>4 DEF Distinct, t

LEMMA ChangeDoes ==
    ASSUME NEW s, IsStore(s), NEW c,
           \/ c = MoveNodeCommand(c.id, c.new, c.old)
           \/ c = UpdatePropertyCommand(c.id, c.key, c.new, c.old) /\ c.key \in {"name", "config"},
           NEW now, NEW done, done = Execute(c, s, now)
    PROVE  /\ Forwarded(c, done.cmd, Range(s.nodes), Range(s.edges),
                        Range(done.store.nodes), Range(done.store.edges), now)
           /\ DistinctStore(s) => DistinctStore(done.store)
           /\ DistinctCommand(done.cmd)
<1> DEFINE key == KeyOf(c)
<1>1. /\ done.cmd = c /\ done.store.edges = s.edges
      /\ done.store.nodes = Replaced(s.nodes, c.id, key, c.new)
      /\ Range(done.store.nodes) = {IF x.id = c.id THEN [x EXCEPT ![key] = c.new] ELSE x : x \in Range(s.nodes)}
      /\ key \in {"pos", "name", "config"}
      /\ ~Brings(c) /\ ~Takes(c) /\ Changes(c) /\ c.type # "DELETE_SELECTION"
  <2>1. CASE c = MoveNodeCommand(c.id, c.new, c.old)
    <3>1. done = [cmd |-> c, store |-> MovedTo(c, s, c.new)]
      BY <2>1 DEF Execute, MoveNodeCommand
    <3>2. done.cmd = c /\ done.store = MovedTo(c, s, c.new)
      BY <3>1
    <3>3. key = "pos" /\ ~Brings(c) /\ ~Takes(c) /\ Changes(c) /\ c.type # "DELETE_SELECTION"
      BY <2>1, MoveIs
    <3>4. /\ done.store.edges = s.edges
          /\ done.store.nodes = Replaced(s.nodes, c.id, "pos", c.new)
          /\ Range(done.store.nodes) = {IF x.id = c.id THEN [x EXCEPT !["pos"] = c.new] ELSE x : x \in Range(s.nodes)}
      BY <3>2, MovedDoes
    <3> HIDE DEF key
    <3> QED BY <3>2, <3>3, <3>4
  <2>2. CASE c = UpdatePropertyCommand(c.id, c.key, c.new, c.old) /\ c.key \in {"name", "config"}
    <3>1. done = [cmd |-> c, store |-> WithProperty(c, s, c.new)]
      BY <2>2 DEF Execute, UpdatePropertyCommand
    <3>2. done.cmd = c /\ done.store = WithProperty(c, s, c.new)
      BY <3>1
    <3>3. key = c.key /\ ~Brings(c) /\ ~Takes(c) /\ Changes(c) /\ c.type # "DELETE_SELECTION"
      BY <2>2, UpdateIs
    <3>4. /\ done.store.edges = s.edges
          /\ done.store.nodes = Replaced(s.nodes, c.id, c.key, c.new)
          /\ Range(done.store.nodes) = {IF x.id = c.id THEN [x EXCEPT ![c.key] = c.new] ELSE x : x \in Range(s.nodes)}
      BY <2>2, <3>2, PropertyDoes
    <3> HIDE DEF key
    <3> QED BY <2>2, <3>2, <3>3, <3>4
  <2> QED BY <2>1, <2>2
<1> HIDE DEF key
<1>2. Range(done.store.nodes) = {Forth(x.id, x, c) : x \in Range(s.nodes)}
  <2> DEFINE f(x) == IF x.id = c.id THEN [x EXCEPT ![key] = c.new] ELSE x
  <2>1. \A x \in Range(s.nodes) : Forth(x.id, x, c) = f(x)
    BY <1>1 DEF Forth, key
  <2>2. Range(done.store.nodes) = {f(x) : x \in Range(s.nodes)}
    BY <1>1
  <2> HIDE DEF f
  <2> QED BY <2>1, <2>2
<1>3. Forwarded(c, c, Range(s.nodes), Range(s.edges), Range(done.store.nodes), Range(s.edges), now)
  BY <1>1, <1>2 DEF Forwarded
<1>4. ASSUME Distinct(s.nodes) PROVE Distinct(done.store.nodes)
  BY <1>1, <1>4, DistinctReplaced DEF IsStore, Drawn
<1> QED BY <1>1, <1>3, <1>4 DEF DistinctStore, DistinctCommand

LEMMA CopyDoes ==
    ASSUME NEW s, IsStore(s), NEW c, c = CopySelectionCommand(c.ids), NEW now,
           NEW done, done = Execute(c, s, now)
    PROVE  /\ Forwarded(c, done.cmd, Range(s.nodes), Range(s.edges),
                        Range(done.store.nodes), Range(done.store.edges), now)
           /\ DistinctStore(s) => DistinctStore(done.store)
           /\ DistinctCommand(done.cmd)
<1>1. done = ExecuteCopy(c, s)
  BY DEF Execute, CopySelectionCommand
<1> DEFINE clip == [nodes |-> Inside(s.nodes, c.ids), edges |-> Within(s.edges, c.ids)]
<1>2. done = [cmd |-> c, store |-> [s EXCEPT !.clip = clip]]
  BY <1>1 DEF ExecuteCopy
<1> HIDE DEF clip
<1>3. done.cmd = c /\ done.store.nodes = s.nodes /\ done.store.edges = s.edges
  BY <1>2 DEF IsStore
<1>4. ~Brings(c) /\ ~Takes(c) /\ ~Changes(c) /\ c.type # "DELETE_SELECTION"
  BY CopyIs
<1>5. {Forth(x.id, x, c) : x \in Range(s.nodes)} = Range(s.nodes)
  <2>1. \A x \in Range(s.nodes) : Forth(x.id, x, c) = x
    BY <1>4 DEF Forth
  <2> QED BY <2>1
<1> QED BY <1>3, <1>4, <1>5 DEF Forwarded, DistinctStore, DistinctCommand

LEMMA DisconnectDoes ==
    ASSUME NEW s, IsStore(s), NEW c, c = Disconnection(c.id, c.index, c.deleted), c.index \in Int,
           c.deleted = <<>> \/ (c.deleted = <<c.deleted[1]>> /\ IsEdge(c.deleted[1])), NEW now,
           NEW done, done = Execute(c, s, now)
    PROVE  /\ Forwarded(c, done.cmd, Range(s.nodes), Range(s.edges),
                        Range(done.store.nodes), Range(done.store.edges), now)
           /\ DistinctStore(s) => DistinctStore(done.store)
           /\ DistinctCommand(done.cmd)
<1> DEFINE N == Range(s.nodes)
           E == Range(s.edges)
<1>1. done = ExecuteDisconnect(c, s)
  BY DEF Execute, Disconnection
<1>2. PICK at : at = IndexById(s.edges, c.id)
  OBVIOUS
<1>3. \/ at = 0 /\ \A e \in E : e.id # c.id
      \/ at \in 1 .. Len(s.edges) /\ s.edges[at].id = c.id /\ s.edges[at] \in E
  BY <1>2, FoundById DEF IsStore, Drawn
<1>4. /\ c.type = "DISCONNECT_EDGE" /\ ~Brings(c) /\ Takes(c)
      /\ ClaimedNodes(c) = {} /\ ClaimedEnds(c) = {} /\ ClaimedEdges(c) = {c.id}
      /\ AddedNodes(c) = {} /\ AddedEdges(c) = Range(c.deleted)
  BY DisconnectIs
<1>5. Kept(N, c) = N /\ KeptEdges(E, c) = {e \in E : e.id # c.id}
  BY <1>4 DEF Kept, KeptEdges, FreeNode, FreeEdge
<1>6. CASE at = 0
  <2>1. done = [cmd |-> Disconnection(c.id, -1, c.deleted), store |-> s]
    BY <1>1, <1>2, <1>6 DEF ExecuteDisconnect, IndexById
  <2>2. PICK d : d = Disconnection(c.id, -1, c.deleted)
    OBVIOUS
  <2>3. done.cmd = d /\ done.store = s
    BY <2>1, <2>2
  <2>4. d.id = c.id /\ d.index = -1 /\ d.deleted = c.deleted
    BY <2>2 DEF Disconnection
  <2>5. d = Disconnection(d.id, d.index, d.deleted)
    BY <2>2, <2>4
  <2>6. /\ d.type = "DISCONNECT_EDGE" /\ Takes(d)
        /\ ClaimedNodes(d) = {} /\ ClaimedEnds(d) = {} /\ ClaimedEdges(d) = {c.id}
        /\ AddedNodes(d) = {} /\ AddedEdges(d) = Range(c.deleted)
    BY ONLY <2>4, <2>5, DisconnectIs
  <2>7. KeptEdges(E, c) = E
    BY <1>3, <1>5, <1>6
  <2>8. TakenAway(c, d, N, E)
    BY <1>4, <1>5, <2>6, <2>7 DEF TakenAway
  <2>9. Forwarded(c, d, N, E, N, E, now)
    BY <1>4, <1>5, <2>7, <2>8 DEF Forwarded
  <2> QED BY <2>3, <2>6, <2>9 DEF DistinctCommand
<1>7. CASE at # 0
  <2> DEFINE edges == Outside(s.edges, {c.id})
  <2>1. PICK edge : edge = s.edges[at]
    OBVIOUS
  <2>2. PICK d : d = Disconnection(c.id, at - 1, <<edge>>)
    OBVIOUS
  <2>3. done.cmd = d /\ done.store = WithEdges(s, edges)
    BY <1>1, <1>2, <1>7, <2>1, <2>2 DEF ExecuteDisconnect, IndexById, WithEdges
  <2>4. d.id = c.id /\ d.index = at - 1 /\ d.deleted = <<edge>>
    BY <2>2 DEF Disconnection
  <2>5. d = Disconnection(d.id, d.index, d.deleted)
    BY <2>2, <2>4
  <2>6. /\ d.type = "DISCONNECT_EDGE" /\ Takes(d)
        /\ ClaimedNodes(d) = {} /\ ClaimedEnds(d) = {} /\ ClaimedEdges(d) = {c.id}
        /\ AddedNodes(d) = {} /\ AddedEdges(d) = {edge}
    BY ONLY <2>4, <2>5, DisconnectIs, SequenceSingle
  <2>7. edge \in E /\ edge.id = c.id
    BY <1>3, <1>7, <2>1
  <2>8. Drawn(s.nodes, edges) /\ Range(edges) = {e \in E : e.id \notin {c.id}}
    BY InnerDrawn, NodesKept DEF IsStore, Drawn
  <2> HIDE DEF edges
  <2>9. done.store.nodes = s.nodes /\ done.store.edges = edges
    BY <2>3, <2>8, Redrawn
  <2>10. Range(edges) = KeptEdges(E, c)
    BY <1>5, <2>8
  <2>11. TakenAway(c, d, N, E)
    <3>1. ASSUME \A x, y \in E : x.id = y.id => x = y
          PROVE  {edge} = E \ KeptEdges(E, c)
      BY <1>5, <2>7, <3>1
    <3> QED BY <1>4, <1>5, <2>6, <2>7, <3>1 DEF TakenAway
  <2>12. Forwarded(c, d, N, E, N, Range(edges), now)
    BY <1>4, <1>5, <2>10, <2>11 DEF Forwarded
  <2>13. DistinctStore(s) => Distinct(edges)
    BY DistinctFiltered DEF DistinctStore, edges, Outside, IsStore, Drawn
  <2> QED BY <2>3, <2>6, <2>9, <2>12, <2>13 DEF DistinctCommand, DistinctStore
<1> QED BY <1>6, <1>7

LEMMA DeleteDoes ==
    ASSUME NEW s, IsStore(s), NEW c, c = Deletion(c.ids, c.nodes, c.edges), NEW now,
           NEW done, done = Execute(c, s, now)
    PROVE  /\ Forwarded(c, done.cmd, Range(s.nodes), Range(s.edges),
                        Range(done.store.nodes), Range(done.store.edges), now)
           /\ DistinctStore(s) => DistinctStore(done.store) /\ DistinctCommand(done.cmd)
<1> DEFINE N == Range(s.nodes)
           E == Range(s.edges)
           nodes == Inside(s.nodes, c.ids)
           edges == Touching(s.edges, c.ids)
           left == Outside(s.nodes, c.ids)
           apart == Apart(s.edges, c.ids)
           now_selected == IF s.selected \in c.ids THEN NoNode ELSE s.selected
<1>0. IsSequence(s.nodes) /\ IsSequence(s.edges)
  BY DEF IsStore, Drawn
<1>1. /\ Range(nodes) = {x \in N : x.id \in c.ids} /\ Range(left) = {x \in N : x.id \notin c.ids}
      /\ Range(edges) = {e \in E : e.src \in c.ids \/ e.dst \in c.ids}
      /\ Range(apart) = {e \in E : e.src \notin c.ids /\ e.dst \notin c.ids}
  BY <1>0, NodesKept, EdgesKept
<1>2. /\ done.cmd = Deletion(c.ids, nodes, edges)
      /\ done.store = [s EXCEPT !.nodes = left, !.edges = apart, !.selected = now_selected]
  <2>1. done = ExecuteDeleteSelection(c, s)
    BY DEF Execute, Deletion
  <2> QED BY <2>1 DEF ExecuteDeleteSelection
<1>3. DistinctStore(s) => Distinct(nodes) /\ Distinct(edges) /\ Distinct(left) /\ Distinct(apart)
  BY <1>0, DistinctFiltered DEF DistinctStore, Inside, Touching, Outside, Apart
<1> HIDE DEF nodes, edges, left, apart, now_selected
<1>4. done.store.nodes = left /\ done.store.edges = apart
  BY <1>2 DEF IsStore
<1>5. PICK d : d = Deletion(c.ids, nodes, edges)
  OBVIOUS
<1>6. d.ids = c.ids /\ d.nodes = nodes /\ d.edges = edges
  BY <1>5 DEF Deletion
<1>7. /\ d.type = "DELETE_SELECTION" /\ Takes(d)
      /\ ClaimedNodes(d) = c.ids /\ ClaimedEnds(d) = c.ids /\ ClaimedEdges(d) = {}
      /\ AddedNodes(d) = Range(nodes) /\ AddedEdges(d) = Range(edges)
  <2>1. d = Deletion(d.ids, d.nodes, d.edges)
    BY <1>5, <1>6
  <2> QED BY ONLY <1>6, <2>1, DeleteIs
<1>8. /\ c.type = "DELETE_SELECTION" /\ ~Brings(c) /\ Takes(c)
      /\ ClaimedNodes(c) = c.ids /\ ClaimedEnds(c) = c.ids /\ ClaimedEdges(c) = {}
  BY DeleteIs
<1>9. Kept(N, c) = Range(left) /\ KeptEdges(E, c) = Range(apart)
  BY <1>1, <1>8 DEF Kept, KeptEdges, FreeNode, FreeEdge
<1>10. Range(nodes) = N \ Range(left) /\ Range(edges) = E \ Range(apart)
  BY <1>1
<1>11. TakenAway(c, d, N, E)
  BY <1>7, <1>8, <1>9, <1>10 DEF TakenAway
<1>12. Forwarded(c, d, N, E, Range(left), Range(apart), now)
  BY <1>8, <1>9, <1>11 DEF Forwarded
<1> QED BY <1>2, <1>3, <1>4, <1>5, <1>6, <1>12 DEF DistinctStore, DistinctCommand

\* execute, as a step of the sets of nodes and edges.
LEMMA ExecuteDoes ==
    ASSUME NEW s, IsStore(s), NEW c, IsCommand(c), NEW now, NEW done, done = Execute(c, s, now)
    PROVE  /\ Forwarded(c, done.cmd, Range(s.nodes), Range(s.edges),
                        Range(done.store.nodes), Range(done.store.edges), now)
           /\ DistinctStore(s) /\ (Brings(c) => Differ(c, Range(s.nodes), Range(s.edges)))
              /\ (\A x \in Range(s.nodes) : x.id \notin NewIds(now))
              /\ (\A x \in Range(s.edges) : x.id \notin NewIds(now))
              => DistinctStore(done.store) /\ DistinctCommand(done.cmd)
<1>1. CASE c = AddNodeCommand(c.node) /\ IsNode(c.node)
  BY <1>1, AddDoes, AddIs
<1>2. CASE \/ c = MoveNodeCommand(c.id, c.new, c.old)
           \/ c = UpdatePropertyCommand(c.id, c.key, c.new, c.old) /\ c.key \in {"name", "config"}
  BY <1>2, ChangeDoes
<1>3. CASE c = ConnectEdgeCommand(c.edge) /\ IsEdge(c.edge)
  BY <1>3, ConnectDoes, ConnectIs
<1>4. CASE /\ c = Disconnection(c.id, c.index, c.deleted)
           /\ c.index \in Int
           /\ c.deleted = <<>> \/ (c.deleted = <<c.deleted[1]>> /\ IsEdge(c.deleted[1]))
  BY <1>4, DisconnectDoes
<1>5. CASE c = CopySelectionCommand(c.ids)
  BY <1>5, CopyDoes
<1>6. CASE c = [type |-> "PASTE", made |-> c.made]
  <2>1. done = Clone(c, s, s.clip.nodes, s.clip.edges, 0, now)
    BY <1>6 DEF Execute, ExecutePaste
  <2> QED BY <1>6, <2>1, CloneDoes DEF IsStore, IsClone
<1>7. CASE c = [type |-> "DUPLICATE", ids |-> c.ids, made |-> c.made]
  <2> DEFINE nodes == Inside(s.nodes, c.ids)
             edges == Within(s.edges, c.ids)
  <2>1. done = Clone(c, s, nodes, edges, 1, now)
    BY <1>7 DEF Execute, ExecuteDuplicate
  <2>2. Drawn(nodes, edges)
    BY InnerDrawn DEF IsStore
  <2> HIDE DEF nodes, edges
  <2> QED BY <1>7, <2>1, <2>2, CloneDoes DEF IsClone
<1>8. CASE c = Deletion(c.ids, c.nodes, c.edges) /\ Drawn(c.nodes, c.edges)
  BY <1>8, DeleteDoes
<1> QED BY <1>1, <1>2, <1>3, <1>4, <1>5, <1>6, <1>7, <1>8 DEF IsCommand

\* undo keeps ids distinct, if what the command gives back is not there.
LEMMA UndoDistinct ==
    ASSUME NEW s, IsStore(s), NEW c, IsCommand(c), NEW t, t = Undo(c, s), DistinctStore(s), DistinctCommand(c),
           Takes(c) => Differ(c, Range(s.nodes), Range(s.edges))
    PROVE  DistinctStore(t)
<1>0. IsSequence(s.nodes) /\ IsSequence(s.edges) /\ Distinct(s.nodes) /\ Distinct(s.edges)
  BY DEF IsStore, Drawn, DistinctStore
<1>1. CASE c = AddNodeCommand(c.node) /\ IsNode(c.node)
  <2>1. t = WithNodes(s, Outside(s.nodes, {c.node.id}))
    BY <1>1 DEF Undo, AddNodeCommand, UndoAdd, WithNodes
  <2>2. Drawn(Outside(s.nodes, {c.node.id}), s.edges)
    BY InnerDrawn DEF IsStore
  <2>3. t.nodes = Outside(s.nodes, {c.node.id}) /\ t.edges = s.edges
    BY <2>1, <2>2, Redrawn
  <2> QED BY <2>3, <1>0, DistinctFiltered DEF Outside, DistinctStore
<1>2. CASE c = MoveNodeCommand(c.id, c.new, c.old)
  <2>1. t = MovedTo(c, s, c.old)
    BY <1>2 DEF Undo, MoveNodeCommand
  <2>2. t.edges = s.edges /\ t.nodes = Replaced(s.nodes, c.id, "pos", c.old)
    BY <2>1, MovedDoes
  <2> QED BY <2>2, <1>0, DistinctReplaced DEF DistinctStore, IsStore, Drawn
<1>3. CASE c = UpdatePropertyCommand(c.id, c.key, c.new, c.old) /\ c.key \in {"name", "config"}
  <2>1. t = WithProperty(c, s, c.old)
    BY <1>3 DEF Undo, UpdatePropertyCommand
  <2>2. t.edges = s.edges /\ t.nodes = Replaced(s.nodes, c.id, c.key, c.old)
    BY <1>3, <2>1, PropertyDoes
  <2> QED BY <1>3, <2>2, <1>0, DistinctReplaced DEF DistinctStore, IsStore, Drawn
<1>4. CASE c = ConnectEdgeCommand(c.edge) /\ IsEdge(c.edge)
  <2>1. t = WithEdges(s, Outside(s.edges, {c.edge.id}))
    BY <1>4 DEF Undo, ConnectEdgeCommand, UndoConnect, WithEdges
  <2>2. Drawn(s.nodes, Outside(s.edges, {c.edge.id}))
    BY InnerDrawn DEF IsStore
  <2>3. t.nodes = s.nodes /\ t.edges = Outside(s.edges, {c.edge.id})
    BY <2>1, <2>2, Redrawn
  <2> QED BY <2>3, <1>0, DistinctFiltered DEF Outside, DistinctStore
<1>5. CASE /\ c = Disconnection(c.id, c.index, c.deleted)
           /\ c.index \in Int
           /\ c.deleted = <<>> \/ (c.deleted = <<c.deleted[1]>> /\ IsEdge(c.deleted[1]))
  <2>1. t = UndoDisconnect(c, s)
    BY <1>5 DEF Undo, Disconnection
  <2>2. CASE c.deleted = <<>>
    BY <2>1, <2>2 DEF UndoDisconnect
  <2>3. CASE c.deleted # <<>>
    <3> DEFINE item == c.deleted[1]
               edges == Splice(s.edges, c.index, item)
    <3>1. t = WithEdges(s, edges)
      BY <2>1, <2>3 DEF UndoDisconnect, WithEdges
    <3>2. IsSequence(edges) /\ Range(edges) = Range(s.edges) \cup {item}
      BY <1>5, <1>0, Spliced
    <3>3. IsEdge(item)
      BY <1>5, <2>3
    <3>4. Drawn(s.nodes, edges)
      <4> HIDE DEF edges, item
      <4> QED BY <3>2, <3>3 DEF IsStore, Drawn
    <3>5. Takes(c) /\ AddedEdges(c) = {item}
      <4>1. Takes(c) /\ AddedEdges(c) = Range(c.deleted)
        BY <1>5, DisconnectIs
      <4>2. c.deleted = <<item>>
        BY <1>5, <2>3
      <4> HIDE DEF item
      <4> QED BY <4>1, <4>2, SequenceSingle
    <3>6. \A x \in Range(s.edges) : x.id # item.id
      <4> HIDE DEF item
      <4> QED BY <3>5 DEF Differ
    <3>7. Distinct(edges)
      BY <1>0, <1>5, <3>6, DistinctSpliced
    <3> HIDE DEF edges, item
    <3>8. t.nodes = s.nodes /\ t.edges = edges
      BY <3>1, <3>4, Redrawn
    <3> QED BY <1>0, <3>7, <3>8 DEF DistinctStore
  <2> QED BY <2>2, <2>3
<1>6. CASE c = CopySelectionCommand(c.ids)
  BY <1>6 DEF Undo, CopySelectionCommand
<1>7. CASE IsClone(c)
  <2>1. t = WithCanvas(s, Outside(s.nodes, c.made), Apart(s.edges, c.made))
    BY <1>7 DEF Undo, UndoClone, WithCanvas, IsClone
  <2>2. Drawn(Outside(s.nodes, c.made), Apart(s.edges, c.made))
    BY InnerDrawn DEF IsStore
  <2>3. t.nodes = Outside(s.nodes, c.made) /\ t.edges = Apart(s.edges, c.made)
    BY <2>1, <2>2, Redrawn
  <2> QED BY <2>3, <1>0, DistinctFiltered DEF Outside, Apart, DistinctStore
<1>8. CASE /\ c = Deletion(c.ids, c.nodes, c.edges)
           /\ Drawn(c.nodes, c.edges)
  <2> DEFINE nodes == s.nodes \o c.nodes
             edges == s.edges \o c.edges
  <2>1. t = WithCanvas(s, nodes, edges)
    BY <1>8 DEF Undo, UndoDeleteSelection, Deletion, WithCanvas
  <2>2. Drawn(nodes, edges)
    BY <1>8, SequencesJoined DEF IsStore, Drawn
  <2>3. /\ Takes(c) /\ AddedNodes(c) = Range(c.nodes) /\ AddedEdges(c) = Range(c.edges)
        /\ c.type = "DELETE_SELECTION"
    BY <1>8, DeleteIs
  <2>4. Distinct(c.nodes) /\ Distinct(c.edges) /\ IsSequence(c.nodes) /\ IsSequence(c.edges)
    BY <1>8, <2>3 DEF DistinctCommand, Drawn
  <2>5. Distinct(nodes)
    BY <1>0, <2>3, <2>4, DistinctJoined DEF Differ
  <2>6. Distinct(edges)
    BY <1>0, <2>3, <2>4, DistinctJoined DEF Differ
  <2> HIDE DEF nodes, edges
  <2>7. t.nodes = nodes /\ t.edges = edges
    BY <2>1, <2>2, Redrawn
  <2> QED BY <2>5, <2>6, <2>7 DEF DistinctStore
<1> QED BY <1>1, <1>2, <1>3, <1>4, <1>5, <1>6, <1>7, <1>8 DEF IsCommand, IsClone

----------------------------------------------------------------------------
(* What the handlers of the canvas dispatch.                                  *)

\* A command before its first execute: it holds nothing but a node or an edge under a
\* new id; it changes what the canvas shows and takes what is on it or selected.
Dispatched(c, N, E, ids, now) ==
    /\ IsCommand(c) /\ DistinctCommand(c)
    /\ \A x \in AddedNodes(c) : x.id \in NewIds(now)
    /\ \A e \in AddedEdges(c) : e.id \in NewIds(now) /\ e.src \in Ids(N) /\ e.dst \in Ids(N)
    /\ ~Brings(c) => AddedNodes(c) = {} /\ AddedEdges(c) = {}
    /\ Brings(c) => /\ ClaimedNodes(c) = Ids(AddedNodes(c)) /\ ClaimedEdges(c) = Ids(AddedEdges(c))
                    /\ ClaimedEnds(c) = {}
    /\ ClaimedNodes(c) \subseteq ids \cup NewIds(now) /\ ClaimedEnds(c) \subseteq ids
    /\ ClaimedEdges(c) \subseteq Ids(E) \cup NewIds(now)
    /\ Changes(c) => \E x \in N : x.id = c.id /\ x[KeyOf(c)] = c.old

\* The node of an id of the canvas is one of its nodes.
LEMMA NodeOfFinds ==
    ASSUME IsStore(store), NEW id \in NodeIds(store)
    PROVE  NodeOf(id) \in Range(store.nodes) /\ NodeOf(id).id = id
<1>1. PICK at : at = IndexById(store.nodes, id)
  OBVIOUS
<1>2. IsSequence(store.nodes)
  BY DEF IsStore, Drawn
<1>3. \/ at = 0 /\ \A x \in Range(store.nodes) : x.id # id
      \/ at \in 1 .. Len(store.nodes) /\ store.nodes[at].id = id /\ store.nodes[at] \in Range(store.nodes)
  BY <1>1, <1>2, FoundById
<1>4. \E x \in Range(store.nodes) : x.id = id
  BY DEF NodeIds, Range
<1>5. NodeOf(id) = store.nodes[at]
  BY <1>1 DEF NodeOf, IndexById
<1> QED BY <1>3, <1>4, <1>5

LEMMA NodeIdsAreIds == NodeIds(store) = Ids(Range(store.nodes))
BY DEF NodeIds, Ids, Range

LEMMA EditsAreDispatched ==
    ASSUME Shape, clock \in Nat,
           NEW c \in Drops \cup DragStops \cup DrawnConnections \cup EdgeDeletions \cup Shortcuts \cup PropertyEdits
    PROVE  Dispatched(c, Range(store.nodes), Range(store.edges), selection, clock)
<1> DEFINE N == Range(store.nodes)
           E == Range(store.edges)
<1>0. IsCommand(c) /\ IsStore(store)
  BY EditsAreCommands DEF Shape
<1>a. <<clock, 0>> \in NewIds(clock)
  BY DEF NewIds
<1>1. CASE c \in Drops
  <2>1. PICK plugin \in Plugins, pos \in Places : c = AddNodeCommand(NewNode(plugin, pos))
    BY <1>1 DEF Drops
  <2> DEFINE node == NewNode(plugin, pos)
  <2>2. node.id = <<clock, 0>>
    BY DEF NewNode
  <2> HIDE DEF node
  <2>3. c = AddNodeCommand(node)
    BY <2>1 DEF node
  <2>4. c.node = node
    BY <2>3 DEF AddNodeCommand
  <2>5. /\ c.type = "ADD_NODE" /\ Brings(c) /\ ~Changes(c)
        /\ ClaimedNodes(c) = {c.node.id} /\ ClaimedEnds(c) = {} /\ ClaimedEdges(c) = {}
        /\ AddedNodes(c) = {c.node} /\ AddedEdges(c) = {}
    BY <2>3, <2>4, AddIs
  <2> QED BY <1>0, <1>a, <2>2, <2>4, <2>5 DEF Dispatched, DistinctCommand, Ids
<1>2. CASE c \in DragStops
  <2>1. PICK id \in NodeIds(store), pos \in Places : c = MoveNodeCommand(id, pos, NodeOf(id).pos)
    BY <1>2 DEF DragStops
  <2>2. c = MoveNodeCommand(c.id, c.new, c.old) /\ c.id = id /\ c.old = NodeOf(id).pos
    BY <2>1 DEF MoveNodeCommand
  <2>3. /\ c.type = "MOVE_NODE" /\ ~Brings(c) /\ KeyOf(c) = "pos"
        /\ ClaimedNodes(c) = {} /\ ClaimedEnds(c) = {} /\ ClaimedEdges(c) = {}
        /\ AddedNodes(c) = {} /\ AddedEdges(c) = {}
    BY <2>2, MoveIs
  <2>4. PICK x \in N : x.id = id /\ x = NodeOf(id)
    BY <1>0, NodeOfFinds
  <2>5. x.id = c.id /\ x[KeyOf(c)] = c.old
    BY <2>2, <2>3, <2>4
  <2> QED BY <1>0, <2>3, <2>5 DEF Dispatched, DistinctCommand
<1>3. CASE c \in DrawnConnections
  <2>1. c \in Connections
    BY <1>3 DEF DrawnConnections
  <2>2. PICK source \in N, target \in NodeIds(store), handle \in Outcomes \cup {NoLabel} :
           c = ConnectEdgeCommand(NewEdge(source, target, handle))
    BY <2>1 DEF Connections
  <2> DEFINE edge == NewEdge(source, target, handle)
  <2>3. edge.id = <<clock, 0>> /\ edge.src = source.id /\ edge.dst = target
    BY DEF NewEdge
  <2> HIDE DEF edge
  <2>4. c = ConnectEdgeCommand(edge)
    BY <2>2 DEF edge
  <2>5. c.edge = edge
    BY <2>4 DEF ConnectEdgeCommand
  <2>6. /\ c.type = "CONNECT_EDGE" /\ Brings(c) /\ ~Changes(c)
        /\ ClaimedNodes(c) = {} /\ ClaimedEnds(c) = {} /\ ClaimedEdges(c) = {c.edge.id}
        /\ AddedNodes(c) = {} /\ AddedEdges(c) = {c.edge}
    BY <2>4, <2>5, ConnectIs
  <2>7. edge.src \in Ids(N) /\ edge.dst \in Ids(N)
    BY <2>3, NodeIdsAreIds DEF Ids
  <2> QED BY <1>0, <1>a, <2>3, <2>5, <2>6, <2>7 DEF Dispatched, DistinctCommand, Ids
<1>4. CASE c \in EdgeDeletions
  <2>1. PICK edge \in E : c = Disconnection(edge.id, -1, <<>>)
    BY <1>4 DEF EdgeDeletions, DisconnectEdgeCommand
  <2>2. c.id = edge.id /\ c.index = -1 /\ c.deleted = <<>>
    BY <2>1 DEF Disconnection
  <2>3. /\ c.type = "DISCONNECT_EDGE" /\ ~Brings(c) /\ ~Changes(c)
        /\ ClaimedNodes(c) = {} /\ ClaimedEnds(c) = {} /\ ClaimedEdges(c) = {c.id}
        /\ AddedNodes(c) = {} /\ AddedEdges(c) = {}
    BY <2>1, <2>2, DisconnectIs, SequenceEmpty
  <2> QED BY <1>0, <2>2, <2>3 DEF Dispatched, DistinctCommand, Ids
<1>5. CASE c \in Shortcuts
  <2>1. CASE c = PasteCommand \/ c = DuplicateCommand(selection)
    <3>1. IsClone(c) /\ c.made = {} /\ c.type # "DELETE_SELECTION"
      <4>1. CASE c = PasteCommand
        <5>1. c.made = {} /\ c = [type |-> "PASTE", made |-> {}]
          BY <4>1 DEF PasteCommand
        <5>2. c = [type |-> "PASTE", made |-> c.made]
          BY <5>1
        <5>3. c.type = "PASTE"
          BY <5>1
        <5> QED BY <5>1, <5>2, <5>3 DEF IsClone
      <4>2. CASE c = DuplicateCommand(selection)
        <5>1. c.ids = selection /\ c.made = {} /\ c = [type |-> "DUPLICATE", ids |-> selection, made |-> {}]
          BY <4>2 DEF DuplicateCommand
        <5>2. c = [type |-> "DUPLICATE", ids |-> c.ids, made |-> c.made]
          BY <5>1
        <5>3. c.type = "DUPLICATE"
          BY <5>1
        <5> QED BY <5>1, <5>2, <5>3 DEF IsClone
      <4> QED BY <2>1, <4>1, <4>2
    <3>2. /\ Brings(c) /\ ~Changes(c) /\ ClaimedNodes(c) = {} /\ ClaimedEnds(c) = {} /\ ClaimedEdges(c) = {}
          /\ AddedNodes(c) = {} /\ AddedEdges(c) = {}
      BY <3>1, CloneIs
    <3> QED BY <1>0, <3>1, <3>2 DEF Dispatched, DistinctCommand, Ids
  <2>2. CASE c = CopySelectionCommand(selection)
    <3>1. c = CopySelectionCommand(c.ids)
      BY <2>2 DEF CopySelectionCommand
    <3>2. /\ c.type = "COPY_SELECTION" /\ ~Brings(c) /\ ~Changes(c)
          /\ ClaimedNodes(c) = {} /\ ClaimedEnds(c) = {} /\ ClaimedEdges(c) = {}
          /\ AddedNodes(c) = {} /\ AddedEdges(c) = {}
      BY <3>1, CopyIs
    <3> QED BY <1>0, <3>2 DEF Dispatched, DistinctCommand
  <2>4. CASE c = DeleteSelectionCommand(selection)
    <3>1. c = Deletion(selection, <<>>, <<>>)
      BY <2>4 DEF DeleteSelectionCommand
    <3>2. c.ids = selection /\ c.nodes = <<>> /\ c.edges = <<>>
      BY <3>1 DEF Deletion
    <3>3. /\ c.type = "DELETE_SELECTION" /\ ~Brings(c) /\ ~Changes(c)
          /\ ClaimedNodes(c) = selection /\ ClaimedEnds(c) = selection /\ ClaimedEdges(c) = {}
          /\ AddedNodes(c) = {} /\ AddedEdges(c) = {}
      BY <3>1, <3>2, DeleteIs, SequenceEmpty
    <3> QED BY <1>0, <3>2, <3>3, DistinctEmpty DEF Dispatched, DistinctCommand
  <2> QED BY <1>5, <2>1, <2>2, <2>4 DEF Shortcuts
<1>6. CASE c \in PropertyEdits
  <2> DEFINE node == NodeOf(store.selected)
             edits == {e \in {"name"} \X Names \cup {"config"} \X Configs : e[2] # node[e[1]]}
  <2>1. PICK edit \in edits : c = UpdatePropertyCommand(node.id, edit[1], edit[2], node[edit[1]])
    BY <1>6 DEF PropertyEdits
  <2>2. store.selected \in NodeIds(store)
    BY <1>6 DEF PropertyEdits
  <2>3. node \in N
    BY <1>0, <2>2, NodeOfFinds
  <2> HIDE DEF node, edits
  <2>4. /\ c = UpdatePropertyCommand(c.id, c.key, c.new, c.old)
        /\ c.key = edit[1] /\ c.id = node.id /\ c.old = node[edit[1]]
    BY <2>1 DEF UpdatePropertyCommand
  <2>5. /\ c.type = "UPDATE_PROPERTY" /\ ~Brings(c) /\ KeyOf(c) = c.key
        /\ ClaimedNodes(c) = {} /\ ClaimedEnds(c) = {} /\ ClaimedEdges(c) = {}
        /\ AddedNodes(c) = {} /\ AddedEdges(c) = {}
    BY <2>4, UpdateIs
  <2>6. \E x \in N : x.id = c.id /\ x[KeyOf(c)] = c.old
    BY <2>3, <2>4, <2>5
  <2> QED BY <1>0, <2>5, <2>6 DEF Dispatched, DistinctCommand
<1> QED BY <1>1, <1>2, <1>3, <1>4, <1>5, <1>6

----------------------------------------------------------------------------
(* The tale of a history. L is its commands in the order they were first      *)
(* executed in, m their number; n of them are executed now, on a canvas with  *)
(* the nodes N and the edges E. now is the clock.                             *)

OldNodes(nodes, now) == \A x \in nodes : x.id \in OldIds(now)
OldEdges(edges, now) == \A e \in edges : {e.id, e.src, e.dst} \subseteq OldIds(now)

\* All that the command knows is from before now.
OldCommand(c, now) ==
    /\ OldNodes(AddedNodes(c), now) /\ OldEdges(AddedEdges(c), now)
    /\ ClaimedNodes(c) \subseteq OldIds(now) /\ ClaimedEnds(c) \subseteq OldIds(now)
    /\ ClaimedEdges(c) \subseteq OldIds(now)
    /\ Changes(c) => c.id \in OldIds(now)

\* The command claims what it holds.
SelfClaimed(c) ==
    /\ \A x \in AddedNodes(c) : ~FreeNode(x.id, c)
    /\ \A e \in AddedEdges(c) : ~FreeEdge(e, c)

\* Nothing of the canvas is claimed by the command.
Free(nodes, edges, c) == (\A x \in nodes : FreeNode(x.id, c)) /\ (\A e \in edges : FreeEdge(e, c))

Sound(L, m, N, E, now) ==
    /\ \A x \in N : IsNode(x)
    /\ now \in Nat /\ OldNodes(N, now) /\ OldEdges(E, now)
    /\ \A j \in 1 .. m : IsCommand(L[j]) /\ OldCommand(L[j], now) /\ SelfClaimed(L[j])

\* What will be brought is not there yet, and what was taken is there no longer.
StoreFree(L, m, n, N, E) ==
    \A j \in 1 .. m : (Brings(L[j]) /\ n < j) \/ (Takes(L[j]) /\ j <= n) => Free(N, E, L[j])

\* What one command holds is brought by no later one and taken by no earlier one.
AddsFree(L, m) ==
    \A i, j \in 1 .. m : (Brings(L[j]) /\ i < j) \/ (Takes(L[j]) /\ j < i) =>
        Free(AddedNodes(L[i]), AddedEdges(L[i]), L[j])

\* An edge of the canvas or of a command is the only one with its id.
EdgeOf(L, m, E, e) == e \in E \/ \E j \in 1 .. m : e \in AddedEdges(L[j])
OneEach(L, m, E) == \A x, y : EdgeOf(L, m, E, x) /\ EdgeOf(L, m, E, y) /\ x.id = y.id => x = y

\* The edge joins copies that a paste or a duplicate among the first k made once: it
\* may be on the canvas or not, since the undo of that command takes it away.
Junk(L, k, e) == \E i \in 1 .. k : Clones(L[i]) /\ (e.src \in L[i].made \/ e.dst \in L[i].made)

\* The edge that an undone disconnection remembers will be there when it is redone, or
\* does not matter.
Remembered(L, m, n, E) ==
    \A j \in 1 .. m : n < j /\ L[j].type = "DISCONNECT_EDGE" =>
        \A e \in AddedEdges(L[j]) :
            \/ e \in E \/ Junk(L, j - 1, e)
            \/ \E i \in n + 1 .. j - 1 : L[i].type = "CONNECT_EDGE" /\ e \in AddedEdges(L[i])

\* V[p][id] is the node of an id when p commands are executed, if it is there then.
ValuesOf(V, L, m, n, N) ==
    /\ \A p \in 1 .. m, id \in Nat \X Nat :
          V[p][id] = Forth(id, V[p - 1][id], L[p]) /\ V[p - 1][id] = Back(id, V[p][id], L[p])
    /\ \A x \in N : x = V[n][x.id]
    /\ \A j \in 1 .. m : L[j].type = "ADD_NODE" \/ j <= n =>
          \A x \in AddedNodes(L[j]) : x = V[j][x.id]
Valued(L, m, n, N) == \E V : ValuesOf(V, L, m, n, N)

Agree(L, k, D, E) == \A e : (e \in D <=> e \in E) \/ Junk(L, k, e)

\* Undoing the n executed commands leads back to the first canvas.
NodesBefore(R, L, n, N, first) ==
    R[n] = N /\ R[0] = first /\ \A k \in 1 .. n : R[k - 1] = BackNodes(R[k], L[k])
EdgesBefore(G, L, n, E, first) ==
    /\ Agree(L, n, G[n], E) /\ G[0] = first
    /\ \A k \in 1 .. n : Agree(L, k - 1, BackEdges(G[k], L[k]), G[k - 1])
Told(L, n, N, E, first) ==
    /\ \E R : NodesBefore(R, L, n, N, first[1])
    /\ \E G : EdgesBefore(G, L, n, E, first[2])

Tale(L, m, n, N, E, first) ==
    /\ m \in Nat /\ n \in 0 .. m
    /\ StoreFree(L, m, n, N, E) /\ AddsFree(L, m) /\ OneEach(L, m, E)
    /\ Remembered(L, m, n, E) /\ Valued(L, m, n, N) /\ Told(L, n, N, E, first)

----------------------------------------------------------------------------
(* undo.                                                                      *)

\* The kinds of commands exclude each other, and only some hold anything.
LEMMA Kinds ==
    ASSUME NEW c
    PROVE  /\ Brings(c) => ~Takes(c) /\ ~Changes(c)
           /\ Takes(c) => ~Changes(c)
           /\ Clones(c) => Brings(c)
           /\ AddedNodes(c) # {} => c.type = "ADD_NODE" \/ c.type = "DELETE_SELECTION"
           /\ AddedEdges(c) # {} => c.type \in {"CONNECT_EDGE", "DISCONNECT_EDGE", "DELETE_SELECTION"}
           /\ c.type \in {"ADD_NODE", "CONNECT_EDGE"} => Brings(c) /\ ~Clones(c)
           /\ c.type \in {"DISCONNECT_EDGE", "DELETE_SELECTION"} => Takes(c)
           /\ ClaimedEnds(c) \subseteq ClaimedNodes(c)
           /\ Clones(c) => ClaimedNodes(c) = c.made /\ ClaimedEnds(c) = c.made /\ ClaimedEdges(c) = {}
BY DEF Brings, Takes, Changes, Clones, AddedNodes, AddedEdges, ClaimedEnds, ClaimedNodes, ClaimedEdges

\* A change keeps the id.
LEMMA ChangeKeepsId ==
    ASSUME NEW c, IsCommand(c), NEW id, NEW x, IsNode(x)
    PROVE  /\ Forth(id, x, c).id = x.id /\ IsNode(Forth(id, x, c))
           /\ Back(id, x, c).id = x.id /\ IsNode(Back(id, x, c))
<1>1. CASE ~Changes(c)
  BY <1>1 DEF Forth, Back
<1>2. CASE Changes(c)
  <2>1. KeyOf(c) \in {"pos", "name", "config"}
    <3>1. c.type = "MOVE_NODE" \/ c.type = "UPDATE_PROPERTY"
      BY <1>2 DEF Changes
    <3>2. CASE c.type = "MOVE_NODE"
      BY <3>2 DEF KeyOf
    <3>3. CASE c.type = "UPDATE_PROPERTY"
      <4>1. c.key \in {"name", "config"}
        BY <3>3 DEF IsCommand, AddNodeCommand, MoveNodeCommand, UpdatePropertyCommand, ConnectEdgeCommand,
           Disconnection, CopySelectionCommand, Deletion
      <4> QED BY <3>3, <4>1 DEF KeyOf
    <3> QED BY <3>1, <3>2, <3>3
  <2>2. ASSUME NEW key \in {"pos", "name", "config"}, NEW value, NEW y, y = [x EXCEPT ![key] = value]
        PROVE  IsNode(y) /\ y.id = x.id
    <3>1. key = "pos" \/ key = "name" \/ key = "config"
      BY <2>2
    <3> QED BY ONLY IsNode(x), <3>1, y = [x EXCEPT ![key] = value] DEF IsNode
  <2>3. /\ Forth(id, x, c) = x \/ Forth(id, x, c) = [x EXCEPT ![KeyOf(c)] = c.new]
        /\ Back(id, x, c) = x \/ Back(id, x, c) = [x EXCEPT ![KeyOf(c)] = c.old]
    BY DEF Forth, Back
  <2> QED BY <2>1, <2>2, <2>3
<1> QED BY <1>1, <1>2

\* What undo leaves and adds.
LEMMA BackLeaves ==
    ASSUME NEW c, IsCommand(c), NEW N, \A x \in N : IsNode(x), NEW E
    PROVE  /\ \A y \in BackNodes(N, c) :
                 \/ y \in AddedNodes(c) /\ ~Brings(c)
                 \/ \E x \in N : y = Back(x.id, x, c) /\ y.id = x.id /\ (Brings(c) => FreeNode(x.id, c))
           /\ \A e \in BackEdges(E, c) :
                 \/ e \in AddedEdges(c) /\ ~Brings(c)
                 \/ e \in E /\ (Brings(c) => FreeEdge(e, c))
           /\ ~Brings(c) => E \subseteq BackEdges(E, c) /\ AddedEdges(c) \subseteq BackEdges(E, c)
<1>1. ASSUME Brings(c), NEW y \in BackNodes(N, c)
      PROVE  \E x \in N : y = Back(x.id, x, c) /\ y.id = x.id /\ FreeNode(x.id, c)
  <2>1. y \in N /\ FreeNode(y.id, c)
    BY <1>1 DEF BackNodes, Kept
  <2>2. Back(y.id, y, c) = y
    BY <1>1, Kinds DEF Back
  <2> QED BY <2>1, <2>2
<1>2. ASSUME ~Brings(c), NEW y \in BackNodes(N, c), y \notin AddedNodes(c)
      PROVE  \E x \in N : y = Back(x.id, x, c) /\ y.id = x.id
  <2>1. PICK x \in N : y = Back(x.id, x, c)
    BY <1>2 DEF BackNodes
  <2> QED BY <2>1, ChangeKeepsId
<1> QED BY <1>1, <1>2 DEF BackEdges, KeptEdges

LEMMA StoreFreeBack ==
    ASSUME NEW L, NEW m \in Nat, NEW n \in 1 .. m, NEW N, NEW E, \A x \in N : IsNode(x), IsCommand(L[n]),
           StoreFree(L, m, n, N, E), AddsFree(L, m)
    PROVE  StoreFree(L, m, n - 1, BackNodes(N, L[n]), BackEdges(E, L[n]))
<1> DEFINE c == L[n]
           P == BackNodes(N, c)
           F == BackEdges(E, c)
<1> SUFFICES ASSUME NEW j \in 1 .. m, (Brings(L[j]) /\ n - 1 < j) \/ (Takes(L[j]) /\ j <= n - 1)
             PROVE  Free(P, F, L[j])
  BY DEF StoreFree
<1>1. CASE j = n
  <2>1. Brings(c)
    BY <1>1
  <2>2. P = Kept(N, c) /\ F = KeptEdges(E, c)
    BY <2>1 DEF BackNodes, BackEdges
  <2> QED BY <1>1, <2>2 DEF Free, Kept, KeptEdges
<1>2. CASE j # n
  <2>1. (Brings(L[j]) /\ n < j) \/ (Takes(L[j]) /\ j < n)
    BY <1>2
  <2>2. Free(N, E, L[j]) /\ Free(AddedNodes(c), AddedEdges(c), L[j])
    BY <2>1 DEF StoreFree, AddsFree
  <2>3. /\ \A y \in P : y \in AddedNodes(c) \/ \E x \in N : y.id = x.id
        /\ \A e \in F : e \in AddedEdges(c) \/ e \in E
    BY BackLeaves
  <2> HIDE DEF P, F, c
  <2> QED BY <2>2, <2>3 DEF Free
<1> QED BY <1>1, <1>2

LEMMA OneEachBack ==
    ASSUME NEW L, NEW m \in Nat, NEW n \in 1 .. m, NEW E, OneEach(L, m, E)
    PROVE  OneEach(L, m, BackEdges(E, L[n]))
<1>1. \A e : EdgeOf(L, m, BackEdges(E, L[n]), e) => EdgeOf(L, m, E, e)
  BY DEF EdgeOf, BackEdges, KeptEdges
<1> QED BY <1>1 DEF OneEach

LEMMA RememberedBack ==
    ASSUME NEW L, NEW m \in Nat, NEW n \in 1 .. m, NEW E, IsCommand(L[n]), Remembered(L, m, n, E),
           OneEach(L, m, E), SelfClaimed(L[n])
    PROVE  Remembered(L, m, n - 1, BackEdges(E, L[n]))
<1> DEFINE c == L[n]
           F == BackEdges(E, c)
<1> SUFFICES ASSUME NEW j \in 1 .. m, n - 1 < j, L[j].type = "DISCONNECT_EDGE", NEW e \in AddedEdges(L[j])
             PROVE  \/ e \in F \/ Junk(L, j - 1, e)
                    \/ \E i \in n - 1 + 1 .. j - 1 : L[i].type = "CONNECT_EDGE" /\ e \in AddedEdges(L[i])
  BY DEF Remembered
<1>1. CASE j = n
  <2>1. ~Brings(c)
    BY <1>1, Kinds
  <2> QED BY <1>1, <2>1 DEF BackEdges
<1>2. CASE j # n
  <2>0. n < j
    BY <1>2
  <2>1. \/ e \in E \/ Junk(L, j - 1, e)
        \/ \E i \in n + 1 .. j - 1 : L[i].type = "CONNECT_EDGE" /\ e \in AddedEdges(L[i])
    BY <2>0 DEF Remembered
  <2>2. CASE e \in E /\ e \notin F
    <3>1. Brings(c) /\ ~FreeEdge(e, c)
      BY <2>2 DEF BackEdges, KeptEdges
    <3>2. CASE Clones(c)
      <4>1. e.src \in c.made \/ e.dst \in c.made
        BY <3>1, <3>2, Kinds DEF FreeEdge
      <4>2. n \in 1 .. j - 1
        BY <2>0
      <4> QED BY <3>2, <4>1, <4>2 DEF Junk
    <3>3. CASE c.type = "CONNECT_EDGE"
      <4>1. e.id = c.edge.id /\ AddedEdges(c) = {c.edge}
        BY <3>1, <3>3 DEF FreeEdge, ClaimedEdges, ClaimedEnds, Clones, AddedEdges
      <4>2. EdgeOf(L, m, E, e) /\ EdgeOf(L, m, E, c.edge)
        BY <2>2, <4>1 DEF EdgeOf
      <4>3. e = c.edge
        BY <4>1, <4>2 DEF OneEach
      <4>4. n \in n - 1 + 1 .. j - 1
        BY <2>0
      <4> QED BY <3>3, <4>1, <4>3, <4>4
    <3>4. CASE c.type = "ADD_NODE"
      <4>1. FreeEdge(e, c)
        BY <3>4 DEF FreeEdge, ClaimedEdges, ClaimedEnds, Clones
      <4> QED BY <3>1, <4>1
    <3> QED BY <3>1, <3>2, <3>3, <3>4 DEF Brings
  <2>3. ASSUME NEW i \in n + 1 .. j - 1 PROVE i \in n - 1 + 1 .. j - 1
    OBVIOUS
  <2> QED BY <2>1, <2>2, <2>3
<1> QED BY <1>1, <1>2

LEMMA ValuedBack ==
    ASSUME NEW L, NEW m \in Nat, NEW n \in 1 .. m, NEW N, NEW E, NEW now, Sound(L, m, N, E, now),
           Valued(L, m, n, N)
    PROVE  Valued(L, m, n - 1, BackNodes(N, L[n]))
<1> DEFINE c == L[n]
           P == BackNodes(N, c)
<1>1. PICK V : ValuesOf(V, L, m, n, N)
  BY DEF Valued
<1>2. \A id \in Nat \X Nat : V[n - 1][id] = Back(id, V[n][id], c)
  BY <1>1 DEF ValuesOf
<1>3. ASSUME NEW y \in P PROVE y = V[n - 1][y.id]
  <2>1. CASE y \in AddedNodes(c) /\ ~Brings(c)
    <3>1. y = V[n][y.id]
      BY <1>1, <2>1 DEF ValuesOf
    <3>2. y.id \in Nat \X Nat
      BY <2>1 DEF Sound, OldCommand, OldNodes, OldIds
    <3>3. ~Changes(c)
      BY <2>1, Kinds
    <3>4. Back(y.id, V[n][y.id], c) = V[n][y.id]
      BY <3>3 DEF Back
    <3> QED BY <1>2, <3>1, <3>2, <3>4
  <2>2. CASE \E x \in N : y = Back(x.id, x, c) /\ y.id = x.id
    <3>1. PICK x \in N : y = Back(x.id, x, c) /\ y.id = x.id
      BY <2>2
    <3>2. x = V[n][x.id] /\ x.id \in Nat \X Nat
      BY <1>1 DEF ValuesOf, Sound, OldNodes, OldIds
    <3> QED BY <1>2, <3>1, <3>2
  <2>3. IsCommand(c) /\ \A x \in N : IsNode(x)
    BY DEF Sound
  <2> QED BY <2>1, <2>2, <2>3, BackLeaves
<1>4. \A j \in 1 .. m : j <= n - 1 => j <= n
  OBVIOUS
<1>5. ValuesOf(V, L, m, n - 1, P)
  BY <1>1, <1>3, <1>4 DEF ValuesOf
<1> QED BY <1>5 DEF Valued

\* Canvases that agree still do after the undo of the same command.
LEMMA AgreeBack ==
    ASSUME NEW L, NEW k \in Nat \ {0}, NEW D, NEW E, Agree(L, k, D, E)
    PROVE  Agree(L, k - 1, BackEdges(D, L[k]), BackEdges(E, L[k]))
<1> SUFFICES ASSUME NEW e, ~Junk(L, k - 1, e)
             PROVE  e \in BackEdges(D, L[k]) <=> e \in BackEdges(E, L[k])
  BY DEF Agree
<1>1. CASE Junk(L, k, e)
  <2>1. PICK i \in 1 .. k : Clones(L[i]) /\ (e.src \in L[i].made \/ e.dst \in L[i].made)
    BY <1>1 DEF Junk
  <2>2. i = k
    BY <2>1 DEF Junk
  <2>3. Brings(L[k]) /\ ~FreeEdge(e, L[k])
    BY <2>1, <2>2, Kinds DEF FreeEdge
  <2> QED BY <2>3 DEF BackEdges, KeptEdges
<1>2. CASE ~Junk(L, k, e)
  <2>1. e \in D <=> e \in E
    BY <1>2 DEF Agree
  <2> QED BY <2>1 DEF BackEdges, KeptEdges
<1> QED BY <1>1, <1>2

LEMMA AgreeAll ==
    ASSUME NEW L, NEW k, NEW D, NEW E, NEW F, Agree(L, k, D, E), Agree(L, k, D, F)
    PROVE  Agree(L, k, E, F)
BY DEF Agree

LEMMA ToldBack ==
    ASSUME NEW L, NEW n \in Nat \ {0}, NEW N, NEW E, NEW first, Told(L, n, N, E, first)
    PROVE  Told(L, n - 1, BackNodes(N, L[n]), BackEdges(E, L[n]), first)
<1>0. n \in 1 .. n /\ \A k \in 1 .. n - 1 : k \in 1 .. n
  OBVIOUS
<1>1. PICK R : NodesBefore(R, L, n, N, first[1])
  BY DEF Told
<1>2. NodesBefore(R, L, n - 1, BackNodes(N, L[n]), first[1])
  BY <1>0, <1>1 DEF NodesBefore
<1>3. PICK G : EdgesBefore(G, L, n, E, first[2])
  BY DEF Told
<1>4. Agree(L, n - 1, BackEdges(G[n], L[n]), BackEdges(E, L[n]))
  BY <1>3, AgreeBack DEF EdgesBefore
<1>5. Agree(L, n - 1, BackEdges(G[n], L[n]), G[n - 1])
  BY <1>0, <1>3 DEF EdgesBefore
<1>6. Agree(L, n - 1, G[n - 1], BackEdges(E, L[n]))
  BY <1>4, <1>5, AgreeAll
<1>7. EdgesBefore(G, L, n - 1, BackEdges(E, L[n]), first[2])
  BY <1>0, <1>3, <1>6 DEF EdgesBefore
<1> QED BY <1>2, <1>7 DEF Told

\* The tale goes on when the last executed command is undone.
LEMMA TaleBack ==
    ASSUME NEW L, NEW m, NEW n, NEW N, NEW E, NEW first, NEW now,
           Sound(L, m, N, E, now), Tale(L, m, n, N, E, first), n # 0
    PROVE  Tale(L, m, n - 1, BackNodes(N, L[n]), BackEdges(E, L[n]), first)
<1>1. m \in Nat /\ n \in 1 .. m /\ n \in Nat \ {0} /\ n - 1 \in 0 .. m
  BY DEF Tale
<1>2. IsCommand(L[n]) /\ SelfClaimed(L[n]) /\ \A x \in N : IsNode(x)
  BY <1>1 DEF Sound
<1>3. /\ StoreFree(L, m, n, N, E) /\ AddsFree(L, m) /\ OneEach(L, m, E)
      /\ Remembered(L, m, n, E) /\ Valued(L, m, n, N) /\ Told(L, n, N, E, first)
  BY DEF Tale
<1>4. StoreFree(L, m, n - 1, BackNodes(N, L[n]), BackEdges(E, L[n]))
  BY <1>1, <1>2, <1>3, StoreFreeBack
<1>5. OneEach(L, m, BackEdges(E, L[n])) /\ Remembered(L, m, n - 1, BackEdges(E, L[n]))
  BY <1>1, <1>2, <1>3, OneEachBack, RememberedBack
<1>6. Valued(L, m, n - 1, BackNodes(N, L[n]))
  BY <1>1, <1>3, ValuedBack
<1>7. Told(L, n - 1, BackNodes(N, L[n]), BackEdges(E, L[n]), first)
  BY <1>1, <1>3, ToldBack
<1> QED BY <1>1, <1>3, <1>4, <1>5, <1>6, <1>7 DEF Tale

\* What an undone taking gives back differs from all that is there.
LEMMA TakenDiffers ==
    ASSUME NEW L, NEW m, NEW n, NEW N, NEW E, NEW first, NEW now,
           Sound(L, m, N, E, now), Tale(L, m, n, N, E, first), n # 0, Takes(L[n])
    PROVE  Differ(L[n], N, E)
<1>1. m \in Nat /\ n \in 1 .. m /\ n <= n
  BY DEF Tale
<1>2. Free(N, E, L[n]) /\ SelfClaimed(L[n])
  BY <1>1 DEF Tale, StoreFree, Sound
<1>3. \A x \in N, y \in AddedNodes(L[n]) : x.id # y.id
  BY <1>2 DEF Free, SelfClaimed
<1>4. ASSUME NEW x \in E, NEW y \in AddedEdges(L[n]), x.id = y.id PROVE FALSE
  <2>1. EdgeOf(L, m, E, x) /\ EdgeOf(L, m, E, y)
    BY <1>1 DEF EdgeOf
  <2>2. x = y
    BY <1>4, <2>1 DEF Tale, OneEach
  <2> QED BY <1>2, <2>2 DEF Free, SelfClaimed
<1> QED BY <1>3, <1>4 DEF Differ

----------------------------------------------------------------------------
(* execute.                                                                   *)

\* Nothing of the canvas or of a command has a new id.
LEMMA OldIsNotNew ==
    ASSUME NEW now \in Nat, NEW id \in OldIds(now)
    PROVE  id \notin NewIds(now) /\ id \in Nat \X Nat
<1>1. id \notin NewIds(now)
  BY NewAreNotOld
<1> QED BY <1>1 DEF OldIds

\* The copies of a clone have new ids; nothing else that is executed makes any.
Copies(c, nodes, edges, now) ==
    /\ \A x \in nodes : x.id \in NewIds(now)
    /\ \A e \in edges : {e.id, e.src, e.dst} \subseteq NewIds(now)
    /\ \A x, y \in nodes : x.id = y.id => x = y
    /\ \A x, y \in edges : x.id = y.id => x = y
    /\ ~Clones(c) => nodes = {} /\ edges = {}

\* A command and what is left of it after it was executed.
Executed(c, d, N, E) ==
    /\ d.type = c.type
    /\ (Brings(d) <=> Brings(c)) /\ (Takes(d) <=> Takes(c)) /\ (Changes(d) <=> Changes(c))
    /\ (Clones(d) <=> Clones(c))
    /\ (~Clones(c) /\ ~Takes(c) => d = c)
    /\ AddedNodes(d) \subseteq N \cup AddedNodes(c)
    /\ AddedEdges(d) \subseteq E \cup AddedEdges(c)
    /\ ClaimedEdges(d) = ClaimedEdges(c)

LEMMA ForwardCommand ==
    ASSUME NEW c, NEW d, NEW N, NEW E, NEW P, NEW F, NEW now, Forwarded(c, d, N, E, P, F, now)
    PROVE  Executed(c, d, N, E)
<1>1. CASE Clones(c)
  <2>1. PICK nodes, edges : Copied(c, d, nodes, edges, now)
    BY <1>1, Kinds DEF Forwarded
  <2>2. IsClone(d) /\ d.type = c.type
    BY <2>1 DEF Copied
  <2>3. AddedNodes(d) = {} /\ AddedEdges(d) = {} /\ ClaimedEdges(d) = {}
    BY <2>2, CloneIs
  <2>4. ClaimedEdges(c) = {}
    BY <1>1, Kinds
  <2> QED BY <1>1, <2>2, <2>3, <2>4 DEF Executed, Brings, Takes, Changes, Clones
<1>2. CASE Takes(c)
  <2>1. TakenAway(c, d, N, E)
    BY <1>2, Kinds DEF Forwarded
  <2>2. d.type = c.type
    BY <2>1 DEF TakenAway
  <2>3. AddedNodes(d) \subseteq N /\ AddedEdges(d) \subseteq E \cup AddedEdges(c)
    BY <2>1 DEF TakenAway, Kept, KeptEdges
  <2>4. ClaimedEdges(d) = ClaimedEdges(c)
    BY <2>1 DEF TakenAway
  <2> QED BY <1>2, <2>2, <2>3, <2>4 DEF Executed, Brings, Takes, Changes, Clones
<1>3. CASE ~Clones(c) /\ ~Takes(c)
  <2>1. d = c
    BY <1>3 DEF Forwarded
  <2> QED BY <1>3, <2>1 DEF Executed
<1> QED BY <1>1, <1>2, <1>3

\* What the canvas is made of after execute.
LEMMA ForwardStore ==
    ASSUME NEW c, NEW d, NEW N, NEW E, NEW P, NEW F, NEW now, Forwarded(c, d, N, E, P, F, now)
    PROVE  \E nodes, edges :
              /\ Copies(c, nodes, edges, now)
              /\ Clones(c) => IsClone(d) /\ d.made = c.made \cup Ids(nodes)
              /\ Clones(c) => \A e \in edges : e.src \in Ids(nodes)
              /\ Brings(c) => /\ P = N \cup AddedNodes(c) \cup nodes
                              /\ F = E \cup AddedEdges(c) \cup edges
              /\ ~Brings(c) => nodes = {} /\ edges = {}
<1>1. CASE Brings(c) /\ Clones(c)
  <2>1. PICK nodes, edges : /\ Copied(c, d, nodes, edges, now)
                            /\ P = N \cup AddedNodes(c) \cup nodes /\ F = E \cup AddedEdges(c) \cup edges
    BY <1>1, Kinds DEF Forwarded
  <2>2. \A x \in nodes : x.id \in NewIds(now)
    BY <2>1 DEF Copied, Ids
  <2>3. \A e \in edges : {e.id, e.src, e.dst} \subseteq NewIds(now) /\ e.src \in Ids(nodes)
    BY <2>1 DEF Copied
  <2>4. Copies(c, nodes, edges, now)
    BY <1>1, <2>1, <2>2, <2>3 DEF Copies, Copied
  <2>5. IsClone(d) /\ d.made = c.made \cup Ids(nodes)
    BY <2>1 DEF Copied
  <2> QED BY <1>1, <2>1, <2>3, <2>4, <2>5
<1>2. CASE Brings(c) /\ ~Clones(c)
  <2>1. P = N \cup AddedNodes(c) \cup {} /\ F = E \cup AddedEdges(c) \cup {}
    BY <1>2, Kinds DEF Forwarded
  <2>2. Copies(c, {}, {}, now)
    BY DEF Copies
  <2> QED BY <1>2, <2>1, <2>2
<1>3. CASE ~Brings(c)
  <2>1. ~Clones(c)
    BY <1>3, Kinds
  <2>2. Copies(c, {}, {}, now)
    BY DEF Copies
  <2> QED BY <1>3, <2>1, <2>2
<1> QED BY <1>1, <1>2, <1>3

\* What is claimed after execute and old was claimed before.
LEMMA ForwardClaims ==
    ASSUME NEW c, NEW d, NEW N, NEW E, NEW P, NEW F, NEW now \in Nat, Forwarded(c, d, N, E, P, F, now)
    PROVE  /\ \A id \in OldIds(now) : FreeNode(id, c) => FreeNode(id, d)
           /\ \A e : {e.id, e.src, e.dst} \subseteq OldIds(now) /\ FreeEdge(e, c) => FreeEdge(e, d)
           /\ \A id : FreeNode(id, d) => FreeNode(id, c)
           /\ \A e : FreeEdge(e, d) => FreeEdge(e, c)
<1>1. CASE Clones(c)
  <2>1. PICK nodes, edges : /\ Copies(c, nodes, edges, now) /\ IsClone(d) /\ d.made = c.made \cup Ids(nodes)
    BY <1>1, ForwardStore
  <2>2. Ids(nodes) \cap OldIds(now) = {}
    BY <2>1, NewAreNotOld DEF Ids, Copies
  <2>3. ClaimedNodes(c) = c.made /\ ClaimedEnds(c) = c.made /\ ClaimedEdges(c) = {}
    BY <1>1, Kinds
  <2>4. ClaimedNodes(d) = d.made /\ ClaimedEnds(d) = d.made /\ ClaimedEdges(d) = {}
    BY <2>1, CloneIs
  <2> QED BY <2>1, <2>2, <2>3, <2>4 DEF FreeNode, FreeEdge
<1>2. CASE Takes(c)
  <2>1. TakenAway(c, d, N, E)
    BY <1>2, Kinds DEF Forwarded
  <2> QED BY <2>1 DEF TakenAway, FreeNode, FreeEdge
<1>3. CASE ~Clones(c) /\ ~Takes(c)
  <2>1. d = c
    BY <1>3 DEF Forwarded
  <2> QED BY <2>1
<1> QED BY <1>1, <1>2, <1>3

\* Of what there is after execute, all is of the canvas, of the command or new.
LEMMA ForwardParts ==
    ASSUME NEW c, IsCommand(c), NEW d, NEW N, \A x \in N : IsNode(x), NEW E, NEW P, NEW F, NEW now \in Nat,
           Forwarded(c, d, N, E, P, F, now)
    PROVE  /\ \A y \in P : y.id \in Ids(N) \/ y \in AddedNodes(c) \/ y.id \in NewIds(now)
           /\ \A e \in F : e \in E \/ e \in AddedEdges(c) \/ {e.id, e.src, e.dst} \subseteq NewIds(now)
<1>1. CASE Brings(c)
  <2>1. PICK nodes, edges : /\ Copies(c, nodes, edges, now)
                            /\ P = N \cup AddedNodes(c) \cup nodes /\ F = E \cup AddedEdges(c) \cup edges
    BY <1>1, ForwardStore
  <2> QED BY <2>1 DEF Copies, Ids
<1>2. CASE Takes(c)
  <2>1. P \subseteq N /\ F \subseteq E
    BY <1>2, Kinds DEF Forwarded, Kept, KeptEdges
  <2> QED BY <2>1 DEF Ids
<1>3. CASE ~Brings(c) /\ ~Takes(c)
  <2>1. P = {Forth(x.id, x, c) : x \in N} /\ F = E
    BY <1>3 DEF Forwarded
  <2>2. ASSUME NEW y \in P PROVE y.id \in Ids(N)
    <3>1. PICK x \in N : y = Forth(x.id, x, c)
      BY <2>1
    <3>2. y.id = x.id
      BY <3>1, ChangeKeepsId
    <3> QED BY <3>2 DEF Ids
  <2> QED BY <2>1, <2>2
<1> QED BY <1>1, <1>2, <1>3

\* The line with a command replaced by what is left of it.
Again(L, m, k, d) == [i \in 1 .. m |-> IF i = k THEN d ELSE L[i]]

LEMMA StoreFreeForth ==
    ASSUME NEW L, NEW m \in Nat, NEW n \in 0 .. m - 1, NEW N, NEW E, NEW now, Sound(L, m, N, E, now),
           StoreFree(L, m, n, N, E), AddsFree(L, m), NEW d, NEW P, NEW F,
           Forwarded(L[n + 1], d, N, E, P, F, now)
    PROVE  StoreFree(Again(L, m, n + 1, d), m, n + 1, P, F)
<1> DEFINE c == L[n + 1]
           M == Again(L, m, n + 1, d)
<1>0. n + 1 \in 1 .. m /\ now \in Nat /\ \A j \in 1 .. m : M[j] = IF j = n + 1 THEN d ELSE L[j]
  BY DEF Sound, Again
<1>1. Executed(c, d, N, E)
  BY ForwardCommand
<1> SUFFICES ASSUME NEW j \in 1 .. m, (Brings(M[j]) /\ n + 1 < j) \/ (Takes(M[j]) /\ j <= n + 1)
             PROVE  Free(P, F, M[j])
  BY DEF StoreFree
<1>2. CASE j = n + 1
  <2>1. Takes(c)
    BY <1>0, <1>1, <1>2 DEF Executed
  <2>2. P = Kept(N, c) /\ F = KeptEdges(E, c) /\ TakenAway(c, d, N, E)
    BY <2>1, Kinds DEF Forwarded
  <2>3. Free(P, F, d)
    BY <2>2 DEF Free, Kept, KeptEdges, TakenAway, FreeNode, FreeEdge
  <2> QED BY <1>0, <1>2, <2>3
<1>3. CASE j # n + 1
  <2>1. M[j] = L[j] /\ ((Brings(L[j]) /\ n + 1 < j) \/ (Takes(L[j]) /\ j < n + 1))
    BY <1>0, <1>3
  <2>2. (Brings(L[j]) /\ n < j) \/ (Takes(L[j]) /\ j <= n)
    BY <2>1
  <2>3. Free(N, E, L[j])
    BY <2>2 DEF StoreFree
  <2>4. Free(AddedNodes(c), AddedEdges(c), L[j])
    BY <1>0, <2>1 DEF AddsFree
  <2>5. /\ \A id \in NewIds(now) : FreeNode(id, L[j])
        /\ \A e : {e.id, e.src, e.dst} \subseteq NewIds(now) => FreeEdge(e, L[j])
    <3>1. OldCommand(L[j], now)
      BY DEF Sound
    <3> QED BY <1>0, <3>1, NewAreNotOld DEF OldCommand, FreeNode, FreeEdge
  <2>6. \A x \in P : FreeNode(x.id, L[j])
    <3>1. \A y \in P : y.id \in Ids(N) \/ y \in AddedNodes(c) \/ y.id \in NewIds(now)
      BY <1>0, ForwardParts DEF Sound
    <3>2. \A id \in Ids(N) : FreeNode(id, L[j])
      BY <2>3 DEF Free, Ids
    <3> QED BY <2>4, <2>5, <3>1, <3>2 DEF Free
  <2>7. \A e \in F : FreeEdge(e, L[j])
    <3>1. \A e \in F : e \in E \/ e \in AddedEdges(c) \/ {e.id, e.src, e.dst} \subseteq NewIds(now)
      BY <1>0, ForwardParts DEF Sound
    <3> QED BY <2>3, <2>4, <2>5, <3>1 DEF Free
  <2> QED BY <2>1, <2>6, <2>7 DEF Free
<1> QED BY <1>2, <1>3

LEMMA AddsFreeForth ==
    ASSUME NEW L, NEW m \in Nat, NEW n \in 0 .. m - 1, NEW N, NEW E, NEW now, Sound(L, m, N, E, now),
           StoreFree(L, m, n, N, E), AddsFree(L, m), NEW d, NEW P, NEW F,
           Forwarded(L[n + 1], d, N, E, P, F, now)
    PROVE  AddsFree(Again(L, m, n + 1, d), m)
<1> DEFINE c == L[n + 1]
           M == Again(L, m, n + 1, d)
<1>0. n + 1 \in 1 .. m /\ now \in Nat /\ \A j \in 1 .. m : M[j] = IF j = n + 1 THEN d ELSE L[j]
  BY DEF Sound, Again
<1>1. Executed(c, d, N, E)
  BY ForwardCommand
<1> SUFFICES ASSUME NEW i \in 1 .. m, NEW j \in 1 .. m, (Brings(M[j]) /\ i < j) \/ (Takes(M[j]) /\ j < i)
             PROVE  Free(AddedNodes(M[i]), AddedEdges(M[i]), M[j])
  BY DEF AddsFree
<1>2. CASE j = n + 1
  <2>1. i # n + 1 /\ M[i] = L[i] /\ M[j] = d
    BY <1>0, <1>2
  <2>2. (Brings(c) /\ i < n + 1) \/ (Takes(c) /\ n + 1 < i)
    BY <1>1, <1>2, <2>1 DEF Executed
  <2>3. Free(AddedNodes(L[i]), AddedEdges(L[i]), c)
    BY <1>0, <2>2 DEF AddsFree
  <2>4. OldNodes(AddedNodes(L[i]), now) /\ OldEdges(AddedEdges(L[i]), now)
    BY DEF Sound, OldCommand
  <2>5. /\ \A id \in OldIds(now) : FreeNode(id, c) => FreeNode(id, d)
        /\ \A e : {e.id, e.src, e.dst} \subseteq OldIds(now) /\ FreeEdge(e, c) => FreeEdge(e, d)
    BY <1>0, ForwardClaims
  <2>6. Free(AddedNodes(L[i]), AddedEdges(L[i]), d)
    BY <2>3, <2>4, <2>5 DEF Free, OldNodes, OldEdges
  <2> QED BY <2>1, <2>6
<1>3. CASE j # n + 1 /\ i = n + 1
  <2>1. M[i] = d /\ M[j] = L[j] /\ ((Brings(L[j]) /\ n + 1 < j) \/ (Takes(L[j]) /\ j < n + 1))
    BY <1>0, <1>3
  <2>2. (Brings(L[j]) /\ n < j) \/ (Takes(L[j]) /\ j <= n)
    BY <2>1
  <2>3. Free(N, E, L[j])
    BY <2>2 DEF StoreFree
  <2>4. Free(AddedNodes(c), AddedEdges(c), L[j])
    BY <1>0, <2>1 DEF AddsFree
  <2>5. AddedNodes(d) \subseteq N \cup AddedNodes(c) /\ AddedEdges(d) \subseteq E \cup AddedEdges(c)
    BY <1>1 DEF Executed
  <2>6. Free(AddedNodes(d), AddedEdges(d), L[j])
    BY <2>3, <2>4, <2>5 DEF Free
  <2> QED BY <2>1, <2>6
<1>4. CASE j # n + 1 /\ i # n + 1
  <2>1. M[i] = L[i] /\ M[j] = L[j]
    BY <1>0, <1>4
  <2> QED BY <2>1 DEF AddsFree
<1> QED BY <1>2, <1>3, <1>4

LEMMA OneEachForth ==
    ASSUME NEW L, NEW m \in Nat, NEW n \in 0 .. m - 1, NEW N, NEW E, NEW now, Sound(L, m, N, E, now),
           OneEach(L, m, E), NEW d, NEW P, NEW F, Forwarded(L[n + 1], d, N, E, P, F, now)
    PROVE  OneEach(Again(L, m, n + 1, d), m, F)
<1> DEFINE c == L[n + 1]
           M == Again(L, m, n + 1, d)
<1>0. n + 1 \in 1 .. m /\ now \in Nat /\ \A j \in 1 .. m : M[j] = IF j = n + 1 THEN d ELSE L[j]
  BY DEF Sound, Again
<1>1. Executed(c, d, N, E)
  BY ForwardCommand
<1>2. PICK nodes, edges : /\ Copies(c, nodes, edges, now)
                          /\ Brings(c) => F = E \cup AddedEdges(c) \cup edges
                          /\ ~Brings(c) => edges = {}
  BY ForwardStore
<1>3. F \subseteq E \cup AddedEdges(c) \cup edges
  <2>1. CASE Brings(c)
    BY <1>2, <2>1
  <2>2. CASE ~Brings(c)
    BY <2>2 DEF Forwarded, KeptEdges
  <2> QED BY <2>1, <2>2
<1>4. ASSUME NEW e, EdgeOf(M, m, F, e) PROVE EdgeOf(L, m, E, e) \/ e \in edges
  <2>1. CASE e \in F
    BY <1>0, <1>3, <2>1 DEF EdgeOf
  <2>2. ASSUME NEW j \in 1 .. m, e \in AddedEdges(M[j]) PROVE EdgeOf(L, m, E, e)
    <3>1. CASE j = n + 1
      <4>1. e \in E \cup AddedEdges(c)
        BY <1>0, <1>1, <2>2, <3>1 DEF Executed
      <4> QED BY <1>0, <4>1 DEF EdgeOf
    <3>2. CASE j # n + 1
      BY <1>0, <2>2, <3>2 DEF EdgeOf
    <3> QED BY <3>1, <3>2
  <2> QED BY <1>4, <2>1, <2>2 DEF EdgeOf
<1>5. ASSUME NEW e, EdgeOf(L, m, E, e) PROVE e.id \in OldIds(now)
  BY <1>5 DEF EdgeOf, Sound, OldCommand, OldEdges
<1>6. \A e \in edges : e.id \in NewIds(now)
  BY <1>2 DEF Copies
<1>7. ASSUME NEW x, NEW y, EdgeOf(M, m, F, x), EdgeOf(M, m, F, y), x.id = y.id PROVE x = y
  <2>1. CASE EdgeOf(L, m, E, x) /\ EdgeOf(L, m, E, y)
    BY <1>7, <2>1 DEF OneEach
  <2>2. CASE x \in edges /\ y \in edges
    BY <1>2, <1>7, <2>2 DEF Copies
  <2>3. CASE EdgeOf(L, m, E, x) /\ y \in edges
    BY <1>0, <1>5, <1>6, <1>7, <2>3, NewAreNotOld
  <2>4. CASE EdgeOf(L, m, E, y) /\ x \in edges
    BY <1>0, <1>5, <1>6, <1>7, <2>4, NewAreNotOld
  <2> QED BY <1>4, <1>7, <2>1, <2>2, <2>3, <2>4
<1> QED BY <1>7 DEF OneEach

LEMMA JunkAgain ==
    ASSUME NEW L, NEW m \in Nat, NEW n \in 0 .. m - 1, NEW N, NEW E, NEW now, NEW d, NEW P, NEW F,
           Forwarded(L[n + 1], d, N, E, P, F, now), NEW k \in 0 .. m, NEW e, Junk(L, k, e)
    PROVE  Junk(Again(L, m, n + 1, d), k, e)
<1>1. PICK i \in 1 .. k : Clones(L[i]) /\ (e.src \in L[i].made \/ e.dst \in L[i].made)
  BY DEF Junk
<1>2. i \in 1 .. m
  OBVIOUS
<1>3. CASE i = n + 1
  <2>1. IsClone(d) /\ L[i].made \subseteq d.made
    BY <1>1, <1>3, ForwardStore
  <2>2. Clones(d)
    BY <2>1, CloneIs
  <2>3. Again(L, m, n + 1, d)[i] = d
    BY <1>2, <1>3 DEF Again
  <2> QED BY <1>1, <2>1, <2>2, <2>3 DEF Junk
<1>4. CASE i # n + 1
  <2>1. Again(L, m, n + 1, d)[i] = L[i]
    BY <1>2, <1>4 DEF Again
  <2> QED BY <1>1, <2>1 DEF Junk
<1> QED BY <1>3, <1>4

LEMMA RememberedForth ==
    ASSUME NEW L, NEW m \in Nat, NEW n \in 0 .. m - 1, NEW N, NEW E, NEW now, Remembered(L, m, n, E),
           AddsFree(L, m), NEW d, NEW P, NEW F, Forwarded(L[n + 1], d, N, E, P, F, now)
    PROVE  Remembered(Again(L, m, n + 1, d), m, n + 1, F)
<1> DEFINE c == L[n + 1]
           M == Again(L, m, n + 1, d)
<1>0. n + 1 \in 1 .. m /\ \A j \in 1 .. m : M[j] = IF j = n + 1 THEN d ELSE L[j]
  BY DEF Again
<1> SUFFICES ASSUME NEW j \in 1 .. m, n + 1 < j, M[j].type = "DISCONNECT_EDGE", NEW e \in AddedEdges(M[j])
             PROVE  \/ e \in F \/ Junk(M, j - 1, e)
                    \/ \E i \in n + 1 + 1 .. j - 1 : M[i].type = "CONNECT_EDGE" /\ e \in AddedEdges(M[i])
  BY DEF Remembered
<1>1. M[j] = L[j] /\ n < j /\ j - 1 \in 0 .. m
  BY <1>0
<1>2. \/ e \in E \/ Junk(L, j - 1, e)
      \/ \E i \in n + 1 .. j - 1 : L[i].type = "CONNECT_EDGE" /\ e \in AddedEdges(L[i])
  BY <1>1 DEF Remembered
<1>3. CASE e \in E
  <2>1. CASE Takes(c)
    <3>1. FreeEdge(e, c)
      BY <1>0, <1>1, <2>1 DEF AddsFree, Free
    <3>2. F = KeptEdges(E, c)
      BY <2>1, Kinds DEF Forwarded
    <3> QED BY <1>3, <3>1, <3>2 DEF KeptEdges
  <2>2. CASE ~Takes(c)
    BY <1>3, <2>2 DEF Forwarded
  <2> QED BY <2>1, <2>2
<1>4. CASE Junk(L, j - 1, e)
  BY <1>1, <1>4, JunkAgain
<1>5. ASSUME NEW i \in n + 1 .. j - 1, L[i].type = "CONNECT_EDGE", e \in AddedEdges(L[i])
      PROVE  \/ e \in F
             \/ \E l \in n + 1 + 1 .. j - 1 : M[l].type = "CONNECT_EDGE" /\ e \in AddedEdges(M[l])
  <2>1. CASE i = n + 1
    <3>1. Brings(c)
      BY <1>5, <2>1, Kinds
    <3>2. AddedEdges(c) \subseteq F
      BY <3>1, ForwardStore
    <3> QED BY <1>5, <2>1, <3>2
  <2>2. CASE i # n + 1
    <3>1. i \in n + 1 + 1 .. j - 1 /\ M[i] = L[i]
      BY <1>0, <2>2
    <3> QED BY <1>5, <3>1
  <2> QED BY <2>1, <2>2
<1> QED BY <1>2, <1>3, <1>4, <1>5

\* A value for the new ids, whatever is executed.
WithNew(V, m, nodes) ==
    [p \in 0 .. m |-> [id \in Nat \X Nat |->
        IF id \in Ids(nodes) THEN CHOOSE x \in nodes : x.id = id ELSE V[p][id]]]

ValuesGrow(W, V, m, now, nodes) ==
    /\ \A p \in 0 .. m, id \in Nat \X Nat : id \notin Ids(nodes) => W[p][id] = V[p][id]
    /\ \A p \in 0 .. m, id \in OldIds(now) : W[p][id] = V[p][id]
    /\ \A p \in 0 .. m, q \in 0 .. m, id \in Ids(nodes) : W[p][id] = W[q][id]
    /\ \A p \in 0 .. m, x \in nodes : W[p][x.id] = x

LEMMA NewValues ==
    ASSUME NEW V, NEW m \in Nat, NEW now \in Nat, NEW c, NEW nodes, NEW edges, Copies(c, nodes, edges, now),
           NEW W, W = WithNew(V, m, nodes)
    PROVE  ValuesGrow(W, V, m, now, nodes)
<1>0. (\A x \in nodes : x.id \in NewIds(now)) /\ (\A x, y \in nodes : x.id = y.id => x = y)
  BY DEF Copies
<1>1. Ids(nodes) \subseteq NewIds(now) /\ NewIds(now) \subseteq Nat \X Nat
  BY <1>0 DEF Ids, NewIds
<1>2. \A p \in 0 .. m, id \in Nat \X Nat :
         W[p][id] = IF id \in Ids(nodes) THEN CHOOSE x \in nodes : x.id = id ELSE V[p][id]
  BY DEF WithNew
<1>3. \A id \in OldIds(now) : id \in Nat \X Nat /\ id \notin Ids(nodes)
  BY <1>1, NewAreNotOld DEF OldIds
<1>4. ASSUME NEW p \in 0 .. m, NEW x \in nodes PROVE W[p][x.id] = x
  <2>1. x.id \in Ids(nodes) /\ x.id \in Nat \X Nat
    BY <1>1 DEF Ids
  <2>2. (CHOOSE y \in nodes : y.id = x.id) = x
    BY <1>0
  <2> QED BY <1>2, <2>1, <2>2
<1>5. \A p \in 0 .. m, q \in 0 .. m, id \in Ids(nodes) : W[p][id] = W[q][id]
  BY <1>1, <1>2
<1> QED BY <1>2, <1>3, <1>4, <1>5 DEF ValuesGrow

\* A change is never of a new id.
LEMMA ChangesAreOld ==
    ASSUME NEW c, NEW now \in Nat, OldCommand(c, now), NEW id \in NewIds(now), NEW x
    PROVE  Forth(id, x, c) = x /\ Back(id, x, c) = x
BY NewAreNotOld DEF OldCommand, Forth, Back

LEMMA ValuedForth ==
    ASSUME NEW L, NEW m \in Nat, NEW n \in 0 .. m - 1, NEW N, NEW E, NEW now, Sound(L, m, N, E, now),
           Valued(L, m, n, N), NEW d, NEW P, NEW F, Forwarded(L[n + 1], d, N, E, P, F, now)
    PROVE  Valued(Again(L, m, n + 1, d), m, n + 1, P)
<1> DEFINE c == L[n + 1]
           M == Again(L, m, n + 1, d)
<1>0. /\ n + 1 \in 1 .. m /\ n \in 0 .. m /\ n + 1 \in 0 .. m /\ n + 1 - 1 = n
      /\ \A j \in 1 .. m : M[j] = (IF j = n + 1 THEN d ELSE L[j])
      /\ \A j \in 1 .. m : j \in 0 .. m /\ j - 1 \in 0 .. m
  BY DEF Again
<1>0a. /\ now \in Nat /\ IsCommand(c) /\ OldNodes(N, now) /\ \A x \in N : IsNode(x)
       /\ \A j \in 1 .. m : OldCommand(L[j], now)
  BY <1>0 DEF Sound
<1>1. Executed(c, d, N, E)
  BY ForwardCommand
<1>2. PICK nodes, edges : /\ Copies(c, nodes, edges, now)
                          /\ Brings(c) => P = N \cup AddedNodes(c) \cup nodes
                          /\ ~Brings(c) => nodes = {}
  BY ForwardStore
<1>3. PICK V : ValuesOf(V, L, m, n, N)
  BY DEF Valued
<1>4. PICK W : W = WithNew(V, m, nodes)
  OBVIOUS
<1>5. /\ \A p \in 0 .. m, id \in Nat \X Nat : id \notin Ids(nodes) => W[p][id] = V[p][id]
      /\ \A p \in 0 .. m, id \in OldIds(now) : W[p][id] = V[p][id]
      /\ \A p \in 0 .. m, q \in 0 .. m, id \in Ids(nodes) : W[p][id] = W[q][id]
      /\ \A p \in 0 .. m, x \in nodes : W[p][x.id] = x
  <2>1. ValuesGrow(W, V, m, now, nodes)
    BY <1>0a, <1>2, <1>4, NewValues
  <2> QED BY <2>1 DEF ValuesGrow
<1>6. Ids(nodes) \subseteq NewIds(now)
  BY <1>2 DEF Ids, Copies
<1>7. \A p \in 1 .. m : \A id, x : Forth(id, x, M[p]) = Forth(id, x, L[p]) /\ Back(id, x, M[p]) = Back(id, x, L[p])
  <2>1. \A id, x : Forth(id, x, d) = Forth(id, x, c) /\ Back(id, x, d) = Back(id, x, c)
    <3>1. CASE Changes(c)
      <4>1. d = c
        BY <1>1, <3>1, Kinds DEF Executed
      <4> QED BY <4>1
    <3>2. CASE ~Changes(c)
      <4>1. ~Changes(d)
        BY <1>1, <3>2 DEF Executed
      <4> QED BY <3>2, <4>1 DEF Forth, Back
    <3> QED BY <3>1, <3>2
  <2> QED BY <1>0, <2>1
<1>8. ASSUME NEW p \in 1 .. m, NEW id \in Nat \X Nat
      PROVE  W[p][id] = Forth(id, W[p - 1][id], M[p]) /\ W[p - 1][id] = Back(id, W[p][id], M[p])
  <2>1. CASE id \in Ids(nodes)
    <3>1. W[p][id] = W[p - 1][id]
      BY <1>0, <1>5, <2>1
    <3>2. \A x : Forth(id, x, L[p]) = x /\ Back(id, x, L[p]) = x
      BY <1>0a, <1>6, <2>1, ChangesAreOld
    <3> QED BY <1>7, <3>1, <3>2
  <2>2. CASE id \notin Ids(nodes)
    <3>1. W[p][id] = V[p][id] /\ W[p - 1][id] = V[p - 1][id]
      BY <1>0, <1>5, <2>2
    <3>2. V[p][id] = Forth(id, V[p - 1][id], L[p]) /\ V[p - 1][id] = Back(id, V[p][id], L[p])
      BY <1>3 DEF ValuesOf
    <3> QED BY <1>7, <3>1, <3>2
  <2> QED BY <2>1, <2>2
<1>9. \A x \in N : x.id \in OldIds(now) /\ x.id \in Nat \X Nat /\ x = V[n][x.id]
  BY <1>0a, <1>3 DEF OldNodes, OldIds, ValuesOf
<1>10. \A x \in N : V[n + 1][x.id] = Forth(x.id, x, c)
  BY <1>0, <1>3, <1>9 DEF ValuesOf
<1>11. \A x \in N : ~Changes(c) => W[n + 1][x.id] = x
  <2>1. \A x \in N : W[n + 1][x.id] = V[n + 1][x.id]
    BY <1>0, <1>5, <1>9
  <2> QED BY <1>10, <2>1 DEF Forth
<1>12. ASSUME NEW j \in 1 .. m, j # n + 1, L[j].type = "ADD_NODE" \/ j <= n, NEW x \in AddedNodes(L[j])
       PROVE  x = W[j][x.id]
  <2>1. x = V[j][x.id] /\ x.id \in OldIds(now)
    BY <1>0a, <1>3, <1>12 DEF ValuesOf, OldCommand, OldNodes
  <2> QED BY <1>0, <1>5, <2>1
<1>13. ASSUME c.type = "ADD_NODE", NEW x \in AddedNodes(c) PROVE x = W[n + 1][x.id]
  <2>1. x = V[n + 1][x.id] /\ x.id \in OldIds(now)
    BY <1>0, <1>0a, <1>3, <1>13 DEF ValuesOf, OldCommand, OldNodes
  <2> QED BY <1>0, <1>5, <2>1
<1>14. ASSUME NEW y \in P PROVE y = W[n + 1][y.id]
  <2>1. CASE Brings(c)
    <3>1. ~Changes(c) /\ y \in N \cup AddedNodes(c) \cup nodes
      BY <1>2, <2>1, Kinds
    <3>2. y \in AddedNodes(c) => c.type = "ADD_NODE"
      BY <2>1, Kinds
    <3> QED BY <1>0, <1>5, <1>11, <1>13, <3>1, <3>2
  <2>2. CASE Takes(c)
    <3>1. ~Changes(c) /\ y \in N
      BY <2>2, Kinds DEF Forwarded, Kept
    <3> QED BY <1>11, <3>1
  <2>3. CASE ~Brings(c) /\ ~Takes(c)
    <3>1. PICK x \in N : y = Forth(x.id, x, c)
      BY <2>3 DEF Forwarded
    <3>2. y.id = x.id
      BY <1>0a, <3>1, ChangeKeepsId
    <3>3. W[n + 1][x.id] = V[n + 1][x.id]
      BY <1>0, <1>5, <1>9
    <3> QED BY <1>10, <3>1, <3>2, <3>3
  <2> QED BY <2>1, <2>2, <2>3
<1>15. ASSUME NEW j \in 1 .. m, M[j].type = "ADD_NODE" \/ j <= n + 1, NEW x \in AddedNodes(M[j])
       PROVE  x = W[j][x.id]
  <2>1. CASE j # n + 1
    <3>1. M[j] = L[j] /\ (L[j].type = "ADD_NODE" \/ j <= n)
      BY <1>0, <1>15, <2>1
    <3> QED BY <1>12, <1>15, <2>1, <3>1
  <2>2. CASE j = n + 1
    <3>1. x \in AddedNodes(d) /\ d.type = c.type
      BY <1>0, <1>1, <1>15, <2>2 DEF Executed
    <3>2. c.type = "ADD_NODE" \/ c.type = "DELETE_SELECTION"
      BY <3>1, Kinds
    <3>3. CASE c.type = "ADD_NODE"
      <4>1. d = c
        BY <1>1, <3>3, Kinds DEF Executed
      <4> QED BY <1>13, <2>2, <3>1, <3>3, <4>1
    <3>4. CASE c.type = "DELETE_SELECTION"
      <4>1. Takes(c) /\ ~Changes(c)
        BY <3>4, Kinds
      <4>2. AddedNodes(d) \subseteq N
        BY <4>1, Kinds DEF Forwarded, TakenAway
      <4> QED BY <1>11, <2>2, <3>1, <4>1, <4>2
    <3> QED BY <3>2, <3>3, <3>4
  <2> QED BY <2>1, <2>2
<1>16. ValuesOf(W, M, m, n + 1, P)
  <2> HIDE DEF M
  <2> QED BY <1>8, <1>14, <1>15 DEF ValuesOf
<1> QED BY <1>16 DEF Valued

\* undo of what was just executed gives back the canvas, or one that agrees with it.
LEMMA UndoneForth ==
    ASSUME NEW L, NEW m \in Nat, NEW n \in 0 .. m - 1, NEW N, NEW E, NEW now, Sound(L, m, N, E, now),
           StoreFree(L, m, n, N, E), OneEach(L, m, E), Remembered(L, m, n, E), Valued(L, m, n, N),
           NEW d, NEW P, NEW F, Forwarded(L[n + 1], d, N, E, P, F, now)
    PROVE  BackNodes(P, d) = N /\ Agree(L, n, BackEdges(F, d), E)
<1> DEFINE c == L[n + 1]
<1>0. /\ n + 1 \in 1 .. m /\ n < n + 1 /\ n + 1 - 1 = n /\ now \in Nat
      /\ IsCommand(c) /\ SelfClaimed(c) /\ OldNodes(N, now) /\ OldEdges(E, now) /\ \A x \in N : IsNode(x)
  <2>1. n + 1 \in 1 .. m /\ n < n + 1 /\ n + 1 - 1 = n
    OBVIOUS
  <2> QED BY <2>1 DEF Sound
<1>1. Executed(c, d, N, E)
  BY ForwardCommand
<1>2. CASE Brings(c)
  <2>1. PICK nodes, edges : /\ Copies(c, nodes, edges, now)
                            /\ Clones(c) => IsClone(d) /\ d.made = c.made \cup Ids(nodes)
                            /\ Clones(c) => \A e \in edges : e.src \in Ids(nodes)
                            /\ P = N \cup AddedNodes(c) \cup nodes
                            /\ F = E \cup AddedEdges(c) \cup edges
    BY <1>2, ForwardStore
  <2>2. Free(N, E, c)
    BY <1>0, <1>2 DEF StoreFree
  <2>3. Brings(d)
    BY <1>1, <1>2 DEF Executed
  <2>4. (\A x \in N : FreeNode(x.id, d)) /\ (\A e \in E : FreeEdge(e, d))
    <3>1. /\ \A id \in OldIds(now) : FreeNode(id, c) => FreeNode(id, d)
          /\ \A e : {e.id, e.src, e.dst} \subseteq OldIds(now) /\ FreeEdge(e, c) => FreeEdge(e, d)
      BY <1>0, ForwardClaims
    <3> QED BY <1>0, <2>2, <3>1 DEF Free, OldNodes, OldEdges
  <2>5. (\A x \in AddedNodes(c) : ~FreeNode(x.id, d)) /\ (\A e \in AddedEdges(c) : ~FreeEdge(e, d))
    <3>1. /\ \A id : FreeNode(id, d) => FreeNode(id, c)
          /\ \A e : FreeEdge(e, d) => FreeEdge(e, c)
      BY <1>0, ForwardClaims
    <3> QED BY <1>0, <3>1 DEF SelfClaimed
  <2>6. (\A x \in nodes : ~FreeNode(x.id, d)) /\ (\A e \in edges : ~FreeEdge(e, d))
    <3>1. CASE Clones(c)
      <4>1. Ids(nodes) \subseteq ClaimedNodes(d) /\ Ids(nodes) \subseteq ClaimedEnds(d)
        BY <2>1, <3>1, CloneIs
      <4> QED BY <2>1, <3>1, <4>1 DEF FreeNode, FreeEdge, Ids
    <3>2. CASE ~Clones(c)
      BY <2>1, <3>2 DEF Copies
    <3> QED BY <3>1, <3>2
  <2>7. Kept(P, d) = N /\ KeptEdges(F, d) = E
    BY <2>1, <2>4, <2>5, <2>6 DEF Kept, KeptEdges
  <2> QED BY <2>3, <2>7 DEF BackNodes, BackEdges, Agree
<1>3. CASE Takes(c)
  <2>1. TakenAway(c, d, N, E) /\ P = Kept(N, c) /\ F = KeptEdges(E, c)
    BY <1>3, Kinds DEF Forwarded
  <2>2. ~Brings(d) /\ ~Changes(d)
    BY <1>1, <1>3, Kinds DEF Executed
  <2>3. BackNodes(P, d) = P \cup AddedNodes(d) /\ BackEdges(F, d) = F \cup AddedEdges(d)
    BY <2>2, BackAdds
  <2>4. P \cup AddedNodes(d) = N
    BY <2>1 DEF TakenAway, Kept
  <2>5. \A x, y \in E : x.id = y.id => x = y
    BY DEF OneEach, EdgeOf
  <2>6. CASE AddedEdges(d) = E \ KeptEdges(E, c)
    <3>1. F \cup AddedEdges(d) = E
      BY <2>1, <2>6 DEF KeptEdges
    <3> QED BY <2>3, <2>4, <3>1 DEF Agree
  <2>7. CASE c.type = "DISCONNECT_EDGE" /\ KeptEdges(E, c) = E /\ AddedEdges(d) = AddedEdges(c)
    <3>1. BackEdges(F, d) = E \cup AddedEdges(c)
      BY <2>1, <2>3, <2>7
    <3>2. ASSUME NEW e \in AddedEdges(c) PROVE e \in E \/ Junk(L, n, e)
      <4>1. \/ e \in E \/ Junk(L, n + 1 - 1, e)
            \/ \E i \in n + 1 .. n + 1 - 1 : L[i].type = "CONNECT_EDGE" /\ e \in AddedEdges(L[i])
        BY <1>0, <2>7 DEF Remembered
      <4>2. n + 1 .. n + 1 - 1 = {}
        OBVIOUS
      <4> QED BY <1>0, <4>1, <4>2
    <3>3. Agree(L, n, BackEdges(F, d), E)
      BY <3>1, <3>2 DEF Agree
    <3> QED BY <2>3, <2>4, <3>3
  <2> QED BY <2>1, <2>5, <2>6, <2>7 DEF TakenAway
<1>4. CASE ~Brings(c) /\ ~Takes(c)
  <2>1. d = c /\ P = {Forth(x.id, x, c) : x \in N} /\ F = E
    BY <1>4 DEF Forwarded
  <2>2. AddedNodes(c) = {} /\ AddedEdges(c) = {}
    BY <1>4, Kinds
  <2>3. PICK V : ValuesOf(V, L, m, n, N)
    BY DEF Valued
  <2>4. ASSUME NEW x \in N, NEW y, y = Forth(x.id, x, c) PROVE Back(y.id, y, c) = x
    <3>1. y.id = x.id
      BY <1>0, <2>4, ChangeKeepsId
    <3>2. x.id \in Nat \X Nat /\ x = V[n][x.id]
      BY <1>0, <2>3 DEF OldNodes, OldIds, ValuesOf
    <3>3. /\ V[n + 1][x.id] = Forth(x.id, V[n + 1 - 1][x.id], c)
          /\ V[n + 1 - 1][x.id] = Back(x.id, V[n + 1][x.id], c)
      BY <1>0, <2>3, <3>2 DEF ValuesOf
    <3> QED BY <1>0, <2>4, <3>1, <3>2, <3>3
  <2>5. {Back(y.id, y, c) : y \in P} = N
    <3>1. \A y \in P : Back(y.id, y, c) \in N
      BY <2>1, <2>4
    <3>2. \A x \in N : \E y \in P : x = Back(y.id, y, c)
      BY <2>1, <2>4
    <3> QED BY <3>1, <3>2
  <2>6. BackNodes(P, d) = {Back(y.id, y, c) : y \in P} \cup {} /\ BackEdges(F, d) = E \cup {}
    BY <1>4, <2>1, <2>2 DEF BackNodes, BackEdges
  <2> QED BY <2>5, <2>6 DEF Agree
<1> QED BY <1>2, <1>3, <1>4

LEMMA ToldForth ==
    ASSUME NEW L, NEW m \in Nat, NEW n \in 0 .. m - 1, NEW N, NEW E, NEW first, Told(L, n, N, E, first),
           NEW d, NEW P, NEW F, BackNodes(P, d) = N, Agree(L, n, BackEdges(F, d), E)
    PROVE  Told(Again(L, m, n + 1, d), n + 1, P, F, first)
<1> DEFINE M == Again(L, m, n + 1, d)
<1>0. M[n + 1] = d /\ \A k \in 1 .. n : M[k] = L[k]
  BY DEF Again
<1> HIDE DEF M
<1>1. PICK R : NodesBefore(R, L, n, N, first[1])
  BY DEF Told
<1>2. PICK G : EdgesBefore(G, L, n, E, first[2])
  BY DEF Told
<1> DEFINE Q == [k \in 0 .. n + 1 |-> IF k = n + 1 THEN P ELSE R[k]]
           H == [k \in 0 .. n + 1 |-> IF k = n + 1 THEN F ELSE G[k]]
<1>3. /\ Q[n + 1] = P /\ H[n + 1] = F /\ \A k \in 0 .. n : Q[k] = R[k] /\ H[k] = G[k]
      /\ 0 \in 0 .. n /\ n \in 0 .. n /\ n + 1 - 1 = n /\ n \in Nat
  OBVIOUS
<1> HIDE DEF Q, H
<1>4. \A k \in 1 .. n + 1 : k = n + 1 \/ (k \in 1 .. n /\ k - 1 \in 0 .. n /\ k \in 0 .. n)
  OBVIOUS
<1>5. NodesBefore(Q, M, n + 1, P, first[1])
  <2>1. ASSUME NEW k \in 1 .. n + 1 PROVE Q[k - 1] = BackNodes(Q[k], M[k])
    <3>1. CASE k = n + 1
      BY <1>0, <1>1, <1>3, <3>1 DEF NodesBefore
    <3>2. CASE k \in 1 .. n /\ k - 1 \in 0 .. n /\ k \in 0 .. n
      BY <1>0, <1>1, <1>3, <3>2 DEF NodesBefore
    <3> QED BY <1>4, <3>1, <3>2
  <2> QED BY <1>1, <1>3, <2>1 DEF NodesBefore
<1>6. \A k \in 0 .. n : \A D, B : Agree(M, k, D, B) <=> Agree(L, k, D, B)
  <2>1. \A k \in 0 .. n : \A e : Junk(M, k, e) <=> Junk(L, k, e)
    <3>1. \A k \in 0 .. n : \A i \in 1 .. k : M[i] = L[i]
      BY <1>0
    <3> QED BY <3>1 DEF Junk
  <2> QED BY <2>1 DEF Agree
<1>7. EdgesBefore(H, M, n + 1, F, first[2])
  <2>1. ASSUME NEW k \in 1 .. n + 1 PROVE Agree(M, k - 1, BackEdges(H[k], M[k]), H[k - 1])
    <3>1. CASE k = n + 1
      <4>1. Agree(L, n, G[n], E)
        BY <1>2 DEF EdgesBefore
      <4>2. Agree(L, n, BackEdges(F, d), G[n])
        BY <4>1 DEF Agree
      <4>3. Agree(M, n, BackEdges(F, d), G[n])
        BY <1>3, <1>6, <4>2
      <4> QED BY <1>0, <1>3, <3>1, <4>3
    <3>2. CASE k \in 1 .. n /\ k - 1 \in 0 .. n /\ k \in 0 .. n
      <4>1. Agree(L, k - 1, BackEdges(G[k], L[k]), G[k - 1])
        BY <1>2, <3>2 DEF EdgesBefore
      <4> QED BY <1>0, <1>3, <1>6, <3>2, <4>1
    <3> QED BY <1>4, <3>1, <3>2
  <2>2. Agree(M, n + 1, H[n + 1], F)
    BY <1>3 DEF Agree
  <2>3. H[0] = first[2]
    BY <1>2, <1>3 DEF EdgesBefore
  <2> QED BY <2>1, <2>2, <2>3 DEF EdgesBefore
<1> QED BY <1>5, <1>7 DEF Told, M

\* The tale goes on when the next command is executed.
LEMMA TaleForth ==
    ASSUME NEW L, NEW m, NEW n, NEW N, NEW E, NEW first, NEW now,
           Sound(L, m, N, E, now), Tale(L, m, n, N, E, first), n # m,
           NEW d, NEW P, NEW F, Forwarded(L[n + 1], d, N, E, P, F, now)
    PROVE  Tale(Again(L, m, n + 1, d), m, n + 1, P, F, first)
<1>1. m \in Nat /\ n \in 0 .. m - 1 /\ n + 1 \in 0 .. m
  BY DEF Tale
<1>2. /\ StoreFree(L, m, n, N, E) /\ AddsFree(L, m) /\ OneEach(L, m, E)
      /\ Remembered(L, m, n, E) /\ Valued(L, m, n, N) /\ Told(L, n, N, E, first)
  BY DEF Tale
<1> DEFINE M == Again(L, m, n + 1, d)
<1>3. StoreFree(M, m, n + 1, P, F)
  BY <1>1, <1>2, StoreFreeForth
<1>4. AddsFree(M, m)
  BY <1>1, <1>2, AddsFreeForth
<1>5. OneEach(M, m, F)
  BY <1>1, <1>2, OneEachForth
<1>6. Remembered(M, m, n + 1, F)
  BY <1>1, <1>2, RememberedForth
<1>7. Valued(M, m, n + 1, P)
  BY <1>1, <1>2, ValuedForth
<1>8. BackNodes(P, d) = N /\ Agree(L, n, BackEdges(F, d), E)
  BY <1>1, <1>2, UndoneForth
<1>9. Told(M, n + 1, P, F, first)
  BY <1>1, <1>2, <1>8, ToldForth
<1> HIDE DEF M
<1>10. Tale(M, m, n + 1, P, F, first)
  BY <1>1, <1>3, <1>4, <1>5, <1>6, <1>7, <1>9 DEF Tale
<1> QED BY <1>10 DEF M

\* What the next command brings differs from all that is there.
LEMMA BroughtDiffers ==
    ASSUME NEW L, NEW m, NEW n, NEW N, NEW E, NEW first, NEW now,
           Sound(L, m, N, E, now), Tale(L, m, n, N, E, first), n # m, Brings(L[n + 1])
    PROVE  Differ(L[n + 1], N, E)
<1>1. m \in Nat /\ n + 1 \in 1 .. m /\ n < n + 1
  BY DEF Tale
<1>2. Free(N, E, L[n + 1]) /\ SelfClaimed(L[n + 1])
  BY <1>1 DEF Tale, StoreFree, Sound
<1>3. \A x \in N, y \in AddedNodes(L[n + 1]) : x.id # y.id
  BY <1>2 DEF Free, SelfClaimed
<1>4. ASSUME NEW x \in E, NEW y \in AddedEdges(L[n + 1]), x.id = y.id PROVE FALSE
  <2>1. EdgeOf(L, m, E, x) /\ EdgeOf(L, m, E, y)
    BY <1>1 DEF EdgeOf
  <2>2. x = y
    BY <1>4, <2>1 DEF Tale, OneEach
  <2> QED BY <1>2, <2>2 DEF Free, SelfClaimed
<1> QED BY <1>3, <1>4 DEF Differ

----------------------------------------------------------------------------
(* dispatch.                                                                  *)

LEMMA IdsAge ==
    ASSUME NEW now \in Nat
    PROVE  OldIds(now) \subseteq OldIds(now + 1) /\ NewIds(now) \subseteq OldIds(now + 1)
<1>1. ASSUME NEW id \in OldIds(now) PROVE id \in OldIds(now + 1)
  BY DEF OldIds
<1>2. ASSUME NEW id \in NewIds(now) PROVE id \in OldIds(now + 1)
  BY DEF NewIds, OldIds
<1> QED BY <1>1, <1>2

LEMMA CommandsAge ==
    ASSUME NEW now \in Nat, NEW c, OldCommand(c, now)
    PROVE  OldCommand(c, now + 1)
BY IdsAge DEF OldCommand, OldNodes, OldEdges

\* A dispatched command is no older than the clock.
LEMMA DispatchedIsOld ==
    ASSUME NEW now \in Nat, NEW c, NEW N, NEW E, NEW ids, Dispatched(c, N, E, ids, now),
           OldNodes(N, now), OldEdges(E, now), ids \subseteq OldIds(now)
    PROVE  SelfClaimed(c) /\ OldCommand(c, now + 1) /\ (Clones(c) => OldCommand(c, now))
<1>1. SelfClaimed(c)
  BY DEF Dispatched, SelfClaimed, FreeNode, FreeEdge, Ids
<1>2. OldIds(now) \subseteq OldIds(now + 1) /\ NewIds(now) \subseteq OldIds(now + 1)
  BY IdsAge
<1>3. Ids(N) \subseteq OldIds(now) /\ Ids(E) \subseteq OldIds(now)
  BY DEF Ids, OldNodes, OldEdges
<1>4. Changes(c) => c.id \in OldIds(now)
  BY DEF Dispatched, OldNodes
<1>5. OldNodes(AddedNodes(c), now + 1) /\ OldEdges(AddedEdges(c), now + 1)
  BY <1>2, <1>3 DEF Dispatched, OldNodes, OldEdges
<1>6. /\ ClaimedNodes(c) \subseteq OldIds(now + 1) /\ ClaimedEnds(c) \subseteq OldIds(now + 1)
      /\ ClaimedEdges(c) \subseteq OldIds(now + 1)
  BY <1>2, <1>3 DEF Dispatched
<1>7. OldCommand(c, now + 1)
  BY <1>2, <1>4, <1>5, <1>6 DEF OldCommand
<1>8. ASSUME Clones(c) PROVE OldCommand(c, now)
  <2>1. Brings(c) /\ ~Changes(c) /\ AddedNodes(c) = {} /\ AddedEdges(c) = {}
    BY <1>8, Kinds DEF Clones
  <2>2. ClaimedNodes(c) = {} /\ ClaimedEdges(c) = {} /\ ClaimedEnds(c) = {}
    BY <2>1 DEF Dispatched, Ids
  <2> QED BY <2>1, <2>2 DEF OldCommand, OldNodes, OldEdges
<1> QED BY <1>1, <1>7, <1>8

\* The executed part of the line with one more command.
Then(L, n, c) == [i \in 1 .. n + 1 |-> IF i = n + 1 THEN c ELSE L[i]]

LEMMA StoreFreeNew ==
    ASSUME NEW L, NEW m \in Nat, NEW n \in 0 .. m, NEW N, NEW E, NEW now, Sound(L, m, N, E, now),
           StoreFree(L, m, n, N, E), NEW c, NEW ids, Dispatched(c, N, E, ids, now)
    PROVE  StoreFree(Then(L, n, c), n + 1, n, N, E)
<1> DEFINE M == Then(L, n, c)
<1>0. n \in Nat /\ now \in Nat /\ \A j \in 1 .. n + 1 : M[j] = IF j = n + 1 THEN c ELSE L[j]
  BY DEF Sound, Then
<1> HIDE DEF M
<1> SUFFICES ASSUME NEW j \in 1 .. n + 1, (Brings(M[j]) /\ n < j) \/ (Takes(M[j]) /\ j <= n)
             PROVE  Free(N, E, M[j])
  BY DEF StoreFree, M
<1>1. CASE j = n + 1
  <2>1. M[j] = c /\ Brings(c)
    BY <1>0, <1>1
  <2>2. /\ ClaimedNodes(c) \subseteq NewIds(now) /\ ClaimedEdges(c) \subseteq NewIds(now)
        /\ ClaimedEnds(c) = {}
    BY <2>1 DEF Dispatched, Ids
  <2>3. \A id \in OldIds(now) : id \notin NewIds(now)
    BY <1>0, NewAreNotOld
  <2>4. OldNodes(N, now) /\ OldEdges(E, now)
    BY DEF Sound
  <2>5. (\A x \in N : FreeNode(x.id, c)) /\ (\A e \in E : FreeEdge(e, c))
    BY <2>2, <2>3, <2>4 DEF OldNodes, OldEdges, FreeNode, FreeEdge
  <2> QED BY <2>1, <2>5 DEF Free
<1>2. CASE j # n + 1
  <2>1. M[j] = L[j] /\ j \in 1 .. m /\ Takes(L[j]) /\ j <= n
    BY <1>0, <1>2
  <2> QED BY <2>1 DEF StoreFree
<1> QED BY <1>1, <1>2

LEMMA AddsFreeNew ==
    ASSUME NEW L, NEW m \in Nat, NEW n \in 0 .. m, NEW N, NEW E, NEW now, Sound(L, m, N, E, now),
           StoreFree(L, m, n, N, E), AddsFree(L, m), NEW c, NEW ids, Dispatched(c, N, E, ids, now)
    PROVE  AddsFree(Then(L, n, c), n + 1)
<1> DEFINE M == Then(L, n, c)
<1>0. n \in Nat /\ now \in Nat /\ \A j \in 1 .. n + 1 : M[j] = IF j = n + 1 THEN c ELSE L[j]
  BY DEF Sound, Then
<1> HIDE DEF M
<1>a. \A id \in OldIds(now) : id \notin NewIds(now)
  BY <1>0, NewAreNotOld
<1> SUFFICES ASSUME NEW i \in 1 .. n + 1, NEW j \in 1 .. n + 1,
                    (Brings(M[j]) /\ i < j) \/ (Takes(M[j]) /\ j < i)
             PROVE  Free(AddedNodes(M[i]), AddedEdges(M[i]), M[j])
  BY DEF AddsFree, M
<1>1. CASE j = n + 1
  <2>1. i # n + 1 /\ M[i] = L[i] /\ M[j] = c /\ i \in 1 .. m /\ Brings(c)
    BY <1>0, <1>1
  <2>2. /\ ClaimedNodes(c) \subseteq NewIds(now) /\ ClaimedEdges(c) \subseteq NewIds(now)
        /\ ClaimedEnds(c) = {}
    BY <2>1 DEF Dispatched, Ids
  <2>3. OldNodes(AddedNodes(L[i]), now) /\ OldEdges(AddedEdges(L[i]), now)
    BY <2>1 DEF Sound, OldCommand
  <2>4. /\ \A x \in AddedNodes(L[i]) : FreeNode(x.id, c)
        /\ \A e \in AddedEdges(L[i]) : FreeEdge(e, c)
    BY <1>a, <2>2, <2>3 DEF OldNodes, OldEdges, FreeNode, FreeEdge
  <2> QED BY <2>1, <2>4 DEF Free
<1>2. CASE j # n + 1 /\ i = n + 1
  <2>1. M[i] = c /\ M[j] = L[j] /\ Takes(L[j]) /\ j <= n /\ j \in 1 .. m
    BY <1>0, <1>2
  <2>2. Free(N, E, L[j]) /\ OldCommand(L[j], now)
    BY <2>1 DEF StoreFree, Sound
  <2>3. \A x \in AddedNodes(c) : FreeNode(x.id, L[j])
    BY <1>a, <2>2 DEF Dispatched, OldCommand, FreeNode
  <2>4. \A id \in Ids(N) : id \notin ClaimedEnds(L[j])
    <3>1. ClaimedEnds(L[j]) \subseteq ClaimedNodes(L[j])
      BY Kinds
    <3> QED BY <2>2, <3>1 DEF Free, FreeNode, Ids
  <2>5. \A e \in AddedEdges(c) : FreeEdge(e, L[j])
    BY <1>a, <2>2, <2>4 DEF Dispatched, OldCommand, FreeEdge
  <2> QED BY <2>1, <2>3, <2>5 DEF Free
<1>3. CASE j # n + 1 /\ i # n + 1
  <2>1. M[i] = L[i] /\ M[j] = L[j] /\ i \in 1 .. m /\ j \in 1 .. m
    BY <1>0, <1>3
  <2> QED BY <2>1 DEF AddsFree
<1> QED BY <1>1, <1>2, <1>3

LEMMA OneEachNew ==
    ASSUME NEW L, NEW m \in Nat, NEW n \in 0 .. m, NEW N, NEW E, NEW now, Sound(L, m, N, E, now),
           OneEach(L, m, E), NEW c, NEW ids, Dispatched(c, N, E, ids, now)
    PROVE  OneEach(Then(L, n, c), n + 1, E)
<1> DEFINE M == Then(L, n, c)
<1>0. n \in Nat /\ now \in Nat /\ \A j \in 1 .. n + 1 : M[j] = IF j = n + 1 THEN c ELSE L[j]
  BY DEF Sound, Then
<1> HIDE DEF M
<1>1. ASSUME NEW e, EdgeOf(M, n + 1, E, e) PROVE EdgeOf(L, m, E, e) \/ e \in AddedEdges(c)
  <2>1. ASSUME NEW j \in 1 .. n + 1, e \in AddedEdges(M[j]) PROVE EdgeOf(L, m, E, e) \/ e \in AddedEdges(c)
    <3>1. CASE j = n + 1
      BY <1>0, <2>1, <3>1
    <3>2. CASE j # n + 1
      <4>1. j \in 1 .. m /\ M[j] = L[j]
        BY <1>0, <3>2
      <4> QED BY <2>1, <4>1 DEF EdgeOf
    <3> QED BY <3>1, <3>2
  <2> QED BY <1>1, <2>1 DEF EdgeOf
<1>2. \A e : EdgeOf(L, m, E, e) => e.id \in OldIds(now)
  BY DEF EdgeOf, Sound, OldCommand, OldEdges
<1>3. \A e \in AddedEdges(c) : e.id \in NewIds(now)
  BY DEF Dispatched
<1>4. \A x, y \in AddedEdges(c) : x = y
  BY DEF Dispatched, AddedEdges, Brings, Clones
<1>5. \A id \in OldIds(now) : id \notin NewIds(now)
  BY <1>0, NewAreNotOld
<1>6. ASSUME NEW x, NEW y, EdgeOf(M, n + 1, E, x), EdgeOf(M, n + 1, E, y), x.id = y.id PROVE x = y
  BY <1>1, <1>2, <1>3, <1>4, <1>5, <1>6 DEF OneEach
<1> QED BY <1>6 DEF OneEach, M

LEMMA RememberedNew ==
    ASSUME NEW L, NEW n \in Nat, NEW N, NEW E, NEW c, NEW ids, NEW now, Dispatched(c, N, E, ids, now)
    PROVE  Remembered(Then(L, n, c), n + 1, n, E)
<1> SUFFICES ASSUME NEW j \in 1 .. n + 1, n < j, Then(L, n, c)[j].type = "DISCONNECT_EDGE",
                    NEW e \in AddedEdges(Then(L, n, c)[j])
             PROVE  FALSE
  BY DEF Remembered
<1>1. Then(L, n, c)[j] = c
  BY DEF Then
<1>2. ~Brings(c)
  BY <1>1, Kinds
<1> QED BY <1>1, <1>2 DEF Dispatched

LEMMA ValuedNew ==
    ASSUME NEW L, NEW m \in Nat, NEW n \in 0 .. m, NEW N, NEW E, NEW now, Sound(L, m, N, E, now),
           Valued(L, m, n, N), NEW c, NEW ids, Dispatched(c, N, E, ids, now)
    PROVE  Valued(Then(L, n, c), n + 1, n, N)
<1> DEFINE M == Then(L, n, c)
           nodes == AddedNodes(c)
<1>0. /\ n \in Nat /\ now \in Nat /\ n \in 0 .. n + 1 /\ n + 1 \in 0 .. n + 1 /\ n + 1 - 1 = n
      /\ \A j \in 1 .. n + 1 : M[j] = IF j = n + 1 THEN c ELSE L[j]
      /\ \A p \in 1 .. n : p \in 0 .. m /\ p - 1 \in 0 .. m /\ p \in 1 .. m
      /\ \A p \in 1 .. n + 1 : p = n + 1 \/ (p \in 1 .. n /\ p # n + 1)
  BY DEF Sound, Then
<1>0a. OldNodes(N, now) /\ (\A x \in N : IsNode(x)) /\ \A j \in 1 .. m : OldCommand(L[j], now)
  BY DEF Sound
<1>1. PICK V : ValuesOf(V, L, m, n, N)
  BY DEF Valued
<1>2. Copies([type |-> "PASTE", made |-> {}], nodes, {}, now)
  <2>1. \A x, y \in nodes : x = y
    BY DEF Dispatched, AddedNodes, Brings, Clones
  <2>2. \A x \in nodes : x.id \in NewIds(now)
    BY DEF Dispatched
  <2> QED BY <2>1, <2>2 DEF Copies, Clones
<1>3. PICK U : U = WithNew(V, m, nodes)
  OBVIOUS
<1>4. /\ \A p \in 0 .. m, id \in Nat \X Nat : id \notin Ids(nodes) => U[p][id] = V[p][id]
      /\ \A p \in 0 .. m, id \in OldIds(now) : U[p][id] = V[p][id]
      /\ \A p \in 0 .. m, q \in 0 .. m, id \in Ids(nodes) : U[p][id] = U[q][id]
      /\ \A p \in 0 .. m, x \in nodes : U[p][x.id] = x
  <2>1. ValuesGrow(U, V, m, now, nodes)
    BY <1>0, <1>2, <1>3, NewValues
  <2> QED BY <2>1 DEF ValuesGrow
<1>5. Ids(nodes) \subseteq NewIds(now)
  BY DEF Dispatched, Ids
<1> DEFINE W == [p \in 0 .. n + 1 |-> IF p = n + 1 THEN [id \in Nat \X Nat |-> Forth(id, U[n][id], c)] ELSE U[p]]
<1>6. /\ \A p \in 0 .. n : W[p] = U[p]
      /\ \A id \in Nat \X Nat : W[n + 1][id] = Forth(id, U[n][id], c)
      /\ n \in 0 .. n /\ n \in 0 .. m
      /\ \A p \in 1 .. n : p \in 0 .. n /\ p - 1 \in 0 .. n
  BY <1>0
<1> HIDE DEF W, M
<1>7. ASSUME NEW p \in 1 .. n, NEW id \in Nat \X Nat
      PROVE  W[p][id] = Forth(id, W[p - 1][id], M[p]) /\ W[p - 1][id] = Back(id, W[p][id], M[p])
  <2>0. M[p] = L[p] /\ W[p] = U[p] /\ W[p - 1] = U[p - 1]
    BY <1>0, <1>6
  <2>1. CASE id \in Ids(nodes)
    <3>1. U[p][id] = U[p - 1][id]
      BY <1>0, <1>4, <2>1
    <3>2. \A x : Forth(id, x, L[p]) = x /\ Back(id, x, L[p]) = x
      BY <1>0, <1>0a, <1>5, <2>1, ChangesAreOld
    <3> QED BY <2>0, <3>1, <3>2
  <2>2. CASE id \notin Ids(nodes)
    <3>1. U[p][id] = V[p][id] /\ U[p - 1][id] = V[p - 1][id]
      BY <1>0, <1>4, <2>2
    <3>2. V[p][id] = Forth(id, V[p - 1][id], L[p]) /\ V[p - 1][id] = Back(id, V[p][id], L[p])
      BY <1>0, <1>1 DEF ValuesOf
    <3> QED BY <2>0, <3>1, <3>2
  <2> QED BY <2>1, <2>2
<1>8. \A x \in N : x.id \in OldIds(now) /\ x.id \in Nat \X Nat /\ x = U[n][x.id]
  <2>1. \A x \in N : x.id \in OldIds(now) /\ x.id \in Nat \X Nat /\ x = V[n][x.id]
    BY <1>0a, <1>1 DEF OldNodes, OldIds, ValuesOf
  <2> QED BY <1>4, <1>6, <2>1
<1>9. ASSUME NEW id \in Nat \X Nat PROVE U[n][id] = Back(id, Forth(id, U[n][id], c), c)
  <2>1. CASE Changes(c) /\ c.id = id
    <3>1. PICK x \in N : x.id = c.id /\ x[KeyOf(c)] = c.old
      BY <2>1 DEF Dispatched
    <3>2. U[n][id] = x /\ IsNode(x)
      BY <1>0a, <1>8, <2>1, <3>1
    <3>3. PICK key : key = KeyOf(c)
      OBVIOUS
    <3>4. Forth(id, x, c) = [x EXCEPT ![key] = c.new]
      BY <2>1, <3>3 DEF Forth
    <3>5. Back(id, Forth(id, x, c), c) = [[x EXCEPT ![key] = c.new] EXCEPT ![key] = x[key]]
      BY <2>1, <3>1, <3>3, <3>4 DEF Back
    <3>6. PICK new : new = c.new
      OBVIOUS
    <3>7. [[x EXCEPT ![key] = new] EXCEPT ![key] = x[key]] = x
      <4>1. x = [k \in DOMAIN x |-> x[k]]
        BY <3>2 DEF IsNode
      <4> QED BY ONLY <4>1
    <3> QED BY <3>2, <3>5, <3>6, <3>7
  <2>2. CASE ~(Changes(c) /\ c.id = id)
    BY <2>2 DEF Forth, Back
  <2> QED BY <2>1, <2>2
<1>10. ASSUME NEW p \in 1 .. n + 1, NEW id \in Nat \X Nat
       PROVE  W[p][id] = Forth(id, W[p - 1][id], M[p]) /\ W[p - 1][id] = Back(id, W[p][id], M[p])
  <2>1. CASE p = n + 1
    <3>1. M[p] = c /\ W[p - 1] = U[n] /\ W[p][id] = Forth(id, U[n][id], c)
      BY <1>0, <1>6, <2>1
    <3> QED BY <1>9, <3>1
  <2> QED BY <1>0, <1>7, <2>1
<1>11. \A x \in N : x = W[n][x.id]
  BY <1>6, <1>8
<1>12. ASSUME NEW j \in 1 .. n + 1, M[j].type = "ADD_NODE" \/ j <= n, NEW x \in AddedNodes(M[j])
       PROVE  x = W[j][x.id]
  <2>1. CASE j = n + 1
    <3>1. M[j] = c /\ c.type = "ADD_NODE" /\ x \in nodes
      BY <1>0, <1>12, <2>1
    <3>2. ~Changes(c) /\ x.id \in Nat \X Nat
      <4>1. c.type \in {"PASTE", "DUPLICATE", "ADD_NODE"}
        BY <3>1
      <4>2. ~Changes(c)
        BY <3>1, <4>1, Kinds
      <4>3. x.id \in Ids(nodes)
        BY <3>1 DEF Ids
      <4>4. x.id \in NewIds(now) \/ x.id \in OldIds(now)
        BY <1>5, <4>3
      <4> QED BY <1>0, <1>0a, <4>2, <4>4 DEF NewIds, OldIds
    <3>3. U[n][x.id] = x
      BY <1>4, <1>6, <3>1
    <3>4. W[j][x.id] = Forth(x.id, x, c)
      BY <1>6, <2>1, <3>2, <3>3
    <3> QED BY <3>2, <3>4 DEF Forth
  <2>2. CASE j \in 1 .. n /\ j # n + 1
    <3>1. M[j] = L[j] /\ W[j] = U[j] /\ j \in 1 .. m /\ j \in 0 .. m /\ j <= n
      BY <1>0, <1>6, <2>2
    <3>2. x = V[j][x.id]
      BY <1>1, <1>12, <3>1 DEF ValuesOf
    <3>3. x.id \in OldIds(now)
      BY <1>0a, <1>12, <3>1 DEF OldCommand, OldNodes
    <3> QED BY <1>4, <3>1, <3>2, <3>3
  <2> QED BY <1>0, <2>1, <2>2
<1>13. ValuesOf(W, M, n + 1, n, N)
  BY <1>10, <1>11, <1>12 DEF ValuesOf
<1> QED BY <1>13 DEF Valued, M

LEMMA ToldSame ==
    ASSUME NEW L, NEW M, NEW n \in Nat, \A k \in 1 .. n : M[k] = L[k], NEW N, NEW E, NEW first,
           Told(L, n, N, E, first)
    PROVE  Told(M, n, N, E, first)
<1>1. PICK R : NodesBefore(R, L, n, N, first[1])
  BY DEF Told
<1>2. PICK G : EdgesBefore(G, L, n, E, first[2])
  BY DEF Told
<1>3. NodesBefore(R, M, n, N, first[1])
  BY <1>1 DEF NodesBefore
<1>4. \A k \in 0 .. n : \A D, B : Agree(M, k, D, B) <=> Agree(L, k, D, B)
  <2>1. \A k \in 0 .. n : \A e : Junk(M, k, e) <=> Junk(L, k, e)
    <3>1. \A k \in 0 .. n : \A i \in 1 .. k : M[i] = L[i]
      OBVIOUS
    <3> QED BY <3>1 DEF Junk
  <2> QED BY <2>1 DEF Agree
<1>5. EdgesBefore(G, M, n, E, first[2])
  <2>1. n \in 0 .. n /\ \A k \in 1 .. n : k - 1 \in 0 .. n
    OBVIOUS
  <2>2. Agree(M, n, G[n], E) /\ G[0] = first[2]
    BY <1>2, <1>4, <2>1 DEF EdgesBefore
  <2>3. ASSUME NEW k \in 1 .. n PROVE Agree(M, k - 1, BackEdges(G[k], M[k]), G[k - 1])
    <3>1. Agree(L, k - 1, BackEdges(G[k], L[k]), G[k - 1])
      BY <1>2 DEF EdgesBefore
    <3> QED BY <1>4, <2>1, <3>1
  <2> QED BY <2>2, <2>3 DEF EdgesBefore
<1> QED BY <1>3, <1>5 DEF Told

\* The tale goes on when a command is dispatched: first the undone ones are forgotten.
LEMMA TaleNew ==
    ASSUME NEW L, NEW m, NEW n, NEW N, NEW E, NEW first, NEW now,
           Sound(L, m, N, E, now), Tale(L, m, n, N, E, first),
           NEW c, NEW ids, Dispatched(c, N, E, ids, now)
    PROVE  Tale(Then(L, n, c), n + 1, n, N, E, first)
<1> DEFINE M == Then(L, n, c)
<1>1. m \in Nat /\ n \in 0 .. m /\ n \in Nat /\ n + 1 \in Nat /\ n \in 0 .. n + 1
  BY DEF Tale
<1>2. /\ StoreFree(L, m, n, N, E) /\ AddsFree(L, m) /\ OneEach(L, m, E)
      /\ Valued(L, m, n, N) /\ Told(L, n, N, E, first)
  BY DEF Tale
<1>3. StoreFree(M, n + 1, n, N, E)
  BY <1>1, <1>2, StoreFreeNew
<1>4. AddsFree(M, n + 1)
  BY <1>1, <1>2, AddsFreeNew
<1>5. OneEach(M, n + 1, E)
  BY <1>1, <1>2, OneEachNew
<1>6. Remembered(M, n + 1, n, E)
  BY <1>1, RememberedNew
<1>7. Valued(M, n + 1, n, N)
  BY <1>1, <1>2, ValuedNew
<1>8. Told(M, n, N, E, first)
  <2>1. \A k \in 1 .. n : M[k] = L[k]
    BY <1>1 DEF Then
  <2> HIDE DEF M
  <2> QED BY <1>1, <1>2, <2>1, ToldSame
<1> HIDE DEF M
<1>9. Tale(M, n + 1, n, N, E, first)
  BY <1>1, <1>3, <1>4, <1>5, <1>6, <1>7, <1>8 DEF Tale
<1> QED BY <1>9 DEF M

\* A dispatched command is new to the line, but of a time when all before it is old.
LEMMA DispatchedSound ==
    ASSUME NEW L, NEW m \in Nat, NEW n \in 0 .. m, NEW N, NEW E, NEW now, Sound(L, m, N, E, now),
           NEW c, NEW ids, ids \subseteq OldIds(now), Dispatched(c, N, E, ids, now),
           NEW d, NEW P, NEW F, Forwarded(c, d, N, E, P, F, now)
    PROVE  \E later \in Nat : Sound(Then(L, n, c), n + 1, N, E, later) /\ Forwarded(c, d, N, E, P, F, later)
<1> DEFINE M == Then(L, n, c)
<1>0. n \in Nat /\ now \in Nat /\ \A j \in 1 .. n + 1 : M[j] = IF j = n + 1 THEN c ELSE L[j]
  BY DEF Sound, Then
<1>0a. /\ OldNodes(N, now) /\ OldEdges(E, now) /\ \A x \in N : IsNode(x)
       /\ \A j \in 1 .. m : IsCommand(L[j]) /\ OldCommand(L[j], now) /\ SelfClaimed(L[j])
  BY DEF Sound
<1> HIDE DEF M
<1>1. IsCommand(c) /\ SelfClaimed(c) /\ OldCommand(c, now + 1) /\ (Clones(c) => OldCommand(c, now))
  BY <1>0, <1>0a, DispatchedIsOld DEF Dispatched
<1>2. ASSUME NEW j \in 1 .. n + 1 PROVE (j = n + 1 /\ M[j] = c) \/ (j \in 1 .. m /\ M[j] = L[j])
  BY <1>0
<1>3. CASE Clones(c)
  <2>1. Sound(M, n + 1, N, E, now)
    BY <1>0, <1>0a, <1>1, <1>2, <1>3 DEF Sound
  <2> QED BY <1>0, <2>1 DEF M
<1>4. CASE ~Clones(c)
  <2>1. OldNodes(N, now + 1) /\ OldEdges(E, now + 1)
    BY <1>0, <1>0a, IdsAge DEF OldNodes, OldEdges
  <2>2. \A j \in 1 .. m : OldCommand(L[j], now + 1)
    BY <1>0, <1>0a, CommandsAge
  <2>3. Sound(M, n + 1, N, E, now + 1)
    BY <1>0, <1>0a, <1>1, <1>2, <2>1, <2>2 DEF Sound
  <2>4. Forwarded(c, d, N, E, P, F, now + 1)
    BY <1>4 DEF Forwarded
  <2> QED BY <1>0, <2>3, <2>4 DEF M
<1> QED BY <1>3, <1>4

----------------------------------------------------------------------------
(* The ids of the canvas, the commands and the file are older than the clock. *)

OldDefinition(definition, now) ==
    \A t \in Range(definition.tasks) :
        /\ t.id \in OldIds(now)
        /\ t.default = NoTask \/ t.default \in OldIds(now)
        /\ \A o \in DOMAIN t.conditional : t.conditional[o] \in OldIds(now)

OldLine(commands, now) == \A c \in commands : OldCommand(c, now) /\ SelfClaimed(c)

Aged ==
    /\ clock \in Nat \ {0}
    /\ OldNodes(Range(store.nodes), clock) /\ OldEdges(Range(store.edges), clock)
    /\ selection \subseteq OldIds(clock)
    /\ OldLine(Range(history.undo) \cup Range(history.redo), clock)
    /\ OldDefinition(file, clock)

LEMMA AllAge ==
    ASSUME NEW now \in Nat, NEW later \in {now, now + 1}
    PROVE  /\ OldIds(now) \subseteq OldIds(later)
           /\ \A nodes : OldNodes(nodes, now) => OldNodes(nodes, later)
           /\ \A edges : OldEdges(edges, now) => OldEdges(edges, later)
           /\ \A c : OldCommand(c, now) => OldCommand(c, later)
           /\ \A definition : OldDefinition(definition, now) => OldDefinition(definition, later)
<1>1. OldIds(now) \subseteq OldIds(later)
  BY IdsAge
<1>2. ASSUME NEW nodes, OldNodes(nodes, now) PROVE OldNodes(nodes, later)
  BY <1>1, <1>2 DEF OldNodes
<1>3. ASSUME NEW edges, OldEdges(edges, now) PROVE OldEdges(edges, later)
  BY <1>1, <1>3 DEF OldEdges
<1>4. ASSUME NEW c, OldCommand(c, now) PROVE OldCommand(c, later)
  BY <1>4, CommandsAge
<1>5. ASSUME NEW definition, OldDefinition(definition, now) PROVE OldDefinition(definition, later)
  BY <1>1, <1>5 DEF OldDefinition
<1> QED BY <1>1, <1>2, <1>3, <1>4, <1>5

\* What is executed leaves nothing new to the clock that it moves on.
LEMMA ForwardAges ==
    ASSUME NEW N, \A x \in N : IsNode(x), NEW E, NEW c, IsCommand(c), NEW d, NEW P, NEW F, NEW now, NEW later,
           Forwarded(c, d, N, E, P, F, now), OldNodes(N, later), OldEdges(E, later),
           OldCommand(c, later), SelfClaimed(c), Clones(c) => NewIds(now) \subseteq OldIds(later)
    PROVE  OldNodes(P, later) /\ OldEdges(F, later) /\ OldCommand(d, later) /\ SelfClaimed(d)
<1>1. CASE Clones(c)
  <2>0. Brings(c) /\ AddedNodes(c) = {} /\ AddedEdges(c) = {} /\ ClaimedNodes(c) = c.made
    BY <1>1, Kinds DEF Clones
  <2>1. PICK nodes, edges :
             Copied(c, d, nodes, edges, now) /\ P = N \cup AddedNodes(c) \cup nodes /\ F = E \cup AddedEdges(c) \cup edges
    BY <1>1, <2>0, Kinds DEF Forwarded
  <2>2. /\ IsClone(d) /\ d.made = c.made \cup Ids(nodes) /\ Ids(nodes) \subseteq OldIds(later)
        /\ \A e \in edges : e.id \in OldIds(later) /\ e.src \in OldIds(later) /\ e.dst \in OldIds(later)
    BY <1>1, <2>1 DEF Copied
  <2>3. /\ ~Changes(d) /\ ClaimedNodes(d) = d.made /\ ClaimedEnds(d) = d.made /\ ClaimedEdges(d) = {}
        /\ AddedNodes(d) = {} /\ AddedEdges(d) = {}
    BY <2>2, CloneIs
  <2>4. d.made \subseteq OldIds(later)
    BY <2>0, <2>2 DEF OldCommand
  <2>5. OldCommand(d, later) /\ SelfClaimed(d)
    BY <2>3, <2>4 DEF OldCommand, SelfClaimed, OldNodes, OldEdges
  <2>6. OldNodes(P, later)
    BY <2>0, <2>1, <2>2 DEF OldNodes, Ids
  <2>7. OldEdges(F, later)
    BY <2>0, <2>1, <2>2 DEF OldEdges
  <2> QED BY <2>5, <2>6, <2>7
<1>2. CASE Brings(c) /\ ~Clones(c)
  <2>1. d = c /\ P = N \cup AddedNodes(c) /\ F = E \cup AddedEdges(c)
    BY <1>2, Kinds DEF Forwarded
  <2> QED BY <2>1 DEF OldCommand, OldNodes, OldEdges
<1>3. CASE Takes(c)
  <2>0. ~Brings(c)
    BY <1>3, Kinds
  <2>1. TakenAway(c, d, N, E) /\ P = Kept(N, c) /\ F = KeptEdges(E, c)
    BY <1>3, <2>0 DEF Forwarded
  <2>2. /\ Takes(d) /\ AddedNodes(d) = N \ Kept(N, c)
        /\ ClaimedNodes(d) = ClaimedNodes(c) /\ ClaimedEnds(d) = ClaimedEnds(c) /\ ClaimedEdges(d) = ClaimedEdges(c)
        /\ AddedEdges(d) \subseteq (E \ KeptEdges(E, c)) \cup AddedEdges(c)
    BY <2>1 DEF TakenAway
  <2>3. ~Changes(d)
    BY <2>2, Kinds
  <2>4. OldNodes(AddedNodes(d), later) /\ OldEdges(AddedEdges(d), later)
    BY <2>2 DEF OldCommand, OldNodes, OldEdges
  <2>5. OldCommand(d, later)
    BY <2>2, <2>3, <2>4 DEF OldCommand
  <2>6. (\A x : FreeNode(x, d) <=> FreeNode(x, c)) /\ (\A e : FreeEdge(e, d) <=> FreeEdge(e, c))
    BY <2>2 DEF FreeNode, FreeEdge
  <2>7. SelfClaimed(d)
    BY <2>2, <2>6 DEF SelfClaimed, Kept, KeptEdges
  <2>8. OldNodes(P, later) /\ OldEdges(F, later)
    BY <2>1 DEF OldNodes, OldEdges, Kept, KeptEdges
  <2> QED BY <2>5, <2>7, <2>8
<1>4. CASE ~Brings(c) /\ ~Takes(c)
  <2>1. d = c /\ P = {Forth(x.id, x, c) : x \in N} /\ F = E
    BY <1>4 DEF Forwarded
  <2>2. \A x \in N : Forth(x.id, x, c).id = x.id
    BY ChangeKeepsId
  <2>3. OldNodes(P, later)
    BY <2>1, <2>2 DEF OldNodes
  <2> QED BY <2>1, <2>3
<1> QED BY <1>1, <1>2, <1>3, <1>4

LEMMA BackAges ==
    ASSUME NEW N, \A x \in N : IsNode(x), NEW E, NEW c, IsCommand(c), NEW now,
           OldNodes(N, now), OldEdges(E, now), OldCommand(c, now)
    PROVE  OldNodes(BackNodes(N, c), now) /\ OldEdges(BackEdges(E, c), now)
<1>1. OldNodes(AddedNodes(c), now) /\ OldEdges(AddedEdges(c), now)
  BY DEF OldCommand
<1>2. ASSUME NEW y \in BackNodes(N, c) PROVE y.id \in OldIds(now)
  BY <1>1, BackLeaves DEF OldNodes
<1>3. ASSUME NEW e \in BackEdges(E, c) PROVE e \in E \/ e \in AddedEdges(c)
  BY BackLeaves
<1> QED BY <1>1, <1>2, <1>3 DEF OldNodes, OldEdges

\* What is exported of a canvas is as old as the canvas.
LEMMA SerializedAges ==
    ASSUME NEW canvas, Drawn(canvas.nodes, canvas.edges), NEW now,
           OldNodes(Range(canvas.nodes), now), OldEdges(Range(canvas.edges), now),
           NEW id, NEW definition, definition = Serialize(id, canvas)
    PROVE  OldDefinition(definition, now)
<1> DEFINE nodes == canvas.nodes
           tasks == definition.tasks
           branching(i) == nodes[i].plugin = Condition
           out(i) == Outgoing(canvas, nodes[i].id)
<1>1. /\ IsSequence(tasks) /\ Len(tasks) = Len(nodes)
      /\ tasks = [i \in DOMAIN nodes |-> TaskOf(canvas, nodes[i])]
  BY SerializedTasks DEF Drawn
<1>2. \A i \in DOMAIN nodes :
         tasks[i] = MakeTask(nodes[i].id, nodes[i].plugin, nodes[i].config, Named(nodes[i]),
                             DefaultOf(branching(i), out(i)), RoutesOf(branching(i), out(i)))
  BY <1>1, TaskOfParts
<1>3. \A i \in DOMAIN nodes :
         /\ tasks[i].id = nodes[i].id /\ tasks[i].default = DefaultOf(branching(i), out(i))
         /\ tasks[i].conditional = RoutesOf(branching(i), out(i))
  <2> HIDE DEF branching, out, tasks
  <2> QED BY <1>2, TaskFields
<1>4. DOMAIN tasks = DOMAIN nodes
  BY <1>1
<1> SUFFICES ASSUME NEW t \in Range(tasks)
             PROVE  /\ t.id \in OldIds(now)
                    /\ t.default = NoTask \/ t.default \in OldIds(now)
                    /\ \A o \in DOMAIN t.conditional : t.conditional[o] \in OldIds(now)
  BY DEF OldDefinition
<1>5. PICK i \in DOMAIN nodes : t = tasks[i]
  BY <1>1, <1>4, SequenceParts
<1>6. IsSequence(out(i)) /\ \A e \in Range(out(i)) : e.dst \in OldIds(now)
  <2>1. IsSequence(out(i)) /\ Range(out(i)) = Range(canvas.edges) \cap {e \in Range(canvas.edges) : e.src = nodes[i].id}
    BY FilterProperties DEF Outgoing, Drawn
  <2> QED BY <2>1 DEF OldEdges
<1>7. t.id \in OldIds(now)
  <2>1. nodes[i] \in Range(nodes)
    BY SequenceParts DEF Drawn
  <2> QED BY <1>3, <1>5, <2>1 DEF OldNodes
<1> DEFINE b == branching(i)
           o == out(i)
<1>8. t.default = DefaultOf(b, o) /\ t.conditional = RoutesOf(b, o)
  BY <1>3, <1>5
<1> HIDE DEF b, o
<1>9. /\ IsSequence(o) /\ \A k \in 1 .. Len(o) : o[k].dst \in OldIds(now)
      /\ Len(o) \in Nat /\ o = [k \in 1 .. Len(o) |-> o[k]]
  BY <1>6, SequenceParts DEF o
<1>10. t.default = NoTask \/ t.default \in OldIds(now)
  <2>1. CASE b \/ o = <<>>
    BY <1>8, <2>1 DEF DefaultOf
  <2>2. CASE ~(b \/ o = <<>>)
    <3>1. Last(o) \in Range(o) /\ Len(o) \in Nat \ {0}
      BY <1>9, <2>2, SequenceFront
    <3>2. t.default = o[1].dst
      BY <1>8, <2>2 DEF DefaultOf
    <3> QED BY <1>9, <3>1, <3>2
  <2> QED BY <2>1, <2>2
<1>11. ASSUME NEW p \in DOMAIN t.conditional PROVE t.conditional[p] \in OldIds(now)
  <2>1. FirstWith(o, p) # 0 /\ t.conditional[p] = o[FirstWith(o, p)].dst
    BY <1>8, <1>11 DEF RoutesOf
  <2> QED BY <1>9, <2>1, FirstWithFinds
<1> QED BY <1>7, <1>10, <1>11

\* What is imported is as old as the file.
LEMMA ImportAges ==
    ASSUME NEW definition, IsSequence(definition.tasks), NEW now \in Nat \ {0}, OldDefinition(definition, now),
           NEW canvas, canvas = Imported(definition)
    PROVE  /\ Drawn(canvas.nodes, canvas.edges)
           /\ OldNodes(Range(canvas.nodes), now) /\ OldEdges(Range(canvas.edges), now)
           /\ Distinct(canvas.edges)
<1> DEFINE tasks == definition.tasks
           bare == Deserialize(definition)
<1>1. /\ IsCanvas(bare) /\ Drawn(bare.nodes, bare.edges) /\ Recalls(bare, tasks)
      /\ \A k \in DOMAIN bare.edges : bare.edges[k].id = <<0, k>>
  BY DeserializedCanvas
<1>2. canvas = WithLayout(bare)
  BY DEF Imported
<1> HIDE DEF bare
<1>3. /\ Drawn(canvas.nodes, canvas.edges) /\ canvas.edges = bare.edges /\ DOMAIN canvas.nodes = DOMAIN bare.nodes
      /\ \A i \in DOMAIN canvas.nodes : canvas.nodes[i].id = bare.nodes[i].id
  BY <1>1, <1>2, LayoutMoves
<1>4. ASSUME NEW i \in DOMAIN tasks PROVE tasks[i] \in Range(tasks)
  BY SequenceParts
<1>5. OldNodes(Range(canvas.nodes), now)
  <2>1. ASSUME NEW i \in DOMAIN canvas.nodes PROVE canvas.nodes[i].id \in OldIds(now)
    <3>1. i \in DOMAIN tasks /\ canvas.nodes[i].id = tasks[i].id
      BY <1>1, <1>3 DEF Recalls
    <3> QED BY <1>4, <3>1 DEF OldDefinition
  <2> QED BY <2>1, SequenceParts, <1>3 DEF OldNodes, Drawn
<1>6. ASSUME NEW e \in Range(bare.edges) PROVE e.src \in OldIds(now) /\ e.dst \in OldIds(now)
  <2>1. PICK d \in Range(DrawnEdges(tasks)) : e.src = d.src /\ e.dst = d.dst
    BY <1>1 DEF Recalls
  <2>2. PICK i \in DOMAIN tasks : d \in Range(EdgesOf(tasks[i]))
    BY <2>1, DrawnEdgesOfTasks
  <2>3. PICK t \in Range(tasks) : t = tasks[i]
    BY <1>4
  <2>4. /\ t.id \in OldIds(now)
        /\ t.default = NoTask \/ t.default \in OldIds(now)
        /\ \A o \in DOMAIN t.conditional : t.conditional[o] \in OldIds(now)
    BY <2>3 DEF OldDefinition
  <2>5. Range(EdgesOf(t)) =
                 {x \in {[src |-> t.id, dst |-> t.default, label |-> NoLabel]} : t.default # NoTask}
                 \cup {[src |-> t.id, dst |-> t.conditional[o], label |-> o] :
                          o \in {"true", "false"} \cap DOMAIN t.conditional}
    BY EdgesOfTask
  <2>6. d.src \in OldIds(now) /\ d.dst \in OldIds(now)
    <3>1. CASE t.default # NoTask /\ d = [src |-> t.id, dst |-> t.default, label |-> NoLabel]
      BY <2>4, <3>1
    <3>2. ASSUME NEW o \in DOMAIN t.conditional, d = [src |-> t.id, dst |-> t.conditional[o], label |-> o]
          PROVE  d.src \in OldIds(now) /\ d.dst \in OldIds(now)
      BY <2>4, <3>2
    <3> QED BY <2>2, <2>3, <2>5, <3>1, <3>2
  <2> QED BY <2>1, <2>6
<1>7. ASSUME NEW k \in DOMAIN bare.edges PROVE bare.edges[k].id \in OldIds(now)
  <2>1. k \in Nat
    BY <1>1, <1>7, SequenceParts DEF Drawn
  <2> QED BY <1>1, <2>1 DEF OldIds
<1>8. ASSUME NEW e \in Range(bare.edges) PROVE e.id \in OldIds(now)
  <2>1. PICK k \in DOMAIN bare.edges : e = bare.edges[k]
    BY <1>1, SequenceParts DEF Drawn
  <2> QED BY <1>7, <2>1
<1>9. OldEdges(Range(canvas.edges), now)
  BY <1>3, <1>6, <1>8 DEF OldEdges
<1>10. Distinct(canvas.edges)
  BY <1>1, <1>3 DEF Distinct
<1> QED BY <1>3, <1>5, <1>9, <1>10

\* What the steps do to the parts of the state that the tale depends on.
LEMMA HistorySteps ==
    ASSUME [Next]_vars
    PROVE  \/ \E c \in Drops \cup DragStops \cup DrawnConnections \cup EdgeDeletions
                        \cup Shortcuts \cup PropertyEdits : Dispatch(c)
           \/ UndoLast \/ RedoLast
           \/ \E ids \in SUBSET NodeIds(store) : SelectionChange(ids)
           \/ ValidateClick \/ Export
           \/ \E definition \in Files \cup {file} : definition # NoFile /\ Import(definition)
           \/ UNCHANGED <<store, history, file, origin>> /\ selection' \subseteq selection
BY DEF Next, vars, Edit, Toolbar, Click, ServeCompile, RequestFails, ServeExecute, BackToBuilder,
       EditorUnchanged

LEMMA AgedInit == Init => Aged
<1> SUFFICES ASSUME Init PROVE Aged
  OBVIOUS
<1>1. /\ store.nodes = <<>> /\ store.edges = <<>> /\ history.undo = <<>> /\ history.redo = <<>>
      /\ file.tasks = <<>> /\ clock = 1 /\ selection = {}
  BY DEF Init, NoFile
<1>2. Range(<<>>) = {}
  BY SequenceEmpty
<1> QED BY <1>1, <1>2 DEF Aged, OldNodes, OldEdges, OldLine, OldDefinition

\* What a step leaves alone only gets older.
LEMMA AgedFrom ==
    ASSUME Aged, clock' \in {clock, clock + 1}, selection' \subseteq OldIds(clock'),
           (OldNodes(Range(store.nodes), clock') => OldNodes(Range(store.nodes)', clock')),
           (OldEdges(Range(store.edges), clock') => OldEdges(Range(store.edges)', clock')),
           \A c \in Range(history.undo)' \cup Range(history.redo)' :
               c \in Range(history.undo) \cup Range(history.redo) \/ (OldCommand(c, clock') /\ SelfClaimed(c)),
           file' = file \/ OldDefinition(file', clock')
    PROVE  Aged'
<1> DEFINE later == clock'
<1>0. clock \in Nat \ {0} /\ later \in {clock, clock + 1}
  BY DEF Aged
<1> HIDE DEF later
<1>1. /\ \A nodes : OldNodes(nodes, clock) => OldNodes(nodes, later)
      /\ \A edges : OldEdges(edges, clock) => OldEdges(edges, later)
      /\ \A c : OldCommand(c, clock) => OldCommand(c, later)
      /\ \A definition : OldDefinition(definition, clock) => OldDefinition(definition, later)
  BY <1>0, AllAge
<1>2. later \in Nat \ {0}
  BY <1>0
<1>3. OldNodes(Range(store.nodes)', clock') /\ OldEdges(Range(store.edges)', clock')
  BY <1>1 DEF Aged, later
<1>4. OldDefinition(file', clock')
  BY <1>1 DEF Aged, later
<1>5. ASSUME NEW c \in Range(history.undo)' \cup Range(history.redo)'
      PROVE  OldCommand(c, clock') /\ SelfClaimed(c)
  BY <1>1, <1>5 DEF Aged, later, OldLine
<1> QED BY <1>2, <1>3, <1>4, <1>5 DEF Aged, OldLine, later

LEMMA DispatchAges ==
    ASSUME Shape, Aged,
           NEW c \in Drops \cup DragStops \cup DrawnConnections \cup EdgeDeletions \cup Shortcuts \cup PropertyEdits,
           Dispatch(c)
    PROVE  Aged'
<1> DEFINE done == Execute(c, store, clock)
           longer == Append(history.undo, done.cmd)
           N == Range(store.nodes)
           E == Range(store.edges)
<1>1. /\ store' = done.store /\ history' = Push(history, done.cmd, MaxHistory)
      /\ file' = file /\ selection' = selection /\ clock' = clock + 1
  BY DEF Dispatch, Tick
<1>2. Dispatched(c, N, E, selection, clock) /\ IsCommand(c) /\ IsStore(store) /\ clock \in Nat
  BY EditsAreDispatched, EditsAreCommands DEF Aged, Shape
<1>3. OldNodes(N, clock) /\ OldEdges(E, clock) /\ selection \subseteq OldIds(clock)
  BY DEF Aged
<1>4. SelfClaimed(c) /\ OldCommand(c, clock + 1)
  BY <1>2, <1>3, DispatchedIsOld
<1>5. Forwarded(c, done.cmd, N, E, Range(done.store.nodes), Range(done.store.edges), clock)
  BY <1>2, ExecuteDoes
<1>6. IsSequence(longer) /\ Range(longer) = Range(history.undo) \cup {done.cmd} /\ longer # <<>>
  <2> HIDE DEF done
  <2>1. /\ IsSequence(longer) /\ Range(longer) = Range(history.undo) \cup {done.cmd}
        /\ Len(longer) = Len(history.undo) + 1 /\ Len(history.undo) \in Nat
    BY SequenceAppended, SequenceParts DEF Shape
  <2>2. Len(<<>>) = 0
    OBVIOUS
  <2> HIDE DEF longer
  <2> QED BY <2>1, <2>2
<1>7. /\ history'.undo = IF Len(longer) > MaxHistory THEN Tail(longer) ELSE longer
      /\ history'.redo = <<>>
  BY <1>1 DEF Push
<1> HIDE DEF done
<1>8. OldIds(clock) \subseteq OldIds(clock + 1) /\ NewIds(clock) \subseteq OldIds(clock + 1)
  BY <1>2, IdsAge
<1>9. OldNodes(N, clock + 1) /\ OldEdges(E, clock + 1)
  BY <1>3, <1>8 DEF OldNodes, OldEdges
<1>10. \A x \in N : IsNode(x)
  BY <1>2 DEF IsStore, Drawn
<1>11. /\ OldNodes(Range(done.store.nodes), clock + 1) /\ OldEdges(Range(done.store.edges), clock + 1)
       /\ OldCommand(done.cmd, clock + 1) /\ SelfClaimed(done.cmd)
  BY <1>2, <1>4, <1>5, <1>8, <1>9, <1>10, ForwardAges
<1> HIDE DEF longer
<1>12. Range(history'.undo) \subseteq Range(history.undo) \cup {done.cmd} /\ Range(history'.redo) = {}
  BY <1>6, <1>7, SequenceTail, SequenceEmpty
<1> QED BY <1>1, <1>3, <1>8, <1>11, <1>12, AgedFrom

LEMMA UndoAges == ASSUME Shape, Aged, UndoLast PROVE Aged'
<1> DEFINE c == Last(history.undo)
<1>1. /\ store' = Undo(c, store) /\ history' = PopUndo(history)
      /\ history.undo # <<>> /\ UNCHANGED <<file, selection, clock>>
  BY DEF UndoLast
<1>2. /\ Range(Front(history.undo)) \subseteq Range(history.undo) /\ c \in Range(history.undo)
      /\ IsCommand(c) /\ IsStore(store)
  BY <1>1, SequenceFront DEF Shape
<1>3. history'.undo = Front(history.undo) /\ history'.redo = Append(history.redo, c)
  BY <1>1 DEF PopUndo
<1>4. Range(history'.redo) = Range(history.redo) \cup {c}
  BY <1>3, SequenceAppended DEF Shape
<1>5. OldCommand(c, clock) /\ OldNodes(Range(store.nodes), clock) /\ OldEdges(Range(store.edges), clock)
  BY <1>2 DEF Aged, OldLine
<1> HIDE DEF c
<1>6. /\ Range(store'.nodes) = BackNodes(Range(store.nodes), c)
      /\ Range(store'.edges) = BackEdges(Range(store.edges), c)
  BY <1>1, <1>2, UndoDoes
<1>7. \A x \in Range(store.nodes) : IsNode(x)
  BY <1>2 DEF IsStore, Drawn
<1>8. OldNodes(Range(store'.nodes), clock) /\ OldEdges(Range(store'.edges), clock)
  BY <1>2, <1>5, <1>6, <1>7, BackAges
<1>9. selection \subseteq OldIds(clock)
  BY DEF Aged
<1> QED BY <1>1, <1>2, <1>3, <1>4, <1>8, <1>9, AgedFrom

LEMMA RedoAges == ASSUME Shape, Aged, RedoLast PROVE Aged'
<1> DEFINE c == Last(history.redo)
           done == Execute(c, store, clock)
           N == Range(store.nodes)
           E == Range(store.edges)
<1>1. /\ store' = done.store /\ history' = PopRedo(history, done.cmd)
      /\ history.redo # <<>> /\ UNCHANGED <<file, selection>>
      /\ IF Clones(c) THEN clock' = clock + 1 ELSE clock' = clock
  BY DEF RedoLast, Clones, Tick
<1>2. /\ Range(Front(history.redo)) \subseteq Range(history.redo) /\ c \in Range(history.redo)
      /\ IsCommand(c) /\ IsStore(store)
  BY <1>1, SequenceFront DEF Shape
<1>3. OldCommand(c, clock) /\ SelfClaimed(c) /\ OldNodes(N, clock) /\ OldEdges(E, clock)
      /\ selection \subseteq OldIds(clock) /\ clock \in Nat
  BY <1>2 DEF Aged, OldLine
<1> HIDE DEF c
<1>4. Forwarded(c, done.cmd, N, E, Range(done.store.nodes), Range(done.store.edges), clock)
  BY <1>2, ExecuteDoes
<1> HIDE DEF done
<1>5. history'.undo = Append(history.undo, done.cmd) /\ history'.redo = Front(history.redo)
  BY <1>1 DEF PopRedo
<1>6. Range(history'.undo) = Range(history.undo) \cup {done.cmd}
  BY <1>5, SequenceAppended DEF Shape
<1>7. \A x \in N : IsNode(x)
  BY <1>2 DEF IsStore, Drawn
<1>8. PICK later \in {clock, clock + 1} : later = clock'
  BY <1>1
<1>9. /\ OldIds(clock) \subseteq OldIds(later) /\ OldNodes(N, later) /\ OldEdges(E, later)
      /\ OldCommand(c, later)
  BY <1>3, AllAge
<1>10. Clones(c) => NewIds(clock) \subseteq OldIds(later)
  BY <1>1, <1>3, <1>8, IdsAge
<1>11. /\ OldNodes(Range(done.store.nodes), later) /\ OldEdges(Range(done.store.edges), later)
       /\ OldCommand(done.cmd, later) /\ SelfClaimed(done.cmd)
  BY <1>2, <1>3, <1>4, <1>7, <1>9, <1>10, ForwardAges
<1> QED BY <1>1, <1>2, <1>3, <1>5, <1>6, <1>8, <1>9, <1>11, AgedFrom

LEMMA ImportAged ==
    ASSUME Shape, Aged, NEW definition \in Files \cup {file}, Import(definition)
    PROVE  Aged'
<1> DEFINE canvas == Imported(definition)
<1>1. /\ clock' = clock + 1 /\ UNCHANGED <<history, selection, file>>
      /\ store' = [store EXCEPT !.nodes = canvas.nodes, !.edges = canvas.edges,
                                !.selected = NoNode, !.errors = {}]
  BY DEF Import, Tick
<1>2. IsSequence(definition.tasks)
  BY BuilderAssumption DEF Shape, IsSequence
<1>3. OldDefinition(definition, clock) /\ clock \in Nat \ {0}
  <2>1. CASE definition = file
    BY <2>1 DEF Aged
  <2>2. CASE definition \in Files
    <3>1. clock \in Nat \ {0}
      BY DEF Aged
    <3>2. ASSUME NEW t \in Range(definition.tasks)
          PROVE  /\ t.id \in OldIds(clock)
                 /\ t.default = NoTask \/ t.default \in OldIds(clock)
                 /\ \A o \in DOMAIN t.conditional : t.conditional[o] \in OldIds(clock)
      <4>1. {t.id} \cup ({t.default} \ {NoTask}) \cup Range(t.conditional) \subseteq {0} \X Nat
        BY <2>2, FileIdsAreOld
      <4>2. {0} \X Nat \subseteq OldIds(clock)
        BY <3>1 DEF OldIds
      <4>3. \A o \in DOMAIN t.conditional : t.conditional[o] \in Range(t.conditional)
        BY DEF Range
      <4> QED BY <4>1, <4>2, <4>3
    <3> QED BY <3>1, <3>2 DEF OldDefinition
  <2> QED BY <2>1, <2>2
<1>4. OldNodes(Range(canvas.nodes), clock) /\ OldEdges(Range(canvas.edges), clock)
  BY <1>2, <1>3, ImportAges
<1> HIDE DEF canvas
<1>5. store'.nodes = canvas.nodes /\ store'.edges = canvas.edges
  BY <1>1 DEF Shape, IsStore
<1>6. OldIds(clock) \subseteq OldIds(clock + 1) /\ OldNodes(Range(canvas.nodes), clock + 1)
      /\ OldEdges(Range(canvas.edges), clock + 1)
  BY <1>3, <1>4, AllAge
<1>7. selection \subseteq OldIds(clock)
  BY DEF Aged
<1> QED BY <1>1, <1>5, <1>6, <1>7, AgedFrom

LEMMA AgedNext == ASSUME Shape, Aged, [Next]_vars PROVE Aged'
<1>0. clock \in Nat /\ clock' \in {clock, clock + 1} /\ selection \subseteq OldIds(clock)
  BY ClockOfNext DEF Aged
<1>1. selection \subseteq OldIds(clock') /\ OldIds(clock) \subseteq OldIds(clock')
  <2>1. PICK later \in {clock, clock + 1} : later = clock'
    BY <1>0
  <2> QED BY <1>0, <2>1, AllAge
<1>2. ASSUME store'.nodes = store.nodes, store'.edges = store.edges, history' = history,
             selection' \subseteq OldIds(clock'), file' = file \/ OldDefinition(file', clock')
      PROVE  Aged'
  BY <1>0, <1>2, AgedFrom
<1>3. ASSUME NEW ids \in SUBSET NodeIds(store), SelectionChange(ids) PROVE Aged'
  <2>1. PICK selected : store' = [store EXCEPT !.selected = selected]
    BY <1>3 DEF SelectionChange
  <2>2. store'.nodes = store.nodes /\ store'.edges = store.edges
    BY <2>1 DEF Shape, IsStore
  <2>3. ids \subseteq OldIds(clock)
    BY NodeIdsAreIds DEF Ids, Aged, OldNodes
  <2> QED BY <1>1, <1>2, <1>3, <2>2, <2>3 DEF SelectionChange
<1>4. ASSUME ValidateClick PROVE Aged'
  <2>1. PICK errors : store' = [store EXCEPT !.errors = errors]
    BY <1>4 DEF ValidateClick
  <2>2. store'.nodes = store.nodes /\ store'.edges = store.edges
    BY <2>1 DEF Shape, IsStore
  <2> QED BY <1>1, <1>2, <1>4, <2>2 DEF ValidateClick
<1>5. ASSUME Export PROVE Aged'
  <2>1. file' = Serialize(<<clock>>, store) /\ UNCHANGED <<store, history, selection>> /\ clock' = clock + 1
    BY <1>5 DEF Export, Tick
  <2>2. OldDefinition(Serialize(<<clock>>, store), clock)
    BY SerializedAges DEF Shape, IsStore, Aged
  <2>3. OldDefinition(file', clock')
    BY <1>0, <2>1, <2>2, AllAge
  <2> QED BY <1>1, <1>2, <2>1, <2>3
<1> QED BY <1>1, <1>2, <1>3, <1>4, <1>5, HistorySteps, DispatchAges, UndoAges, RedoAges, ImportAged

\* Every id on the canvas, in the history and in the file was made before the clock's
\* time, so that the ids a drop, a connection, a paste or a duplicate makes are new
\* (WorkflowCanvas.tsx and clipboard-commands.ts make them of Date.now()).
THEOREM IdsAreOld == Spec => []Aged
<1>1. Init => Shape /\ Aged
  BY ShapeInit, AgedInit
<1>2. Shape /\ Aged /\ [Next]_vars => Shape' /\ Aged'
  BY ShapeNext, AgedNext
<1> QED BY <1>1, <1>2, PTL DEF Spec

----------------------------------------------------------------------------
(* The line of a history: what is executed, then what was undone, the last    *)
(* undone first.                                                              *)

LineOf(undo, redo) ==
    [i \in 1 .. Len(undo) + Len(redo) |->
        IF i <= Len(undo) THEN undo[i] ELSE redo[Len(undo) + Len(redo) + 1 - i]]

TaleOf(s, undo, redo, first) ==
    Tale(LineOf(undo, redo), Len(undo) + Len(redo), Len(undo), Range(s.nodes), Range(s.edges), first)

Unmixed(s, commands, first) ==
    /\ first = <<first[1], first[2]>>
    /\ DistinctStore(s)
    /\ \A c \in commands : DistinctCommand(c)

Bounded == Len(history.undo) + Len(history.redo) <= MaxHistory

Recorded ==
    /\ Bounded
    /\ origin # Unknown =>
           /\ TaleOf(store, history.undo, history.redo, origin)
           /\ Unmixed(store, Range(history.undo) \cup Range(history.redo), origin)

LEMMA LineParts ==
    ASSUME NEW undo, NEW redo, IsSequence(undo), IsSequence(redo)
    PROVE  /\ Len(undo) \in Nat /\ Len(redo) \in Nat
           /\ \A j \in 1 .. Len(undo) + Len(redo) : LineOf(undo, redo)[j] \in Range(undo) \cup Range(redo)
<1>1. /\ Len(undo) \in Nat /\ Len(redo) \in Nat
      /\ \A i \in 1 .. Len(undo) : undo[i] \in Range(undo)
      /\ \A i \in 1 .. Len(redo) : redo[i] \in Range(redo)
  BY SequenceParts
<1> QED BY <1>1 DEF LineOf

LEMMA LineIsSound ==
    ASSUME Shape, Aged
    PROVE  Sound(LineOf(history.undo, history.redo), Len(history.undo) + Len(history.redo),
                 Range(store.nodes), Range(store.edges), clock)
<1>1. /\ \A j \in 1 .. Len(history.undo) + Len(history.redo) :
            LineOf(history.undo, history.redo)[j] \in Range(history.undo) \cup Range(history.redo)
      /\ \A x \in Range(store.nodes) : IsNode(x)
  BY LineParts DEF Shape, IsStore, Drawn
<1>2. clock \in Nat /\ OldNodes(Range(store.nodes), clock) /\ OldEdges(Range(store.edges), clock)
  BY DEF Aged
<1>3. \A c \in Range(history.undo) \cup Range(history.redo) :
         IsCommand(c) /\ OldCommand(c, clock) /\ SelfClaimed(c)
  BY DEF Shape, Aged, OldLine
<1> QED BY <1>1, <1>2, <1>3 DEF Sound

\* An empty history on any canvas without repeated ids.
LEMMA TaleBegins ==
    ASSUME NEW L, NEW N, NEW E, NEW now, OldNodes(N, now),
           \A x, y \in N : x.id = y.id => x = y, \A x, y \in E : x.id = y.id => x = y
    PROVE  Tale(L, 0, 0, N, E, <<N, E>>)
<1>1. StoreFree(L, 0, 0, N, E) /\ AddsFree(L, 0) /\ Remembered(L, 0, 0, E)
  BY DEF StoreFree, AddsFree, Remembered
<1>2. OneEach(L, 0, E)
  BY DEF OneEach, EdgeOf
<1>3. Valued(L, 0, 0, N)
  <2> DEFINE V == [p \in 0 .. 0 |-> [id \in Nat \X Nat |-> CHOOSE x \in N : x.id = id]]
  <2>1. ASSUME NEW x \in N PROVE x = V[0][x.id]
    <3>1. x.id \in Nat \X Nat
      BY DEF OldNodes, OldIds
    <3>2. V[0][x.id] = CHOOSE y \in N : y.id = x.id
      BY <3>1
    <3>3. (CHOOSE y \in N : y.id = x.id) \in N /\ (CHOOSE y \in N : y.id = x.id).id = x.id
      OBVIOUS
    <3> QED BY <3>2, <3>3
  <2> HIDE DEF V
  <2>2. ValuesOf(V, L, 0, 0, N)
    BY <2>1 DEF ValuesOf
  <2> QED BY <2>2 DEF Valued
<1>4. Told(L, 0, N, E, <<N, E>>)
  <2> DEFINE first == <<N, E>>
             R == [k \in 0 .. 0 |-> N]
             G == [k \in 0 .. 0 |-> E]
  <2>1. first[1] = N /\ first[2] = E /\ R[0] = N /\ G[0] = E
    OBVIOUS
  <2> HIDE DEF first, R, G
  <2>2. NodesBefore(R, L, 0, N, first[1])
    BY <2>1 DEF NodesBefore
  <2>3. EdgesBefore(G, L, 0, E, first[2])
    BY <2>1 DEF EdgesBefore, Agree
  <2>4. Told(L, 0, N, E, first)
    BY <2>2, <2>3 DEF Told
  <2> QED BY <2>4 DEF first
<1> QED BY <1>1, <1>2, <1>3, <1>4 DEF Tale

\* When all is undone, the canvas is the first one.
LEMMA TaleEnds ==
    ASSUME NEW L, NEW m, NEW N, NEW E, NEW first, Tale(L, m, 0, N, E, first)
    PROVE  N = first[1] /\ E = first[2]
<1>1. PICK R : NodesBefore(R, L, 0, N, first[1])
  BY DEF Tale, Told
<1>2. PICK G : EdgesBefore(G, L, 0, E, first[2])
  BY DEF Tale, Told
<1>3. N = first[1]
  BY <1>1 DEF NodesBefore
<1>4. \A e : ~Junk(L, 0, e)
  BY DEF Junk
<1>5. \A e : e \in first[2] <=> e \in E
  BY <1>2, <1>4 DEF EdgesBefore, Agree
<1> QED BY <1>3, <1>5

LEMMA DistinctSets ==
    ASSUME NEW seq, IsSequence(seq), Distinct(seq)
    PROVE  \A x, y \in Range(seq) : x.id = y.id => x = y
<1> SUFFICES ASSUME NEW x \in Range(seq), NEW y \in Range(seq), x.id = y.id PROVE x = y
  OBVIOUS
<1>1. PICK i \in DOMAIN seq : seq[i] = x
  BY SequenceParts
<1>2. PICK j \in DOMAIN seq : seq[j] = y
  BY SequenceParts
<1> QED BY <1>1, <1>2 DEF Distinct

\* The line written with the lengths of its parts.
Row(undo, redo, n, r) == [i \in 1 .. n + r |-> IF i <= n THEN undo[i] ELSE redo[n + r + 1 - i]]

LEMMA LineAs ==
    ASSUME NEW undo, NEW redo, NEW n, NEW r, n = Len(undo), r = Len(redo)
    PROVE  LineOf(undo, redo) = Row(undo, redo, n, r)
BY DEF LineOf, Row

\* undo moves the border between what is executed and what is undone, redo moves it
\* back, and a new command ends the line.
MovedBack(undo, redo, n, m) ==
    /\ n \in Nat \ {0} /\ m \in Nat /\ LineOf(undo, redo)[n] = Last(undo)
    /\ Len(Front(undo)) = n - 1 /\ Len(Front(undo)) + Len(Append(redo, Last(undo))) = m
    /\ LineOf(Front(undo), Append(redo, Last(undo))) = LineOf(undo, redo)

MovedForth(undo, redo, n, m, d) ==
    /\ n \in Nat /\ n # m /\ LineOf(undo, redo)[n + 1] = Last(redo)
    /\ Len(Append(undo, d)) = n + 1 /\ Len(Append(undo, d)) + Len(Front(redo)) = m
    /\ LineOf(Append(undo, d), Front(redo)) = Again(LineOf(undo, redo), m, n + 1, d)

MovedOn(undo, redo, n, c, d) ==
    /\ n \in Nat /\ Len(Append(undo, d)) = n + 1 /\ Len(Append(undo, d)) + Len(<<>>) = n + 1
    /\ LineOf(Append(undo, d), <<>>) = Again(Then(LineOf(undo, redo), n, c), n + 1, n + 1, d)
    /\ Then(LineOf(undo, redo), n, c)[n + 1] = c
    /\ \A i \in 1 .. n : Then(LineOf(undo, redo), n, c)[i] = LineOf(undo, redo)[i]

LEMMA LineBack ==
    ASSUME NEW undo, IsSequence(undo), NEW redo, IsSequence(redo), undo # <<>>,
           NEW n, n = Len(undo), NEW m, m = Len(undo) + Len(redo)
    PROVE  MovedBack(undo, redo, n, m)
<1>1. PICK r : r = Len(redo)
  OBVIOUS
<1>2. PICK f : f = Front(undo)
  OBVIOUS
<1>3. PICK c : c = Last(undo)
  OBVIOUS
<1>4. PICK a : a = Append(redo, c)
  OBVIOUS
<1>5. /\ n \in Nat \ {0} /\ Len(f) = n - 1 /\ c = undo[n]
      /\ \A i \in 1 .. n - 1 : f[i] = undo[i]
  BY <1>2, <1>3, SequenceFront
<1>6. r \in Nat
  BY <1>1, SequenceParts
<1>7. Len(a) = r + 1 /\ a[r + 1] = c /\ \A i \in 1 .. r : a[i] = redo[i]
  BY <1>1, <1>4, SequenceAppended
<1>8. m = n + r
  BY <1>1
<1>9. PICK k \in Nat : k = n - 1
  BY ONLY <1>5
<1>10. LineOf(undo, redo) = [i \in 1 .. n + r |-> IF i <= n THEN undo[i] ELSE redo[n + r + 1 - i]]
  <2>1. LineOf(undo, redo) = Row(undo, redo, n, r)
    BY <1>1, LineAs
  <2> QED BY ONLY <2>1 DEF Row
<1>11. LineOf(f, a) = [i \in 1 .. k + (r + 1) |-> IF i <= k THEN f[i] ELSE a[k + (r + 1) + 1 - i]]
  <2>1. k = Len(f) /\ r + 1 = Len(a)
    BY ONLY <1>5, <1>7, <1>9
  <2>2. LineOf(f, a) = Row(f, a, k, r + 1)
    BY <2>1, LineAs
  <2> QED BY ONLY <2>2 DEF Row
<1>12. ASSUME NEW i \in 1 .. n + r
       PROVE  (IF i <= k THEN f[i] ELSE a[k + (r + 1) + 1 - i])
                   = IF i <= n THEN undo[i] ELSE redo[n + r + 1 - i]
  <2>1. CASE i <= k
    BY ONLY <1>5, <1>9, <2>1
  <2>2. CASE i = n
    <3>1. k + (r + 1) + 1 - i = r + 1 /\ i <= n /\ ~(i <= k)
      BY ONLY <1>5, <1>6, <1>9, <2>2
    <3> QED BY ONLY <1>5, <1>7, <2>2, <3>1
  <2>3. CASE i > n
    <3>1. /\ k + (r + 1) + 1 - i = n + r + 1 - i /\ n + r + 1 - i \in 1 .. r
          /\ ~(i <= n) /\ ~(i <= k)
      BY ONLY <1>5, <1>6, <1>9, <2>3, i \in 1 .. n + r
    <3> QED BY ONLY <1>7, <3>1
  <2>4. i \in Int /\ (i <= k \/ i = n \/ i > n)
    BY ONLY <1>5, <1>6, <1>9, i \in 1 .. n + r
  <2> QED BY <2>1, <2>2, <2>3, <2>4
<1>13. k + (r + 1) = n + r
  BY ONLY <1>5, <1>6, <1>9
<1>14. LineOf(f, a) = LineOf(undo, redo)
  BY ONLY <1>10, <1>11, <1>12, <1>13
<1>15. LineOf(undo, redo)[n] = c
  <2>1. n \in 1 .. n + r /\ n <= n
    BY ONLY <1>5, <1>6
  <2> QED BY ONLY <1>5, <1>10, <2>1
<1>16. m \in Nat /\ (n - 1) + (r + 1) = m
  BY ONLY <1>5, <1>6, <1>8
<1> QED BY <1>2, <1>3, <1>4, <1>5, <1>7, <1>14, <1>15, <1>16 DEF MovedBack

LEMMA LineForth ==
    ASSUME NEW undo, IsSequence(undo), NEW redo, IsSequence(redo), redo # <<>>,
           NEW n, n = Len(undo), NEW m, m = Len(undo) + Len(redo), NEW d
    PROVE  MovedForth(undo, redo, n, m, d)
<1>1. PICK r : r = Len(redo)
  OBVIOUS
<1>2. PICK f : f = Front(redo)
  OBVIOUS
<1>3. PICK c : c = Last(redo)
  OBVIOUS
<1>4. PICK a : a = Append(undo, d)
  OBVIOUS
<1>5. /\ r \in Nat \ {0} /\ Len(f) = r - 1 /\ c = redo[r]
      /\ \A i \in 1 .. r - 1 : f[i] = redo[i]
  BY <1>1, <1>2, <1>3, SequenceFront
<1>6. n \in Nat
  BY SequenceParts
<1>7. Len(a) = n + 1 /\ a[n + 1] = d /\ \A i \in 1 .. n : a[i] = undo[i]
  BY <1>4, SequenceAppended
<1>8. m = n + r
  BY <1>1
<1>9. PICK k \in Nat : k = r - 1
  BY ONLY <1>5
<1>10. LineOf(undo, redo) = [i \in 1 .. n + r |-> IF i <= n THEN undo[i] ELSE redo[n + r + 1 - i]]
  <2>1. LineOf(undo, redo) = Row(undo, redo, n, r)
    BY <1>1, LineAs
  <2> QED BY ONLY <2>1 DEF Row
<1>11. LineOf(a, f) = [i \in 1 .. (n + 1) + k |-> IF i <= n + 1 THEN a[i] ELSE f[(n + 1) + k + 1 - i]]
  <2>1. k = Len(f) /\ n + 1 = Len(a)
    BY ONLY <1>5, <1>7, <1>9
  <2>2. LineOf(a, f) = Row(a, f, n + 1, k)
    BY <2>1, LineAs
  <2> QED BY ONLY <2>2 DEF Row
<1>12. Again(LineOf(undo, redo), m, n + 1, d) =
           [i \in 1 .. n + r |-> IF i = n + 1 THEN d ELSE LineOf(undo, redo)[i]]
  BY <1>8 DEF Again
<1>13. \A i \in 1 .. n + r : LineOf(undo, redo)[i] = IF i <= n THEN undo[i] ELSE redo[n + r + 1 - i]
  BY <1>10
<1>14. ASSUME NEW i \in 1 .. n + r
       PROVE  (IF i <= n + 1 THEN a[i] ELSE f[(n + 1) + k + 1 - i])
                   = IF i = n + 1 THEN d ELSE LineOf(undo, redo)[i]
  <2>1. CASE i <= n
    <3>1. i \in 1 .. n /\ i <= n + 1 /\ i # n + 1
      BY ONLY <1>6, <2>1, i \in 1 .. n + r
    <3> QED BY ONLY <1>7, <1>13, <2>1, <3>1, i \in 1 .. n + r
  <2>2. CASE i = n + 1
    <3>1. i <= n + 1
      BY ONLY <1>6, <2>2
    <3> QED BY ONLY <1>7, <2>2, <3>1
  <2>3. CASE i > n + 1
    <3>1. /\ (n + 1) + k + 1 - i = n + r + 1 - i /\ n + r + 1 - i \in 1 .. r - 1
          /\ ~(i <= n + 1) /\ ~(i <= n) /\ i # n + 1
      BY ONLY <1>5, <1>6, <1>9, <2>3, i \in 1 .. n + r
    <3> QED BY ONLY <1>5, <1>13, <3>1, i \in 1 .. n + r
  <2>4. i \in Int /\ (i <= n \/ i = n + 1 \/ i > n + 1)
    BY ONLY <1>5, <1>6, i \in 1 .. n + r
  <2> QED BY <2>1, <2>2, <2>3, <2>4
<1>15. (n + 1) + k = n + r /\ n # n + r /\ (n + 1) + (r - 1) = n + r
  BY ONLY <1>5, <1>6, <1>9
<1>16. LineOf(a, f) = Again(LineOf(undo, redo), m, n + 1, d)
  BY ONLY <1>11, <1>12, <1>14, <1>15
<1>17. LineOf(undo, redo)[n + 1] = c
  <2>1. n + 1 \in 1 .. n + r /\ ~(n + 1 <= n) /\ n + r + 1 - (n + 1) = r
    BY ONLY <1>5, <1>6
  <2> QED BY ONLY <1>5, <1>13, <2>1
<1> QED BY <1>2, <1>3, <1>4, <1>5, <1>6, <1>7, <1>8, <1>15, <1>16, <1>17 DEF MovedForth

LEMMA LineNew ==
    ASSUME NEW undo, IsSequence(undo), NEW redo, IsSequence(redo), NEW n, n = Len(undo), NEW c, NEW d
    PROVE  MovedOn(undo, redo, n, c, d)
<1>1. PICK a : a = Append(undo, d)
  OBVIOUS
<1>2. n \in Nat /\ Len(a) = n + 1 /\ a[n + 1] = d /\ \A i \in 1 .. n : a[i] = undo[i]
  BY <1>1, SequenceAppended, SequenceParts
<1>3. PICK r \in Nat : r = Len(redo)
  BY SequenceParts
<1>4. PICK L : L = LineOf(undo, redo)
  OBVIOUS
<1>5. L = [i \in 1 .. n + r |-> IF i <= n THEN undo[i] ELSE redo[n + r + 1 - i]]
  <2>1. L = Row(undo, redo, n, r)
    BY <1>3, <1>4, LineAs
  <2> QED BY ONLY <2>1 DEF Row
<1>6. \A i \in 1 .. n : L[i] = undo[i]
  BY ONLY <1>2, <1>3, <1>5
<1>7. PICK M : M = Then(L, n, c)
  OBVIOUS
<1>8. M[n + 1] = c /\ \A i \in 1 .. n : M[i] = L[i]
  <2>1. n + 1 \in 1 .. n + 1 /\ \A i \in 1 .. n : i \in 1 .. n + 1 /\ i # n + 1
    BY ONLY <1>2
  <2> QED BY ONLY <1>7, <2>1 DEF Then
<1>9. Len(<<>>) = 0
  OBVIOUS
<1>10. LineOf(a, <<>>) = [i \in 1 .. (n + 1) + 0 |-> IF i <= n + 1 THEN a[i] ELSE <<>>[(n + 1) + 0 + 1 - i]]
  <2>1. LineOf(a, <<>>) = Row(a, <<>>, n + 1, 0)
    BY <1>2, <1>9, LineAs
  <2> QED BY ONLY <2>1 DEF Row
<1>11. Again(M, n + 1, n + 1, d) = [i \in 1 .. n + 1 |-> IF i = n + 1 THEN d ELSE M[i]]
  BY DEF Again
<1>12. ASSUME NEW i \in 1 .. n + 1
       PROVE  (IF i <= n + 1 THEN a[i] ELSE <<>>[(n + 1) + 0 + 1 - i]) = IF i = n + 1 THEN d ELSE M[i]
  <2>1. i <= n + 1 /\ (i = n + 1 \/ (i # n + 1 /\ i \in 1 .. n))
    BY ONLY <1>2, i \in 1 .. n + 1
  <2> QED BY ONLY <1>2, <1>6, <1>8, <2>1
<1>13. (n + 1) + 0 = n + 1
  BY ONLY <1>2
<1>14. LineOf(a, <<>>) = Again(M, n + 1, n + 1, d)
  BY ONLY <1>10, <1>11, <1>12, <1>13
<1> QED BY <1>1, <1>2, <1>4, <1>7, <1>8, <1>9, <1>13, <1>14 DEF MovedOn

LEMMA TaleUndone ==
    ASSUME Shape, Aged, origin # Unknown, Recorded, UndoLast
    PROVE  /\ TaleOf(store', history'.undo, history'.redo, origin)
           /\ Unmixed(store', Range(history'.undo) \cup Range(history'.redo), origin)
           /\ Len(history'.undo) + Len(history'.redo) = Len(history.undo) + Len(history.redo)
<1> DEFINE undo == history.undo
           redo == history.redo
           c == Last(undo)
           L == LineOf(undo, redo)
           n == Len(undo)
           m == Len(undo) + Len(redo)
           N == Range(store.nodes)
           E == Range(store.edges)
<1>1. /\ store' = Undo(c, store) /\ history' = PopUndo(history) /\ undo # <<>>
  BY DEF UndoLast
<1>2. history'.undo = Front(undo) /\ history'.redo = Append(redo, c)
  BY <1>1 DEF PopUndo
<1>3. IsSequence(undo) /\ IsSequence(redo)
  BY DEF Shape
<1>4. /\ n \in Nat \ {0} /\ L[n] = c /\ Len(history'.undo) = n - 1
      /\ Len(history'.undo) + Len(history'.redo) = m /\ LineOf(history'.undo, history'.redo) = L
  <2>1. n = Len(undo) /\ m = Len(undo) + Len(redo)
    OBVIOUS
  <2> HIDE DEF n, m
  <2>2. MovedBack(undo, redo, n, m)
    BY ONLY <1>1, <1>3, <2>1, LineBack
  <2> QED BY ONLY <1>2, <2>2 DEF MovedBack, c, L
<1>5. /\ Range(history'.undo) \subseteq Range(undo) /\ c \in Range(undo)
      /\ Range(history'.redo) = Range(redo) \cup {c}
  BY <1>1, <1>2, <1>3, SequenceFront, SequenceAppended
<1>6. IsCommand(c) /\ IsStore(store)
  BY <1>5 DEF Shape
<1>7. /\ Sound(L, m, N, E, clock) /\ Tale(L, m, n, N, E, origin)
      /\ Unmixed(store, Range(undo) \cup Range(redo), origin)
  BY LineIsSound DEF Recorded, TaleOf
<1> HIDE DEF L, n, m, c
<1>8. Tale(L, m, n - 1, BackNodes(N, c), BackEdges(E, c), origin)
  BY <1>4, <1>7, TaleBack
<1>9. Takes(c) => Differ(c, N, E)
  BY <1>4, <1>7, TakenDiffers
<1>10. Range(store'.nodes) = BackNodes(N, c) /\ Range(store'.edges) = BackEdges(E, c)
  BY <1>1, <1>6, UndoDoes
<1>11. DistinctStore(store')
  BY <1>1, <1>5, <1>6, <1>7, <1>9, UndoDistinct DEF Unmixed
<1>12. TaleOf(store', history'.undo, history'.redo, origin)
  BY <1>4, <1>8, <1>10 DEF TaleOf
<1>13. Unmixed(store', Range(history'.undo) \cup Range(history'.redo), origin)
  BY <1>5, <1>7, <1>11 DEF Unmixed
<1> QED BY <1>4, <1>12, <1>13 DEF m

LEMMA NothingIsNew ==
    ASSUME Aged
    PROVE  /\ \A x \in Range(store.nodes) : x.id \notin NewIds(clock)
           /\ \A x \in Range(store.edges) : x.id \notin NewIds(clock)
<1>1. \A id \in OldIds(clock) : id \notin NewIds(clock)
  BY NewAreNotOld DEF Aged
<1> QED BY <1>1 DEF Aged, OldNodes, OldEdges

LEMMA TaleRedone ==
    ASSUME Shape, Aged, origin # Unknown, Recorded, RedoLast
    PROVE  /\ TaleOf(store', history'.undo, history'.redo, origin)
           /\ Unmixed(store', Range(history'.undo) \cup Range(history'.redo), origin)
<1> DEFINE undo == history.undo
           redo == history.redo
           c == Last(redo)
           done == Execute(c, store, clock)
           d == done.cmd
           L == LineOf(undo, redo)
           n == Len(undo)
           m == Len(undo) + Len(redo)
           N == Range(store.nodes)
           E == Range(store.edges)
           P == Range(done.store.nodes)
           F == Range(done.store.edges)
<1>1. store' = done.store /\ history' = PopRedo(history, d) /\ redo # <<>>
  BY DEF RedoLast
<1>2. c \in Range(redo) /\ Range(Front(redo)) \subseteq Range(redo) /\ IsSequence(undo) /\ IsSequence(redo)
  BY <1>1, SequenceFront DEF Shape
<1>3. IsCommand(c) /\ IsStore(store)
  BY <1>2 DEF Shape
<1> HIDE DEF c
<1>4. Forwarded(c, d, N, E, P, F, clock)
  BY <1>3, ExecuteDoes
<1>5. /\ Sound(L, m, N, E, clock) /\ Tale(L, m, n, N, E, origin)
      /\ Unmixed(store, Range(undo) \cup Range(redo), origin)
  BY LineIsSound DEF Recorded, TaleOf
<1>6. history'.undo = Append(undo, d) /\ history'.redo = Front(redo)
  BY <1>1 DEF PopRedo
<1> HIDE DEF d
<1>7. /\ n # m /\ L[n + 1] = c /\ Len(history'.undo) = n + 1
      /\ Len(history'.undo) + Len(history'.redo) = m
      /\ LineOf(history'.undo, history'.redo) = Again(L, m, n + 1, d)
  <2>1. n = Len(undo) /\ m = Len(undo) + Len(redo)
    OBVIOUS
  <2> HIDE DEF n, m
  <2>2. MovedForth(undo, redo, n, m, d)
    BY ONLY <1>1, <1>2, <2>1, LineForth
  <2> QED BY ONLY <1>6, <2>2 DEF MovedForth, c
<1>8. Range(history'.undo) = Range(undo) \cup {d} /\ Range(history'.redo) \subseteq Range(redo)
  BY <1>2, <1>6, SequenceAppended
<1> HIDE DEF L, n, m
<1>9. Brings(c) => Differ(c, N, E)
  BY <1>5, <1>7, BroughtDiffers
<1>10. DistinctStore(done.store) /\ DistinctCommand(d)
  <2>1. DistinctStore(store)
    BY <1>5 DEF Unmixed
  <2> QED BY <1>3, <1>9, <2>1, NothingIsNew, ExecuteDoes DEF d
<1> HIDE DEF done
<1>11. Tale(Again(L, m, n + 1, d), m, n + 1, P, F, origin)
  BY <1>4, <1>5, <1>7, TaleForth
<1>12. TaleOf(store', history'.undo, history'.redo, origin)
  BY <1>1, <1>7, <1>11 DEF TaleOf
<1>13. Unmixed(store', Range(history'.undo) \cup Range(history'.redo), origin)
  BY <1>1, <1>5, <1>8, <1>10 DEF Unmixed
<1> QED BY <1>12, <1>13

\* A push keeps what is there until the stack is full.
LEMMA PushFits ==
    ASSUME Shape, Bounded, NEW d, NEW after, after = Push(history, d, MaxHistory)
    PROVE  /\ after.redo = <<>> /\ Len(after.undo) <= MaxHistory
           /\ Len(history.undo) # MaxHistory => after.undo = Append(history.undo, d)
<1>1. PICK longer : longer = Append(history.undo, d)
  OBVIOUS
<1>2. PICK n \in Nat : n = Len(history.undo)
  BY LineParts DEF Shape
<1>3. IsSequence(longer) /\ Len(longer) = n + 1
  BY <1>1, <1>2, SequenceAppended DEF Shape
<1>4. after = [undo |-> IF Len(longer) > MaxHistory THEN Tail(longer) ELSE longer, redo |-> <<>>]
  BY <1>1 DEF Push
<1>5. n <= MaxHistory /\ MaxHistory \in Nat
  <2>1. PICK r \in Nat : r = Len(history.redo)
    BY LineParts DEF Shape
  <2>2. n + r <= MaxHistory
    BY <1>2, <2>1 DEF Bounded
  <2>3. MaxHistory \in Nat
    BY BuilderAssumption
  <2>4. n \in Nat
    OBVIOUS
  <2>5. \A i, j, k \in Nat : i + j <= k => i <= k
    OBVIOUS
  <2> QED BY ONLY <2>1, <2>2, <2>3, <2>4, <2>5
<1>6. CASE n + 1 > MaxHistory
  <2>1. after.undo = Tail(longer) /\ after.redo = <<>>
    BY <1>3, <1>4, <1>6
  <2>2. longer # <<>>
    <3>1. Len(<<>>) = 0
      OBVIOUS
    <3> QED BY ONLY <1>2, <1>3, <3>1
  <2>3. Len(after.undo) = n + 1 - 1
    BY <1>3, <2>1, <2>2, SequenceTail
  <2>4. n = MaxHistory /\ n + 1 - 1 <= MaxHistory
    BY ONLY <1>2, <1>5, <1>6
  <2> QED BY ONLY <1>2, <2>1, <2>3, <2>4
<1>7. CASE ~(n + 1 > MaxHistory)
  <2>1. after.undo = longer /\ after.redo = <<>>
    BY <1>3, <1>4, <1>7
  <2>2. n + 1 <= MaxHistory
    BY ONLY <1>2, <1>5, <1>7
  <2> QED BY ONLY <1>1, <1>3, <2>1, <2>2
<1> QED BY <1>6, <1>7

LEMMA TaleDispatched ==
    ASSUME Shape, Aged, origin # Unknown, Recorded,
           NEW c \in Drops \cup DragStops \cup DrawnConnections \cup EdgeDeletions \cup Shortcuts \cup PropertyEdits,
           Dispatch(c), Len(history.undo) # MaxHistory
    PROVE  /\ TaleOf(store', history'.undo, history'.redo, origin)
           /\ Unmixed(store', Range(history'.undo) \cup Range(history'.redo), origin)
<1> DEFINE undo == history.undo
           redo == history.redo
           done == Execute(c, store, clock)
           d == done.cmd
           L == LineOf(undo, redo)
           n == Len(undo)
           m == Len(undo) + Len(redo)
           M == Then(L, n, c)
           N == Range(store.nodes)
           E == Range(store.edges)
           P == Range(done.store.nodes)
           F == Range(done.store.edges)
<1>1. store' = done.store /\ history' = Push(history, d, MaxHistory)
  BY DEF Dispatch
<1>2. /\ IsSequence(undo) /\ IsSequence(redo) /\ IsStore(store) /\ IsCommand(c)
      /\ Dispatched(c, N, E, selection, clock) /\ selection \subseteq OldIds(clock)
  BY EditsAreDispatched, EditsAreCommands DEF Shape, Aged
<1>3. Forwarded(c, d, N, E, P, F, clock)
  BY <1>2, ExecuteDoes
<1>4. /\ Sound(L, m, N, E, clock) /\ Tale(L, m, n, N, E, origin)
      /\ Unmixed(store, Range(undo) \cup Range(redo), origin)
  BY LineIsSound DEF Recorded, TaleOf
<1>5. history'.undo = Append(undo, d) /\ history'.redo = <<>>
  BY <1>1, PushFits DEF Recorded
<1> HIDE DEF d
<1>6. /\ n \in Nat /\ Len(history'.undo) = n + 1 /\ Len(history'.undo) + Len(history'.redo) = n + 1
      /\ LineOf(history'.undo, history'.redo) = Again(M, n + 1, n + 1, d) /\ M[n + 1] = c
  <2>1. n = Len(undo)
    OBVIOUS
  <2> HIDE DEF n
  <2>2. MovedOn(undo, redo, n, c, d)
    BY ONLY <1>2, <2>1, LineNew
  <2> QED BY ONLY <1>5, <2>2 DEF MovedOn, L, M
<1>7. Range(history'.undo) = Range(undo) \cup {d} /\ Range(history'.redo) = {}
  BY <1>2, <1>5, SequenceAppended, SequenceEmpty
<1> HIDE DEF L, n, m
<1>8. m \in Nat /\ n \in 0 .. m
  BY <1>4 DEF Tale
<1>9. Tale(M, n + 1, n, N, E, origin)
  BY <1>2, <1>4, TaleNew
<1>10. PICK later \in Nat : Sound(M, n + 1, N, E, later) /\ Forwarded(c, d, N, E, P, F, later)
  BY <1>2, <1>3, <1>4, <1>8, DispatchedSound
<1>11. n # n + 1
  BY <1>6
<1> HIDE DEF M
<1>12. Brings(c) => Differ(c, N, E)
  BY <1>6, <1>9, <1>10, <1>11, BroughtDiffers
<1>13. DistinctStore(done.store) /\ DistinctCommand(d)
  <2>1. DistinctStore(store)
    BY <1>4 DEF Unmixed
  <2> QED BY <1>2, <1>12, <2>1, NothingIsNew, ExecuteDoes DEF d
<1> HIDE DEF done
<1>14. Tale(Again(M, n + 1, n + 1, d), n + 1, n + 1, P, F, origin)
  BY <1>6, <1>9, <1>10, <1>11, TaleForth
<1>15. TaleOf(store', history'.undo, history'.redo, origin)
  BY <1>1, <1>6, <1>14 DEF TaleOf
<1>16. Unmixed(store', Range(history'.undo) \cup Range(history'.redo), origin)
  BY <1>1, <1>4, <1>7, <1>13 DEF Unmixed
<1> QED BY <1>15, <1>16

LEMMA UndoKeepsLength ==
    ASSUME Shape, UndoLast
    PROVE  Len(history'.undo) + Len(history'.redo) = Len(history.undo) + Len(history.redo)
<1> DEFINE undo == history.undo
           redo == history.redo
<1>1. /\ undo # <<>> /\ IsSequence(undo) /\ IsSequence(redo)
      /\ history'.undo = Front(undo) /\ history'.redo = Append(redo, Last(undo))
  BY DEF UndoLast, PopUndo, Shape
<1>2. PICK n : n = Len(undo)
  OBVIOUS
<1>3. PICK m : m = Len(undo) + Len(redo)
  OBVIOUS
<1> HIDE DEF undo, redo
<1>4. MovedBack(undo, redo, n, m)
  BY ONLY <1>1, <1>2, <1>3, LineBack
<1>5. Len(history'.undo) + Len(history'.redo) = m
  BY ONLY <1>1, <1>4 DEF MovedBack
<1> QED BY <1>3, <1>5 DEF undo, redo

LEMMA RedoKeepsLength ==
    ASSUME Shape, RedoLast
    PROVE  Len(history'.undo) + Len(history'.redo) = Len(history.undo) + Len(history.redo)
<1> DEFINE undo == history.undo
           redo == history.redo
<1>1. PICK d : history' = PopRedo(history, d)
  BY DEF RedoLast
<1>2. /\ redo # <<>> /\ IsSequence(undo) /\ IsSequence(redo)
      /\ history'.undo = Append(undo, d) /\ history'.redo = Front(redo)
  BY <1>1 DEF RedoLast, PopRedo, Shape
<1>3. PICK n : n = Len(undo)
  OBVIOUS
<1>4. PICK m : m = Len(undo) + Len(redo)
  OBVIOUS
<1> HIDE DEF undo, redo
<1>5. MovedForth(undo, redo, n, m, d)
  BY ONLY <1>2, <1>3, <1>4, LineForth
<1>6. Len(history'.undo) + Len(history'.redo) = m
  BY ONLY <1>2, <1>5 DEF MovedForth
<1> QED BY <1>4, <1>6 DEF undo, redo

LEMMA ImportDrawn ==
    ASSUME NEW definition, IsSequence(definition.tasks), NEW canvas, canvas = Imported(definition)
    PROVE  Drawn(canvas.nodes, canvas.edges) /\ Distinct(canvas.edges)
<1> DEFINE bare == Deserialize(definition)
<1>1. /\ IsCanvas(bare) /\ Drawn(bare.nodes, bare.edges)
      /\ \A k \in DOMAIN bare.edges : bare.edges[k].id = <<0, k>>
  BY DeserializedCanvas
<1>2. canvas = WithLayout(bare)
  BY DEF Imported
<1> HIDE DEF bare
<1>3. Drawn(canvas.nodes, canvas.edges) /\ canvas.edges = bare.edges
  BY <1>1, <1>2, LayoutMoves
<1> QED BY <1>1, <1>3 DEF Distinct

\* A canvas under an empty history.
LEMMA TaleOfBlank ==
    ASSUME NEW s, Drawn(s.nodes, s.edges), Distinct(s.nodes), Distinct(s.edges),
           NEW now, OldNodes(Range(s.nodes), now)
    PROVE  TaleOf(s, <<>>, <<>>, AsSets(s)) /\ Unmixed(s, {}, AsSets(s))
<1> DEFINE N == Range(s.nodes)
           E == Range(s.edges)
<1>1. (\A x, y \in N : x.id = y.id => x = y) /\ (\A x, y \in E : x.id = y.id => x = y)
  BY DistinctSets DEF Drawn
<1>2. AsSets(s) = <<N, E>>
  BY DEF AsSets
<1>3. Len(<<>>) = 0 /\ 0 + 0 = 0
  OBVIOUS
<1> HIDE DEF N, E
<1>4. Tale(LineOf(<<>>, <<>>), 0, 0, N, E, <<N, E>>)
  BY <1>1, TaleBegins DEF N
<1>5. TaleOf(s, <<>>, <<>>, AsSets(s))
  BY <1>2, <1>3, <1>4 DEF TaleOf, N, E
<1>6. Unmixed(s, {}, AsSets(s))
  BY <1>2 DEF Unmixed, DistinctStore
<1> QED BY <1>5, <1>6

LEMMA RecordedInit == Init => Recorded
<1> SUFFICES ASSUME Init PROVE Recorded
  OBVIOUS
<1>1. /\ store.nodes = <<>> /\ store.edges = <<>> /\ history.undo = <<>> /\ history.redo = <<>>
      /\ origin = <<{}, {}>>
  BY DEF Init
<1>2. IsSequence(<<>>) /\ Range(<<>>) = {}
  BY SequenceEmpty
<1>3. Drawn(<<>>, <<>>) /\ Distinct(<<>>)
  BY <1>2 DEF Drawn, Distinct
<1>4. AsSets(store) = origin /\ OldNodes(Range(store.nodes), 1)
  BY <1>1, <1>2 DEF AsSets, OldNodes
<1>5. TaleOf(store, <<>>, <<>>, origin) /\ Unmixed(store, {}, origin)
  BY <1>1, <1>3, <1>4, TaleOfBlank
<1>6. Bounded
  <2>1. Len(<<>>) = 0
    OBVIOUS
  <2>2. Len(history.undo) = 0 /\ Len(history.redo) = 0
    BY ONLY <1>1, <2>1
  <2> QED BY ONLY <2>2, BuilderAssumption DEF Bounded
<1> QED BY <1>1, <1>2, <1>5, <1>6 DEF Recorded

LEMMA ImportRecorded ==
    ASSUME Shape, Aged, Recorded, NEW definition \in Files \cup {file}, Import(definition), Aged'
    PROVE  Recorded'
<1> DEFINE canvas == Imported(definition)
           blank == history.undo = <<>> /\ history.redo = <<>>
<1>1. /\ history' = history
      /\ origin' = IF blank /\ Distinct(canvas.nodes) THEN AsSets(canvas) ELSE Unknown
      /\ store' = [store EXCEPT !.nodes = canvas.nodes, !.edges = canvas.edges,
                                !.selected = NoNode, !.errors = {}]
  BY DEF Import
<1>2. IsSequence(definition.tasks)
  BY BuilderAssumption DEF Shape, IsSequence
<1>3. /\ Drawn(canvas.nodes, canvas.edges) /\ Distinct(canvas.edges)
  BY <1>2, ImportDrawn
<1> HIDE DEF canvas
<1>4. store'.nodes = canvas.nodes /\ store'.edges = canvas.edges
  BY <1>1 DEF Shape, IsStore
<1>5. Bounded'
  BY <1>1 DEF Recorded, Bounded
<1>6. CASE origin' = Unknown
  BY <1>5, <1>6 DEF Recorded
<1>7. CASE origin' # Unknown
  <2>1. blank /\ Distinct(canvas.nodes) /\ origin' = AsSets(canvas)
    BY <1>1, <1>7
  <2>2. origin' = AsSets(store')
    BY <1>4, <2>1 DEF AsSets
  <2>3. PICK s : s = store'
    OBVIOUS
  <2>4. PICK now : now = clock'
    OBVIOUS
  <2>5. Drawn(s.nodes, s.edges) /\ Distinct(s.nodes) /\ Distinct(s.edges) /\ OldNodes(Range(s.nodes), now)
    BY <1>3, <1>4, <2>1, <2>3, <2>4 DEF Aged
  <2>6. TaleOf(s, <<>>, <<>>, AsSets(s)) /\ Unmixed(s, {}, AsSets(s))
    BY <2>5, TaleOfBlank
  <2>7. history'.undo = <<>> /\ history'.redo = <<>> /\ Range(<<>>) = {}
    BY <1>1, <2>1, SequenceEmpty
  <2>8. TaleOf(store', history'.undo, history'.redo, origin')
    BY <2>2, <2>3, <2>6, <2>7
  <2>9. Unmixed(store', Range(history'.undo) \cup Range(history'.redo), origin')
    BY <2>2, <2>3, <2>6, <2>7
  <2> QED BY <1>5, <2>8, <2>9 DEF Recorded
<1> QED BY <1>6, <1>7

\* Steps that leave the canvas, the history and the origin alone.
LEMMA RecordedKept ==
    ASSUME Recorded, store'.nodes = store.nodes, store'.edges = store.edges, UNCHANGED <<history, origin>>
    PROVE  Recorded'
<1>1. Bounded'
  BY DEF Recorded, Bounded
<1>2. ASSUME origin # Unknown
      PROVE  /\ TaleOf(store', history'.undo, history'.redo, origin')
             /\ Unmixed(store', Range(history'.undo) \cup Range(history'.redo), origin')
  <2>1. TaleOf(store, history.undo, history.redo, origin)
        /\ Unmixed(store, Range(history.undo) \cup Range(history.redo), origin)
    BY <1>2 DEF Recorded
  <2> QED BY <2>1 DEF TaleOf, Unmixed, DistinctStore
<1> QED BY <1>1, <1>2 DEF Recorded

LEMMA RecordedNext == ASSUME Shape, Aged, Recorded, [Next]_vars, Aged' PROVE Recorded'
<1>1. ASSUME NEW c \in Drops \cup DragStops \cup DrawnConnections \cup EdgeDeletions
                        \cup Shortcuts \cup PropertyEdits, Dispatch(c)
      PROVE  Recorded'
  <2>1. PICK d : history' = Push(history, d, MaxHistory)
    BY <1>1 DEF Dispatch
  <2>2. history'.redo = <<>> /\ Len(history'.undo) <= MaxHistory
    BY <2>1, PushFits DEF Recorded
  <2>3. Bounded'
    <3>1. Len(<<>>) = 0
      OBVIOUS
    <3>2. PICK n \in Nat : n = Len(history'.undo)
      <4>1. Shape'
        BY <1>1, EditsAreCommands, DispatchShape
      <4> QED BY <4>1, SequenceParts DEF Shape
    <3> QED BY ONLY <2>2, <3>1, <3>2 DEF Bounded
  <2>4. origin' = IF Len(history.undo) = MaxHistory THEN Unknown ELSE origin
    BY <1>1 DEF Dispatch
  <2>5. ASSUME origin' # Unknown
        PROVE  /\ TaleOf(store', history'.undo, history'.redo, origin')
               /\ Unmixed(store', Range(history'.undo) \cup Range(history'.redo), origin')
    <3>1. Len(history.undo) # MaxHistory /\ origin' = origin /\ origin # Unknown
      BY <2>4, <2>5
    <3> QED BY <1>1, <3>1, TaleDispatched
  <2> QED BY <2>3, <2>5 DEF Recorded
<1>2. ASSUME UndoLast PROVE Recorded'
  <2>1. origin' = origin /\ Len(history'.undo) + Len(history'.redo) = Len(history.undo) + Len(history.redo)
    BY <1>2, UndoKeepsLength DEF UndoLast
  <2>2. Bounded'
    BY <2>1 DEF Recorded, Bounded
  <2>3. ASSUME origin # Unknown
        PROVE  /\ TaleOf(store', history'.undo, history'.redo, origin)
               /\ Unmixed(store', Range(history'.undo) \cup Range(history'.redo), origin)
    BY <1>2, <2>3, TaleUndone
  <2> QED BY <2>1, <2>2, <2>3 DEF Recorded
<1>3. ASSUME RedoLast PROVE Recorded'
  <2>1. origin' = origin /\ Len(history'.undo) + Len(history'.redo) = Len(history.undo) + Len(history.redo)
    BY <1>3, RedoKeepsLength DEF RedoLast
  <2>2. Bounded'
    BY <2>1 DEF Recorded, Bounded
  <2>3. ASSUME origin # Unknown
        PROVE  /\ TaleOf(store', history'.undo, history'.redo, origin)
               /\ Unmixed(store', Range(history'.undo) \cup Range(history'.redo), origin)
    BY <1>3, <2>3, TaleRedone
  <2> QED BY <2>1, <2>2, <2>3 DEF Recorded
<1>4. ASSUME NEW ids \in SUBSET NodeIds(store), SelectionChange(ids) PROVE Recorded'
  <2>1. PICK selected : store' = [store EXCEPT !.selected = selected] /\ UNCHANGED <<history, origin>>
    BY <1>4 DEF SelectionChange
  <2>2. store'.nodes = store.nodes /\ store'.edges = store.edges
    BY <2>1 DEF Shape, IsStore
  <2> QED BY <2>1, <2>2, RecordedKept
<1>5. ASSUME ValidateClick PROVE Recorded'
  <2>1. PICK errors : store' = [store EXCEPT !.errors = errors] /\ UNCHANGED <<history, origin>>
    BY <1>5 DEF ValidateClick
  <2>2. store'.nodes = store.nodes /\ store'.edges = store.edges
    BY <2>1 DEF Shape, IsStore
  <2> QED BY <2>1, <2>2, RecordedKept
<1>6. ASSUME Export PROVE Recorded'
  BY <1>6, RecordedKept DEF Export
<1>7. ASSUME UNCHANGED <<store, history, file, origin>> PROVE Recorded'
  BY <1>7, RecordedKept
<1> QED BY <1>1, <1>2, <1>3, <1>4, <1>5, <1>6, <1>7, HistorySteps, ImportRecorded

\* The commands on the undo stack, executed on the first canvas, give the canvas there is,
\* and those on the redo stack can be executed on it from the last to the first: what
\* undo and redo of builder-store.ts rely on, with the fields a command keeps when it
\* is executed again.
THEOREM HistoryIsATale == Spec => []Recorded
<1>1. Init => Shape /\ Aged /\ Recorded
  BY ShapeInit, AgedInit, RecordedInit
<1>2. Shape /\ Aged /\ Recorded /\ [Next]_vars => Shape' /\ Aged' /\ Recorded'
  BY ShapeNext, AgedNext, RecordedNext
<1> QED BY <1>1, <1>2, PTL DEF Spec

\* Undoing everything gives back the canvas the history began with, for every length of
\* the history, whatever was undone and redone in between (builder-store.ts, undo).
THEOREM UndoGoesBack == Spec => []UndoneToTheStart
<1>1. Recorded => UndoneToTheStart
  <2> SUFFICES ASSUME Recorded, history.undo = <<>>, origin # Unknown PROVE AsSets(store) = origin
    BY DEF UndoneToTheStart
  <2>1. /\ TaleOf(store, history.undo, history.redo, origin)
        /\ origin = <<origin[1], origin[2]>>
    BY DEF Recorded, Unmixed
  <2>2. Len(history.undo) = 0
    OBVIOUS
  <2>3. Range(store.nodes) = origin[1] /\ Range(store.edges) = origin[2]
    BY <2>1, <2>2, TaleEnds DEF TaleOf
  <2> QED BY <2>1, <2>3 DEF AsSets
<1> QED BY <1>1, HistoryIsATale, PTL

\* No two nodes and no two edges of the canvas have the same id, for every sequence of
\* edits, undo and redo, as long as no file was imported over a history.
THEOREM IdsAreUnique == Spec => []IdsStayUnique
<1>1. Recorded => IdsStayUnique
  BY DEF Recorded, Unmixed, DistinctStore, IdsStayUnique
<1> QED BY <1>1, HistoryIsATale, PTL
=============================================================================
