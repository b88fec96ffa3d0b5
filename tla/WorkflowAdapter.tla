-------------------------- MODULE WorkflowAdapter ---------------------------
(* The dashboard's translations of a canvas: WorkflowDefinitionAdapter,       *)
(* BuilderValidator and AutoLayoutService (src/apps/dashboard/src/builder).   *)
(* A canvas is [nodes, edges]: sequences of nodes [id, plugin, pos, name,     *)
(* config] and of edges [id, src, dst, label].  Positions are pairs in units  *)
(* of 10 pixels.  A name is <<text, number of " (copy)" behind it>>; the empty *)
(* text is falsy.                                                             *)
EXTENDS Integers, WorkflowCompiler

Origin == <<0, 0>>
NoLabel == "none"
NodeIds(canvas) == {canvas.nodes[i].id : i \in DOMAIN canvas.nodes}

\* Array.prototype.filter: the elements of seq that are in kept, in their order.
Filter(seq, kept) ==
    LET filtered[n \in 0 .. Len(seq)] ==
            CASE n = 0 -> <<>>
              [] n > 0 /\ seq[n] \in kept -> Append(filtered[n - 1], seq[n])
              [] OTHER -> filtered[n - 1]
    IN  filtered[Len(seq)]

Outgoing(canvas, id) == Filter(canvas.edges, {e \in Range(canvas.edges) : e.src = id})

----------------------------------------------------------------------------
(* serialize and deserialize                                                  *)

\* The first node without an incoming edge, else the first node.
EntryTask(canvas) ==
    LET targets == {canvas.edges[i].dst : i \in DOMAIN canvas.edges}
        root == SelectInSeq(canvas.nodes, LAMBDA n : n.id \notin targets)
    IN  CASE root # 0 -> canvas.nodes[root].id
          [] root = 0 /\ canvas.nodes # <<>> -> canvas.nodes[1].id
          [] OTHER -> NoTask

\* A condition keeps the first edge of each outcome, any other node its first edge.
TaskOf(canvas, node) ==
    LET out == Outgoing(canvas, node.id)
        labelled(o) == SelectInSeq(out, LAMBDA e : e.label = o)
        branching == node.plugin = Condition
    IN  [id |-> node.id, plugin |-> node.plugin, config |-> node.config,
         name |-> IF node.name[1] = "" THEN <<node.plugin, 0>> ELSE node.name,
         default |-> IF branching \/ out = <<>> THEN NoTask ELSE out[1].dst,
         conditional |-> [o \in {p \in Outcomes : branching /\ labelled(p) # 0} |->
                             out[labelled(o)].dst]]

Serialize(id, canvas) ==
    [id |-> id, entry |-> EntryTask(canvas),
     tasks |-> [i \in DOMAIN canvas.nodes |-> TaskOf(canvas, canvas.nodes[i])],
     positions |-> [n \in NodeIds(canvas) |->
                      canvas.nodes[SelectLastInSeq(canvas.nodes, LAMBDA m : m.id = n)].pos]]

\* Mutant: the edges of a condition lose their labels.
EdgesUnlabelled(task) ==
    LET to(target) == [src |-> task.id, dst |-> target, label |-> NoLabel]
        conditional(o) == IF o \in DOMAIN task.conditional
                          THEN <<to(task.conditional[o])>> ELSE <<>>
    IN  (IF task.default = NoTask THEN <<>> ELSE <<to(task.default)>>)
            \o conditional("true") \o conditional("false")

\* The edges a task is drawn with, before they are numbered.
EdgesOf(task) ==
    LET to(target, label) == [src |-> task.id, dst |-> target, label |-> label]
        conditional(o) == IF o \in DOMAIN task.conditional
                          THEN <<to(task.conditional[o], o)>> ELSE <<>>
    IN  (IF task.default = NoTask THEN <<>> ELSE <<to(task.default, NoLabel)>>)
            \o conditional("true") \o conditional("false")

\* Imported edges are numbered from the start: their ids are <<0, k>>.
Deserialize(definition) ==
    LET tasks == definition.tasks
        drawn == FlattenSeq([i \in DOMAIN tasks |-> EdgesOf(tasks[i])])
    IN  [nodes |-> [i \in DOMAIN tasks |->
                      [id |-> tasks[i].id, plugin |-> tasks[i].plugin,
                       pos |-> IF tasks[i].id \in DOMAIN definition.positions
                               THEN definition.positions[tasks[i].id] ELSE Origin,
                       name |-> tasks[i].name, config |-> tasks[i].config]],
         edges |-> [k \in DOMAIN drawn |->
                      [id |-> <<0, k>>, src |-> drawn[k].src, dst |-> drawn[k].dst,
                       label |-> drawn[k].label]]]

NeedsAutoLayout(canvas) ==
    Len(canvas.nodes) > 1 /\ \A i \in DOMAIN canvas.nodes : canvas.nodes[i].pos = Origin

----------------------------------------------------------------------------
(* TopologicalLayoutEngine.layout: Kahn's algorithm by layers.                *)

\* Mutant: a target is queued by its first edge.
NextLayerEager(canvas, queue, degree) ==
    LET next == {e.dst : e \in {d \in Range(canvas.edges) : d.src \in Range(queue)}}
        fresh == {id \in next : degree[id] > 0}
    IN  [degree |-> [id \in DOMAIN degree |-> IF id \in fresh THEN 0 ELSE degree[id]],
         queue |-> SetToSeq(fresh)]

\* An edge to the id is taken away. A degree of 0 counts as 1, so that an id may be
\* queued again.
Release(acc, id) ==
    LET left == (IF acc.degree[id] = 0 THEN 1 ELSE acc.degree[id]) - 1
    IN  [degree |-> [acc.degree EXCEPT ![id] = left],
         queue |-> IF left = 0 THEN Append(acc.queue, id) ELSE acc.queue]

\* The edges out of a node, in turn; a target that is no node has none.
ReleaseTargets(canvas, acc, id) ==
    LET out == IF id \in NodeIds(canvas) THEN Outgoing(canvas, id) ELSE <<>>
        released[k \in 0 .. Len(out)] ==
            IF k = 0 THEN acc ELSE Release(released[k - 1], out[k].dst)
    IN  released[Len(out)]

\* One pass of the while loop: the degrees it leaves and the next queue.
NextLayer(canvas, queue, degree) ==
    LET after[k \in 0 .. Len(queue)] ==
            IF k = 0 THEN [degree |-> degree, queue |-> <<>>]
            ELSE ReleaseTargets(canvas, after[k - 1], queue[k])
    IN  after[Len(queue)]

\* The while loop. If it ends, then after one pass for each id at most: the ids along a
\* path of edges are queued in passes that follow each other, and a path that
\* comes back to an id is gone round for ever.
NextPass(canvas, pass) ==
    LET next == NextLayer(canvas, pass.queue, pass.degree)
    IN  IF pass.queue = <<>> THEN pass
        ELSE [layers |-> Append(pass.layers, pass.queue), queue |-> next.queue, degree |-> next.degree]

Kahn(canvas) ==
    LET ids == NodeIds(canvas) \cup {canvas.edges[i].dst : i \in DOMAIN canvas.edges}
        incoming(id) == Len(Filter(canvas.edges, {e \in Range(canvas.edges) : e.dst = id}))
        pass[n \in 0 .. Cardinality(ids)] ==
            IF n = 0
            THEN [layers |-> <<>>, degree |-> [id \in ids |-> incoming(id)],
                  queue |-> Filter([i \in DOMAIN canvas.nodes |-> canvas.nodes[i].id],
                                   {id \in NodeIds(canvas) : incoming(id) = 0})]
            ELSE NextPass(canvas, pass[n - 1])
    IN  pass[Cardinality(ids)]

\* The rows of the drawing; what a cycle holds back forms the last one.
WithUnplaced(canvas, layers, placed) ==
    LET unplaced == Filter(canvas.nodes, {n \in Range(canvas.nodes) : n.id \notin placed})
    IN  IF NodeIds(canvas) \subseteq placed THEN layers
        ELSE Append(layers, [i \in DOMAIN unplaced |-> unplaced[i].id])

Layers(canvas) ==
    LET layers == Kahn(canvas).layers
    IN  WithUnplaced(canvas, layers, Range(FlattenSeq(layers)))

\* The place <<row, column>> an id is given last.
PlaceOf(id, layers) ==
    LET places == {p \in (DOMAIN layers) \X (1 .. Max({Len(layers[r]) : r \in DOMAIN layers})) :
                      p[2] <= Len(layers[p[1]]) /\ layers[p[1]][p[2]] = id}
    IN  CHOOSE p \in places :
            \A q \in places : q[1] < p[1] \/ (q[1] = p[1] /\ q[2] <= p[2])

\* Each layer is a row, centred; a row is 16 units high, a column 26 wide.
Coordinates(place, layers) ==
    LET widest == Max({Len(layers[r]) : r \in DOMAIN layers})
    IN  <<13 * (widest - Len(layers[place[1]])) + 4 + 26 * (place[2] - 1), 16 * (place[1] - 1)>>

Placed(canvas, layers) ==
    [canvas EXCEPT !.nodes =
        [i \in DOMAIN canvas.nodes |->
            [canvas.nodes[i] EXCEPT !.pos = Coordinates(PlaceOf(canvas.nodes[i].id, layers), layers)]]]

Layout(canvas) == IF canvas.nodes = <<>> THEN canvas ELSE Placed(canvas, Layers(canvas))

\* BuilderToolbar.handleFileChange, what it makes of a parsed file.
WithLayout(canvas) == IF NeedsAutoLayout(canvas) THEN Layout(canvas) ELSE canvas
LayoutEnds(canvas) == NeedsAutoLayout(canvas) => Kahn(canvas).queue = <<>>
Imported(definition) == WithLayout(Deserialize(definition))

----------------------------------------------------------------------------
(* BuilderValidator.validate: pairs of a node and what is wrong with it.      *)

Validate(canvas) ==
    LET ids == NodeIds(canvas)
        touching(id) == {e \in Range(canvas.edges) : id \in {e.src, e.dst}}
        conditions == {n.id : n \in {m \in Range(canvas.nodes) : m.plugin = Condition}}
    IN  {<<id, "routes">> : id \in {c \in conditions : Len(Outgoing(canvas, c)) < 2}}
        \cup {<<id, "disconnected">> :
                 id \in {n \in ids : Len(canvas.nodes) > 1 /\ touching(n) = {}}}

----------------------------------------------------------------------------
(* What a layout and an export owe their caller.                              *)

\* Nodes do not cover each other, and no edge of a canvas without cycles goes up.
TidyDrawing(canvas, edges) ==
    LET row(id) == canvas.nodes[SelectInSeq(canvas.nodes, LAMBDA n : n.id = id)].pos[2]
    IN  /\ \A i, j \in DOMAIN canvas.nodes : i # j => canvas.nodes[i].pos # canvas.nodes[j].pos
        /\ ~Cyclic(NodeIds(canvas), edges) =>
               \A e \in edges : {e[1], e[2]} \subseteq NodeIds(canvas) => row(e[1]) < row(e[2])

LaidOut(canvas) == TidyDrawing(Layout(canvas), {<<e.src, e.dst>> : e \in Range(canvas.edges)})

\* A canvas that is exported and imported again compiles to the same tasks.
SurvivesExport(canvas) ==
    LET exported == Serialize(NoTask, canvas)
    IN  Serialize(NoTask, Imported(exported)).tasks = exported.tasks
=============================================================================
