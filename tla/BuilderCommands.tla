-------------------------- MODULE BuilderCommands ---------------------------
(* src/apps/dashboard/src/builder/commands and history: the edit commands of  *)
(* the workflow builder with the private fields they keep between execute and *)
(* undo.  The store they work on is [nodes, edges, selected, errors, clip];   *)
(* clip is the module variable clipboard.  Execute answers the command with   *)
(* its new private fields and the store; now is the clock the ids are made of.*)
EXTENDS Integers, Sequences, FiniteSets, SequencesExt, Functions, WorkflowAdapter

PasteOffset == 4
NoNode == <<>>

Outside(nodes, ids) == Filter(nodes, {n \in Range(nodes) : n.id \notin ids})
Inside(nodes, ids) == Filter(nodes, {n \in Range(nodes) : n.id \in ids})
Within(edges, ids) == Filter(edges, {e \in Range(edges) : e.src \in ids /\ e.dst \in ids})
Touching(edges, ids) == Filter(edges, {e \in Range(edges) : e.src \in ids \/ e.dst \in ids})
Apart(edges, ids) == Filter(edges, {e \in Range(edges) : e.src \notin ids /\ e.dst \notin ids})
Changed(nodes, id, change(_)) ==
    [i \in DOMAIN nodes |-> IF nodes[i].id = id THEN change(nodes[i]) ELSE nodes[i]]

\* Array.prototype.splice(index, 0, item): a negative index counts from the end.
Splice(seq, index, item) ==
    LET at == IF index < 0 THEN Len(seq) + index ELSE index
        cut == IF at < 0 THEN 0 ELSE IF at > Len(seq) THEN Len(seq) ELSE at
    IN  SubSeq(seq, 1, cut) \o <<item>> \o SubSeq(seq, cut + 1, Len(seq))

----------------------------------------------------------------------------
(* Commands: those with private fields first, then the new ones that the      *)
(* handlers of the canvas build.                                              *)

Disconnection(id, index, deleted) ==
    [type |-> "DISCONNECT_EDGE", id |-> id, index |-> index, deleted |-> deleted]
Deletion(ids, nodes, edges) ==
    [type |-> "DELETE_SELECTION", ids |-> ids, nodes |-> nodes, edges |-> edges]

AddNodeCommand(node) == [type |-> "ADD_NODE", node |-> node]
MoveNodeCommand(id, new, old) == [type |-> "MOVE_NODE", id |-> id, new |-> new, old |-> old]
UpdatePropertyCommand(id, key, new, old) ==
    [type |-> "UPDATE_PROPERTY", id |-> id, key |-> key, new |-> new, old |-> old]
ConnectEdgeCommand(edge) == [type |-> "CONNECT_EDGE", edge |-> edge]
DisconnectEdgeCommand(id) == Disconnection(id, -1, <<>>)
CopySelectionCommand(ids) == [type |-> "COPY_SELECTION", ids |-> ids]
PasteCommand == [type |-> "PASTE", made |-> {}]
DuplicateCommand(ids) == [type |-> "DUPLICATE", ids |-> ids, made |-> {}]
DeleteSelectionCommand(ids) == Deletion(ids, <<>>, <<>>)

----------------------------------------------------------------------------
(* execute                                                                    *)

\* Mutant: copied edges keep their ids.
ClonedSameEdgeIds(nodes, edges, suffix, now) ==
    LET newId(id) == <<now, SelectLastInSeq(nodes, LAMBDA n : n.id = id)>>
        inner == Within(edges, {nodes[i].id : i \in DOMAIN nodes})
    IN  [nodes |-> [i \in DOMAIN nodes |-> [nodes[i] EXCEPT !.id = <<now, i>>]],
         edges |-> [i \in DOMAIN inner |-> [inner[i] EXCEPT !.src = newId(@), !.dst = newId(@)]]]

\* Copies of nodes, with the edges between them, under ids made of the clock; a
\* duplicate gets a suffix to its name.
Cloned(nodes, edges, suffix, now) ==
    LET rename(name) == IF name[1] = "" THEN name ELSE <<name[1], name[2] + suffix>>
        shift(p) == <<p[1] + PasteOffset, p[2] + PasteOffset>>
        newId(id) == <<now, SelectLastInSeq(nodes, LAMBDA n : n.id = id)>>
        inner == Within(edges, {nodes[i].id : i \in DOMAIN nodes})
    IN  [nodes |-> [i \in DOMAIN nodes |->
                      [nodes[i] EXCEPT !.id = <<now, i>>, !.pos = shift(@), !.name = rename(@)]],
         edges |-> [i \in DOMAIN inner |->
                      [inner[i] EXCEPT !.id = <<now, i>>, !.src = newId(@), !.dst = newId(@)]]]

\* A second execute adds to the ids the command remembers.
Clone(c, s, nodes, edges, suffix, now) ==
    LET copies == Cloned(nodes, edges, suffix, now)
    IN  [cmd |-> [c EXCEPT !.made = @ \cup {<<now, i>> : i \in DOMAIN nodes}],
         store |-> [s EXCEPT !.nodes = @ \o copies.nodes, !.edges = @ \o copies.edges]]

ExecutePaste(c, s, now) == Clone(c, s, s.clip.nodes, s.clip.edges, 0, now)

ExecuteDuplicate(c, s, now) ==
    Clone(c, s, Inside(s.nodes, c.ids), Within(s.edges, c.ids), 1, now)

ExecuteCopy(c, s) ==
    [cmd |-> c,
     store |-> [s EXCEPT !.clip = [nodes |-> Inside(s.nodes, c.ids), edges |-> Within(s.edges, c.ids)]]]

\* Mutant: only the edges between the deleted nodes are remembered.
DeleteSelectionInnerEdges(c, s) ==
    [cmd |-> Deletion(c.ids, Inside(s.nodes, c.ids), Within(s.edges, c.ids)),
     store |-> [s EXCEPT !.nodes = Outside(@, c.ids), !.edges = Apart(@, c.ids),
                         !.selected = IF @ \in c.ids THEN NoNode ELSE @]]

ExecuteDeleteSelection(c, s) ==
    [cmd |-> Deletion(c.ids, Inside(s.nodes, c.ids), Touching(s.edges, c.ids)),
     store |-> [s EXCEPT !.nodes = Outside(@, c.ids), !.edges = Apart(@, c.ids),
                         !.selected = IF @ \in c.ids THEN NoNode ELSE @]]

\* An edge that is not there leaves the edge of an earlier execute in the command.
ExecuteDisconnect(c, s) ==
    LET at == SelectInSeq(s.edges, LAMBDA e : e.id = c.id)
    IN  IF at = 0 THEN [cmd |-> Disconnection(c.id, -1, c.deleted), store |-> s]
        ELSE [cmd |-> Disconnection(c.id, at - 1, <<s.edges[at]>>),
              store |-> [s EXCEPT !.edges = Outside(@, {c.id})]]

ExecuteConnect(c, s) == [cmd |-> c, store |-> [s EXCEPT !.edges = Append(@, c.edge)]]
ExecuteAdd(c, s) == [cmd |-> c, store |-> [s EXCEPT !.nodes = Append(@, c.node)]]
MovedTo(c, s, pos) ==
    [s EXCEPT !.nodes = Changed(@, c.id, LAMBDA n : [n EXCEPT !.pos = pos])]
WithProperty(c, s, value) ==
    [s EXCEPT !.nodes = Changed(@, c.id, LAMBDA n : [n EXCEPT ![c.key] = value])]

Execute(c, s, now) ==
    CASE c.type = "ADD_NODE" -> ExecuteAdd(c, s)
      [] c.type = "MOVE_NODE" -> [cmd |-> c, store |-> MovedTo(c, s, c.new)]
      [] c.type = "UPDATE_PROPERTY" -> [cmd |-> c, store |-> WithProperty(c, s, c.new)]
      [] c.type = "CONNECT_EDGE" -> ExecuteConnect(c, s)
      [] c.type = "DISCONNECT_EDGE" -> ExecuteDisconnect(c, s)
      [] c.type = "COPY_SELECTION" -> ExecuteCopy(c, s)
      [] c.type = "PASTE" -> ExecutePaste(c, s, now)
      [] c.type = "DUPLICATE" -> ExecuteDuplicate(c, s, now)
      [] c.type = "DELETE_SELECTION" -> ExecuteDeleteSelection(c, s)

----------------------------------------------------------------------------
(* undo                                                                       *)

UndoClone(c, s) == [s EXCEPT !.nodes = Outside(@, c.made), !.edges = Apart(@, c.made)]

UndoDeleteSelection(c, s) == [s EXCEPT !.nodes = @ \o c.nodes, !.edges = @ \o c.edges]

UndoDisconnect(c, s) ==
    IF c.deleted = <<>> THEN s ELSE [s EXCEPT !.edges = Splice(@, c.index, c.deleted[1])]

UndoConnect(c, s) == [s EXCEPT !.edges = Outside(@, {c.edge.id})]
UndoAdd(c, s) == [s EXCEPT !.nodes = Outside(@, {c.node.id})]

Undo(c, s) ==
    CASE c.type = "ADD_NODE" -> UndoAdd(c, s)
      [] c.type = "MOVE_NODE" -> MovedTo(c, s, c.old)
      [] c.type = "UPDATE_PROPERTY" -> WithProperty(c, s, c.old)
      [] c.type = "CONNECT_EDGE" -> UndoConnect(c, s)
      [] c.type = "DISCONNECT_EDGE" -> UndoDisconnect(c, s)
      [] c.type = "COPY_SELECTION" -> s
      [] c.type \in {"PASTE", "DUPLICATE"} -> UndoClone(c, s)
      [] c.type = "DELETE_SELECTION" -> UndoDeleteSelection(c, s)

----------------------------------------------------------------------------
(* HistoryManager: the last element of a stack is its top.                    *)

\* Mutant: the oldest command is dropped one push late.
PushLate(history, c, maxHistory) ==
    LET longer == Append(history.undo, c)
    IN  [undo |-> IF Len(longer) > maxHistory + 1 THEN Tail(longer) ELSE longer, redo |-> <<>>]

Push(history, c, maxHistory) ==
    LET longer == Append(history.undo, c)
    IN  [undo |-> IF Len(longer) > maxHistory THEN Tail(longer) ELSE longer, redo |-> <<>>]

PopUndo(history) ==
    [undo |-> Front(history.undo), redo |-> Append(history.redo, Last(history.undo))]

\* The command goes back with the private fields its execute leaves in it.
PopRedo(history, c) == [undo |-> Append(history.undo, c), redo |-> Front(history.redo)]
=============================================================================
