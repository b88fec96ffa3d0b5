------------------------------ MODULE Builder -------------------------------
(* The workflow builder of the dashboard: the canvas with its commands, undo  *)
(* and redo (builder-store.ts, WorkflowCanvas.tsx, PropertyPanel.tsx), the    *)
(* toolbar (BuilderToolbar.tsx) and the three routes it ends in               *)
(* (app/api/compile, execute, executions/[id]).  JavaScript handlers run to   *)
(* completion, so an action is a handler; the two toolbar buttons that await  *)
(* a server go on in steps of their own while the user edits.                 *)
EXTENDS BuilderCommands

CONSTANTS
    Plugins,        \* plugin ids of the palette
    Places,         \* positions a node is dropped at or dragged to
    Files,          \* definitions in workflow files from elsewhere
    Posted,         \* definitions other clients post to the compile route
    MaxHistory,     \* HistoryManager.maxHistory, 50 in the code
    MaxClock        \* bound on the operations that read the clock

ASSUME BuilderAssumption ==
    /\ MaxHistory \in Nat \ {0} /\ MaxClock \in Nat \ {0}
    /\ \A p \in Places : p \in Int \X Int
    /\ \A definition \in Files \cup Posted : definition.tasks \in Seq(Range(definition.tasks))

\* No handler of this canvas made an id of a file from elsewhere: the ids made here
\* begin with the clock.
ASSUME FileIdsAreOld ==
    \A definition \in Files : \A task \in Range(definition.tasks) :
        {task.id} \cup ({task.default} \ {NoTask}) \cup Range(task.conditional) \subseteq {0} \X Nat

\* The fields have the types that CanvasNode and TaskDefinition declare.
ASSUME ValuesAreTyped ==
    /\ Plugins \subseteq STRING
    /\ \A definition \in Files :
          /\ \A task \in Range(definition.tasks) : task.plugin \in STRING /\ task.name[2] \in Nat
          /\ \A id \in DOMAIN definition.positions : definition.positions[id] \in Int \X Int

VARIABLES
    store,          \* [nodes, edges, selected, errors, clip]
    history,        \* [undo, redo], stacks of commands
    selection,      \* selectedNodeIds of WorkflowCanvas
    clock,          \* Date.now(), moved on by whatever reads it
    file,           \* the last exported file, or none
    requests,       \* the handlers of the two buttons that await a server
    compiled,       \* compiledWorkflows of the compile route, by hash
    executions,     \* executionResults of the execute route
    page,           \* the page that is shown
    origin          \* the canvas below the undo stack, Unknown after a trim
vars == <<store, history, selection, clock, file, requests, compiled, executions, page, origin>>

Names == {<<"", 0>>}      \* what a user types into the fields
Configs == {<<"edited">>}
Idle == [phase |-> "idle"]
NoFile == [tasks |-> <<>>]
Unknown == "unknown"
Undefined == "undefined"
AsSets(canvas) == <<Range(canvas.nodes), Range(canvas.edges)>>
Distinct(seq) == \A i, j \in DOMAIN seq : seq[i].id = seq[j].id => i = j

Init ==
    /\ store = [nodes |-> <<>>, edges |-> <<>>, selected |-> NoNode, errors |-> {},
                clip |-> [nodes |-> <<>>, edges |-> <<>>]]
    /\ history = [undo |-> <<>>, redo |-> <<>>]
    /\ selection = {} /\ clock = 1 /\ file = NoFile
    /\ requests = [button \in {"compile", "run"} |-> Idle]
    /\ compiled = <<>> /\ executions = <<>> /\ page = "builder"
    /\ origin = <<{}, {}>>

Tick == clock < MaxClock /\ clock' = clock + 1
ServerUnchanged == UNCHANGED <<requests, compiled, executions, page>>

----------------------------------------------------------------------------
(* The store and its history.                                                 *)

Dispatch(c) ==
    LET done == Execute(c, store, clock)
    IN  /\ page = "builder" /\ Tick
        /\ store' = done.store
        /\ history' = Push(history, done.cmd, MaxHistory)
        /\ origin' = IF Len(history.undo) = MaxHistory THEN Unknown ELSE origin
        /\ UNCHANGED <<selection, file>> /\ ServerUnchanged

UndoLast ==
    /\ page = "builder" /\ history.undo # <<>>
    /\ store' = Undo(Last(history.undo), store)
    /\ history' = PopUndo(history)
    /\ UNCHANGED <<selection, clock, file, origin>> /\ ServerUnchanged

RedoLast ==
    LET done == Execute(Last(history.redo), store, clock)
    IN  /\ page = "builder" /\ history.redo # <<>>
        /\ IF Last(history.redo).type \in {"PASTE", "DUPLICATE"} THEN Tick ELSE UNCHANGED clock
        /\ store' = done.store
        /\ history' = PopRedo(history, done.cmd)
        /\ UNCHANGED <<selection, file, origin>> /\ ServerUnchanged

----------------------------------------------------------------------------
(* The canvas and the property panel.                                         *)

\* The flow library reports the nodes that are selected now.  At MaxClock nothing
\* reads the selection any more.
SelectionChange(ids) ==
    /\ page = "builder" /\ clock < MaxClock /\ ids \subseteq NodeIds(store)
    /\ selection' = ids
    /\ store' = [store EXCEPT !.selected =
                    IF Cardinality(ids) = 1 THEN CHOOSE id \in ids : TRUE ELSE NoNode]
    /\ UNCHANGED <<history, clock, file, origin>> /\ ServerUnchanged

NodeOf(id) == store.nodes[SelectInSeq(store.nodes, LAMBDA n : n.id = id)]

NewNode(plugin, pos) ==
    [id |-> <<clock, 0>>, plugin |-> plugin, pos |-> pos, name |-> <<plugin, 0>>, config |-> <<>>]
Drops == {AddNodeCommand(NewNode(plugin, pos)) : plugin \in Plugins, pos \in Places}

DragStops ==
    {MoveNodeCommand(id, pos, NodeOf(id).pos) : id \in NodeIds(store), pos \in Places}

\* A condition has the handles true and false, every other node one without a name.
Handles(plugin) == IF plugin = Condition THEN Outcomes ELSE {NoLabel}

NewEdge(source, target, handle) ==
    [id |-> <<clock, 0>>, src |-> source.id, dst |-> target, label |-> handle]
Connections ==
    {ConnectEdgeCommand(NewEdge(source, target, handle)) :
        source \in Range(store.nodes), target \in NodeIds(store), handle \in Outcomes \cup {NoLabel}}

DrawnConnections ==
    {c \in Connections : c.edge.label \in Handles(NodeOf(c.edge.src).plugin)}

\* Several edges at once are as many of these commands.
EdgeDeletions == {DisconnectEdgeCommand(edge.id) : edge \in Range(store.edges)}

Shortcuts ==
    {PasteCommand} \cup
    (IF selection = {} THEN {}
     ELSE {CopySelectionCommand(selection), DuplicateCommand(selection),
           DeleteSelectionCommand(selection)})

\* The panel shows the selected node; its fields report changes only.
PropertyEdits ==
    LET node == NodeOf(store.selected)
    IN  IF store.selected \notin NodeIds(store) THEN {}
        ELSE {UpdatePropertyCommand(node.id, edit[1], edit[2], node[edit[1]]) :
                 edit \in {e \in {"name"} \X Names \cup {"config"} \X Configs : e[2] # node[e[1]]}}

Edit ==
    \E c \in Drops \cup DragStops \cup DrawnConnections \cup EdgeDeletions
                 \cup Shortcuts \cup PropertyEdits : Dispatch(c)

----------------------------------------------------------------------------
(* The toolbar.                                                               *)

ValidateClick ==
    /\ page = "builder"
    /\ store' = [store EXCEPT !.errors = Validate(store)]
    /\ UNCHANGED <<history, selection, clock, file, origin>> /\ ServerUnchanged

Export ==
    /\ page = "builder" /\ store.nodes # <<>> /\ Tick
    /\ file' = Serialize(<<clock>>, store)
    /\ UNCHANGED <<store, history, selection, origin>> /\ ServerUnchanged

\* The import replaces the canvas behind the back of the history. A layout that does
\* not end leaves everything as it is.
Import(definition) ==
    LET canvas == Imported(definition)
        blank == history.undo = <<>> /\ history.redo = <<>>
    IN  /\ page = "builder" /\ Tick /\ LayoutEnds(Deserialize(definition))
        /\ store' = [store EXCEPT !.nodes = canvas.nodes, !.edges = canvas.edges,
                                  !.selected = NoNode, !.errors = {}]
        /\ origin' = IF blank /\ Distinct(canvas.nodes) THEN AsSets(canvas) ELSE Unknown
        /\ UNCHANGED <<history, selection, file>> /\ ServerUnchanged

\* The click takes the canvas as it is; the button is disabled until the answer.
Click(button) ==
    /\ page = "builder" /\ requests[button] = Idle /\ store.nodes # <<>> /\ Tick
    /\ requests' = [requests EXCEPT ![button] =
                       [phase |-> "compile", definition |-> Serialize(<<clock>>, store)]]
    /\ UNCHANGED <<store, history, selection, file, compiled, executions, page, origin>>

EditorUnchanged == UNCHANGED <<store, history, selection, clock, file, origin>>

\* Mutant: the handler does not look at success.
ServeCompileUnchecked(button) ==
    LET request == requests[button]
    IN  /\ request.phase = "compile"
        /\ requests' = [requests EXCEPT ![button] =
                           IF button = "run" THEN [@ EXCEPT !.phase = "execute"] ELSE Idle]
        /\ UNCHANGED <<compiled, executions, page>> /\ EditorUnchanged

\* Map.prototype.set
Put(map, key, value) ==
    [k \in DOMAIN map \cup {key} |-> IF k = key THEN value ELSE map[k]]

\* POST /api/compile, and what the handler of the button does with the answer,
\* when it arrives.
ServeCompile(button) ==
    LET request == requests[button]
        result == Compile(request.definition)
        hash == ComputeHash(request.definition)
    IN  /\ request.phase = "compile"
        /\ compiled' = IF result.success THEN Put(compiled, hash, result.workflow) ELSE compiled
        /\ \E arrives \in BOOLEAN :
               requests' = [requests EXCEPT ![button] =
                               IF arrives /\ button = "run" /\ result.success
                               THEN [@ EXCEPT !.phase = "execute"] ELSE Idle]
        /\ UNCHANGED <<executions, page>> /\ EditorUnchanged

\* POST /api/execute stores body.workflowId, while the handler of the button sends
\* compiledWorkflowId: the record names no workflow, and nothing ever reads one from
\* it.  The answer has an id; the handler looks for executionId and opens the page of
\* undefined, unless the answer is lost or an error.
ServeExecute ==
    /\ requests["run"].phase = "execute"
    /\ executions' = Append(executions, [status |-> "PENDING", workflow |-> Undefined])
    /\ requests' = [requests EXCEPT !["run"] = Idle]
    /\ \/ page' = Undefined /\ selection' = {}
       \/ UNCHANGED <<page, selection>>
    /\ UNCHANGED <<store, history, clock, file, origin, compiled>>

\* The call does not reach the server.
RequestFails(button) ==
    /\ requests[button] # Idle
    /\ requests' = [requests EXCEPT ![button] = Idle]
    /\ UNCHANGED <<compiled, executions, page>> /\ EditorUnchanged

\* The page of an execution polls for it: 404 for an unknown id, 500 without a
\* runtime, which the route never has.  The user goes back to the builder.
BackToBuilder ==
    /\ page # "builder" /\ page' = "builder"
    /\ UNCHANGED <<store, history, selection, clock, file, requests, compiled, executions, origin>>

----------------------------------------------------------------------------
Toolbar ==
    \/ ValidateClick \/ Export
    \/ \E definition \in Files \cup {file} : definition # NoFile /\ Import(definition)
    \/ \E button \in DOMAIN requests : Click(button) \/ ServeCompile(button) \/ RequestFails(button)
    \/ ServeExecute \/ BackToBuilder

Next ==
    \/ Edit \/ UndoLast \/ RedoLast
    \/ \E ids \in SUBSET NodeIds(store) : SelectionChange(ids)
    \/ Toolbar

Spec == Init /\ [][Next]_vars

----------------------------------------------------------------------------
(* Properties                                                                 *)

TypeOK ==
    /\ \A n \in Range(store.nodes) \cup Range(store.clip.nodes) :
          n.plugin \in STRING /\ n.pos \in Int \X Int /\ n.name[2] \in Nat
    /\ \A e \in Range(store.edges) \cup Range(store.clip.edges) :
          e.label \in Outcomes \cup {NoLabel}
    /\ Len(history.undo) <= MaxHistory /\ Len(history.redo) <= MaxHistory
    /\ clock \in 1 .. MaxClock
    /\ page \in {"builder", Undefined}

\* Undoing everything gives back the canvas the history began with, whatever was
\* undone and redone in between: Command.undo of builder-store.ts:36-44, with the
\* private fields the commands collect when they are executed again.
UndoneToTheStart ==
    history.undo = <<>> /\ origin # Unknown => AsSets(store) = origin

\* No two nodes and no two edges of the canvas have the same id, so that a handler
\* that looks one up finds the one that was meant ("All operations generate new
\* IDs", clipboard-commands.ts:4-5), as long as no file was imported over a history.
IdsStayUnique ==
    origin # Unknown => Distinct(store.nodes) /\ Distinct(store.edges)

PostedLaidOut ==
    \A definition \in Posted :
        Distinct(definition.tasks) => LaidOut(Deserialize(definition))
PostedCompile == \A definition \in Posted : CompilesAsDocumented(definition)

\* The compiler accepts exactly the canvases and files that are closed, acyclic
\* and without repeated ids, and warns of exactly the unreachable tasks.
CompilerAgrees ==
    /\ store.nodes # <<>> => CompilesAsDocumented(Serialize(<<clock>>, store))
    /\ PostedCompile

\* A canvas that is exported and imported without its positions is laid out so that
\* no node covers another and, without a cycle, no edge goes up.
LayoutFollowsEdges ==
    /\ PostedLaidOut
    /\ Distinct(store.nodes) => LaidOut(Deserialize(Serialize(<<clock>>, store)))

\* A canvas that is exported and imported again, laid out or not, compiles to the
\* tasks and routes it compiled to before.
ReimportKeepsTasks ==
    Distinct(store.nodes) => SurvivesExport([nodes |-> store.nodes, edges |-> store.edges])

\* Whatever is edited or compiled while the run button waits for the compile route, the
\* workflow it goes on to hand to the execute route is the one of its click, is valid,
\* and is held by the compile route, translated, under the id that is handed over
\* (BuilderToolbar.tsx:140-176).  What the execute route makes of that id is
\* ServeExecute: its record loses it.
RunsOnlyValid ==
    LET run == requests["run"]
        hash == ComputeHash(run.definition)
    IN  run.phase = "execute" =>
            /\ ValidDefinition(run.definition)
            /\ hash \in DOMAIN compiled /\ compiled[hash] = Translate(run.definition)
=============================================================================
