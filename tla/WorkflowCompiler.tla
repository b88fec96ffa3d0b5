-------------------------- MODULE WorkflowCompiler --------------------------
(* src/runtime/workflow/compilation-service.ts: what a workflow definition is *)
(* and what CompilationService.compile answers for it.  A definition is       *)
(* [id, entry, tasks, positions]; a task has a default route (NoTask when     *)
(* there is none) and conditional routes, a function on a subset of Outcomes. *)
(* Configurations and names are opaque values.                                *)
EXTENDS Naturals, Sequences, FiniteSets, SequencesExt, Functions

NoTask == <<>>
Condition == "core/condition"
Outcomes == {"true", "false"}

TaskIds(tasks) == {tasks[i].id : i \in DOMAIN tasks}

LastTask(tasks, id) == tasks[SelectLastInSeq(tasks, LAMBDA t : t.id = id)]

\* The routes of a task in the order in which the code walks them.
Neighbours(task) ==
    LET conditional(o) == IF o \in DOMAIN task.conditional
                          THEN <<task.conditional[o]>> ELSE <<>>
    IN  (IF task.default = NoTask THEN <<>> ELSE <<task.default>>)
            \o conditional("true") \o conditional("false")

\* adj: a later task with the same id replaces the routes of an earlier one.
Adjacency(tasks) == [id \in TaskIds(tasks) |-> Neighbours(LastTask(tasks, id))]

----------------------------------------------------------------------------
(* detectCycles.  dfs calls itself, so path is the stack of its calls, the    *)
(* innermost one last, next[v] where the loop of the call for v has come to   *)
(* among the neighbours of v, and root how many tasks the outer loop has been *)
(* through.  A call that meets a grey node reports the edge, and all calls    *)
(* return: the nodes on the path stay grey, and the roots that follow take    *)
(* them for nodes they are in the middle of.                                  *)

\* Mutant: only a task that routes to itself is a cycle.
SelfLoops(tasks) ==
    SelectSeq([i \in DOMAIN tasks |-> <<tasks[i].id, tasks[i].default>>], LAMBDA r : r[1] = r[2])

Searches(adj, roots) ==
    [colour : [DOMAIN adj -> {"white", "grey", "black"}], path : Seq(DOMAIN adj),
     next : [DOMAIN adj -> Nat \ {0}], root : 0 .. Len(roots), cycles : Seq(Seq(DOMAIN adj))]

Searching(colour, path, next, root, cycles) ==
    [colour |-> colour, path |-> path, next |-> next, root |-> root, cycles |-> cycles]

Enter(s, id, next, root) ==
    Searching([s.colour EXCEPT ![id] = "grey"], Append(s.path, id), next, root, s.cycles)

TakeRoot(s, id) ==
    IF s.colour[id] = "white" THEN Enter(s, id, s.next, s.root + 1)
    ELSE Searching(s.colour, s.path, s.next, s.root + 1, s.cycles)

LeaveNode(s, node) ==
    Searching([s.colour EXCEPT ![node] = "black"], Front(s.path), s.next, s.root, s.cycles)

LookAt(s, node, id) ==
    LET next == [s.next EXCEPT ![node] = @ + 1]
        colour == IF id \in DOMAIN s.colour THEN s.colour[id] ELSE "undefined"
    IN  CASE colour = "grey" ->
               Searching(s.colour, <<>>, next, s.root, Append(s.cycles, <<node, id>>))
          [] colour = "white" -> Enter(s, id, next, s.root)
          [] OTHER -> Searching(s.colour, s.path, next, s.root, s.cycles)

SearchStep(s, adj, roots) ==
    LET node == Last(s.path)
    IN  IF s.path = <<>> THEN TakeRoot(s, roots[s.root + 1])
        ELSE IF s.next[node] > Len(adj[node]) THEN LeaveNode(s, node)
        ELSE LookAt(s, node, adj[node][s.next[node]])

SearchEnded(s, roots) == s.path = <<>> /\ s.root = Len(roots)

Search(adj, roots) ==
    LET dfs[s \in Searches(adj, roots)] ==
            IF SearchEnded(s, roots) THEN s ELSE dfs[SearchStep(s, adj, roots)]
    IN  dfs

SearchStart(adj) ==
    Searching([id \in DOMAIN adj |-> "white"], <<>>, [id \in DOMAIN adj |-> 1], 0, <<>>)

DetectCycles(tasks) ==
    LET adj == Adjacency(tasks)
    IN  Search(adj, [i \in DOMAIN tasks |-> tasks[i].id])[SearchStart(adj)].cycles

\* findReachable: the visited nodes grow until nothing is left on the stack.
Mentioned(adj) == DOMAIN adj \cup UNION {Range(adj[id]) : id \in DOMAIN adj}

Visit(visited, adj) == visited \cup UNION {Range(adj[id]) : id \in visited \cap DOMAIN adj}

Reach(adj) ==
    LET visit[visited \in SUBSET Mentioned(adj)] ==
            IF Visit(visited, adj) = visited THEN visited ELSE visit[Visit(visited, adj)]
    IN  visit

FindReachable(entry, tasks) == Reach(Adjacency(tasks))[{entry}]

----------------------------------------------------------------------------
(* compile.  A diagnostic is <<code, task id>>.                               *)

RouteErrors(tasks) ==
    {<<"INVALID_ROUTE_TARGET", t.id>> :
        t \in {u \in Range(tasks) : ~(Range(Neighbours(u)) \subseteq TaskIds(tasks))}}

DuplicateErrors(tasks) ==
    {<<"DUPLICATE_TASK_ID", tasks[i].id>> :
        i \in {j \in DOMAIN tasks : \E k \in 1 .. j - 1 : tasks[k].id = tasks[j].id}}

CycleErrors(tasks) ==
    {<<"CYCLE_DETECTED", cycle[1]>> : cycle \in Range(DetectCycles(tasks))}

Unreachable(definition) ==
    {<<"UNREACHABLE_TASK", id>> :
        id \in TaskIds(definition.tasks) \ FindReachable(definition.entry, definition.tasks)}

IncompleteConditions(tasks) ==
    {<<"INCOMPLETE_CONDITION", t.id>> :
        t \in {u \in Range(tasks) : u.plugin = Condition
                                    /\ Cardinality(DOMAIN u.conditional) < 2}}

Translate(definition) ==
    [id |-> definition.id, start |-> definition.entry,
     tasks |-> [id \in TaskIds(definition.tasks) |->
                  LET t == LastTask(definition.tasks, id)
                  IN  [plugin |-> t.plugin, name |-> t.name, config |-> t.config,
                       default |-> t.default, routing |-> t.conditional]]]

Failed(errors, warnings) == [success |-> FALSE, errors |-> errors, warnings |-> warnings]

\* Phases 3 and 4: any error ends the compilation.
Finish(definition, errors, warnings) ==
    IF errors # {} THEN Failed(errors, warnings)
    ELSE [success |-> TRUE, errors |-> {}, warnings |-> warnings,
          workflow |-> Translate(definition)]

Compile(definition) ==
    LET tasks == definition.tasks
    IN  IF tasks = <<>> THEN Failed({<<"EMPTY_WORKFLOW", NoTask>>}, {})
        ELSE IF definition.entry \notin TaskIds(tasks)
        THEN Failed({<<"INVALID_ENTRY_TASK", definition.entry>>}, {})
        ELSE Finish(definition, RouteErrors(tasks) \cup DuplicateErrors(tasks) \cup CycleErrors(tasks),
                    Unreachable(definition) \cup IncompleteConditions(tasks))

\* computeHash: names, positions and other metadata do not count.
ComputeHash(definition) ==
    <<definition.id, definition.entry,
      [i \in DOMAIN definition.tasks |->
          LET t == definition.tasks[i] IN <<t.id, t.plugin, t.config, t.default, t.conditional>>]>>

----------------------------------------------------------------------------
(* The reference: what the diagnostics say, without a search.                 *)

Edges(tasks) ==
    {e \in TaskIds(tasks) \X TaskIds(tasks) :
        e[2] \in Range(Neighbours(LastTask(tasks, e[1])))}

\* A set of tasks each of which leads to another of them holds a cycle.
Cyclic(ids, edges) ==
    \E S \in (SUBSET ids) \ {{}} : \A v \in S : \E w \in S : <<v, w>> \in edges

\* From v every set closed under the edges that holds v also holds w.
Leads(ids, edges, v, w) ==
    \A S \in SUBSET ids :
        v \in S /\ (\A e \in edges : e[1] \in S => e[2] \in S) => w \in S

ValidDefinition(definition) ==
    LET ids == TaskIds(definition.tasks)
    IN  /\ Cardinality(ids) = Len(definition.tasks)
        /\ definition.entry \in ids
        /\ \A t \in Range(definition.tasks) : Range(Neighbours(t)) \subseteq ids
        /\ ~Cyclic(ids, Edges(definition.tasks))

\* What CompilationService owes a definition: success exactly for valid ones, a
\* warning for exactly the tasks no path from the entry leads to, and a first
\* cycle diagnostic that names an edge on a cycle.
Agrees(definition, result, edges, cycles) ==
    LET ids == TaskIds(definition.tasks)
    IN  /\ result.success <=> ValidDefinition(definition)
        /\ definition.entry \in ids =>
               \A id \in ids : <<"UNREACHABLE_TASK", id>> \in result.warnings
                                   <=> ~Leads(ids, edges, definition.entry, id)
        /\ cycles # <<>> => cycles[1] \in edges /\ Leads(ids, edges, cycles[1][2], cycles[1][1])

CompilesAsDocumented(definition) ==
    Agrees(definition, Compile(definition), Edges(definition.tasks), DetectCycles(definition.tasks))
=============================================================================
