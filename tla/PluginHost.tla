----------------------------- MODULE PluginHost -----------------------------
(* src/runtime/plugins: the order PluginDAG puts plugins in, and what the     *)
(* calls of PluginManager.loadAll leave behind, which go on one after another *)
(* or side by side, and stop where an initialize or the registry of handlers  *)
(* throws.  A plugin is [id, version, dependsOn, conflicts, handlers,         *)
(* initialize], the last one whether it has a method of this name to await.   *)
EXTENDS Naturals, Sequences, FiniteSets, SequencesExt, Functions

CONSTANTS
    Callers,                \* calls of loadAll
    Catalogues              \* Catalogues[c]: the lists of plugins call c may be given

VARIABLES
    manager,                \* [loaded, handlers]: the map of plugins, the registry
    calls                   \* calls[c]: its list, where it is, the plugins it has left
hostVars == <<manager, calls>>

\* Lists are sequences, and so are what a plugin depends on and its handlers.
ASSUME HostAssumption ==
    \A c \in Callers : \A list \in Catalogues[c] :
        /\ list \in Seq(Range(list))
        /\ \A plugin \in Range(list) :
              /\ plugin.dependsOn \in Seq(Range(plugin.dependsOn))
              /\ plugin.handlers \in Seq(Range(plugin.handlers))

----------------------------------------------------------------------------
(* PluginDAG                                                                  *)

PluginIds(list) == {list[i].id : i \in DOMAIN list}

\* addNode: a second plugin of an id replaces the first, and the dependencies of
\* both are on the list of the id.
PluginOf(list, id) == list[SelectLastInSeq(list, LAMBDA p : p.id = id)]
Dependencies(list) ==
    [id \in PluginIds(list) |->
        FlattenSeq([i \in DOMAIN list |-> IF list[i].id = id THEN list[i].dependsOn ELSE <<>>])]
Conflicting(list) ==
    {id \in PluginIds(list) : PluginOf(list, id).conflicts \cap PluginIds(list) # {}}

\* Keys of the map; an id that comes again has been visited when it does.
Roots(list) == [i \in DOMAIN list |-> list[i].id]

\* resolveOrder.  visit calls itself: path is the stack of its calls, which is what is
\* in progress, next[id] where the loop of the call for id has come to, root how far
\* the outer loop has, order what has been visited.  An error ends all calls.
Visits(deps, roots) ==
    [path : Seq(DOMAIN deps), next : [DOMAIN deps -> Nat \ {0}], root : 0 .. Len(roots),
     order : Seq(DOMAIN deps), error : {"none", "circular", "missing", "conflict"}]

Visiting(path, next, root, order, error) ==
    [path |-> path, next |-> next, root |-> root, order |-> order, error |-> error]

VisitRoot(s, id) ==
    Visiting(IF id \in Range(s.order) THEN s.path ELSE Append(s.path, id),
             s.next, s.root + 1, s.order, s.error)

\* The conflicts are looked at when the dependencies are in order.
LeaveVisit(s, id, conflicting) ==
    IF id \in conflicting THEN Visiting(s.path, s.next, s.root, s.order, "conflict")
    ELSE Visiting(Front(s.path), s.next, s.root, Append(s.order, id), s.error)

Require(s, id, dep, known) ==
    LET next == [s.next EXCEPT ![id] = @ + 1]
    IN  CASE dep \notin known -> Visiting(s.path, next, s.root, s.order, "missing")
          [] dep \in known /\ dep \in Range(s.path) ->
                Visiting(s.path, next, s.root, s.order, "circular")
          [] dep \in known \ Range(s.path) /\ dep \in Range(s.order) ->
                Visiting(s.path, next, s.root, s.order, s.error)
          [] OTHER -> Visiting(Append(s.path, dep), next, s.root, s.order, s.error)

VisitStep(s, deps, roots, conflicting) ==
    LET id == Last(s.path)
    IN  IF s.path = <<>> THEN VisitRoot(s, roots[s.root + 1])
        ELSE IF s.next[id] > Len(deps[id]) THEN LeaveVisit(s, id, conflicting)
        ELSE Require(s, id, deps[id][s.next[id]], DOMAIN deps)

VisitEnded(s, roots) == s.error # "none" \/ (s.path = <<>> /\ s.root = Len(roots))

Resolution(deps, roots, conflicting) ==
    LET visit[s \in Visits(deps, roots)] ==
            IF VisitEnded(s, roots) THEN s ELSE visit[VisitStep(s, deps, roots, conflicting)]
    IN  visit

VisitStart(deps) == Visiting(<<>>, [id \in DOMAIN deps |-> 1], 0, <<>>, "none")

\* Mutant: the plugins are taken as they come.
OrderAsGiven(list) == [error |-> "none", order |-> list]

ResolveOrder(list) ==
    LET deps == Dependencies(list)
        found == Resolution(deps, Roots(list), Conflicting(list))[VisitStart(deps)]
    IN  [error |-> found.error,
         order |-> [i \in DOMAIN found.order |-> PluginOf(list, found.order[i])]]

----------------------------------------------------------------------------
(* PluginManager                                                              *)

Call(at, list, rest, error) == [at |-> at, list |-> list, rest |-> rest, error |-> error]

Managed(loaded, handlers) == [loaded |-> loaded, handlers |-> handlers]

InitHost ==
    /\ manager = Managed(<<>>, {})
    /\ calls = [c \in Callers |-> Call("new", <<>>, <<>>, "none")]

Loading(c) == calls[c].at \in {"next", "initializing"}

\* The call goes on with the plugins it has left.
GoesOn(c, at, rest) ==
    calls' = [calls EXCEPT ![c] = Call(at, calls[c].list, rest, calls[c].error)]

\* loadAll puts the whole list in order before it begins.
LoadAll(c) ==
    /\ calls[c].at = "new"
    /\ \E list \in Catalogues[c] :
          LET resolved == ResolveOrder(list)
          IN  calls' = [calls EXCEPT ![c] =
                           Call(IF resolved.error = "none" THEN "next" ELSE "ended", list,
                                resolved.order, resolved.error)]
    /\ UNCHANGED manager

Same(p, q) == p.id = q.id /\ p.version = q.version

\* HandlerRegistry.register, for one handler after the other: versions are immutable,
\* and a second registration throws.
Taken(handlers, registry) ==
    {i \in DOMAIN handlers : \A k \in 1 .. i :
        handlers[k] \notin registry /\ \A j \in 1 .. k - 1 : handlers[j] # handlers[k]}

\* plugins.set: an entry that another call has made in the meantime keeps its place.
Known(loaded, plugin) == \E p \in Range(loaded) : Same(p, plugin)
SetPlugin(loaded, plugin) ==
    IF Known(loaded, plugin)
    THEN [i \in DOMAIN loaded |-> IF Same(loaded[i], plugin) THEN plugin ELSE loaded[i]]
    ELSE Append(loaded, plugin)

\* initializePlugin after the await: what was registered before an exception stays.
Registered(c, plugin) ==
    LET taken == Taken(plugin.handlers, manager.handlers)
        handlers == manager.handlers \cup {plugin.handlers[i] : i \in taken}
    IN  \/ /\ taken = DOMAIN plugin.handlers
           /\ manager' = Managed(SetPlugin(manager.loaded, plugin), handlers)
           /\ GoesOn(c, "next", Tail(calls[c].rest))
        \/ /\ taken # DOMAIN plugin.handlers
           /\ manager' = Managed(manager.loaded, handlers)
           /\ GoesOn(c, "ended", calls[c].rest)

\* initializePlugin up to the await, and to its end without one.
InitializePlugin(c) ==
    LET plugin == Head(calls[c].rest)
        known == Known(manager.loaded, plugin)
    IN  /\ calls[c].at = "next" /\ calls[c].rest # <<>>
        /\ \/ known /\ GoesOn(c, "next", Tail(calls[c].rest)) /\ UNCHANGED manager
           \/ ~known /\ plugin.initialize /\ GoesOn(c, "initializing", calls[c].rest)
              /\ UNCHANGED manager
           \/ ~known /\ ~plugin.initialize /\ Registered(c, plugin)

Initialized(c) ==
    /\ calls[c].at = "initializing" /\ Registered(c, Head(calls[c].rest))

InitializeThrows(c) ==
    /\ calls[c].at = "initializing"
    /\ GoesOn(c, "ended", calls[c].rest) /\ UNCHANGED manager

\* The map is emptied unless a dispose throws; the registry of handlers keeps all.
\* Whoever calls it waits for the loading to end.
DisposeAll ==
    /\ \A c \in Callers : ~Loading(c) \/ calls[c].rest = <<>>
    /\ \/ manager' = Managed(<<>>, manager.handlers)
       \/ UNCHANGED manager
    /\ UNCHANGED calls

HostNext ==
    \/ \E c \in Callers :
          LoadAll(c) \/ InitializePlugin(c) \/ Initialized(c) \/ InitializeThrows(c)
    \/ DisposeAll

HostSpec == InitHost /\ [][HostNext]_hostVars

----------------------------------------------------------------------------
(* The reference.                                                             *)

Resolvable(list) ==
    LET deps(id) == Range(Dependencies(list)[id])
    IN  /\ Conflicting(list) = {}
        /\ \A id \in PluginIds(list) : deps(id) \subseteq PluginIds(list)
        /\ \A S \in (SUBSET PluginIds(list)) \ {{}} : \E id \in S : deps(id) \cap S = {}

InOrder(plugins) ==
    \A i \in DOMAIN plugins : \A dep \in Range(plugins[i].dependsOn) :
        \E k \in 1 .. i - 1 : plugins[k].id = dep

\* A list is put in an order exactly when there is one, in which each plugin is after
\* all it depends on; and a plugin that is loaded has its dependencies loaded before it
\* and its handlers in the registry, wherever the calls have stopped (dag.ts,
\* plugin-manager.ts:37-98).
PluginsInOrder ==
    /\ \A c \in Callers :
          calls[c].at # "new" => (calls[c].error = "none" <=> Resolvable(calls[c].list))
    /\ InOrder(manager.loaded)
    /\ \A p \in Range(manager.loaded) : Range(p.handlers) \subseteq manager.handlers
=============================================================================
