----------------------------- MODULE MCBuilder ------------------------------
(* Values of the constants of Builder for TLC: the palette and the drop       *)
(* places, and workflow files from elsewhere: every two-task file with one    *)
(* route each, also to a task that is missing, to itself or back, and files   *)
(* with a condition, a repeated id or a wrong entry, and one whose layout does *)
(* not end.  And lists of plugins for the runtime library.                    *)
EXTENDS Builder, PluginHost

A == <<0, 1>>
B == <<0, 2>>
C == <<0, 3>>
Missing == <<0, 9>>
Http == "core/http"
Step(id, next) == [id |-> id, plugin |-> Http, name |-> <<"step", 0>>, config |-> <<>>,
                   default |-> next, conditional |-> <<>>]
Branch(id, true, false) ==
    [Step(id, NoTask) EXCEPT !.plugin = Condition,
        !.conditional = [o \in Outcomes |-> IF o = "true" THEN true ELSE false]]
Workflow(entry, tasks, positions) ==
    [id |-> <<0>>, entry |-> entry, tasks |-> tasks, positions |-> positions]
Loose(entry, tasks) == Workflow(entry, tasks, <<>>)

MCPlugins == {Http}
MCPlaces == {<<20, 10>>}
MCFiles ==
    {Loose(A, <<Step(A, B), Step(B, NoTask)>>),
     Loose(A, <<Branch(A, B, A), Step(B, Missing)>>),
     Workflow(A, <<Step(A, NoTask), Step(A, NoTask)>>, (A :> <<20, 10>>)),
     Loose(A, <<Step(A, B), Step(A, B), Step(B, B)>>)}
MCPosted ==
    {Loose(A, <<Step(A, x), Step(B, y)>>) : x, y \in {NoTask, A, B, Missing}}
    \cup {Loose(A, <<Step(A, x), Step(B, y), Step(C, z)>>) : x, y, z \in {NoTask, A, B, C}}
    \cup {Loose(A, <<Branch(A, x, y), Step(B, C), Step(C, z)>>) :
             x, y \in {A, B, C}, z \in {NoTask, A, B}}
    \cup {Workflow(A, <<Step(A, NoTask), Step(A, NoTask)>>, (A :> <<20, 10>>)),
          Loose(Missing, <<Step(A, NoTask)>>)}

----------------------------------------------------------------------------
(* The plugin host shares no state with the editor: a behaviour is of one of  *)
(* the two, and the other stays as it begins.                                 *)

CONSTANTS l1, l2

MCInit == Init /\ InitHost
Untouched == clock = 1 /\ store.nodes = <<>> /\ history.undo = <<>>
HostUntouched == \A c \in Callers : calls[c].at = "new"
MCNext ==
    \/ HostUntouched /\ Next /\ UNCHANGED hostVars
    \/ Untouched /\ HostNext /\ UNCHANGED vars
MCSpec == MCInit /\ [][MCNext]_<<vars, hostVars>>

Plugin(id, version, dependsOn, conflicts, handlers, initialize) ==
    [id |-> id, version |-> version, dependsOn |-> dependsOn, conflicts |-> conflicts,
     handlers |-> handlers, initialize |-> initialize]
\* The first call takes any list of three that depend on at most one another each,
\* or a list with a conflict, an id twice, or a plugin that is missing; the second a
\* list that has plugins, handlers and ids in common with it.
MCCatalogues ==
    LET On(id) == IF id = "" THEN <<>> ELSE <<id>>
        P(deps) == Plugin("p", 1, deps, {}, <<"h1", "h2">>, TRUE)
        Q(deps) == Plugin("q", 1, deps, {}, <<>>, TRUE)
        R(deps) == Plugin("r", 1, deps, {}, <<"h4">>, FALSE)
        Twice == Plugin("p", 2, <<"q">>, {}, <<"h5", "h1">>, TRUE)
        Rival == Plugin("s", 1, <<>>, {"p"}, <<>>, FALSE)
    IN  [c \in Callers |->
            IF c = l1
            THEN {<<P(On(x)), Q(On(y)), R(On(z))>> : x, y, z \in {"", "p", "q", "r"}}
                 \cup {<<P(<<"q", "r">>), R(<<"q">>), Q(<<>>)>>, <<P(<<"t">>)>>,
                       <<Rival, Q(<<>>)>>, <<Q(<<>>), Rival, P(<<>>)>>, <<P(<<"r">>), R(<<>>), Twice>>}
            ELSE {<<P(<<"q">>), Q(<<"r">>), R(<<>>)>>, <<Twice, Q(<<>>)>>, <<R(<<"q">>), Q(<<>>)>>}]
=============================================================================
