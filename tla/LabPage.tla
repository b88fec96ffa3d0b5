------------------------------ MODULE LabPage -------------------------------
(* apps/dashboard: app/lab/page.tsx, which starts a run of the lab service,   *)
(* fetches it, listens to its stream and keeps it in localStorage.  A state   *)
(* that is set takes effect at a later commit, except in a click, where the   *)
(* commit follows at once.                                                    *)
EXTENDS LabService

VARIABLES
    lab,                    \* the page, see below
    saved,                  \* localStorage.labRunState
    displaced               \* a run has taken the place of another on the page
pageVars == <<lab, saved, displaced>>
(* lab.shown      runState, [id, status]     lab.rendered  runState at the last commit *)
(* lab.stream     run of the EventSource     lab.opened    whether it has connected    *)
(* lab.posts      answers of POST /runs under way                                      *)
(* lab.gets       GET /runs/:id under way, [id, answer]                                *)

NoRun == [id |-> "none", status |-> "none"]
Shown == [id : Runs, status : {"RUNNING"} \cup Verdicts] \cup {NoRun}

TypeOKLabPage ==
    /\ lab.shown \in Shown /\ lab.rendered \in Shown /\ saved \in Shown
    /\ lab.posts \subseteq Runs
    /\ \A g \in lab.gets : g.id \in Runs /\ g.answer \in {Asked, "RUNNING"} \cup Verdicts
    /\ lab.stream # "none" => clients \subseteq {lab.stream} /\ \A r \in Runs \ {lab.stream} : wire[r] = <<>>
    /\ displaced \in BOOLEAN

ClosedLab == [shown |-> NoRun, rendered |-> NoRun, stream |-> "none", posts |-> {}, gets |-> {}]

\* close() of an EventSource: nothing more arrives on it, and the service drops it.
CloseStreams == clients' = {} /\ wire' = [r \in Runs |-> <<>>]

\* Mount: the saved run is read, and the effect that saves takes it out of the
\* storage until the next commit.
OpenLab == lab' = [ClosedLab EXCEPT !.shown = saved] /\ saved' = NoRun

\* Mutant: the EventSource of the last commit stays open.
EffectsKeepStream(next) ==
    LET fresh == next.id # lab.rendered.id
        opens == next.status = "RUNNING" /\ lab.stream = "none"
    IN  /\ saved' = next
        /\ lab' = [lab EXCEPT !.shown = next, !.rendered = next,
                              !.stream = IF opens THEN next.id ELSE @,
                              !.gets = IF fresh /\ next # NoRun
                                       THEN @ \cup {[id |-> next.id, answer |-> Asked]} ELSE @]
        /\ StreamsUnchanged

\* The effects of a commit whose run or status differs from the last one: save, fetch
\* a new run, close the stream and open one to a run that is not over.
Effects(next) ==
    LET fresh == next.id # lab.rendered.id
    IN  /\ saved' = next
        /\ lab' = [lab EXCEPT !.shown = next, !.rendered = next,
                              !.stream = IF next.status = "RUNNING" THEN next.id ELSE "none",
                              !.gets = IF fresh /\ next # NoRun
                                       THEN @ \cup {[id |-> next.id, answer |-> Asked]} ELSE @]
        /\ CloseStreams

Commit ==
    /\ lab.shown # lab.rendered /\ Effects(lab.shown)
    /\ UNCHANGED <<runs, displaced>>

\* EXECUTE is disabled while a run is shown as running.
ClickExecute(r, scenario) ==
    /\ lab.rendered.status # "RUNNING" /\ StartRun(r, scenario)
    /\ saved' = NoRun
    /\ lab' = [lab EXCEPT !.shown = NoRun, !.rendered = NoRun, !.stream = "none",
                          !.posts = @ \cup {r}]
    /\ CloseStreams /\ UNCHANGED displaced

ClickExit ==
    /\ lab.rendered # NoRun /\ Effects(NoRun)
    /\ UNCHANGED <<runs, displaced>>

Show(next, others) ==
    /\ lab' = [others EXCEPT !.shown = next]
    /\ displaced' = (displaced \/ (lab.shown.id \notin {"none", next.id}))

PostArrives(r) ==
    /\ r \in lab.posts
    /\ Show([id |-> r, status |-> "RUNNING"], [lab EXCEPT !.posts = @ \ {r}])
    /\ UNCHANGED <<runs, saved>> /\ StreamsUnchanged

ServeGetRun(g) ==
    /\ g \in lab.gets /\ g.answer = Asked
    /\ lab' = [lab EXCEPT !.gets = (@ \ {g}) \cup {[g EXCEPT !.answer = runs[g.id].status]}]
    /\ UNCHANGED <<runs, saved, displaced>> /\ StreamsUnchanged

\* The answer is taken when its status differs from the one shown, whatever run it is of.
GetRunArrives(g) ==
    /\ g \in lab.gets /\ g.answer # Asked
    /\ IF lab.shown # NoRun /\ lab.shown.status # g.answer
       THEN Show([id |-> g.id, status |-> g.answer], [lab EXCEPT !.gets = @ \ {g}])
       ELSE lab' = [lab EXCEPT !.gets = @ \ {g}] /\ UNCHANGED displaced
    /\ UNCHANGED <<runs, saved>> /\ StreamsUnchanged

\* GET /runs/:id/stream reaches the service.
StreamRegisters ==
    /\ lab.stream \in Runs \ clients /\ clients' = clients \cup {lab.stream}
    /\ UNCHANGED <<runs, wire>> /\ UNCHANGED pageVars

\* onmessage, a STATUS: it does not say which run it is of.
StatusArrives(r) ==
    /\ wire[r] # <<>> /\ wire' = [wire EXCEPT ![r] = Tail(@)]
    /\ lab' = [lab EXCEPT !.shown = IF @ = NoRun THEN @ ELSE [@ EXCEPT !.status = Head(wire[r])]]
    /\ UNCHANGED <<runs, clients, saved, displaced>>

\* A request of the page fails; it is logged or alerted.
LabCallFails ==
    /\ Fault
    /\ \/ \E r \in lab.posts : lab' = [lab EXCEPT !.posts = @ \ {r}]
       \/ \E g \in lab.gets : lab' = [lab EXCEPT !.gets = @ \ {g}]
    /\ UNCHANGED <<runs, saved, displaced>> /\ StreamsUnchanged

LabPageStep ==
    \/ Commit \/ ClickExit \/ StreamRegisters
    \/ \E r \in Runs : PostArrives(r) \/ StatusArrives(r)
    \/ \E g \in lab.gets : ServeGetRun(g) \/ GetRunArrives(g)
=============================================================================
