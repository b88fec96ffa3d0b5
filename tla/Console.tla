------------------------------- MODULE Console ------------------------------
(* One tab of the dashboard: its session (lib/auth.tsx, ProtectedRoute.tsx,   *)
(* the login page), the details of a job (JobPage) and the lab (LabPage), in  *)
(* front of the lab service and of the jobs of the platform.  A page that is  *)
(* left, or reloaded, loses what it holds and every answer under way to it.   *)
EXTENDS JobPage, LabPage

CONSTANT
    Scenes                  \* [present, jobs, started, runs, scenarios, paths]: jobs that
                            \* wait already and runs another tab has started, ids left
                            \* for new ones, the scenarios and the pages that are used

Scenarios == {"priority", "recovery", "failover", "benchmark"}

ASSUME ConsoleAssumption ==
    /\ BatchSize \in Nat \ {0} /\ Batches \in Nat \ {0} /\ NoRun.id \notin Runs
    /\ \A s \in Scenes : /\ s.present \cup s.jobs \subseteq Jobs /\ s.started \cup s.runs \subseteq Runs
                         /\ s.scenarios \subseteq Scenarios

VARIABLES
    session,                \* token: localStorage.token; user, loading: of AuthProvider
    path,                   \* the page of the URL
    scene
tabVars == <<session, path, scene>>
vars == <<feedVars, labVars, view, pageVars, tabVars, failures>>

LoggedOut == [token |-> FALSE, user |-> FALSE, loading |-> FALSE]
Loading == [token |-> TRUE, user |-> FALSE, loading |-> TRUE]

Init ==
    /\ scene \in Scenes
    /\ InitFeed(scene.present) /\ InitLab(scene.started, scene.scenarios)
    /\ view = ClosedView /\ lab = ClosedLab /\ saved = NoRun /\ displaced = FALSE
    /\ session = LoggedOut /\ path = "login" /\ failures = 0

----------------------------------------------------------------------------
(* The session and the way from page to page.                                 *)

\* Mutant: the lab page is left mounted.
LeavePagesKeepLab == view' = ClosedView /\ UNCHANGED <<lab, saved>> /\ CloseStreams

LeavePages == view' = ClosedView /\ lab' = ClosedLab /\ CloseStreams /\ UNCHANGED saved

Enter(to) ==
    /\ path' = to
    /\ IF to = "lab" THEN OpenLab ELSE lab' = ClosedLab /\ UNCHANGED saved
    /\ IF to = "job" THEN \E j \in {k \in Jobs : job[k].status # Absent} : OpenView(j)
       ELSE view' = ClosedView
    /\ CloseStreams

\* POST /auth/login, then window.location: the dashboard is loaded anew.
Login ==
    /\ path = "login" /\ ~session.loading
    /\ session' = Loading /\ path' \in scene.paths /\ LeavePages

\* The first render of AuthProvider after a reload.
Reload ==
    /\ session.user /\ session' = IF session.token THEN Loading ELSE LoggedOut
    /\ path' = IF session.token THEN path ELSE "login"
    /\ LeavePages

\* GET /auth/me confirms the token: ProtectedRoute renders the page.
Verified ==
    /\ session.loading /\ session' = [session EXCEPT !.user = TRUE, !.loading = FALSE]
    /\ Enter(path)

\* The token is refused, or the call fails: it is forgotten all the same.
NotVerified ==
    /\ session.loading /\ session' = LoggedOut /\ path' = "login" /\ LeavePages

Navigate ==
    /\ session.user /\ (\E to \in scene.paths : Enter(to)) /\ UNCHANGED session

Logout == session.user /\ session' = LoggedOut /\ path' = "login" /\ LeavePages

Session ==
    /\ Login \/ Reload \/ Verified \/ NotVerified \/ Navigate \/ Logout
    /\ UNCHANGED <<feedVars, runs, displaced, scene, failures>>

----------------------------------------------------------------------------
Platform ==
    /\ \/ \E j \in Jobs : JobStep(j) /\ UNCHANGED view
       \/ \E e \in outbox : Broadcast(e)
    /\ UNCHANGED <<labVars, pageVars, tabVars, failures>>

ViewLives ==
    /\ \/ ViewStep /\ UNCHANGED failures
       \/ StreamBreaks \/ CallFails
    /\ UNCHANGED <<labVars, pageVars, tabVars>>

LabLives ==
    /\ session.user /\ path = "lab"
    /\ \/ LabPageStep /\ UNCHANGED failures
       \/ \E r \in scene.runs, scenario \in scene.scenarios :
             ClickExecute(r, scenario) /\ UNCHANGED failures
       \/ LabCallFails
    /\ UNCHANGED <<feedVars, view, tabVars>>

ScenarioRuns(r) ==
    /\ ScenarioStep(r) \/ Submit(r, scene.jobs)
    /\ UNCHANGED <<view, pageVars, tabVars, failures>>

ScenarioFails(r) ==
    /\ ScenarioThrows(r)
    /\ UNCHANGED <<view, pageVars, tabVars>>

Concludes(r) == Conclude(r) /\ UNCHANGED <<view, pageVars, tabVars, failures>>

Next ==
    \/ Session \/ Platform \/ ViewLives \/ LabLives
    \/ \E r \in Runs : ScenarioRuns(r) \/ ScenarioFails(r)

\* The API answers the lab service, whose loops look at the clock after every pass.
Spec ==
    /\ Init /\ [][Next]_vars
    /\ \A r \in Runs : WF_vars(ScenarioRuns(r)) /\ SF_vars(Concludes(r))

----------------------------------------------------------------------------
(* Properties                                                                 *)

TypeOK ==
    /\ TypeOKFeed /\ TypeOKLab /\ TypeOKView /\ TypeOKLabPage
    /\ path # "job" => view = ClosedView
    /\ path # "lab" => lab = ClosedLab

\* What the page of a job shows has been its status at some time, however answers and
\* events of the stream overtake each other.
ShownStatusHeld ==
    view.status # Nothing => view.status \in held[view.id]

\* The verdict the lab page shows for a run is the verdict of that run, although STATUS
\* messages do not say which run they are of; unless an answer that came late has put
\* one run in the place of another (lab/page.tsx:52-57, 73-78).
VerdictShownIsTrue ==
    lab.shown.status \in Verdicts /\ ~displaced => runs[lab.shown.id].status = lab.shown.status

\* The jobs of a run by their place in the submission; Lost has no history.
CompletedAt(run, i) == run.jobs[i] # Lost /\ "COMPLETED" \in held[run.jobs[i]]
EndedAt(run, i) == run.jobs[i] # Lost /\ held[run.jobs[i]] \cap Ended # {}

\* What a PASS does mean in the code, although the jobs go on while they are polled: one
\* job of a recovery was completed (recovery.ts:63-69), and every job of a priority run
\* has ended (priority.ts:44-46).  It is less than the documents promise, see next.
PassMeansProgress ==
    \A r \in Runs :
        LET run == runs[r]
        IN  run.status = "PASS" =>
              /\ run.scenario = "recovery" => \E i \in DOMAIN run.jobs : CompletedAt(run, i)
              /\ run.scenario = "priority" => \A i \in DOMAIN run.jobs : EndedAt(run, i)

\* What the documents promise of a PASS: that CRITICAL finishes before HIGH, MEDIUM and
\* LOW, which are submitted the other way round (DEMO.md:45, :53, lab/page.tsx:105-106);
\* that the jobs of a recovery are requeued and processed (DEMO.md:75, lab/page.tsx:113);
\* and that all jobs of a benchmark have reached a terminal state (DEMO.md:116).
PassKeepsPromise ==
    \A r \in Runs :
        LET run == runs[r]
        IN  run.status = "PASS" =>
              /\ run.scenario = "priority" =>
                    run.completed = [place \in 1 .. BatchSize |-> BatchSize + 1 - place]
              /\ run.scenario = "recovery" => \A i \in DOMAIN run.jobs : CompletedAt(run, i)
              /\ run.scenario = "benchmark" => \A i \in DOMAIN run.jobs : EndedAt(run, i)

\* Every run of a scenario ends with a verdict, whatever becomes of its jobs.
RunEnds ==
    \A r \in Runs : runs[r].status = "RUNNING" ~> runs[r].status \in Verdicts
=============================================================================
