----------------------------- MODULE LabService -----------------------------
(* services/lab-service: runs of a scenario, which submits jobs over the API  *)
(* of the platform and polls them.  A step is a request; the text of the logs *)
(* is left out, and so is the docker call of the failover scenario, whose     *)
(* outcome it only logs.                                                      *)
EXTENDS JobFeed, SequencesExt

CONSTANTS
    Runs,                   \* run ids
    BatchSize,              \* jobs a scenario submits, 3 to 50 in the code
    Batches                 \* 3 for the benchmark

VARIABLES
    runs,                   \* runs of index.ts, with where their scenario is
    clients,                \* runs with a stream of the one page in streamClients
    wire                    \* wire[r]: STATUS messages on their way to that page
labVars == <<runs, clients, wire>>
StreamsUnchanged == UNCHANGED <<clients, wire>>

Lost == "undefined"         \* the jobId of a submission that was answered an error
Verdicts == {"PASS", "FAIL"}
RunAt == {"none", "token", "submit", "poll", "done"}

TypeOKLab ==
    /\ clients \subseteq Runs /\ wire \in [Runs -> Seq(Verdicts)]
    /\ \A r \in Runs :
          /\ runs[r].status \in {"none", "RUNNING"} \cup Verdicts /\ runs[r].at \in RunAt
          /\ runs[r].next \in 1 .. BatchSize + 1 /\ runs[r].batch \in 0 .. Batches
          /\ runs[r].open \subseteq 1 .. BatchSize /\ runs[r].completed \in Seq(1 .. BatchSize)

NewRun == [scenario |-> "none", status |-> "none", at |-> "none", jobs |-> <<>>,
           next |-> 1, open |-> {}, completed |-> <<>>, batch |-> 0]
Started(scenario) == [NewRun EXCEPT !.scenario = scenario, !.status = "RUNNING", !.at = "token"]

InitLab(started, scenarios) ==
    /\ \E choice \in [started -> scenarios] :
          runs = [r \in Runs |-> IF r \in started THEN Started(choice[r]) ELSE NewRun]
    /\ clients = {} /\ wire = [r \in Runs |-> <<>>]

\* pushStatus tells the pages that listen now, and no other.
Ends(r, status) ==
    /\ runs' = [runs EXCEPT ![r] = [@ EXCEPT !.status = status, !.at = "done"]]
    /\ wire' = [wire EXCEPT ![r] = IF r \in clients THEN Append(@, status) ELSE @]
    /\ UNCHANGED clients

\* POST /runs answers the new run at once; its scenario goes on by itself.
StartRun(r, scenario) ==
    /\ runs[r].status = "none"
    /\ runs' = [runs EXCEPT ![r] = Started(scenario)]
    /\ StreamsUnchanged

GetToken(r) ==
    /\ runs[r].at = "token"
    /\ runs' = [runs EXCEPT ![r].at = "submit"]
    /\ StreamsUnchanged /\ UNCHANGED feedVars

\* An error answer, 429 for one, has no jobId and is not noticed.
Submit(r, ids) ==
    /\ runs[r].at = "submit" /\ Len(runs[r].jobs) < BatchSize
    /\ \E id \in ids \cup {Lost} :
          /\ runs' = [runs EXCEPT ![r].jobs = Append(@, id)]
          /\ IF id = Lost THEN UNCHANGED feedVars ELSE Submitted(id)
    /\ StreamsUnchanged

StartPolling(r) ==
    /\ runs[r].at = "submit" /\ Len(runs[r].jobs) = BatchSize
    /\ runs' = [runs EXCEPT ![r] = [@ EXCEPT !.at = "poll", !.open = 1 .. BatchSize]]
    /\ StreamsUnchanged /\ UNCHANGED feedVars

\* getJobStatus: null when the answer is an error.
Answers(id) == {"null"} \cup (IF id = Lost THEN {} ELSE {job[id].status})

\* One job of a pass, in the order of submission; completed is in the order the answers
\* came (completionOrder of priority.ts).  The priority scenario does not look at an ended job again; the
\* benchmark ends its pass at the first job that is open.
Poll(r) ==
    LET run == runs[r]
        i == run.next
        breaks == run.scenario = "benchmark"
    IN  /\ run.at = "poll" /\ i <= BatchSize
        /\ \E status \in IF run.scenario = "priority" /\ i \notin run.open THEN {"skipped"}
                         ELSE Answers(run.jobs[i]) :
              runs' = [runs EXCEPT ![r] =
                  [@ EXCEPT !.next = IF breaks /\ status \notin Ended THEN BatchSize + 1 ELSE i + 1,
                            !.open = IF status \in Ended THEN run.open \ {i} ELSE run.open,
                            !.completed = IF status = "COMPLETED" THEN Append(run.completed, i)
                                          ELSE run.completed]]
        /\ StreamsUnchanged /\ UNCHANGED feedVars

\* The next pass starts from nothing, except in the priority scenario.
NextPass(r) ==
    /\ runs[r].at = "poll" /\ runs[r].next > BatchSize
    /\ runs[r].scenario # "failover" /\ runs[r].open # {}
    /\ runs' = [runs EXCEPT ![r] =
          [@ EXCEPT !.next = 1,
                    !.open = IF runs[r].scenario = "priority" THEN runs[r].open ELSE 1 .. BatchSize,
                    !.completed = IF runs[r].scenario = "priority" THEN runs[r].completed ELSE <<>>]]
    /\ StreamsUnchanged /\ UNCHANGED feedVars

\* Mutant: a recovery passes when its deadline does.
VerdictLenient(run) ==
    IF run.scenario = "priority" /\ run.open # {} THEN "FAIL" ELSE "PASS"

\* What a scenario makes of its last pass: an exception, which is a FAIL, or a return.
Verdict(run) ==
    IF \/ run.scenario = "priority" /\ run.open # {}
       \/ run.scenario = "recovery" /\ run.completed = <<>>
    THEN "FAIL" ELSE "PASS"

\* Mutant: no deadline, and an open job of a priority run is waited for.
ConcludeAllEnded(r) ==
    /\ runs[r].at = "poll" /\ runs[r].next > BatchSize
    /\ runs[r].scenario # "failover" => runs[r].open = {}
    /\ Ends(r, Verdict(runs[r]))
    /\ UNCHANGED feedVars

\* After a whole pass in which all jobs had ended, or after the deadline, or, for
\* failover, after its only one.
Conclude(r) ==
    /\ runs[r].at = "poll" /\ runs[r].next > BatchSize
    /\ IF runs[r].scenario = "benchmark" /\ runs[r].batch + 1 < Batches
       THEN /\ runs' = [runs EXCEPT ![r] = [@ EXCEPT !.at = "submit", !.jobs = <<>>, !.next = 1,
                                                     !.completed = <<>>, !.batch = runs[r].batch + 1]]
            /\ StreamsUnchanged
       ELSE Ends(r, Verdict(runs[r]))
    /\ UNCHANGED feedVars

\* fetch rejects, or there is no token.
ScenarioThrows(r) ==
    /\ runs[r].at \in {"token", "submit", "poll"} /\ Fault
    /\ Ends(r, "FAIL")
    /\ UNCHANGED feedVars

ScenarioStep(r) ==
    GetToken(r) \/ StartPolling(r) \/ Poll(r) \/ NextPass(r) \/ Conclude(r)
=============================================================================
