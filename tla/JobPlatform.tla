---------------------------- MODULE JobPlatform ----------------------------
(***************************************************************************)
(* The worker loops, the scheduler sweeps and the API requests over the    *)
(* one job store: every interleaving of their database and Redis calls.    *)
(***************************************************************************)
EXTENDS WorkerLoops, SchedulerSweeps, ApiRequests

CONSTANTS
    Timely,       \* the actors that keep within the thresholds guarding them
    MaxVersion    \* no time runs out on a job whose version is this high

Actors == {"api", "workers", "schedulers"}

ASSUME PlatformAssumption == Timely \subseteq Actors /\ MaxVersion \in Nat

vars == <<storeVars, loop, sched, apiVars>>

-----------------------------------------------------------------------------
(* Time.  The code compares timestamps with thresholds: 10 s since         *)
(* createdAt (pending), 10 s or 30 s since updatedAt (queued), nextRetryAt *)
(* (retrying), 30 s without a heartbeat.  Without clocks a threshold may   *)
(* have run out for any job and any worker.  An actor in Timely is done    *)
(* before it has: the API with a create request, the workers with popping  *)
(* and claiming an id (and they beat until they die), the schedulers with  *)
(* the push that follows an update.                                        *)
(*                                                                         *)
(* MaxVersion bounds how often time may run out for a job when some actor  *)
(* is slow; every other step that raises a version is bounded by the       *)
(* retries, the requests and the failures.                                 *)

Room(j) == Timely = Actors \/ job[j].version < MaxVersion

BeingClaimed(j) ==
    ready[j] > 0 \/ \E l \in Loops : JobOf(l) = j /\ loop[l].pc \in {"popped", "found"}

BeingMoved(j) == \E s \in Schedulers : j \in sched[s].hand

LongPending == {j \in Jobs : "api" \in Timely => ~Creating(j)}

LongQueued ==
    {j \in LongPending :
        /\ Room(j)
        /\ "workers" \in Timely => ~BeingClaimed(j)
        /\ "schedulers" \in Timely => ~BeingMoved(j)}

Suspects ==
    {w \in Workers : ("workers" \in Timely => Dead(w)) /\ \A j \in Jobs : Room(j)}

-----------------------------------------------------------------------------
Init == InitStore /\ InitLoops /\ InitSched /\ InitApi

LoopStep == NextLoops /\ UNCHANGED <<sched, apiVars>>

(* The sweeps with what the clock lets their queries return.               *)
Sweep(s) ==
    \/ SchedProgress(s)
    \/ \E w \in Suspects : DeclareDead(s, w)
    \/ \E old \in SUBSET Jobs : QueryRetries(s, old)
    \/ \E old \in SUBSET LongPending : QueryPending(s, old)
    \/ \E old \in SUBSET LongQueued :
          QueryStale(s, old) \/ \E j \in Jobs : InspectEntry(s, j, old)

SchedStep ==
    /\ \E s \in Schedulers : Sweep(s) \/ SchedFailure(s)
    /\ UNCHANGED <<loop, apiVars>>

ApiStep == NextApi /\ UNCHANGED <<loop, sched>>

Next == LoopStep \/ SchedStep \/ ApiStep

Spec == Init /\ [][Next]_vars

(* Fairness.  A loop, a create handler and a sweep that can go on do go on *)
(* (they await promises that settle); users, failures and progress reports *)
(* are free.  The clock goes on as well: a row that keeps its timestamp,   *)
(* and a worker that stays dead, are eventually past every threshold, so   *)
(* the queries cannot miss them in all sweeps.                             *)
FindsRetry(s, j) ==
    /\ \E old \in SUBSET Jobs : j \in old /\ QueryRetries(s, old)
    /\ UNCHANGED <<loop, apiVars>>

FindsPending(s, j) ==
    /\ \E old \in SUBSET LongPending : j \in old /\ QueryPending(s, old)
    /\ UNCHANGED <<loop, apiVars>>

FindsStale(s, j) ==
    /\ \E old \in SUBSET LongQueued : j \in old /\ QueryStale(s, old)
    /\ UNCHANGED <<loop, apiVars>>

FindsStranded(s, j) ==
    /\ j \in LongQueued
    /\ InspectEntry(s, j, LongQueued)
    /\ UNCHANGED <<loop, apiVars>>

FindsDead(s, w) ==
    /\ w \in Suspects
    /\ DeclareDead(s, w)
    /\ UNCHANGED <<loop, apiVars>>

Fairness ==
    /\ \A l \in Loops : WF_vars(LoopProgress(l) /\ UNCHANGED <<sched, apiVars>>)
    /\ \A j \in Jobs : WF_vars(CreateProgress(j) /\ UNCHANGED <<loop, sched>>)
    /\ \A s \in Schedulers : WF_vars(Sweep(s) /\ UNCHANGED <<loop, apiVars>>)
    /\ \A s \in Schedulers, j \in Jobs :
          /\ SF_vars(FindsRetry(s, j))
          /\ SF_vars(FindsPending(s, j))
          /\ SF_vars(FindsStale(s, j))
          /\ SF_vars(FindsStranded(s, j))
    /\ \A s \in Schedulers, w \in Workers : SF_vars(FindsDead(s, w))

FairSpec == Spec /\ Fairness

-----------------------------------------------------------------------------
(* Every variable has its type: the row's columns, the counters of the     *)
(* Redis lists, and the locals of every loop, sweep and request.           *)
TypeOK == TypeOKStore /\ TypeOKLoops /\ TypeOKSched /\ TypeOKApi

(***************************************************************************)
(* Attempts.  A loop whose claim succeeded runs an attempt at the version  *)
(* the claim wrote; the attempt holds the job as long as the row is        *)
(* RUNNING at that version.                                                *)
(***************************************************************************)
Runs(l, j) == loop[l].pc = "running" /\ loop[l].job = j

Holds(l, j) ==
    /\ Runs(l, j)
    /\ job[j].status = "RUNNING"
    /\ job[j].version = loop[l].version

(* Two attempts at the same job never have the same version, however slow  *)
(* a loop is, however often the job is recovered behind its back, and even *)
(* though two loops of one process share a WORKER_ID and the API writes    *)
(* the status without touching the version: the version alone tells the    *)
(* attempts apart in the WHERE clause of the completion.                   *)
VersionsFenced ==
    \A j \in Jobs, l \in Loops :
        Runs(l, j) =>
            /\ loop[l].version <= job[j].version
            /\ \A m \in Loops \ {l} : Runs(m, j) => loop[m].version # loop[l].version

(* A result is accepted only from the latest attempt: when the completion  *)
(* transaction stores a result, no attempt claimed later is still running. *)
ResultFromLatestAttempt ==
    [][\A j \in result' \ result :
          \E l \in Loops :
              /\ Runs(l, j)
              /\ loop'[l].pc # "running"
              /\ \A m \in Loops \ {l} :
                    Runs(m, j) => loop[m].version < loop[l].version]_vars

(* A completion that committed stands: the catch block of the same loop,   *)
(* entered because LREM, the load counter or the JOB_COMPLETED event threw *)
(* after the commit, never turns the job into RETRYING or FAILED.          *)
CompletionStands ==
    [][\A j \in Jobs :
          job[j].status = "COMPLETED" =>
              job'[j].status \notin {"RETRYING", "FAILED"}]_vars

(* The retries of the worker and of the users share one column and one     *)
(* limit of the former: retryCount never passes MAX_RETRIES by more than   *)
(* the retries users asked for.                                            *)
RetryBudget ==
    \A j \in Jobs : job[j].retryCount <= MaxRetries + Cardinality(RetryRequests)

(* Two schedulers inside a sweep at the same time (the lease of the first  *)
(* has run out) never both carry the same wait of a job to the workers:    *)
(* between the conditional update and the LPUSH of processRetries,         *)
(* processStaleQueuedJobs and recoverProcessingQueue they hold different   *)
(* versions, so each version of the row is dispatched once.                *)
Dispatching(s, j) ==
    j \in sched[s].hand /\ sched[s].pc \in {"retryPush", "retryUndo", "stalePush", "procqPush"}

DispatchedOnce ==
    \A j \in Jobs, s, t \in Schedulers :
        s # t /\ Dispatching(s, j) /\ Dispatching(t, j) =>
            sched[s].version # sched[t].version

(***************************************************************************)
(* Recovery.                                                               *)
(***************************************************************************)
(* Somebody will act on the row.  A PENDING or RETRYING job, and a QUEUED  *)
(* one without a worker, is found by the next sweep's query.  A QUEUED job *)
(* with a workerId is invisible to both QUEUED queries, so its id must     *)
(* still be on its way to a loop.  A RUNNING job is found only through its *)
(* worker's death: while the worker lives, one of its loops must own it.   *)
Attended(j) ==
    CASE job[j].status = "QUEUED" ->
            \/ job[j].workerId = NoWorker
            \/ create[j] = "marked"
            \/ BeingClaimed(j)
      [] job[j].status = "RUNNING" ->
            \/ Dead(job[j].workerId)
            \/ \E l \in Loops :
                  /\ WorkerOf[l] = job[j].workerId
                  /\ JobOf(l) = j
                  /\ \/ Holds(l, j)
                     \/ loop[l].pc = "caught"
                     \/ /\ loop[l].pc \in {"retrying", "failing"}
                        /\ loop[l].version = job[j].version
      [] OTHER -> TRUE

(* No single failure, of a process or of a call, strands a job in a state  *)
(* none of the recovery paths looks at.                                    *)
NoJobStranded == \A j \in Jobs : Attended(j)

(* Every job the API has stored is eventually completed, failed or         *)
(* cancelled, and again after a user's retry, unless no worker is left.    *)
EventuallyFinished ==
    \A j \in Jobs :
        job[j].status \notin Finished \cup {"ABSENT"} ~>
            job[j].status \in Finished \/ \A w \in Workers : Dead(w)

(***************************************************************************)
(* What the documentation says and the code does not keep.                 *)
(***************************************************************************)
(* COMPLETED has no way out in the documented state machine.  cancelJob    *)
(* checks the status it read and then writes by id alone.                  *)
CompletedIsFinal ==
    [][\A j \in Jobs :
          job[j].status = "COMPLETED" => job'[j].status = "COMPLETED"]_vars

(* A loop whose attempt was taken from it cannot move the job of the       *)
(* attempt that replaced it.  The catch block reads the version afresh and *)
(* so compares nothing but the WORKER_ID, which the loops of a process     *)
(* share.                                                                  *)
ZombieCannotMoveJob ==
    [][\A j \in Jobs, l, m \in Loops :
          l # m /\ Holds(l, j) /\ loop'[m] # loop[m] =>
              job'[j].status = "RUNNING" \/ loop'[l] # loop[l]]_vars

(* Seen through its status and its result, a job that no user cancels      *)
(* takes the edges of the drawn state machine and three more, which        *)
(* JobLifecycle names: a user's retry of a FAILED job, and back from       *)
(* QUEUED to PENDING or RETRYING when the push to Redis fails.  Its result *)
(* is stored once, in the step in which it completes (worker.ts:98-129).   *)
Lifecycle == INSTANCE JobLifecycle WITH
    status <- [j \in Jobs |-> job[j].status], accepted <- result

ImplementsLifecycle == Lifecycle!Spec

=============================================================================
