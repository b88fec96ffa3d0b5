----------------------------- MODULE WorkerLoops -----------------------------
(***************************************************************************)
(* services/worker-service/src/worker.ts.  A worker process runs           *)
(* WORKER_CONCURRENCY loops; each calls processOneJob over and over and    *)
(* all of them use the one WORKER_ID of the process.  Every await of       *)
(* processOneJob that touches Postgres or Redis is a step of its own, so   *)
(* the other loops, the schedulers and the API run in between.             *)
(*                                                                         *)
(* Left out: the load counter of the worker's key in Redis, metrics,       *)
(* JobEvent rows; an exception one of those calls throws is kept.          *)
(***************************************************************************)
EXTENDS JobStore

CONSTANTS
    Loops,     \* the loops of all worker processes
    WorkerOf,  \* WorkerOf[l]: the process, hence the WORKER_ID, of loop l
    Reports,   \* the percentages job handlers report
    NoJob      \* the loop holds no job

ASSUME LoopAssumption ==
    /\ WorkerOf \in [Loops -> Workers]
    /\ Reports \subseteq Percent
    /\ NoJob \notin Jobs

VARIABLE loop    \* loop[l]: where loop l is in processOneJob, and its locals

(* idle        in waitForJob                                               *)
(* popped      has a job id, before findUnique                             *)
(* found       the row said QUEUED, before the claim                       *)
(* running     claimed; in processJob and up to the completion transaction *)
(* completed   the completion committed, before LREM                       *)
(* caught      in the catch block, before findUnique                       *)
(* retrying    before the RETRYING update      failing  before FAILED      *)
(* released    RETRYING or FAILED written, before LREM                     *)
(* dead        the process has crashed                                     *)
LoopPc == {"idle", "popped", "found", "running", "completed", "caught",
           "retrying", "failing", "released", "dead"}

At(pc, j, v) == [pc |-> pc, job |-> j, version |-> v]

IdleLoop == At("idle", NoJob, 0)
DeadLoop == At("dead", NoJob, 0)

LoopState == {IdleLoop, DeadLoop} \cup
             [pc : LoopPc \ {"idle", "dead"}, job : Jobs, version : Nat]

TypeOKLoops == loop \in [Loops -> LoopState]

InitLoops == loop = [l \in Loops |-> IdleLoop]

Goto(l, state) == loop' = [loop EXCEPT ![l] = state]

JobOf(l) == loop[l].job
RowOf(l) == job[loop[l].job]

-----------------------------------------------------------------------------
(* waitForJob: one RPOPLPUSH that returned an id.                          *)
WaitForJob(l, j) ==
    /\ loop[l].pc = "idle"
    /\ PopPush(j)
    /\ Goto(l, At("popped", j, 0))
    /\ UNCHANGED <<job, result, failures>>

(* findUnique; a job that is not QUEUED is skipped and its id stays in     *)
(* processing-queue.                                                       *)
FindJob(l) ==
    /\ loop[l].pc = "popped"
    /\ Goto(l, IF RowOf(l).status = "QUEUED"
               THEN At("found", JobOf(l), RowOf(l).version)
               ELSE IdleLoop)
    /\ UNCHANGED storeVars

ClaimMatches(l) ==
    /\ RowOf(l).version = loop[l].version
    /\ RowOf(l).status = "QUEUED"

(* Mutant: the claim forgets to increment the version.                     *)
ClaimedSameVersion(l) ==
    [RowOf(l) EXCEPT !.status = "RUNNING", !.workerId = WorkerOf[l], !.progress = 0]

ClaimedRow(l) ==
    [RowOf(l) EXCEPT !.status = "RUNNING", !.workerId = WorkerOf[l],
                     !.progress = 0, !.version = @ + 1]

Claim(l) ==
    /\ loop[l].pc = "found"
    /\ \/ /\ ClaimMatches(l)
          /\ Write(JobOf(l), ClaimedRow(l))
          /\ Goto(l, At("running", JobOf(l), loop[l].version + 1))
       \/ /\ ~ClaimMatches(l)
          /\ Goto(l, IdleLoop)
          /\ UNCHANGED job
    /\ UNCHANGED <<result, ready, processing, failures>>

(* processJob: updateProgress writes the percentage by id alone.           *)
ReportProgress(l, p) ==
    /\ loop[l].pc = "running"
    /\ Write(JobOf(l), [RowOf(l) EXCEPT !.progress = p])
    /\ UNCHANGED <<result, ready, processing, failures, loop>>

(* The completion transaction: a conditional update, then the Result row.  *)
(* A second Result for the job violates the unique index: the transaction  *)
(* rolls back and throws.                                                  *)
(* Mutant: the completion trusts workerId and status.                      *)
CompletionAnyVersion(l) ==
    /\ RowOf(l).workerId = WorkerOf[l]
    /\ RowOf(l).status = "RUNNING"

CompletionMatches(l) ==
    /\ RowOf(l).version = loop[l].version
    /\ RowOf(l).workerId = WorkerOf[l]
    /\ RowOf(l).status = "RUNNING"

(* Mutant: the completed row keeps its workerId.                           *)
CompletedKeepsWorker(l) == [Bumped(JobOf(l), "COMPLETED") EXCEPT !.progress = 100]

CompletedRow(l) == [Unassigned(JobOf(l), "COMPLETED") EXCEPT !.progress = 100]

CommitCompletion(l) ==
    /\ CompletionMatches(l)
    /\ JobOf(l) \notin result
    /\ Write(JobOf(l), CompletedRow(l))
    /\ result' = result \cup {JobOf(l)}

Complete(l) ==
    /\ loop[l].pc = "running"
    /\ \/ /\ CommitCompletion(l)
          /\ Goto(l, At("completed", JobOf(l), 0))
       \/ /\ ~CompletionMatches(l)
          /\ Goto(l, IdleLoop)
          /\ UNCHANGED <<job, result>>
       \/ /\ CompletionMatches(l)
          /\ JobOf(l) \in result
          /\ Goto(l, At("caught", JobOf(l), 0))
          /\ UNCHANGED <<job, result>>
    /\ UNCHANGED <<ready, processing, failures>>

(* LREM after the completion.                                              *)
FinishCompleted(l) ==
    /\ loop[l].pc = "completed"
    /\ RemoveOne(JobOf(l))
    /\ Goto(l, IdleLoop)
    /\ UNCHANGED <<job, result, ready, failures>>

(* processJob throws.                                                      *)
HandlerThrows(l) ==
    /\ loop[l].pc = "running"
    /\ Goto(l, At("caught", JobOf(l), 0))
    /\ UNCHANGED storeVars

-----------------------------------------------------------------------------
(* The catch block: it reads the row afresh and takes over its version.    *)

(* Mutant: retryCount compared with MAX_RETRIES by <= .                    *)
HandleFailureOffByOne(l) ==
    /\ loop[l].pc = "caught"
    /\ Goto(l, At(IF RowOf(l).retryCount <= MaxRetries THEN "retrying" ELSE "failing",
                  JobOf(l), RowOf(l).version))
    /\ UNCHANGED storeVars

HandleFailure(l) ==
    /\ loop[l].pc = "caught"
    /\ Goto(l, At(IF RowOf(l).retryCount < MaxRetries THEN "retrying" ELSE "failing",
                  JobOf(l), RowOf(l).version))
    /\ UNCHANGED storeVars

(* Mutant: the failure update trusts the version it has just read.         *)
FailureAnyWorker(l) == RowOf(l).version = loop[l].version

FailureMatches(l) ==
    /\ RowOf(l).version = loop[l].version
    /\ RowOf(l).workerId = WorkerOf[l]

RetryingRow(l) == [Unassigned(JobOf(l), "RETRYING") EXCEPT !.retryCount = @ + 1]

ScheduleRetry(l) ==
    /\ loop[l].pc = "retrying"
    /\ \/ /\ FailureMatches(l)
          /\ Write(JobOf(l), RetryingRow(l))
          /\ Goto(l, At("released", JobOf(l), 0))
       \/ /\ ~FailureMatches(l)
          /\ Goto(l, IdleLoop)
          /\ UNCHANGED job
    /\ UNCHANGED <<result, ready, processing, failures>>

GiveUp(l) ==
    /\ loop[l].pc = "failing"
    /\ \/ /\ FailureMatches(l)
          /\ Write(JobOf(l), Unassigned(JobOf(l), "FAILED"))
          /\ Goto(l, At("released", JobOf(l), 0))
       \/ /\ ~FailureMatches(l)
          /\ Goto(l, IdleLoop)
          /\ UNCHANGED job
    /\ UNCHANGED <<result, ready, processing, failures>>

FinishReleased(l) ==
    /\ loop[l].pc = "released"
    /\ RemoveOne(JobOf(l))
    /\ Goto(l, IdleLoop)
    /\ UNCHANGED <<job, result, ready, failures>>

-----------------------------------------------------------------------------
(* Failures.  A call that throws may have taken effect before its answer   *)
(* was lost.  Inside the try block it leads to the catch block; before the *)
(* try block and inside the catch block it leaves processOneJob, and       *)
(* runWorkerLoop starts the next round.                                    *)

ClaimThrows(l) ==
    /\ loop[l].pc = "found"
    /\ Failure("store")
    /\ \/ ClaimMatches(l) /\ Write(JobOf(l), ClaimedRow(l))
       \/ UNCHANGED job
    /\ Goto(l, At("caught", JobOf(l), 0))
    /\ UNCHANGED <<result, ready, processing>>

CompleteThrows(l) ==
    /\ loop[l].pc = "running"
    /\ Failure("store")
    /\ CommitCompletion(l)
    /\ Goto(l, At("caught", JobOf(l), 0))
    /\ UNCHANGED <<ready, processing>>

FinishThrows(l) ==
    /\ loop[l].pc = "completed"
    /\ Failure("store")
    /\ RemoveOne(JobOf(l)) \/ UNCHANGED processing
    /\ Goto(l, At("caught", JobOf(l), 0))
    /\ UNCHANGED <<job, result, ready>>

FindThrows(l) ==
    /\ loop[l].pc = "popped"
    /\ Failure("store")
    /\ Goto(l, IdleLoop)
    /\ UNCHANGED <<job, result, ready, processing>>

(* The lookup or the update of the catch block throws before any effect,   *)
(* or the LREM after it.                                                   *)
CatchThrows(l) ==
    /\ loop[l].pc \in {"caught", "retrying", "failing", "released"}
    /\ Failure(IF loop[l].pc = "released" THEN "store" ELSE "catch")
    /\ Goto(l, IdleLoop)
    /\ UNCHANGED <<job, result, ready, processing>>

(* The process dies with all its loops.  A restarted process has a new     *)
(* random WORKER_ID: it is another member of Workers.                      *)
Crash(w) ==
    /\ \E l \in Loops : WorkerOf[l] = w /\ loop[l].pc # "dead"
    /\ Failure("crash")
    /\ loop' = [l \in Loops |-> IF WorkerOf[l] = w THEN DeadLoop ELSE loop[l]]
    /\ UNCHANGED <<job, result, ready, processing>>

-----------------------------------------------------------------------------
(* What a loop that is not crashed does next, whatever fails or not.       *)
LoopProgress(l) ==
    \/ \E j \in Jobs : WaitForJob(l, j)
    \/ FindJob(l)
    \/ Claim(l)
    \/ Complete(l)
    \/ FinishCompleted(l)
    \/ HandlerThrows(l)
    \/ HandleFailure(l)
    \/ ScheduleRetry(l)
    \/ GiveUp(l)
    \/ FinishReleased(l)

LoopFailure(l) ==
    \/ ClaimThrows(l)
    \/ CompleteThrows(l)
    \/ FinishThrows(l)
    \/ FindThrows(l)
    \/ CatchThrows(l)

NextLoops ==
    \/ \E l \in Loops : LoopProgress(l) \/ LoopFailure(l)
    \/ \E l \in Loops, p \in Reports : ReportProgress(l, p)
    \/ \E w \in Workers : Crash(w)

Dead(w) == \A l \in Loops : WorkerOf[l] = w => loop[l].pc = "dead"

=============================================================================
