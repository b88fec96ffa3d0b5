--------------------------- MODULE SchedulerSweeps ---------------------------
(***************************************************************************)
(* services/scheduler-service/src: the body of runScheduler's loop.  A     *)
(* sweep runs five phases in order; each phase queries Postgres or Redis   *)
(* once and then works through what the query returned, so it acts on a    *)
(* snapshot.  Leadership is looked at once before the sweep and never      *)
(* during it: several schedulers may be inside a sweep at the same time,   *)
(* once a lease of 15 s has run out under a slow one.                      *)
(*                                                                         *)
(* Time enters only through the sets a query takes: old is the set of jobs *)
(* whose createdAt, updatedAt or nextRetryAt is far enough in the past.    *)
(***************************************************************************)
EXTENDS JobStore

CONSTANT Schedulers

VARIABLE sched   \* sched[s]: where scheduler s is in its sweep, and its locals

(* monitor     between sweeps, and in monitorWorkers between two workers   *)
(* recover     recoverWorkerJobs          recoverDrop  before its LREM     *)
(* retry       processRetries             retryPush    before its LPUSH    *)
(* retryUndo   before the rollback                                         *)
(* pending     processPendingJobs         pendingMark  after its LPUSH     *)
(* stale       processStaleQueuedJobs     staleScan    ready lists scanned *)
(* staleClaim  no list held the job       stalePush    before its LPUSH    *)
(* procq       recoverProcessingQueue     procqDrop    before a lone LREM  *)
(* procqClaim  before its update          procqPush    before its LPUSH    *)
(* procqMoved  between LPUSH and LREM                                      *)
SchedPc == {"monitor", "recover", "recoverDrop", "retry", "retryPush", "retryUndo",
            "pending", "pendingMark", "stale", "staleScan", "staleClaim",
            "stalePush", "procq", "procqDrop", "procqClaim", "procqPush",
            "procqMoved"}

(* batch[j] is the version the query returned for j, 0 for a job it did    *)
(* not return; listed[j] the copies of j LRANGE returned that are still to *)
(* be looked at; at most one job is in hand, with the version it was read  *)
(* at.                                                                     *)
SchedState == [pc : SchedPc, worker : Workers \cup {NoWorker},
               batch : [Jobs -> Nat], listed : [Jobs -> Nat],
               hand : SUBSET Jobs, version : Nat]

Nothing == [j \in Jobs |-> 0]

Resting == [pc |-> "monitor", worker |-> NoWorker, batch |-> Nothing,
            listed |-> Nothing, hand |-> {}, version |-> 0]

TypeOKSched == sched \in [Schedulers -> SchedState]

InitSched == sched = [s \in Schedulers |-> Resting]

-----------------------------------------------------------------------------
(* A phase starts with what its query returned, takes one job in hand at a *)
(* time, and is over when nothing is left.                                 *)

Batch(S) == [j \in Jobs |-> IF j \in S THEN job[j].version ELSE 0]

InBatch(s) == {j \in Jobs : sched[s].batch[j] > 0}
InList(s) == {j \in Jobs : sched[s].listed[j] > 0}

Start(s, pc, S) ==
    sched' = [sched EXCEPT ![s] = [Resting EXCEPT !.pc = pc, !.batch = Batch(S)]]

Take(s, pc, j) ==
    sched' = [sched EXCEPT ![s].pc = pc, ![s].batch[j] = 0, ![s].hand = {j},
                           ![s].version = sched[s].batch[j]]

Skip(s, j) == sched' = [sched EXCEPT ![s].batch[j] = 0]

To(s, pc) == sched' = [sched EXCEPT ![s].pc = pc]

PutDown(s, pc) ==
    sched' = [sched EXCEPT ![s].pc = pc, ![s].hand = {}, ![s].version = 0]

(* The step runs for the job in hand.                                      *)
Holding(s, pc, j) == sched[s].pc = pc /\ j \in sched[s].hand

QueuedUnowned(j) == job[j].status = "QUEUED" /\ job[j].workerId = NoWorker

-----------------------------------------------------------------------------
(* monitorWorkers has counted MISS_THRESHOLD missed heartbeats of w.       *)
DeclareDead(s, w) ==
    /\ sched[s].pc = "monitor"
    /\ sched' = [sched EXCEPT ![s] =
                    [Resting EXCEPT
                        !.pc = "recover", !.worker = w,
                        !.batch = Batch({j \in Jobs : /\ job[j].status = "RUNNING"
                                                      /\ job[j].workerId = w})]]
    /\ UNCHANGED storeVars

RecoverMatches(s, j) ==
    /\ job[j].version = sched[s].batch[j]
    /\ job[j].status = "RUNNING"
    /\ job[j].workerId = sched[s].worker

RecoverJob(s, j) ==
    /\ sched[s].pc = "recover"
    /\ j \in InBatch(s)
    /\ \/ /\ RecoverMatches(s, j)
          /\ Write(j, Unassigned(j, "RETRYING"))
          /\ Take(s, "recoverDrop", j)
       \/ /\ ~RecoverMatches(s, j)
          /\ Skip(s, j)
          /\ UNCHANGED job
    /\ UNCHANGED <<result, ready, processing, failures>>

RecoverDrop(s, j) ==
    /\ Holding(s, "recoverDrop", j)
    /\ RemoveOne(j)
    /\ PutDown(s, "recover")
    /\ UNCHANGED <<job, result, ready, failures>>

RecoverDone(s) ==
    /\ sched[s].pc = "recover"
    /\ InBatch(s) = {}
    /\ sched' = [sched EXCEPT ![s] = Resting]
    /\ UNCHANGED storeVars

-----------------------------------------------------------------------------
(* processRetries.                                                         *)
QueryRetries(s, old) ==
    /\ sched[s].pc = "monitor"
    /\ Start(s, "retry", {j \in old : job[j].status = "RETRYING"})
    /\ UNCHANGED storeVars

(* Mutant: the retry is requeued by id alone.                              *)
RetryUnconditional(s, j) == j \in InBatch(s)

RetryMatches(s, j) ==
    /\ job[j].status = "RETRYING"
    /\ job[j].version = sched[s].batch[j]

RequeueRetry(s, j) ==
    /\ sched[s].pc = "retry"
    /\ j \in InBatch(s)
    /\ \/ /\ RetryMatches(s, j)
          /\ Write(j, Bumped(j, "QUEUED"))
          /\ Take(s, "retryPush", j)
       \/ /\ ~RetryMatches(s, j)
          /\ Skip(s, j)
          /\ UNCHANGED job
    /\ UNCHANGED <<result, ready, processing, failures>>

PushRetry(s, j) ==
    /\ Holding(s, "retryPush", j)
    /\ Push(j)
    /\ PutDown(s, "retry")
    /\ UNCHANGED <<job, result, processing, failures>>

PushRetryThrows(s, j) ==
    /\ Holding(s, "retryPush", j)
    /\ Failure("redis")
    /\ Push(j) \/ UNCHANGED ready
    /\ To(s, "retryUndo")
    /\ UNCHANGED <<job, result, processing>>

UndoMatches(s, j) ==
    /\ QueuedUnowned(j)
    /\ job[j].version = sched[s].version + 1

UndoRetry(s, j) ==
    /\ Holding(s, "retryUndo", j)
    /\ \/ UndoMatches(s, j) /\ Write(j, Bumped(j, "RETRYING"))
       \/ ~UndoMatches(s, j) /\ UNCHANGED job
    /\ PutDown(s, "retry")
    /\ UNCHANGED <<result, ready, processing, failures>>

(* The rollback itself throws and is swallowed.                            *)
UndoRetryThrows(s, j) ==
    /\ Holding(s, "retryUndo", j)
    /\ Failure("store")
    /\ PutDown(s, "retry")
    /\ UNCHANGED <<job, result, ready, processing>>

-----------------------------------------------------------------------------
(* processPendingJobs pushes first and updates the row second.             *)
QueryPending(s, old) ==
    /\ sched[s].pc = "retry"
    /\ InBatch(s) = {}
    /\ Start(s, "pending", {j \in old : job[j].status = "PENDING"})
    /\ UNCHANGED storeVars

PushPending(s, j) ==
    /\ sched[s].pc = "pending"
    /\ j \in InBatch(s)
    /\ Push(j)
    /\ Take(s, "pendingMark", j)
    /\ UNCHANGED <<job, result, processing, failures>>

(* The exception is logged and the next job is taken.                      *)
PushPendingThrows(s, j) ==
    /\ sched[s].pc = "pending"
    /\ j \in InBatch(s)
    /\ Failure("redis")
    /\ Push(j) \/ UNCHANGED ready
    /\ Skip(s, j)
    /\ UNCHANGED <<job, result, processing>>

PendingMatches(s, j) ==
    /\ job[j].status = "PENDING"
    /\ job[j].version = sched[s].version

MarkPending(s, j) ==
    /\ Holding(s, "pendingMark", j)
    /\ \/ PendingMatches(s, j) /\ Write(j, Bumped(j, "QUEUED"))
       \/ ~PendingMatches(s, j) /\ UNCHANGED job
    /\ PutDown(s, "pending")
    /\ UNCHANGED <<result, ready, processing, failures>>

(* So is one the update throws, with or without effect: the id stays       *)
(* pushed.                                                                 *)
MarkPendingThrows(s, j) ==
    /\ Holding(s, "pendingMark", j)
    /\ Failure("store")
    /\ \/ PendingMatches(s, j) /\ Write(j, Bumped(j, "QUEUED"))
       \/ UNCHANGED job
    /\ PutDown(s, "pending")
    /\ UNCHANGED <<result, ready, processing>>

-----------------------------------------------------------------------------
(* processStaleQueuedJobs.  isJobInAnyQueue asks one list after another,   *)
(* processing-queue last.                                                  *)
QueryStale(s, old) ==
    /\ sched[s].pc = "pending"
    /\ InBatch(s) = {}
    /\ Start(s, "stale", {j \in old : QueuedUnowned(j)})
    /\ UNCHANGED storeVars

ScanReady(s, j) ==
    /\ sched[s].pc = "stale"
    /\ j \in InBatch(s)
    /\ IF ready[j] > 0 THEN Skip(s, j) ELSE Take(s, "staleScan", j)
    /\ UNCHANGED storeVars

ScanProcessing(s, j) ==
    /\ Holding(s, "staleScan", j)
    /\ IF processing[j] > 0 THEN PutDown(s, "stale") ELSE To(s, "staleClaim")
    /\ UNCHANGED storeVars

StaleMatches(s, j) ==
    /\ QueuedUnowned(j)
    /\ job[j].version = sched[s].version

ClaimStale(s, j) ==
    /\ Holding(s, "staleClaim", j)
    /\ \/ /\ StaleMatches(s, j)
          /\ Write(j, Bumped(j, "QUEUED"))
          /\ To(s, "stalePush")
       \/ /\ ~StaleMatches(s, j)
          /\ PutDown(s, "stale")
          /\ UNCHANGED job
    /\ UNCHANGED <<result, ready, processing, failures>>

ClaimStaleThrows(s, j) ==
    /\ Holding(s, "staleClaim", j)
    /\ Failure("store")
    /\ \/ StaleMatches(s, j) /\ Write(j, Bumped(j, "QUEUED"))
       \/ UNCHANGED job
    /\ PutDown(s, "stale")
    /\ UNCHANGED <<result, ready, processing>>

PushStale(s, j) ==
    /\ Holding(s, "stalePush", j)
    /\ Push(j)
    /\ PutDown(s, "stale")
    /\ UNCHANGED <<job, result, processing, failures>>

PushStaleThrows(s, j) ==
    /\ Holding(s, "stalePush", j)
    /\ Failure("redis")
    /\ PutDown(s, "stale")
    /\ UNCHANGED <<job, result, ready, processing>>

-----------------------------------------------------------------------------
(* recoverProcessingQueue: one LRANGE, then one lookup per id it returned. *)
ListProcessing(s) ==
    /\ sched[s].pc = "stale"
    /\ InBatch(s) = {}
    /\ sched' = [sched EXCEPT ![s] = [Resting EXCEPT !.pc = "procq",
                                                     !.listed = processing]]
    /\ UNCHANGED storeVars

(* What is done with an entry is decided by the row findUnique returns:    *)
(* an entry of a finished or RETRYING job is dropped, one of a job that    *)
(* stayed QUEUED without a worker for too long is moved back.              *)
(* Mutant: entries of QUEUED jobs are left to the stale-job sweep, which   *)
(* takes an id in processing-queue for a dispatched one.                   *)
EntryVerdictNoQueued(j, old) ==
    IF job[j].status \in Finished \cup {"RETRYING"} THEN "procqDrop" ELSE "procq"

EntryVerdict(j, old) ==
    CASE job[j].status \in Finished \cup {"RETRYING"} -> "procqDrop"
      [] QueuedUnowned(j) /\ j \in old -> "procqClaim"
      [] OTHER -> "procq"

Inspected(s, j, pc, held, v) ==
    sched' = [sched EXCEPT ![s].pc = pc, ![s].listed[j] = @ - 1,
                           ![s].hand = held, ![s].version = v]

InspectEntry(s, j, old) ==
    /\ sched[s].pc = "procq"
    /\ j \in InList(s)
    /\ \/ EntryVerdict(j, old) = "procq" /\ Inspected(s, j, "procq", {}, 0)
       \/ EntryVerdict(j, old) = "procqDrop" /\ Inspected(s, j, "procqDrop", {j}, 0)
       \/ /\ EntryVerdict(j, old) = "procqClaim"
          /\ Inspected(s, j, "procqClaim", {j}, job[j].version)
    /\ UNCHANGED storeVars

DropEntry(s, j) ==
    /\ Holding(s, "procqDrop", j)
    /\ RemoveOne(j)
    /\ PutDown(s, "procq")
    /\ UNCHANGED <<job, result, ready, failures>>

ClaimEntry(s, j) ==
    /\ Holding(s, "procqClaim", j)
    /\ \/ /\ StaleMatches(s, j)
          /\ Write(j, Bumped(j, "QUEUED"))
          /\ To(s, "procqPush")
       \/ /\ ~StaleMatches(s, j)
          /\ PutDown(s, "procq")
          /\ UNCHANGED job
    /\ UNCHANGED <<result, ready, processing, failures>>

PushEntry(s, j) ==
    /\ Holding(s, "procqPush", j)
    /\ Push(j)
    /\ To(s, "procqMoved")
    /\ UNCHANGED <<job, result, processing, failures>>

RemoveEntry(s, j) ==
    /\ Holding(s, "procqMoved", j)
    /\ RemoveOne(j)
    /\ PutDown(s, "procq")
    /\ UNCHANGED <<job, result, ready, failures>>

EndSweep(s) ==
    /\ sched[s].pc = "procq"
    /\ InList(s) = {}
    /\ sched' = [sched EXCEPT ![s] = Resting]
    /\ UNCHANGED storeVars

-----------------------------------------------------------------------------
(* An exception no phase catches ends the sweep (runScheduler logs it and  *)
(* sleeps); so does the death of the scheduler process.                    *)
AbortSweep(s) ==
    /\ sched[s].pc # "monitor"
    /\ Failure("sweep")
    /\ sched' = [sched EXCEPT ![s] = Resting]
    /\ UNCHANGED <<job, result, ready, processing>>

SchedProgress(s) ==
    \/ RecoverDone(s)
    \/ ListProcessing(s)
    \/ EndSweep(s)
    \/ \E j \in Jobs :
          \/ RecoverJob(s, j)
          \/ RecoverDrop(s, j)
          \/ RequeueRetry(s, j)
          \/ PushRetry(s, j)
          \/ UndoRetry(s, j)
          \/ PushPending(s, j)
          \/ MarkPending(s, j)
          \/ ScanReady(s, j)
          \/ ScanProcessing(s, j)
          \/ ClaimStale(s, j)
          \/ PushStale(s, j)
          \/ DropEntry(s, j)
          \/ ClaimEntry(s, j)
          \/ PushEntry(s, j)
          \/ RemoveEntry(s, j)

SchedFailure(s) ==
    \/ AbortSweep(s)
    \/ \E j \in Jobs :
          \/ PushRetryThrows(s, j)
          \/ UndoRetryThrows(s, j)
          \/ PushPendingThrows(s, j)
          \/ MarkPendingThrows(s, j)
          \/ ClaimStaleThrows(s, j)
          \/ PushStaleThrows(s, j)

=============================================================================
