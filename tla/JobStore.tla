------------------------------ MODULE JobStore ------------------------------
(***************************************************************************)
(* The state the three services share: one Postgres row per job, the rows  *)
(* of the Result table, and the Redis lists of job ids.  Nothing here      *)
(* takes a step; the worker loops, the scheduler sweeps and the API        *)
(* requests are the modules that do, and JobPlatform composes them.        *)
(*                                                                         *)
(* The five lists a worker pops from (four priorities and main-queue) are  *)
(* one counter per job, because which job is popped first is not something *)
(* the properties tell apart; processing-queue is a second counter.        *)
(***************************************************************************)
EXTENDS Integers, FiniteSets

CONSTANTS
    Jobs,          \* job ids
    Workers,       \* worker processes, one WORKER_ID each
    NoWorker,      \* workerId = null
    MaxRetries,    \* MAX_RETRIES of worker.ts
    FailureModes,  \* the failures that may happen in this instance
    MaxFailures    \* how many of them, altogether

ASSUME StoreAssumption ==
    /\ NoWorker \notin Workers
    /\ MaxRetries \in Nat
    /\ MaxFailures \in Nat

VARIABLES
    job,         \* job[j]: the row of j in the Job table
    result,      \* the jobs that have a row in the Result table
    ready,       \* ready[j]: copies of j in the lists workers pop from
    processing,  \* processing[j]: copies of j in processing-queue
    failures     \* failures that have happened so far

storeVars == <<job, result, ready, processing, failures>>

-----------------------------------------------------------------------------
(* The row.  ABSENT stands for a job whose create request has not been     *)
(* served: its row does not exist yet.                                     *)

Status == {"ABSENT", "PENDING", "QUEUED", "RUNNING", "RETRYING",
           "COMPLETED", "FAILED", "CANCELLED"}

Finished == {"COMPLETED", "FAILED", "CANCELLED"}

(* A progress report is a percentage; only "none", "some" and "all" of it  *)
(* is told apart.                                                          *)
Percent == {0, 50, 100}

Row == [status : Status, version : Nat, workerId : Workers \cup {NoWorker},
        retryCount : Nat, progress : Percent]

AbsentRow == [status |-> "ABSENT", version |-> 0, workerId |-> NoWorker,
              retryCount |-> 0, progress |-> 0]

NewRow == [AbsentRow EXCEPT !.status = "PENDING", !.version = 1]

TypeOKStore ==
    /\ job \in [Jobs -> Row]
    /\ result \subseteq Jobs
    /\ ready \in [Jobs -> Nat]
    /\ processing \in [Jobs -> Nat]
    /\ failures \in 0 .. MaxFailures

InitStore ==
    /\ job = [j \in Jobs |-> AbsentRow]
    /\ result = {}
    /\ ready = [j \in Jobs |-> 0]
    /\ processing = [j \in Jobs |-> 0]
    /\ failures = 0

-----------------------------------------------------------------------------
(* Postgres.  Write(j, row) is the commit of one UPDATE.  A conditional    *)
(* update (updateMany with a version in its WHERE clause) is a Write under *)
(* the guard that the row still matches; Bumped is the data part of one.   *)

Write(j, row) == job' = [job EXCEPT ![j] = row]

Bumped(j, status) ==
    [job[j] EXCEPT !.status = status, !.version = @ + 1]

Unassigned(j, status) ==
    [job[j] EXCEPT !.status = status, !.workerId = NoWorker, !.version = @ + 1]

(* Redis.  LPUSH, RPOPLPUSH and LREM ... 1 on the copies of one job id.    *)

Push(j) == ready' = [ready EXCEPT ![j] = @ + 1]

PopPush(j) ==
    /\ ready[j] > 0
    /\ ready' = [ready EXCEPT ![j] = @ - 1]
    /\ processing' = [processing EXCEPT ![j] = @ + 1]

(* Mutant: LREM on an empty list counted down all the same.                *)
RemoveUnchecked(j) == processing' = [processing EXCEPT ![j] = @ - 1]

RemoveOne(j) ==
    processing' = [processing EXCEPT ![j] = IF @ > 0 THEN @ - 1 ELSE 0]

(* A failure of the environment: a process that dies, a call to Postgres   *)
(* or Redis that throws.                                                   *)
Failure(mode) ==
    /\ mode \in FailureModes
    /\ failures < MaxFailures
    /\ failures' = failures + 1

=============================================================================
