----------------------------- MODULE ApiRequests -----------------------------
(***************************************************************************)
(* services/api-service/src: the requests that write a job's row.          *)
(* createJob is a handler per job with one step per call it awaits;        *)
(* cancelJob and retryJob (a user's retry of a FAILED job) each read the   *)
(* row, check its status, and then write by id alone.                      *)
(*                                                                         *)
(* Left out: authentication, the idempotency key, reads, JobEvent rows; an *)
(* exception a JobEvent write throws is kept.                              *)
(***************************************************************************)
EXTENDS JobStore

CONSTANTS
    CancelRequests,   \* POST /jobs/:id/cancel requests
    RetryRequests     \* POST /jobs/:id/retry requests

ASSUME RequestAssumption == CancelRequests \cap RetryRequests = {}

Requests == CancelRequests \cup RetryRequests

VARIABLES
    create,    \* create[j]: how far the create request of j is
    request    \* request[r]: the jobs request r has checked and will write

apiVars == <<create, request>>

(* none      not received            inserted  the row exists, PENDING     *)
(* marked    the row says QUEUED     pushed    its id is in Redis          *)
(* undo      in the catch block      done      answered, or the API died   *)
CreatePc == {"none", "inserted", "marked", "pushed", "undo", "done"}

(* A request that has not been received, and one that is over, hold no     *)
(* job; fresh tells them apart.                                            *)
RequestState == [fresh : BOOLEAN, checked : SUBSET Jobs]

TypeOKApi ==
    /\ create \in [Jobs -> CreatePc]
    /\ request \in [Requests -> RequestState]

InitApi ==
    /\ create = [j \in Jobs |-> "none"]
    /\ request = [r \in Requests |-> [fresh |-> TRUE, checked |-> {}]]

Creating(j) == create[j] \in {"inserted", "marked", "pushed", "undo"}

-----------------------------------------------------------------------------
Step(j, from, to) ==
    /\ create[j] = from
    /\ create' = [create EXCEPT ![j] = to]
    /\ UNCHANGED request

CreateJob(j) ==
    /\ Step(j, "none", "inserted")
    /\ Write(j, NewRow)
    /\ UNCHANGED <<result, ready, processing, failures>>

(* updateStatus(QUEUED): by id alone, and the version stays.               *)
MarkQueued(j) ==
    /\ Step(j, "inserted", "marked")
    /\ Write(j, [job[j] EXCEPT !.status = "QUEUED"])
    /\ UNCHANGED <<result, ready, processing, failures>>

EnqueueJob(j) ==
    /\ Step(j, "marked", "pushed")
    /\ Push(j)
    /\ UNCHANGED <<job, result, processing, failures>>

Answer(j) ==
    /\ Step(j, "pushed", "done")
    /\ UNCHANGED storeVars

(* One of the calls of the try block throws, with or without effect.       *)
MarkQueuedThrows(j) ==
    /\ Step(j, "inserted", "undo")
    /\ Failure("store")
    /\ Write(j, [job[j] EXCEPT !.status = "QUEUED"]) \/ UNCHANGED job
    /\ UNCHANGED <<result, ready, processing>>

EnqueueThrows(j) ==
    /\ Step(j, "marked", "undo")
    /\ Failure("redis")
    /\ Push(j) \/ UNCHANGED ready
    /\ UNCHANGED <<job, result, processing>>

AnswerThrows(j) ==
    /\ Step(j, "pushed", "undo")
    /\ Failure("store")
    /\ UNCHANGED <<job, result, ready, processing>>

(* rollbackStatusIfQueued.                                                 *)
RollbackMatches(j) == job[j].status = "QUEUED" /\ job[j].workerId = NoWorker

UndoCreate(j) ==
    /\ Step(j, "undo", "done")
    /\ \/ RollbackMatches(j) /\ Write(j, Bumped(j, "PENDING"))
       \/ ~RollbackMatches(j) /\ UNCHANGED job
    /\ UNCHANGED <<result, ready, processing, failures>>

(* The API process dies, or JOB_CREATED or the rollback throws: the        *)
(* request ends where it is.                                               *)
AbandonCreate(j) ==
    /\ \E pc \in {"inserted", "marked", "pushed", "undo"} : Step(j, pc, "done")
    /\ Failure("api")
    /\ UNCHANGED <<job, result, ready, processing>>

-----------------------------------------------------------------------------
Check(r, j) ==
    /\ request[r].fresh
    /\ request' = [request EXCEPT ![r] = [fresh |-> FALSE, checked |-> {j}]]
    /\ UNCHANGED create

Finish(r, j) ==
    /\ j \in request[r].checked
    /\ request' = [request EXCEPT ![r].checked = {}]
    /\ UNCHANGED create

(* cancelJob: findById and the status check, then updateStatus.            *)
CheckCancel(r, j) ==
    /\ Check(r, j)
    /\ job[j].status \in {"PENDING", "QUEUED", "RETRYING"}
    /\ UNCHANGED storeVars

CancelJob(r, j) ==
    /\ Finish(r, j)
    /\ Write(j, [job[j] EXCEPT !.status = "CANCELLED"])
    /\ UNCHANGED <<result, ready, processing, failures>>

(* retryJob.                                                               *)
CheckRetry(r, j) ==
    /\ Check(r, j)
    /\ job[j].status = "FAILED"
    /\ UNCHANGED storeVars

RetryJob(r, j) ==
    /\ Finish(r, j)
    /\ Write(j, [job[j] EXCEPT !.status = "PENDING", !.retryCount = @ + 1])
    /\ UNCHANGED <<result, ready, processing, failures>>

-----------------------------------------------------------------------------
CreateProgress(j) ==
    \/ MarkQueued(j)
    \/ EnqueueJob(j)
    \/ Answer(j)
    \/ UndoCreate(j)

CreateFailure(j) ==
    \/ MarkQueuedThrows(j)
    \/ EnqueueThrows(j)
    \/ AnswerThrows(j)
    \/ AbandonCreate(j)

UserRequest ==
    \/ \E r \in CancelRequests, j \in Jobs : CheckCancel(r, j) \/ CancelJob(r, j)
    \/ \E r \in RetryRequests, j \in Jobs : CheckRetry(r, j) \/ RetryJob(r, j)

NextApi ==
    \/ \E j \in Jobs : CreateJob(j) \/ CreateProgress(j) \/ CreateFailure(j)
    \/ UserRequest

=============================================================================
