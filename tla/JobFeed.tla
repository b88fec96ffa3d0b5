------------------------------ MODULE JobFeed -------------------------------
(* Jobs as the dashboard and the lab see them: a status behind GET /jobs/:id, *)
(* and the events a worker writes and publishes once the status is committed  *)
(* (worker.ts, event.service.ts).  Their rows are read by nothing that is     *)
(* modelled with this; versions, queues and recovery are JobPlatform's.       *)
EXTENDS Naturals, FiniteSets, Faults

CONSTANTS
    Jobs,
    MaxAttempts             \* bound on the runs of each job

ASSUME FeedAssumption == MaxAttempts \in [Jobs -> Nat]

VARIABLES
    job,                    \* job[j]: the status in its row, and the run it is at
    held,                   \* held[j]: the statuses job j has ever had
    owed,                   \* owed[j]: events of job j that are still to be written
    outbox                  \* events whose PUBLISH is under way
feedVars == <<job, held, owed, outbox>>

Absent == "absent"
Asked == "asked"            \* a request that has no answer yet
Ended == {"COMPLETED", "FAILED"}
JobStatus == {Absent, "PENDING", "QUEUED", "RUNNING", "RETRYING"} \cup Ended
EventType == {"JOB_STARTED", "JOB_COMPLETED", "JOB_FAILED", "JOB_RETRY_SCHEDULED"}

Event == [job : Jobs, type : EventType, attempt : Nat]

TypeOKFeed ==
    /\ job \in [Jobs -> [status : JobStatus, attempt : Nat]]
    /\ held \in [Jobs -> SUBSET JobStatus]
    /\ owed \in [Jobs -> SUBSET Event] /\ \A j \in Jobs : \A e \in owed[j] : e.job = j
    /\ outbox \subseteq Event

\* The jobs of present are waiting in a queue already.
InitFeed(present) ==
    /\ outbox = {}
    /\ job = [j \in Jobs |-> [status |-> IF j \in present THEN "QUEUED" ELSE Absent, attempt |-> 0]]
    /\ held = [j \in Jobs |-> {job[j].status}]
    /\ owed = [j \in Jobs |-> {}]

EventOf(j, type, n) == [job |-> j, type |-> type, attempt |-> n]

Becomes(j, status) ==
    /\ job' = [job EXCEPT ![j].status = status]
    /\ held' = [held EXCEPT ![j] = @ \cup {status}]

Submitted(j) == job[j].status = Absent /\ Becomes(j, "QUEUED") /\ UNCHANGED <<owed, outbox>>

Claimed(j) ==
    LET n == job[j].attempt + 1
    IN  /\ job[j].status = "QUEUED" /\ n <= MaxAttempts[j]
        /\ job' = [job EXCEPT ![j] = [status |-> "RUNNING", attempt |-> n]]
        /\ held' = [held EXCEPT ![j] = @ \cup {"RUNNING"}]
        /\ owed' = [owed EXCEPT ![j] = @ \cup {EventOf(j, "JOB_STARTED", n)}]
        /\ UNCHANGED outbox

\* A worker waits for its first event to be written before it runs the job.
Finished(j, status) ==
    LET n == job[j].attempt
        type == CASE status = "COMPLETED" -> "JOB_COMPLETED"
                  [] status = "FAILED" -> "JOB_FAILED"
                  [] OTHER -> "JOB_RETRY_SCHEDULED"
    IN  /\ job[j].status = "RUNNING" /\ EventOf(j, "JOB_STARTED", n) \notin owed[j]
        /\ Becomes(j, status)
        /\ owed' = [owed EXCEPT ![j] = @ \cup {EventOf(j, type, n)}]
        /\ UNCHANGED outbox

Requeued(j) ==
    /\ job[j].status \in {"PENDING", "RETRYING"} /\ Becomes(j, "QUEUED")
    /\ UNCHANGED <<owed, outbox>>

RetriedByUser(j) ==
    /\ job[j].status = "FAILED" /\ Becomes(j, "PENDING")
    /\ UNCHANGED <<owed, outbox>>

Written(j) ==
    \E e \in owed[j] :
        /\ owed' = [owed EXCEPT ![j] = @ \ {e}] /\ outbox' = outbox \cup {e}
        /\ UNCHANGED <<job, held>>

\* The publishes of one worker keep their order.
NextToPublish ==
    {e \in outbox : e.type # "JOB_STARTED" => EventOf(e.job, "JOB_STARTED", e.attempt) \notin outbox}
Published(e) ==
    e \in NextToPublish /\ outbox' = outbox \ {e} /\ UNCHANGED <<job, held, owed>>

JobStep(j) ==
    \/ Claimed(j) \/ Requeued(j) \/ Written(j)
    \/ \E status \in {"COMPLETED", "FAILED", "RETRYING"} : Finished(j, status)
=============================================================================
