---------------------------- MODULE JobRequests -----------------------------
(* services/api-service/src/services/job.service.ts: createJob with its       *)
(* idempotency key and the read requests, one step per call that is awaited,  *)
(* behind the gate of RateLimiter; and what others write meanwhile: the       *)
(* workers, the sweeps of the schedulers, and the users who cancel and retry. *)
(* JobPlatform models those in full; here queues and versions are left out,   *)
(* so that a conditional update may come at any time at which the status and  *)
(* the worker it asks for are there.                                          *)
EXTENDS RateLimiter, JobEvents, Faults

CONSTANTS
    Creates, Reads,         \* POST /jobs, and the GET requests
    KeyOf, NoKey,           \* idempotency key of a create request
    Asks,                   \* what users may ask of its job: "cancel", "retry"
    MaxRuns                 \* bound on the runs of each job

ASSUME JobRequestAssumption ==
    /\ Creates \cap Reads = {} /\ Creates \cup Reads \subseteq Requests
    /\ DOMAIN KeyOf = Creates /\ MaxRuns \in [Creates -> Nat]
    /\ Asks \in [Creates -> SUBSET {"cancel", "retry"}]

VARIABLES
    row,        \* row[j]: the Job and Result rows that create request j inserts
    closing,    \* closing[j]: outcomes that are committed and not yet announced
    asked,      \* asked[j]: what users were let go on with after a look at the status
    handler     \* handler[r]: where request r is, and its answer
requestVars == <<row, closing, asked, handler>>

NoJob == "none"
Status == {NoJob, "PENDING", "QUEUED", "RUNNING", "RETRYING", "COMPLETED", "FAILED", "CANCELLED"}
HandlerPc == {"waiting", "insert", "conflict", "created", "mark", "enqueue", "announce",
              "rollback", "latest", "events", "result", "replied", "lost"}
ReadKind == {"byId", "byKey", "result", "list"}

\* held: workerId is not null.  reason and result are the number of the run they
\* are of, 0 for null.
RowState == [status : Status, held : BOOLEAN, attempt : Nat, reason : Nat, result : Nat]
HandlerState == [at : HandlerPc, kind : ReadKind \cup {"create"}, job : Creates \cup {NoJob},
                 status : Status, result : Nat, code : {0, 200, 201, 400, 404},
                 threw : BOOLEAN]
Outcome == [type : Terminal, attempt : Nat \ {0}]

TypeOKRequests ==
    /\ row \in [Creates -> RowState]
    /\ closing \in [Creates -> SUBSET Outcome]
    /\ asked \in [Creates -> SUBSET {"cancel", "retry"}]
    /\ handler \in [Creates \cup Reads -> HandlerState]

InitRequests ==
    /\ row = [j \in Creates |-> [status |-> NoJob, held |-> FALSE, attempt |-> 0, reason |-> 0,
                                result |-> 0]]
    /\ closing = [j \in Creates |-> {}] /\ asked = [j \in Creates |-> {}]
    /\ handler = [r \in Creates \cup Reads |->
                    [at |-> "waiting", kind |-> "create", job |-> NoJob, status |-> NoJob,
                     result |-> 0, code |-> 0, threw |-> FALSE]]

Jobs == {j \in Creates : row[j].status # NoJob}
OfKey(key) == {j \in Jobs : key # NoKey /\ KeyOf[j] = key}

At(r, pc) == handler[r].at = pc
Starts(r) == At(r, "waiting") /\ LetIn(r)
Goto(r, pc) == handler' = [handler EXCEPT ![r].at = pc]
ReplyCreated(r, j) ==
    handler' = [handler EXCEPT ![r] = [@ EXCEPT !.at = "replied", !.job = j, !.code = 201]]
Reply(r, code) == handler' = [handler EXCEPT ![r] = [@ EXCEPT !.at = "replied", !.code = code]]
RowsUnchanged == UNCHANGED <<row, closing, asked>>

----------------------------------------------------------------------------
(* createJob                                                                  *)

FindByIdempotencyKey(r) ==
    /\ Starts(r) /\ KeyOf[r] # NoKey
    /\ \/ \E j \in OfKey(KeyOf[r]) : ReplyCreated(r, j)
       \/ OfKey(KeyOf[r]) = {} /\ Goto(r, "insert")
    /\ RowsUnchanged

\* A request without a key is not looked up first.
Inserts(r) == At(r, "insert") \/ (Starts(r) /\ KeyOf[r] = NoKey)

\* The column is unique: a second row of a key is refused with P2002.
Insert(r) ==
    /\ Inserts(r)
    /\ \/ OfKey(KeyOf[r]) # {} /\ Goto(r, "conflict") /\ UNCHANGED row
       \/ OfKey(KeyOf[r]) = {} /\ Goto(r, "created") /\ row' = [row EXCEPT ![r].status = "PENDING"]
    /\ UNCHANGED <<closing, asked>>

\* Mutant: the unique violation is an error like any other.
ConflictThrown(r) ==
    /\ At(r, "conflict") /\ Reply(r, 400)
    /\ RowsUnchanged

Conflict(r) ==
    /\ At(r, "conflict")
    /\ \E j \in OfKey(KeyOf[r]) : ReplyCreated(r, j)
    /\ RowsUnchanged

\* The JobEvent rows of a create request, JOB_CREATED and JOB_QUEUED, are read by
\* nothing modelled here; that writing them can fail is.
AnnounceCreated(r) == At(r, "created") /\ Goto(r, "mark") /\ RowsUnchanged

\* By id alone: it may come late and overwrite what others have made of the row.
MarkQueued(r) ==
    /\ At(r, "mark") /\ Goto(r, "enqueue")
    /\ row' = [row EXCEPT ![r].status = "QUEUED"] /\ UNCHANGED <<closing, asked>>

Enqueue(r) == At(r, "enqueue") /\ Goto(r, "announce") /\ RowsUnchanged

AnnounceQueued(r) == At(r, "announce") /\ ReplyCreated(r, r) /\ RowsUnchanged

WaitsUnheld(j) == row[j].status = "QUEUED" /\ ~row[j].held

Rollback(r) ==
    /\ At(r, "rollback") /\ Goto(r, "latest")
    /\ row' = [row EXCEPT ![r].status = IF WaitsUnheld(r) THEN "PENDING" ELSE @]
    /\ UNCHANGED <<closing, asked>>

ReplyLatest(r) == At(r, "latest") /\ ReplyCreated(r, r) /\ RowsUnchanged

----------------------------------------------------------------------------
(* getJob, getJobByIdempotencyKey, getJobResult, getUserJobs                  *)

Answers(r, kind, code) ==
    handler' = [handler EXCEPT ![r] = [@ EXCEPT !.at = "replied", !.kind = kind, !.code = code]]

List(r) == Starts(r) /\ Answers(r, "list", 200) /\ RowsUnchanged

\* No such job, or one of another user: always possible, for the client names it.
FindRefused(r) ==
    /\ Starts(r)
    /\ \E kind \in {"byId", "byKey", "result"} :
          Answers(r, kind, IF kind = "byKey" THEN 404 ELSE 400)
    /\ RowsUnchanged

\* findById or findByIdempotencyKey: the status of the answer is the one of now.
Find(r) ==
    /\ Starts(r)
    /\ \E j \in Jobs, kind \in {"byId", "byKey", "result"} :
          handler' = [handler EXCEPT ![r] =
                         [@ EXCEPT !.at = IF kind = "result" THEN "result" ELSE "events",
                                   !.kind = kind, !.job = j, !.status = row[j].status]]
    /\ RowsUnchanged

FindEvents(r) ==
    /\ At(r, "events")
    /\ IF handler[r].kind = "byKey" THEN Goto(r, "result") ELSE Reply(r, 200)
    /\ RowsUnchanged

\* The result on its own is an error when it is missing, beside the job it is left out.
GetResult(r) ==
    LET found == row[handler[r].job].result
    IN  /\ At(r, "result")
        /\ handler' = [handler EXCEPT ![r] =
                          [@ EXCEPT !.at = "replied", !.result = found,
                                    !.code = IF found = 0 /\ handler[r].kind = "result" THEN 400 ELSE 200]]
        /\ RowsUnchanged

----------------------------------------------------------------------------
(* A call of a handler throws, with or without effect: inside the inner try   *)
(* of createJob the row is rolled back, anywhere else the answer is an error. *)

Effects(r) ==
    CASE Inserts(r) /\ OfKey(KeyOf[r]) = {} -> {"PENDING"}
      [] At(r, "mark") -> {"QUEUED"}
      [] At(r, "rollback") /\ WaitsUnheld(r) -> {"PENDING"}
      [] OTHER -> {}

HandlerThrows(r) ==
    /\ Starts(r) \/ handler[r].at \notin {"waiting", "replied", "lost"}
    /\ Fault
    /\ IF r \in Creates
       THEN \E status \in {row[r].status} \cup Effects(r) : row' = [row EXCEPT ![r].status = status]
       ELSE UNCHANGED row
    /\ \E kind \in IF r \in Reads /\ Starts(r) THEN ReadKind ELSE {handler[r].kind} :
          handler' = [handler EXCEPT ![r] =
              IF @.at \in {"mark", "enqueue", "announce"} THEN [@ EXCEPT !.at = "rollback", !.threw = TRUE]
              ELSE [@ EXCEPT !.at = "replied", !.threw = TRUE, !.kind = kind,
                             !.code = IF kind = "byKey" THEN 404 ELSE 400]]
    /\ UNCHANGED <<closing, asked>>

\* The API process of these requests dies: what was written stays, no answer comes.
HandlersDie(dying) ==
    /\ handler' = [r \in Creates \cup Reads |->
                      IF r \in dying /\ LetIn(r) /\ ~At(r, "replied")
                      THEN [handler[r] EXCEPT !.at = "lost"] ELSE handler[r]]
    /\ RowsUnchanged

----------------------------------------------------------------------------
(* The workers.  A process may die at any point, with what it holds.          *)

Claim(j) ==
    /\ row[j].status = "QUEUED" /\ row[j].attempt < MaxRuns[j]
    /\ row' = [row EXCEPT ![j].status = "RUNNING", ![j].held = TRUE, ![j].attempt = @ + 1]
    /\ UNCHANGED <<closing, asked, handler>>

Ends(j, type, n) ==
    /\ closing' = [closing EXCEPT ![j] = @ \cup {[type |-> type, attempt |-> n]}]
    /\ UNCHANGED <<asked, handler>>

Running(j) == row[j].status = "RUNNING" /\ row[j].held

\* Mutant: the status first, the result in a second transaction.
CompleteTwice(j) ==
    \/ /\ Running(j) /\ row[j].result = 0
       /\ row' = [row EXCEPT ![j].status = "COMPLETED", ![j].held = FALSE, ![j].reason = 0]
       /\ UNCHANGED <<closing, asked, handler>>
    \/ /\ row[j].status = "COMPLETED" /\ row[j].result = 0
       /\ row' = [row EXCEPT ![j].result = row[j].attempt]
       /\ Ends(j, "JOB_COMPLETED", row[j].attempt)

\* Mutant: the result of a job that has one is written over.
CompleteAgain(j) ==
    /\ Running(j)
    /\ row' = [row EXCEPT ![j].status = "COMPLETED", ![j].held = FALSE, ![j].reason = 0,
                          ![j].result = row[j].attempt]
    /\ Ends(j, "JOB_COMPLETED", row[j].attempt)

\* The status and the result change in one transaction, which the unique index of the
\* Result table rolls back when the job has a result.
Complete(j) ==
    /\ Running(j) /\ row[j].result = 0
    /\ row' = [row EXCEPT ![j].status = "COMPLETED", ![j].held = FALSE, ![j].reason = 0,
                          ![j].result = row[j].attempt]
    /\ Ends(j, "JOB_COMPLETED", row[j].attempt)

\* The catch block asks for nothing but its worker, whatever the status says by now;
\* the worker may have claimed the job several times.
Fail(j) ==
    \E n \in 1 .. row[j].attempt :
        /\ row[j].held
        /\ row' = [row EXCEPT ![j].status = "FAILED", ![j].held = FALSE, ![j].reason = n]
        /\ Ends(j, "JOB_FAILED", n)

Postpone(j) ==
    \E n \in 1 .. row[j].attempt :
        /\ row[j].held
        /\ row' = [row EXCEPT ![j].status = "RETRYING", ![j].held = FALSE, ![j].reason = n]
        /\ UNCHANGED <<closing, asked, handler>>

\* The event carries the message of the attempt, which the worker still holds.
Announce(j) ==
    \E outcome \in closing[j] :
        /\ CreateEvent([job |-> j, type |-> outcome.type,
                        reason |-> IF outcome.type = "JOB_FAILED" THEN outcome.attempt ELSE 0])
        /\ closing' = [closing EXCEPT ![j] = @ \ {outcome}]
        /\ UNCHANGED <<row, asked, handler>>

\* The worker dies after the commit, or a call before the event throws.
AnnounceLost(j) ==
    /\ Fault
    /\ \E outcome \in closing[j] : closing' = [closing EXCEPT ![j] = @ \ {outcome}]
    /\ UNCHANGED <<row, asked, handler>>

----------------------------------------------------------------------------
(* The sweeps, and the users.                                                 *)

\* recoverWorkerJobs takes the job from a worker that counts as dead.
Recover(j) ==
    /\ Running(j)
    /\ row' = [row EXCEPT ![j].status = "RETRYING", ![j].held = FALSE]
    /\ UNCHANGED <<closing, asked, handler>>

\* processRetries and processPendingJobs; nothing but its age, and not what the
\* handler that created it is about to do, keeps a PENDING row from the latter.
Requeue(j) ==
    /\ row[j].status \in {"PENDING", "RETRYING"}
    /\ row' = [row EXCEPT ![j].status = "QUEUED"]
    /\ UNCHANGED <<closing, asked, handler>>

\* The enqueue after it failed.
Withdraw(j) ==
    /\ WaitsUnheld(j)
    /\ row' = [row EXCEPT ![j].status = "RETRYING"]
    /\ UNCHANGED <<closing, asked, handler>>

\* cancelJob and retryJob look at the status first.  What they write afterwards is by
\* id alone, and any number of such requests may have looked at the same time.
Look(j, what) ==
    /\ row[j].status \in IF what = "cancel" THEN {"PENDING", "QUEUED", "RETRYING"} ELSE {"FAILED"}
    /\ asked' = [asked EXCEPT ![j] = @ \cup {what}]
    /\ UNCHANGED <<row, closing, handler>>

CancelJob(j) ==
    /\ "cancel" \in asked[j]
    /\ row' = [row EXCEPT ![j].status = "CANCELLED"]
    /\ UNCHANGED <<closing, asked, handler>>

RetryJob(j) ==
    /\ "retry" \in asked[j]
    /\ row' = [row EXCEPT ![j].status = "PENDING", ![j].reason = 0]
    /\ UNCHANGED <<closing, asked, handler>>

----------------------------------------------------------------------------
CreateStep(r) ==
    \/ FindByIdempotencyKey(r) \/ Insert(r) \/ Conflict(r) \/ AnnounceCreated(r) \/ MarkQueued(r)
    \/ Enqueue(r) \/ AnnounceQueued(r) \/ Rollback(r) \/ ReplyLatest(r)

ReadStep(r) == List(r) \/ FindRefused(r) \/ Find(r) \/ FindEvents(r) \/ GetResult(r)

PlatformStep(j) ==
    \/ Claim(j) \/ Complete(j) \/ Fail(j) \/ Postpone(j) \/ Recover(j) \/ Requeue(j) \/ Withdraw(j)
    \/ (\E what \in Asks[j] : Look(j, what)) \/ CancelJob(j) \/ RetryJob(j)
=============================================================================
