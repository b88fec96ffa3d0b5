------------------------- MODULE JobPlatform_proofs --------------------------
(***************************************************************************)
(* The safety of JobPlatform, for any jobs, workers, loops, schedulers,    *)
(* requests and bounds.  Type correctness comes first; its lemmas follow   *)
(* the modules: what the helpers of each keep typed, then its steps, then  *)
(* the theorem.  IInv is the inductive invariant of the rest.  Three       *)
(* lemmas say what a step may do: RowSteps to a row, LoopSteps to a loop   *)
(* that runs an attempt, SweepSteps to a sweep that dispatches a job.      *)
(* What follows from them needs no look at the single actions.             *)
(* The retry budget, recovery and the refinement of JobLifecycle come last.*)
(***************************************************************************)
EXTENDS JobPlatform, TLAPS, FiniteSetTheorems

-----------------------------------------------------------------------------
(* JobStore.                                                               *)

(* An update of one column with a value of its type gives a row.           *)
LEMMA RowUpdate ==
    \A r \in Row :
       /\ \A st \in Status : [r EXCEPT !.status = st] \in Row
       /\ \A c \in Nat : [r EXCEPT !.retryCount = c] \in Row
       /\ \A p \in Percent : [r EXCEPT !.progress = p] \in Row
BY DEF Row

LEMMA JobRow ==
    ASSUME TypeOKStore, NEW j \in Jobs
    PROVE  /\ job[j] \in Row
           /\ job[j].version \in Nat
           /\ job[j].version + 1 \in Nat
           /\ job[j].retryCount + 1 \in Nat
BY DEF TypeOKStore, Row

LEMMA BumpedType ==
    ASSUME TypeOKStore, NEW j \in Jobs, NEW st \in Status
    PROVE  Bumped(j, st) \in Row
BY JobRow DEF Bumped, Row

LEMMA UnassignedType ==
    ASSUME TypeOKStore, NEW j \in Jobs, NEW st \in Status
    PROVE  Unassigned(j, st) \in Row
BY JobRow DEF Unassigned, Row

LEMMA WriteType ==
    ASSUME TypeOKStore, NEW j \in Jobs, NEW row \in Row, Write(j, row)
    PROVE  job' \in [Jobs -> Row]
BY DEF TypeOKStore, Write

LEMMA PushType ==
    ASSUME TypeOKStore, NEW j \in Jobs, Push(j)
    PROVE  ready' \in [Jobs -> Nat]
BY DEF TypeOKStore, Push

LEMMA PopPushType ==
    ASSUME TypeOKStore, NEW j \in Jobs, PopPush(j)
    PROVE  ready' \in [Jobs -> Nat] /\ processing' \in [Jobs -> Nat]
BY DEF TypeOKStore, PopPush

LEMMA RemoveOneType ==
    ASSUME TypeOKStore, NEW j \in Jobs, RemoveOne(j)
    PROVE  processing' \in [Jobs -> Nat]
BY DEF TypeOKStore, RemoveOne

LEMMA FailureType ==
    ASSUME TypeOKStore, NEW mode, Failure(mode)
    PROVE  failures' \in 0 .. MaxFailures
BY StoreAssumption DEF TypeOKStore, Failure

-----------------------------------------------------------------------------
(* WorkerLoops.                                                            *)

LEMMA GotoType ==
    ASSUME TypeOKLoops, NEW l \in Loops, NEW state \in LoopState, Goto(l, state)
    PROVE  TypeOKLoops'
BY DEF TypeOKLoops, Goto

LEMMA AtType ==
    ASSUME NEW j \in Jobs, NEW v \in Nat, NEW pc \in LoopPc \ {"idle", "dead"}
    PROVE  At(pc, j, v) \in LoopState
BY DEF At, LoopState

LEMMA RestType == IdleLoop \in LoopState /\ DeadLoop \in LoopState
BY DEF LoopState

(* A loop that is neither idle nor dead has a job in hand.                 *)
LEMMA BusyLoop ==
    ASSUME TypeOKLoops, NEW l \in Loops, loop[l].pc \notin {"idle", "dead"}
    PROVE  /\ JobOf(l) \in Jobs
           /\ loop[l].version \in Nat
           /\ loop[l].version + 1 \in Nat
BY DEF TypeOKLoops, LoopState, JobOf, IdleLoop, DeadLoop, At

(* The rows a loop writes.                                                 *)
LEMMA LoopRows ==
    ASSUME TypeOKStore, TypeOKLoops, NEW l \in Loops,
           loop[l].pc \notin {"idle", "dead"}
    PROVE  /\ RowOf(l) \in Row
           /\ ClaimedRow(l) \in Row
           /\ CompletedRow(l) \in Row
           /\ RetryingRow(l) \in Row
           /\ Unassigned(JobOf(l), "FAILED") \in Row
           /\ \A p \in Percent : [RowOf(l) EXCEPT !.progress = p] \in Row
<1>1. JobOf(l) \in Jobs /\ RowOf(l) = job[JobOf(l)] /\ RowOf(l) \in Row
  BY BusyLoop, JobRow DEF RowOf, JobOf
<1>2. WorkerOf[l] \in Workers
  BY LoopAssumption
<1>3. {"RUNNING", "COMPLETED", "RETRYING", "FAILED"} \subseteq Status
  BY DEF Status
<1>4. ClaimedRow(l) \in Row
  <2>1. /\ RowOf(l).version + 1 \in Nat
        /\ "RUNNING" \in Status
        /\ 0 \in Percent
        /\ WorkerOf[l] \in Workers \cup {NoWorker}
    BY <1>1, <1>2, <1>3, JobRow DEF Percent
  <2>. QED BY <1>1, <2>1 DEF ClaimedRow, Row
<1>5. /\ Unassigned(JobOf(l), "COMPLETED") \in Row
      /\ Unassigned(JobOf(l), "RETRYING") \in Row
      /\ Unassigned(JobOf(l), "FAILED") \in Row
  BY <1>1, <1>3, UnassignedType
<1>6. CompletedRow(l) \in Row
  <2>1. 100 \in Percent
    BY DEF Percent
  <2>. QED BY <1>5, <2>1, RowUpdate DEF CompletedRow
<1>7. RetryingRow(l) \in Row
  BY <1>5 DEF RetryingRow, Row
<1>8. \A p \in Percent : [RowOf(l) EXCEPT !.progress = p] \in Row
  BY <1>1 DEF Row
<1>. QED BY <1>1, <1>4, <1>5, <1>6, <1>7, <1>8

(* Every step of a loop.                                                   *)
LEMMA LoopProgressType ==
    ASSUME TypeOKStore, TypeOKLoops, NEW l \in Loops, LoopProgress(l)
    PROVE  TypeOKStore' /\ TypeOKLoops'
<1>. USE RestType DEF LoopPc
<1>1. CASE \E j \in Jobs : WaitForJob(l, j)
  <2>1. PICK j \in Jobs : WaitForJob(l, j)
    BY <1>1
  <2>2. TypeOKLoops'
    BY <2>1, AtType, GotoType DEF WaitForJob
  <2>3. TypeOKStore'
    BY <2>1, PopPushType DEF WaitForJob, TypeOKStore
  <2>. QED BY <2>2, <2>3
<1>2. CASE FindJob(l)
  <2>1. JobOf(l) \in Jobs /\ RowOf(l).version \in Nat
    BY <1>2, BusyLoop, JobRow DEF FindJob, RowOf, JobOf
  <2>2. TypeOKLoops'
    BY <1>2, <2>1, AtType, GotoType DEF FindJob
  <2>. QED BY <1>2, <2>2 DEF FindJob, TypeOKStore, storeVars
<1>3. CASE Claim(l)
  <2>1. loop[l].pc \notin {"idle", "dead"}
    BY <1>3 DEF Claim
  <2>2. TypeOKLoops'
    BY <1>3, <2>1, BusyLoop, AtType, GotoType DEF Claim
  <2>3. job' \in [Jobs -> Row]
    BY <1>3, <2>1, BusyLoop, LoopRows, WriteType DEF Claim, TypeOKStore
  <2>. QED BY <1>3, <2>2, <2>3 DEF Claim, TypeOKStore
<1>4. CASE Complete(l)
  <2>1. loop[l].pc \notin {"idle", "dead"}
    BY <1>4 DEF Complete
  <2>2. TypeOKLoops'
    BY <1>4, <2>1, BusyLoop, AtType, GotoType DEF Complete
  <2>3. job' \in [Jobs -> Row] /\ result' \subseteq Jobs
    BY <1>4, <2>1, BusyLoop, LoopRows, WriteType DEF Complete, CommitCompletion, TypeOKStore
  <2>. QED BY <1>4, <2>2, <2>3 DEF Complete, TypeOKStore
<1>5. CASE FinishCompleted(l) \/ FinishReleased(l)
  <2>1. JobOf(l) \in Jobs
    BY <1>5, BusyLoop DEF FinishCompleted, FinishReleased
  <2>2. TypeOKLoops'
    BY <1>5, GotoType DEF FinishCompleted, FinishReleased
  <2>3. TypeOKStore'
    BY <1>5, <2>1, RemoveOneType DEF FinishCompleted, FinishReleased, TypeOKStore
  <2>. QED BY <2>2, <2>3
<1>6. CASE HandlerThrows(l)
  <2>1. JobOf(l) \in Jobs
    BY <1>6, BusyLoop DEF HandlerThrows
  <2>2. TypeOKLoops'
    BY <1>6, <2>1, AtType, GotoType DEF HandlerThrows
  <2>. QED BY <1>6, <2>2 DEF HandlerThrows, TypeOKStore, storeVars
<1>7. CASE HandleFailure(l)
  <2>1. JobOf(l) \in Jobs /\ RowOf(l).version \in Nat
    BY <1>7, BusyLoop, JobRow DEF HandleFailure, RowOf, JobOf
  <2>2. TypeOKLoops'
    BY <1>7, <2>1, AtType, GotoType DEF HandleFailure
  <2>. QED BY <1>7, <2>2 DEF HandleFailure, TypeOKStore, storeVars
<1>8. CASE ScheduleRetry(l) \/ GiveUp(l)
  <2>1. loop[l].pc \notin {"idle", "dead"}
    BY <1>8 DEF ScheduleRetry, GiveUp
  <2>2. TypeOKLoops'
    BY <1>8, <2>1, BusyLoop, AtType, GotoType DEF ScheduleRetry, GiveUp
  <2>3. job' \in [Jobs -> Row]
    BY <1>8, <2>1, BusyLoop, LoopRows, WriteType DEF ScheduleRetry, GiveUp, TypeOKStore
  <2>. QED BY <1>8, <2>2, <2>3 DEF ScheduleRetry, GiveUp, TypeOKStore
<1>. QED BY <1>1, <1>2, <1>3, <1>4, <1>5, <1>6, <1>7, <1>8 DEF LoopProgress

LEMMA LoopFailureType ==
    ASSUME TypeOKStore, TypeOKLoops, NEW l \in Loops, LoopFailure(l)
    PROVE  TypeOKStore' /\ TypeOKLoops'
<1>. USE RestType DEF LoopPc
<1>1. loop[l].pc \notin {"idle", "dead"}
  BY DEF LoopFailure, ClaimThrows, CompleteThrows, FinishThrows, FindThrows, CatchThrows
<1>2. failures' \in 0 .. MaxFailures
  BY FailureType
  DEF LoopFailure, ClaimThrows, CompleteThrows, FinishThrows, FindThrows, CatchThrows
<1>3. JobOf(l) \in Jobs
  BY <1>1, BusyLoop
<1>4. TypeOKLoops'
  BY <1>3, AtType, GotoType
  DEF LoopFailure, ClaimThrows, CompleteThrows, FinishThrows, FindThrows, CatchThrows
<1>5. job' \in [Jobs -> Row]
  <2>1. CASE ClaimThrows(l)
    BY <2>1, <1>1, <1>3, LoopRows, WriteType DEF ClaimThrows, TypeOKStore
  <2>2. CASE CompleteThrows(l)
    BY <2>2, <1>1, <1>3, LoopRows, WriteType DEF CompleteThrows, CommitCompletion
  <2>3. CASE UNCHANGED job
    BY <2>3 DEF TypeOKStore
  <2>. QED BY <2>1, <2>2, <2>3 DEF LoopFailure, FinishThrows, FindThrows, CatchThrows
<1>6. result' \subseteq Jobs /\ ready' \in [Jobs -> Nat]
  BY <1>3 DEF LoopFailure, ClaimThrows, CompleteThrows, FinishThrows, FindThrows, CatchThrows,
          CommitCompletion, TypeOKStore
<1>7. processing' \in [Jobs -> Nat]
  BY <1>3, RemoveOneType
  DEF LoopFailure, ClaimThrows, CompleteThrows, FinishThrows, FindThrows, CatchThrows, TypeOKStore
<1>. QED BY <1>2, <1>4, <1>5, <1>6, <1>7 DEF TypeOKStore

LEMMA LoopStepType ==
    ASSUME TypeOK, LoopStep
    PROVE  TypeOK'
<1>1. TypeOKStore' /\ TypeOKLoops'
  <2>1. CASE \E l \in Loops : LoopProgress(l) \/ LoopFailure(l)
    BY <2>1, LoopProgressType, LoopFailureType DEF TypeOK
  <2>2. CASE \E l \in Loops, p \in Reports : ReportProgress(l, p)
    <3>1. PICK l \in Loops, p \in Reports : ReportProgress(l, p)
      BY <2>2
    <3>2. p \in Percent
      BY <3>1, LoopAssumption
    <3>3. job' \in [Jobs -> Row]
      BY <3>1, <3>2, BusyLoop, LoopRows, WriteType DEF ReportProgress, TypeOK
    <3>. QED BY <3>1, <3>3 DEF ReportProgress, TypeOK, TypeOKStore, TypeOKLoops
  <2>3. CASE \E w \in Workers : Crash(w)
    BY <2>3, RestType, FailureType DEF Crash, TypeOK, TypeOKStore, TypeOKLoops
  <2>. QED BY <2>1, <2>2, <2>3 DEF LoopStep, NextLoops
<1>2. TypeOKSched' /\ TypeOKApi'
  BY DEF LoopStep, TypeOK, TypeOKSched, TypeOKApi, apiVars
<1>. QED BY <1>1, <1>2 DEF TypeOK

-----------------------------------------------------------------------------
(* SchedulerSweeps.                                                        *)

LEMMA SchedFields ==
    ASSUME TypeOKSched, NEW s \in Schedulers
    PROVE  /\ sched[s] \in SchedState
           /\ sched[s].worker \in Workers \cup {NoWorker}
           /\ sched[s].batch \in [Jobs -> Nat]
           /\ sched[s].listed \in [Jobs -> Nat]
           /\ sched[s].hand \subseteq Jobs
           /\ sched[s].version \in Nat
BY DEF TypeOKSched, SchedState

LEMMA RestingType == Resting \in SchedState
BY DEF Resting, SchedState, SchedPc, Nothing

LEMMA BatchType ==
    ASSUME TypeOKStore, NEW S
    PROVE  Batch(S) \in [Jobs -> Nat]
BY JobRow DEF Batch

LEMMA StartType ==
    ASSUME TypeOKStore, TypeOKSched, NEW s \in Schedulers, NEW pc \in SchedPc, NEW S,
           Start(s, pc, S)
    PROVE  TypeOKSched'
<1>1. [Resting EXCEPT !.pc = pc, !.batch = Batch(S)] \in SchedState
  BY RestingType, BatchType DEF SchedState
<1>. QED BY <1>1 DEF Start, TypeOKSched

LEMMA TakeType ==
    ASSUME TypeOKSched, NEW s \in Schedulers, NEW pc \in SchedPc, NEW j \in Jobs,
           Take(s, pc, j)
    PROVE  TypeOKSched'
<1>1. sched[s].batch[j] \in Nat
  BY SchedFields
<1>2. [sched[s].batch EXCEPT ![j] = 0] \in [Jobs -> Nat]
  BY SchedFields
<1>3. [sched[s] EXCEPT !.pc = pc, !.batch = [sched[s].batch EXCEPT ![j] = 0],
                       !.hand = {j}, !.version = sched[s].batch[j]] \in SchedState
  BY <1>1, <1>2, SchedFields DEF SchedState
<1>4. sched' = [sched EXCEPT ![s] =
                  [sched[s] EXCEPT !.pc = pc, !.batch = [sched[s].batch EXCEPT ![j] = 0],
                                   !.hand = {j}, !.version = sched[s].batch[j]]]
  BY DEF Take
<1>. QED BY <1>3, <1>4 DEF TypeOKSched

LEMMA SkipType ==
    ASSUME TypeOKSched, NEW s \in Schedulers, NEW j \in Jobs, Skip(s, j)
    PROVE  TypeOKSched'
BY DEF Skip, TypeOKSched, SchedState

LEMMA ToType ==
    ASSUME TypeOKSched, NEW s \in Schedulers, NEW pc \in SchedPc, To(s, pc)
    PROVE  TypeOKSched'
BY DEF To, TypeOKSched, SchedState

LEMMA PutDownType ==
    ASSUME TypeOKSched, NEW s \in Schedulers, NEW pc \in SchedPc, PutDown(s, pc)
    PROVE  TypeOKSched'
<1>1. [sched[s] EXCEPT !.pc = pc, !.hand = {}, !.version = 0] \in SchedState
  BY SchedFields DEF SchedState
<1>2. sched' = [sched EXCEPT ![s] = [sched[s] EXCEPT !.pc = pc, !.hand = {}, !.version = 0]]
  BY DEF PutDown
<1>. QED BY <1>1, <1>2 DEF TypeOKSched

LEMMA EndType ==
    ASSUME TypeOKSched, NEW s \in Schedulers, sched' = [sched EXCEPT ![s] = Resting]
    PROVE  TypeOKSched'
BY RestingType DEF TypeOKSched

LEMMA InspectedType ==
    ASSUME TypeOKSched, NEW s \in Schedulers, NEW pc \in SchedPc, NEW held \in SUBSET Jobs,
           NEW v \in Nat, NEW j \in InList(s), Inspected(s, j, pc, held, v)
    PROVE  TypeOKSched'
<1>1. j \in Jobs /\ sched[s].listed[j] \in Nat /\ sched[s].listed[j] - 1 \in Nat
  BY SchedFields DEF InList
<1> DEFINE list == [sched[s].listed EXCEPT ![j] = sched[s].listed[j] - 1]
<1>2. list \in [Jobs -> Nat]
  BY <1>1, SchedFields
<1>3. [sched[s] EXCEPT !.pc = pc, !.listed = list, !.hand = held, !.version = v] \in SchedState
  <2>. HIDE DEF list
  <2>. QED BY <1>2, SchedFields DEF SchedState
<1>4. sched' = [sched EXCEPT ![s] =
                  [sched[s] EXCEPT !.pc = pc, !.listed = list, !.hand = held, !.version = v]]
  BY DEF Inspected
<1>. QED BY <1>3, <1>4 DEF TypeOKSched

(* A step of a sweep that writes the row of the job it works on.           *)
LEMMA SweepRows ==
    ASSUME TypeOKStore, NEW j \in Jobs
    PROVE  /\ Bumped(j, "QUEUED") \in Row
           /\ Bumped(j, "RETRYING") \in Row
           /\ Unassigned(j, "RETRYING") \in Row
BY BumpedType, UnassignedType DEF Status

(* The steps that change the row: the conditional updates.                 *)
LEMMA ConditionalUpdateType ==
    ASSUME TypeOKStore, TypeOKSched, NEW s \in Schedulers, NEW j \in Jobs,
           \/ RecoverJob(s, j) \/ RequeueRetry(s, j) \/ UndoRetry(s, j)
           \/ MarkPending(s, j) \/ ClaimStale(s, j) \/ ClaimEntry(s, j)
           \/ MarkPendingThrows(s, j) \/ ClaimStaleThrows(s, j)
    PROVE  TypeOKStore' /\ TypeOKSched'
<1>. USE DEF SchedPc
<1>1. CASE RecoverJob(s, j)
  <2>1. TypeOKSched'
    BY <1>1, TakeType, SkipType DEF RecoverJob
  <2>2. job' \in [Jobs -> Row]
    BY <1>1, SweepRows, WriteType DEF RecoverJob, TypeOKStore
  <2>. QED BY <1>1, <2>1, <2>2 DEF RecoverJob, TypeOKStore
<1>2. CASE RequeueRetry(s, j)
  <2>1. TypeOKSched'
    BY <1>2, TakeType, SkipType DEF RequeueRetry
  <2>2. job' \in [Jobs -> Row]
    BY <1>2, SweepRows, WriteType DEF RequeueRetry, TypeOKStore
  <2>. QED BY <1>2, <2>1, <2>2 DEF RequeueRetry, TypeOKStore
<1>3. CASE UndoRetry(s, j) \/ MarkPending(s, j)
  <2>1. TypeOKSched'
    BY <1>3, PutDownType DEF UndoRetry, MarkPending
  <2>2. job' \in [Jobs -> Row]
    BY <1>3, SweepRows, WriteType DEF UndoRetry, MarkPending, TypeOKStore
  <2>. QED BY <1>3, <2>1, <2>2 DEF UndoRetry, MarkPending, TypeOKStore
<1>4. CASE ClaimStale(s, j) \/ ClaimEntry(s, j)
  <2>1. TypeOKSched'
    BY <1>4, ToType, PutDownType DEF ClaimStale, ClaimEntry
  <2>2. job' \in [Jobs -> Row]
    BY <1>4, SweepRows, WriteType DEF ClaimStale, ClaimEntry, TypeOKStore
  <2>. QED BY <1>4, <2>1, <2>2 DEF ClaimStale, ClaimEntry, TypeOKStore
<1>5. CASE MarkPendingThrows(s, j) \/ ClaimStaleThrows(s, j)
  <2>1. TypeOKSched'
    BY <1>5, PutDownType DEF MarkPendingThrows, ClaimStaleThrows
  <2>2. job' \in [Jobs -> Row]
    BY <1>5, SweepRows, WriteType DEF MarkPendingThrows, ClaimStaleThrows, TypeOKStore
  <2>3. failures' \in 0 .. MaxFailures
    BY <1>5, FailureType DEF MarkPendingThrows, ClaimStaleThrows
  <2>. QED BY <1>5, <2>1, <2>2, <2>3 DEF MarkPendingThrows, ClaimStaleThrows, TypeOKStore
<1>. QED BY <1>1, <1>2, <1>3, <1>4, <1>5

(* The steps that change a list.                                           *)
LEMMA ListStepType ==
    ASSUME TypeOKStore, TypeOKSched, NEW s \in Schedulers, NEW j \in Jobs,
           \/ RecoverDrop(s, j) \/ DropEntry(s, j) \/ RemoveEntry(s, j)
           \/ PushRetry(s, j) \/ PushPending(s, j) \/ PushStale(s, j) \/ PushEntry(s, j)
           \/ PushRetryThrows(s, j) \/ UndoRetryThrows(s, j)
           \/ PushPendingThrows(s, j) \/ PushStaleThrows(s, j)
    PROVE  TypeOKStore' /\ TypeOKSched'
<1>. USE DEF SchedPc
<1>1. CASE RecoverDrop(s, j) \/ DropEntry(s, j) \/ RemoveEntry(s, j)
  <2>1. TypeOKSched'
    BY <1>1, PutDownType DEF RecoverDrop, DropEntry, RemoveEntry
  <2>. QED BY <1>1, <2>1, RemoveOneType DEF RecoverDrop, DropEntry, RemoveEntry, TypeOKStore
<1>2. CASE PushRetry(s, j) \/ PushPending(s, j) \/ PushStale(s, j) \/ PushEntry(s, j)
  <2>1. TypeOKSched'
    BY <1>2, PutDownType, TakeType, ToType DEF PushRetry, PushPending, PushStale, PushEntry
  <2>. QED BY <1>2, <2>1, PushType DEF PushRetry, PushPending, PushStale, PushEntry, TypeOKStore
<1>3. CASE \/ PushRetryThrows(s, j) \/ UndoRetryThrows(s, j)
           \/ PushPendingThrows(s, j) \/ PushStaleThrows(s, j)
  <2>1. TypeOKSched'
    BY <1>3, PutDownType, SkipType, ToType
    DEF PushRetryThrows, UndoRetryThrows, PushPendingThrows, PushStaleThrows
  <2>2. failures' \in 0 .. MaxFailures
    BY <1>3, FailureType DEF PushRetryThrows, UndoRetryThrows, PushPendingThrows, PushStaleThrows
  <2>3. ready' \in [Jobs -> Nat]
    BY <1>3, PushType
    DEF PushRetryThrows, UndoRetryThrows, PushPendingThrows, PushStaleThrows, TypeOKStore
  <2>. QED BY <1>3, <2>1, <2>2, <2>3
           DEF PushRetryThrows, UndoRetryThrows, PushPendingThrows, PushStaleThrows, TypeOKStore
<1>. QED BY <1>1, <1>2, <1>3

(* The steps that only look: queries, scans, verdicts and phase ends.      *)
LEMMA LookType ==
    ASSUME TypeOKStore, TypeOKSched, NEW s \in Schedulers,
           \/ RecoverDone(s) \/ ListProcessing(s) \/ EndSweep(s)
           \/ \E j \in Jobs : ScanReady(s, j) \/ ScanProcessing(s, j)
           \/ \E w \in Workers : DeclareDead(s, w)
           \/ \E old \in SUBSET Jobs :
                 \/ QueryRetries(s, old) \/ QueryPending(s, old) \/ QueryStale(s, old)
                 \/ \E j \in Jobs : InspectEntry(s, j, old)
    PROVE  TypeOKStore' /\ TypeOKSched'
<1>. USE DEF SchedPc
<1>1. TypeOKStore'
  BY DEF RecoverDone, ListProcessing, EndSweep, ScanReady, ScanProcessing, DeclareDead,
         QueryRetries, QueryPending, QueryStale, InspectEntry, storeVars, TypeOKStore
<1>2. CASE RecoverDone(s) \/ EndSweep(s)
  BY <1>1, <1>2, EndType DEF RecoverDone, EndSweep
<1>3. CASE ListProcessing(s)
  <2>1. [Resting EXCEPT !.pc = "procq", !.listed = processing] \in SchedState
    BY RestingType DEF SchedState, TypeOKStore
  <2>. QED BY <1>1, <1>3, <2>1 DEF ListProcessing, TypeOKSched
<1>4. CASE \E j \in Jobs : ScanReady(s, j) \/ ScanProcessing(s, j)
  BY <1>1, <1>4, SkipType, TakeType, PutDownType, ToType DEF ScanReady, ScanProcessing
<1>5. CASE \E w \in Workers : DeclareDead(s, w)
  <2>1. PICK w \in Workers : DeclareDead(s, w)
    BY <1>5
  <2>2. \A S : [Resting EXCEPT !.pc = "recover", !.worker = w, !.batch = Batch(S)] \in SchedState
    BY RestingType, BatchType DEF SchedState
  <2>. QED BY <1>1, <2>1, <2>2 DEF DeclareDead, TypeOKSched
<1>6. CASE \E old \in SUBSET Jobs :
             QueryRetries(s, old) \/ QueryPending(s, old) \/ QueryStale(s, old)
  BY <1>1, <1>6, StartType DEF QueryRetries, QueryPending, QueryStale
<1>7. CASE \E old \in SUBSET Jobs, j \in Jobs : InspectEntry(s, j, old)
  <2>1. PICK old \in SUBSET Jobs, j \in Jobs : InspectEntry(s, j, old)
    BY <1>7
  <2>2. j \in InList(s) /\ job[j].version \in Nat
    BY <2>1, JobRow DEF InspectEntry
  <2>. QED BY <1>1, <2>1, <2>2, InspectedType DEF InspectEntry
<1>. QED BY <1>2, <1>3, <1>4, <1>5, <1>6, <1>7

LEMMA SchedStepType ==
    ASSUME TypeOK, SchedStep
    PROVE  TypeOK'
<1>1. TypeOKLoops' /\ TypeOKApi'
  BY DEF SchedStep, TypeOK, TypeOKLoops, TypeOKApi, apiVars
<1>2. PICK s \in Schedulers : Sweep(s) \/ SchedFailure(s)
  BY DEF SchedStep
<1>3. TypeOKStore /\ TypeOKSched
  BY DEF TypeOK
<1>4. CASE Sweep(s)
  <2>1. LongPending \subseteq Jobs /\ LongQueued \subseteq Jobs /\ Suspects \subseteq Workers
    BY DEF LongPending, LongQueued, Suspects
  <2>. QED BY <1>1, <1>3, <1>4, <2>1, ConditionalUpdateType, ListStepType, LookType
           DEF Sweep, SchedProgress, TypeOK
<1>5. CASE SchedFailure(s)
  <2>1. CASE AbortSweep(s)
    BY <1>1, <1>3, <2>1, FailureType, EndType DEF AbortSweep, TypeOK, TypeOKStore
  <2>. QED BY <1>1, <1>3, <1>5, <2>1, ListStepType, ConditionalUpdateType DEF SchedFailure, TypeOK
<1>. QED BY <1>2, <1>4, <1>5

-----------------------------------------------------------------------------
(* ApiRequests.                                                            *)

(* The rows a request writes.                                              *)
LEMMA RequestRows ==
    ASSUME TypeOKStore, NEW j \in Jobs
    PROVE  /\ NewRow \in Row
           /\ [job[j] EXCEPT !.status = "QUEUED"] \in Row
           /\ [job[j] EXCEPT !.status = "CANCELLED"] \in Row
           /\ [job[j] EXCEPT !.status = "PENDING", !.retryCount = @ + 1] \in Row
           /\ Bumped(j, "PENDING") \in Row
<1>1. {"QUEUED", "CANCELLED", "PENDING"} \subseteq Status
  BY DEF Status
<1>2. NewRow \in Row
  BY DEF NewRow, AbsentRow, Row, Status, Percent
<1>3. [job[j] EXCEPT !.status = "PENDING", !.retryCount = @ + 1] \in Row
  BY <1>1, JobRow DEF Row
<1>. QED BY <1>1, <1>2, <1>3, JobRow, RowUpdate, BumpedType

LEMMA StepType ==
    ASSUME TypeOKApi, NEW j \in Jobs, NEW from, NEW to \in CreatePc, Step(j, from, to)
    PROVE  TypeOKApi'
BY DEF Step, TypeOKApi

LEMMA CreateStepType ==
    ASSUME TypeOKStore, TypeOKApi, NEW j \in Jobs,
           CreateJob(j) \/ CreateProgress(j) \/ CreateFailure(j)
    PROVE  TypeOKStore' /\ TypeOKApi'
<1>1. TypeOKApi'
  BY StepType
  DEF CreateJob, CreateProgress, CreateFailure, MarkQueued, EnqueueJob, Answer, UndoCreate,
      MarkQueuedThrows, EnqueueThrows, AnswerThrows, AbandonCreate, CreatePc
<1>2. failures' \in 0 .. MaxFailures
  BY FailureType
  DEF CreateJob, CreateProgress, CreateFailure, MarkQueued, EnqueueJob, Answer, UndoCreate,
      MarkQueuedThrows, EnqueueThrows, AnswerThrows, AbandonCreate, TypeOKStore, storeVars
<1>3. job' \in [Jobs -> Row]
  BY RequestRows, WriteType
  DEF CreateJob, CreateProgress, CreateFailure, MarkQueued, EnqueueJob, Answer, UndoCreate,
      MarkQueuedThrows, EnqueueThrows, AnswerThrows, AbandonCreate, TypeOKStore, storeVars
<1>4. ready' \in [Jobs -> Nat]
  BY PushType
  DEF CreateJob, CreateProgress, CreateFailure, MarkQueued, EnqueueJob, Answer, UndoCreate,
      MarkQueuedThrows, EnqueueThrows, AnswerThrows, AbandonCreate, TypeOKStore, storeVars
<1>5. UNCHANGED <<result, processing>>
  BY DEF CreateJob, CreateProgress, CreateFailure, MarkQueued, EnqueueJob, Answer, UndoCreate,
         MarkQueuedThrows, EnqueueThrows, AnswerThrows, AbandonCreate, storeVars
<1>. QED BY <1>1, <1>2, <1>3, <1>4, <1>5 DEF TypeOKStore

LEMMA UserRequestType ==
    ASSUME TypeOKStore, TypeOKApi, UserRequest
    PROVE  TypeOKStore' /\ TypeOKApi'
<1>1. PICK r \in Requests, j \in Jobs :
         CheckCancel(r, j) \/ CancelJob(r, j) \/ CheckRetry(r, j) \/ RetryJob(r, j)
  BY DEF UserRequest, Requests
<1>2. TypeOKApi'
  <2>1. CASE Check(r, j)
    BY <2>1 DEF Check, TypeOKApi, RequestState
  <2>2. CASE Finish(r, j)
    BY <2>2 DEF Finish, TypeOKApi, RequestState
  <2>. QED BY <1>1, <2>1, <2>2 DEF CheckCancel, CancelJob, CheckRetry, RetryJob
<1>3. job' \in [Jobs -> Row]
  BY <1>1, RequestRows, WriteType
  DEF CheckCancel, CancelJob, CheckRetry, RetryJob, TypeOKStore, storeVars
<1>. QED BY <1>1, <1>2, <1>3
         DEF CheckCancel, CancelJob, CheckRetry, RetryJob, TypeOKStore, storeVars

LEMMA ApiStepType ==
    ASSUME TypeOK, ApiStep
    PROVE  TypeOK'
BY CreateStepType, UserRequestType DEF ApiStep, NextApi, TypeOK, TypeOKLoops, TypeOKSched

-----------------------------------------------------------------------------
LEMMA TypeStep ==
    ASSUME TypeOK, [Next]_vars
    PROVE  TypeOK'
<1>1. CASE UNCHANGED vars
  BY <1>1 DEF vars, storeVars, apiVars, TypeOK, TypeOKStore, TypeOKLoops, TypeOKSched, TypeOKApi
<1>. QED BY <1>1, LoopStepType, SchedStepType, ApiStepType DEF Next

LEMMA TypeInit == Init => TypeOK
<1>1. ASSUME Init PROVE TypeOKStore
  <2>1. AbsentRow \in Row
    BY DEF AbsentRow, Row, Status, Percent
  <2>. QED BY <1>1, <2>1, StoreAssumption DEF Init, InitStore, TypeOKStore
<1>2. ASSUME Init PROVE TypeOKLoops
  BY <1>2, RestType DEF Init, InitLoops, TypeOKLoops
<1>3. ASSUME Init PROVE TypeOKSched
  BY <1>3, RestingType DEF Init, InitSched, TypeOKSched
<1>4. ASSUME Init PROVE TypeOKApi
  BY <1>4 DEF Init, InitApi, TypeOKApi, CreatePc, RequestState
<1>. QED BY <1>1, <1>2, <1>3, <1>4 DEF TypeOK

(* Every reachable state is well typed: the counters of the Redis lists    *)
(* never go negative, a loop or a sweep that works on a job has it in its  *)
(* locals, and no update of a row leaves the columns' types.               *)
THEOREM TypeCorrect == Spec => []TypeOK
<1>1. Init => TypeOK
  BY TypeInit
<1>2. TypeOK /\ [Next]_vars => TypeOK'
  BY TypeStep
<1>. QED BY <1>1, <1>2, PTL DEF Spec

------------------------------------------------------------------------------
(* The inductive invariant.                                                *)

-----------------------------------------------------------------------------
(* A row exists exactly from the moment its create request has inserted    *)
(* it; before that no attempt runs and no request has checked it.          *)
Unborn(j) ==
    /\ job[j] = AbsentRow
    /\ \A l \in Loops : ~Runs(l, j)
    /\ \A r \in Requests : j \notin request[r].checked

Born == \A j \in Jobs : IF create[j] = "none" THEN Unborn(j) ELSE job[j].status # "ABSENT"

(* A completed row has no owner: this is what keeps the catch block of a   *)
(* loop away from it, whose update asks for the loop's WORKER_ID.          *)
CompletedUnowned == \A j \in Jobs : job[j].status = "COMPLETED" => job[j].workerId = NoWorker

(* A sweep between its update and its push works on a version that the     *)
(* row has left behind.                                                    *)
DispatchBehind ==
    \A j \in Jobs, s \in Schedulers : Dispatching(s, j) => sched[s].version < job[j].version

(* A sweep works on one job at a time.                                     *)
OneInHand == \A s \in Schedulers : \A j, k \in sched[s].hand : j = k

IInv ==
    /\ TypeOK
    /\ Born
    /\ CompletedUnowned
    /\ VersionsFenced
    /\ OneInHand
    /\ DispatchBehind
    /\ DispatchedOnce

-----------------------------------------------------------------------------
(* What one step may do to a row.                                          *)
Updated(j) ==
    /\ job[j].status # "ABSENT"
    /\ job'[j].status # "ABSENT"
    /\ job'[j].version >= job[j].version
    /\ job'[j].status = "COMPLETED" => job'[j].workerId = NoWorker
    /\ job[j].status = "COMPLETED" => job'[j].status \notin {"RETRYING", "FAILED"}

RowStep(j) ==
    \/ job'[j] = job[j]
    \/ Updated(j)
    \/ create[j] = "none" /\ create'[j] # "none" /\ job'[j] = NewRow

LEMMA Written ==
    ASSUME TypeOKStore, NEW j \in Jobs, NEW row, Write(j, row)
    PROVE  job'[j] = row /\ \A k \in Jobs \ {j} : job'[k] = job[k]
BY DEF TypeOKStore, Write

LEMMA RowFields ==
    ASSUME TypeOKStore, NEW j \in Jobs, NEW st
    PROVE  /\ Bumped(j, st).status = st
           /\ Bumped(j, st).version = job[j].version + 1
           /\ Bumped(j, st).workerId = job[j].workerId
           /\ Unassigned(j, st).status = st
           /\ Unassigned(j, st).version = job[j].version + 1
           /\ Unassigned(j, st).workerId = NoWorker
BY JobRow DEF Bumped, Unassigned, Row

LEMMA LoopRowFields ==
    ASSUME TypeOKStore, TypeOKLoops, NEW l \in Loops, loop[l].pc \notin {"idle", "dead"}
    PROVE  /\ ClaimedRow(l).status = "RUNNING"
           /\ ClaimedRow(l).version = job[JobOf(l)].version + 1
           /\ CompletedRow(l).status = "COMPLETED"
           /\ CompletedRow(l).version = job[JobOf(l)].version + 1
           /\ CompletedRow(l).workerId = NoWorker
           /\ RetryingRow(l).status = "RETRYING"
           /\ RetryingRow(l).version = job[JobOf(l)].version + 1
<1>1. JobOf(l) \in Jobs /\ RowOf(l) = job[JobOf(l)] /\ job[JobOf(l)] \in Row
  BY BusyLoop, JobRow DEF RowOf, JobOf
<1>2. Unassigned(JobOf(l), "COMPLETED") \in Row /\ Unassigned(JobOf(l), "RETRYING") \in Row
  BY <1>1, UnassignedType DEF Status
<1>3. ClaimedRow(l).status = "RUNNING" /\ ClaimedRow(l).version = job[JobOf(l)].version + 1
  BY <1>1 DEF ClaimedRow, Row
<1>4. /\ CompletedRow(l).status = "COMPLETED"
      /\ CompletedRow(l).version = job[JobOf(l)].version + 1
      /\ CompletedRow(l).workerId = NoWorker
  BY <1>1, <1>2, RowFields DEF CompletedRow, Row
<1>5. /\ RetryingRow(l).status = "RETRYING"
      /\ RetryingRow(l).version = job[JobOf(l)].version + 1
  BY <1>1, <1>2, RowFields DEF RetryingRow, Row
<1>. QED BY <1>3, <1>4, <1>5

(* A loop.  Its conditional updates find a row that exists: it is QUEUED,  *)
(* RUNNING, or owned by the loop's worker.                                 *)
LEMMA LoopRowStep ==
    ASSUME TypeOK, Born, CompletedUnowned, LoopStep, NEW k \in Jobs
    PROVE  RowStep(k)
<1>. USE DEF RowStep, Updated
<1>0. TypeOKStore /\ TypeOKLoops
  BY DEF TypeOK
<1>1. CASE UNCHANGED job
  BY <1>1
<1>2. ASSUME NEW l \in Loops, Claim(l) \/ ClaimThrows(l), job' # job PROVE RowStep(k)
  <2>1. /\ loop[l].pc \notin {"idle", "dead"}
        /\ RowOf(l).status = "QUEUED"
        /\ Write(JobOf(l), ClaimedRow(l))
    BY <1>2 DEF Claim, ClaimThrows, ClaimMatches
  <2>2. JobOf(l) \in Jobs /\ RowOf(l) = job[JobOf(l)] /\ job[JobOf(l)].version \in Nat
    BY <1>0, <2>1, BusyLoop, JobRow DEF RowOf, JobOf
  <2>. QED BY <1>0, <2>1, <2>2, Written, LoopRowFields
<1>3. ASSUME NEW l \in Loops, Complete(l) \/ CompleteThrows(l), job' # job PROVE RowStep(k)
  <2>1. /\ loop[l].pc \notin {"idle", "dead"}
        /\ RowOf(l).status = "RUNNING"
        /\ Write(JobOf(l), CompletedRow(l))
    BY <1>3 DEF Complete, CompleteThrows, CommitCompletion, CompletionMatches
  <2>2. JobOf(l) \in Jobs /\ RowOf(l) = job[JobOf(l)] /\ job[JobOf(l)].version \in Nat
    BY <1>0, <2>1, BusyLoop, JobRow DEF RowOf, JobOf
  <2>. QED BY <1>0, <2>1, <2>2, Written, LoopRowFields
<1>4. ASSUME NEW l \in Loops, ScheduleRetry(l) \/ GiveUp(l), job' # job PROVE RowStep(k)
  <2>1. /\ loop[l].pc \notin {"idle", "dead"}
        /\ RowOf(l).workerId = WorkerOf[l]
        /\ \/ Write(JobOf(l), RetryingRow(l))
           \/ Write(JobOf(l), Unassigned(JobOf(l), "FAILED"))
    BY <1>4 DEF ScheduleRetry, GiveUp, FailureMatches
  <2>2. JobOf(l) \in Jobs /\ RowOf(l) = job[JobOf(l)] /\ job[JobOf(l)].version \in Nat
    BY <1>0, <2>1, BusyLoop, JobRow DEF RowOf, JobOf
  <2>3. job[JobOf(l)].workerId # NoWorker
    BY <2>1, <2>2, LoopAssumption, StoreAssumption
  <2>4. job[JobOf(l)].status \notin {"ABSENT", "COMPLETED"}
    BY <2>2, <2>3 DEF Born, Unborn, AbsentRow, CompletedUnowned
  <2>5. /\ job'[JobOf(l)].status \in {"RETRYING", "FAILED"}
        /\ job'[JobOf(l)].version = job[JobOf(l)].version + 1
        /\ \A j \in Jobs \ {JobOf(l)} : job'[j] = job[j]
    <3>1. CASE Write(JobOf(l), RetryingRow(l))
      BY <1>0, <2>1, <2>2, <3>1, Written, LoopRowFields
    <3>2. CASE Write(JobOf(l), Unassigned(JobOf(l), "FAILED"))
      BY <1>0, <2>1, <2>2, <3>2, Written, RowFields
    <3>. QED BY <2>1, <3>1, <3>2
  <2>. QED BY <2>2, <2>4, <2>5
<1>5. ASSUME NEW l \in Loops, NEW p \in Reports, ReportProgress(l, p) PROVE RowStep(k)
  <2>1. loop[l].pc = "running" /\ Write(JobOf(l), [RowOf(l) EXCEPT !.progress = p])
    BY <1>5 DEF ReportProgress
  <2>2. JobOf(l) \in Jobs /\ RowOf(l) = job[JobOf(l)] /\ job[JobOf(l)] \in Row
    BY <1>0, <2>1, BusyLoop, JobRow DEF RowOf, JobOf
  <2>3. job[JobOf(l)].status # "ABSENT"
    BY <2>1, <2>2 DEF Born, Unborn, Runs, JobOf
  <2>4. job'[JobOf(l)] = [job[JobOf(l)] EXCEPT !.progress = p]
        /\ \A j \in Jobs \ {JobOf(l)} : job'[j] = job[j]
    BY <1>0, <2>1, <2>2, Written
  <2>5. /\ job'[JobOf(l)].status = job[JobOf(l)].status
        /\ job'[JobOf(l)].version = job[JobOf(l)].version
        /\ job'[JobOf(l)].workerId = job[JobOf(l)].workerId
        /\ job[JobOf(l)].version \in Nat
    BY <2>2, <2>4 DEF Row
  <2>6. CASE k = JobOf(l)
    <3>1. job[k].status = "COMPLETED" => job[k].workerId = NoWorker
      BY DEF CompletedUnowned
    <3>. QED BY <2>3, <2>5, <2>6, <3>1
  <2>7. CASE k # JobOf(l)
    BY <2>4, <2>7
  <2>. QED BY <2>6, <2>7
<1>. QED
  BY <1>1, <1>2, <1>3, <1>4, <1>5
  DEF LoopStep, NextLoops, LoopProgress, LoopFailure, WaitForJob, FindJob, FinishCompleted,
      HandlerThrows, HandleFailure, FinishReleased, FinishThrows, FindThrows, CatchThrows, Crash,
      storeVars

(* A sweep writes a row only where its conditional update matches.         *)
LEMMA SweepRowStep ==
    ASSUME TypeOK, SchedStep, NEW k \in Jobs
    PROVE  RowStep(k)
<1>. USE DEF RowStep, Updated
<1>1. CASE UNCHANGED job
  BY <1>1
<1>2. ASSUME NEW s \in Schedulers, NEW j \in Jobs, job' # job,
             \/ RecoverJob(s, j) \/ RequeueRetry(s, j) \/ UndoRetry(s, j)
             \/ MarkPending(s, j) \/ ClaimStale(s, j) \/ ClaimEntry(s, j)
             \/ MarkPendingThrows(s, j) \/ ClaimStaleThrows(s, j)
      PROVE  RowStep(k)
  <2>1. /\ job[j].status \in {"RUNNING", "RETRYING", "QUEUED", "PENDING"}
        /\ \E st \in {"RETRYING", "QUEUED"} : Write(j, Bumped(j, st)) \/ Write(j, Unassigned(j, st))
    BY <1>2 DEF RecoverJob, RequeueRetry, UndoRetry, MarkPending, ClaimStale, ClaimEntry,
                MarkPendingThrows, ClaimStaleThrows,
                RecoverMatches, RetryMatches, UndoMatches, PendingMatches, StaleMatches, QueuedUnowned
  <2>2. TypeOKStore /\ job[j].version \in Nat
    BY JobRow DEF TypeOK
  <2>3. /\ job'[j].status \in {"RETRYING", "QUEUED"}
        /\ job'[j].version = job[j].version + 1
        /\ \A i \in Jobs \ {j} : job'[i] = job[i]
    BY <2>1, <2>2, Written, RowFields
  <2>. QED BY <2>1, <2>2, <2>3
<1>3. PICK s \in Schedulers : Sweep(s) \/ SchedFailure(s)
  BY DEF SchedStep
<1>4. CASE SchedProgress(s)
  BY <1>1, <1>2, <1>4
  DEF SchedProgress, RecoverDone, ListProcessing, EndSweep, RecoverDrop, PushRetry, PushPending,
      ScanReady, ScanProcessing, PushStale, DropEntry, PushEntry, RemoveEntry, storeVars
<1>5. CASE SchedFailure(s)
  BY <1>1, <1>2, <1>5
  DEF SchedFailure, AbortSweep, PushRetryThrows, UndoRetryThrows, PushPendingThrows,
      PushStaleThrows
<1>6. CASE Sweep(s) /\ ~SchedProgress(s)
  BY <1>1, <1>6
  DEF Sweep, DeclareDead, QueryRetries, QueryPending, QueryStale, InspectEntry, storeVars
<1>. QED BY <1>3, <1>4, <1>5, <1>6

(* A request writes by id, and never lowers a version.                     *)
LEMMA ApiRowStep ==
    ASSUME TypeOK, Born, CompletedUnowned, ApiStep, NEW k \in Jobs
    PROVE  RowStep(k)
<1>. USE DEF RowStep, Updated
<1>0. TypeOKStore /\ TypeOKApi
  BY DEF TypeOK
<1>1. CASE UNCHANGED job
  BY <1>1
<1>2. ASSUME NEW j \in Jobs, CreateJob(j) PROVE RowStep(k)
  <2>1. create[j] = "none" /\ create'[j] # "none" /\ Write(j, NewRow)
    BY <1>0, <1>2 DEF CreateJob, Step, TypeOKApi
  <2>. QED BY <1>0, <2>1, Written
<1>3. ASSUME NEW j \in Jobs, job' # job,
             MarkQueued(j) \/ MarkQueuedThrows(j) \/ UndoCreate(j)
      PROVE  RowStep(k)
  <2>1. /\ create[j] # "none"
        /\ Write(j, [job[j] EXCEPT !.status = "QUEUED"]) \/ Write(j, Bumped(j, "PENDING"))
    BY <1>3 DEF MarkQueued, MarkQueuedThrows, UndoCreate, Step
  <2>2. job[j] \in Row /\ job[j].version \in Nat /\ job[j].status # "ABSENT"
    BY <1>0, <2>1, JobRow DEF Born
  <2>3. /\ job'[j].status \in {"QUEUED", "PENDING"}
        /\ job'[j].version >= job[j].version
        /\ \A i \in Jobs \ {j} : job'[i] = job[i]
    <3>1. CASE Write(j, [job[j] EXCEPT !.status = "QUEUED"])
      BY <1>0, <2>2, <3>1, Written DEF Row
    <3>2. CASE Write(j, Bumped(j, "PENDING"))
      BY <1>0, <2>2, <3>2, Written, RowFields
    <3>. QED BY <2>1, <3>1, <3>2
  <2>. QED BY <2>2, <2>3
<1>4. ASSUME NEW r \in Requests, NEW j \in Jobs, CancelJob(r, j) \/ RetryJob(r, j)
      PROVE  RowStep(k)
  <2>1. /\ j \in request[r].checked
        /\ \/ Write(j, [job[j] EXCEPT !.status = "CANCELLED"])
           \/ Write(j, [job[j] EXCEPT !.status = "PENDING", !.retryCount = @ + 1])
    BY <1>4 DEF CancelJob, RetryJob, Finish
  <2>2. job[j] \in Row /\ job[j].version \in Nat /\ job[j].status # "ABSENT"
    BY <1>0, <2>1, JobRow DEF Born, Unborn
  <2>3. /\ job'[j].status \in {"CANCELLED", "PENDING"}
        /\ job'[j].version = job[j].version
        /\ \A i \in Jobs \ {j} : job'[i] = job[i]
    <3>1. CASE Write(j, [job[j] EXCEPT !.status = "CANCELLED"])
      BY <1>0, <2>2, <3>1, Written DEF Row
    <3>2. CASE Write(j, [job[j] EXCEPT !.status = "PENDING", !.retryCount = @ + 1])
      <4> DEFINE row == [job[j] EXCEPT !.status = "PENDING", !.retryCount = job[j].retryCount + 1]
      <4>1. row.status = "PENDING" /\ row.version = job[j].version
        BY <2>2 DEF Row
      <4>2. Write(j, row)
        BY <3>2
      <4>. HIDE DEF row
      <4>. QED BY <1>0, <4>1, <4>2, Written
    <3>. QED BY <2>1, <3>1, <3>2
  <2>. QED BY <2>2, <2>3
<1>. QED
  BY <1>1, <1>2, <1>3, <1>4
  DEF ApiStep, NextApi, CreateProgress, CreateFailure, UserRequest, Requests, EnqueueJob, Answer,
      EnqueueThrows, AnswerThrows, AbandonCreate, CheckCancel, CheckRetry, storeVars

LEMMA RowSteps ==
    ASSUME IInv, [Next]_vars, NEW k \in Jobs
    PROVE  RowStep(k)
<1>1. CASE UNCHANGED vars
  BY <1>1 DEF vars, storeVars, RowStep
<1>. QED BY <1>1, LoopRowStep, SweepRowStep, ApiRowStep DEF IInv, Next

(* So the version of a row never goes down.                                *)
LEMMA VersionsGrow ==
    ASSUME IInv, [Next]_vars, NEW k \in Jobs
    PROVE  job'[k].version >= job[k].version
<1>1. job[k].version \in Nat
  BY JobRow DEF IInv, TypeOK
<1>2. CASE create[k] = "none"
  <2>1. job[k].version = 0
    BY <1>2 DEF IInv, Born, Unborn, AbsentRow
  <2>2. NewRow.version = 1
    BY DEF NewRow, AbsentRow
  <2>. QED BY <1>1, <2>1, <2>2, RowSteps DEF RowStep, Updated
<1>. QED BY <1>1, <1>2, RowSteps DEF RowStep, Updated

-----------------------------------------------------------------------------
(* A loop runs an attempt only as the outcome of a claim: the claim wrote  *)
(* the version the attempt carries, on a row that was QUEUED at the        *)
(* version before.                                                         *)
Claims(l) ==
    /\ JobOf(l) \in Jobs
    /\ loop'[l] = At("running", JobOf(l), loop[l].version + 1)
    /\ RowOf(l).status = "QUEUED"
    /\ RowOf(l).version = loop[l].version
    /\ job'[JobOf(l)].version = loop[l].version + 1
    /\ \A m \in Loops \ {l} : loop'[m] = loop[m]

LEMMA Gone ==
    ASSUME TypeOKLoops, NEW l \in Loops, NEW state, Goto(l, state)
    PROVE  loop'[l] = state /\ \A m \in Loops \ {l} : loop'[m] = loop[m]
BY DEF TypeOKLoops, Goto

LEMMA LoopMoves ==
    ASSUME TypeOK, NEW l \in Loops, LoopProgress(l) \/ LoopFailure(l)
    PROVE  \/ loop'[l].pc # "running" /\ \A m \in Loops \ {l} : loop'[m] = loop[m]
           \/ Claims(l)
<1>0. TypeOKStore /\ TypeOKLoops
  BY DEF TypeOK
<1>1. ASSUME NEW pc, NEW j, NEW v, pc # "running", Goto(l, At(pc, j, v))
      PROVE  loop'[l].pc # "running" /\ \A m \in Loops \ {l} : loop'[m] = loop[m]
  BY <1>0, <1>1, Gone DEF At
<1>2. ASSUME Goto(l, IdleLoop)
      PROVE  loop'[l].pc # "running" /\ \A m \in Loops \ {l} : loop'[m] = loop[m]
  BY <1>0, <1>2, Gone DEF At, IdleLoop
<1>3. CASE Claim(l)
  <2>1. CASE ClaimMatches(l) /\ Write(JobOf(l), ClaimedRow(l))
             /\ Goto(l, At("running", JobOf(l), loop[l].version + 1))
    <3>1. loop[l].pc \notin {"idle", "dead"} /\ JobOf(l) \in Jobs
      BY <1>0, <1>3, BusyLoop DEF Claim
    <3>2. job'[JobOf(l)].version = job[JobOf(l)].version + 1
      BY <1>0, <2>1, <3>1, Written, LoopRowFields
    <3>3. Claims(l)
      BY <1>0, <2>1, <3>1, <3>2, Gone DEF Claims, ClaimMatches, RowOf, JobOf
    <3>. QED BY <3>3
  <2>. QED BY <1>2, <1>3, <2>1 DEF Claim
<1>4. CASE LoopProgress(l) /\ ~Claim(l)
  BY <1>1, <1>2, <1>4
  DEF LoopProgress, WaitForJob, FindJob, Complete, FinishCompleted, HandlerThrows, HandleFailure,
      ScheduleRetry, GiveUp, FinishReleased
<1>5. CASE LoopFailure(l)
  BY <1>1, <1>2, <1>5
  DEF LoopFailure, ClaimThrows, CompleteThrows, FinishThrows, FindThrows, CatchThrows
<1>. QED BY <1>3, <1>4, <1>5

LEMMA LoopSteps ==
    ASSUME TypeOK, [Next]_vars
    PROVE  \/ \A l \in Loops : loop'[l].pc = "running" => loop'[l] = loop[l]
           \/ \E l \in Loops : Claims(l)
<1>1. CASE UNCHANGED loop
  BY <1>1
<1>2. CASE \E l \in Loops : LoopProgress(l) \/ LoopFailure(l)
  BY <1>2, LoopMoves
<1>3. CASE \E w \in Workers : Crash(w)
  <2>1. DeadLoop.pc # "running"
    BY DEF DeadLoop, At
  <2>. QED BY <1>3, <2>1 DEF Crash
<1>. QED BY <1>1, <1>2, <1>3
         DEF Next, LoopStep, SchedStep, ApiStep, NextLoops, ReportProgress, vars

(* The version of an attempt that runs is at most the row's, and no other  *)
(* attempt at the job has it: a claim takes a version above them all.      *)
LEMMA AttemptsFenced ==
    ASSUME IInv, [Next]_vars
    PROVE  VersionsFenced'
<1>0. TypeOK /\ VersionsFenced
  BY DEF IInv
<1>1. \A l \in Loops : loop[l].pc \notin {"idle", "dead"} => loop[l].version \in Nat
  BY <1>0, BusyLoop DEF TypeOK
<1>2. \A j \in Jobs : job[j].version \in Nat /\ job'[j].version >= job[j].version
  BY <1>0, JobRow, VersionsGrow DEF TypeOK
<1>3. \A j \in Jobs : job'[j].version \in Nat
  <2>1. TypeOK'
    BY <1>0, TypeStep
  <2>. QED BY <2>1 DEF TypeOK, TypeOKStore, Row
<1>4. CASE \A l \in Loops : loop'[l].pc = "running" => loop'[l] = loop[l]
  <2>. SUFFICES ASSUME NEW j \in Jobs, NEW l \in Loops, Runs(l, j)'
                PROVE  /\ loop'[l].version <= job'[j].version
                       /\ \A m \in Loops \ {l} : Runs(m, j)' => loop'[m].version # loop'[l].version
    BY DEF VersionsFenced
  <2>1. Runs(l, j) /\ loop'[l] = loop[l]
    BY <1>4 DEF Runs
  <2>2. \A m \in Loops : Runs(m, j)' => Runs(m, j) /\ loop'[m] = loop[m]
    BY <1>4 DEF Runs
  <2>3. loop[l].version <= job[j].version /\ loop[l].version \in Nat
    BY <1>0, <1>1, <2>1 DEF VersionsFenced, Runs
  <2>4. loop'[l].version <= job'[j].version
    BY <1>2, <1>3, <2>1, <2>3
  <2>5. \A m \in Loops \ {l} : Runs(m, j)' => loop'[m].version # loop'[l].version
    BY <1>0, <2>1, <2>2 DEF VersionsFenced
  <2>. QED BY <2>4, <2>5
<1>5. CASE \E c \in Loops : Claims(c)
  <2>1. PICK c \in Loops : Claims(c)
    BY <1>5
  <2>. DEFINE k == JobOf(c)
              v == loop[c].version
  <2>2. /\ k \in Jobs /\ v \in Nat
        /\ loop'[c].pc = "running" /\ loop'[c].job = k /\ loop'[c].version = v + 1
        /\ job[k].version = v /\ job'[k].version = v + 1
        /\ \A m \in Loops \ {c} : loop'[m] = loop[m]
    BY <1>2, <2>1 DEF Claims, At, RowOf, JobOf
  <2>. HIDE DEF k, v
  <2>3. \A m \in Loops \ {c}, j \in Jobs :
           Runs(m, j)' => /\ Runs(m, j)
                          /\ loop'[m] = loop[m]
                          /\ loop[m].version \in Nat
                          /\ loop[m].version <= job[j].version
    BY <1>0, <1>1, <2>2 DEF VersionsFenced, Runs
  <2>. SUFFICES ASSUME NEW j \in Jobs, NEW l \in Loops, Runs(l, j)'
                PROVE  /\ loop'[l].version <= job'[j].version
                       /\ \A m \in Loops \ {l} : Runs(m, j)' => loop'[m].version # loop'[l].version
    BY DEF VersionsFenced
  <2>4. CASE l = c
    <3>1. j = k
      BY <2>2, <2>4 DEF Runs
    <3>. QED BY <2>2, <2>3, <2>4, <3>1
  <2>5. CASE l # c
    <3>1. /\ Runs(l, j) /\ loop'[l] = loop[l]
          /\ loop[l].version \in Nat /\ loop[l].version <= job[j].version
      BY <2>3, <2>5
    <3>2. loop'[l].version <= job'[j].version
      BY <1>2, <1>3, <3>1
    <3>3. Runs(c, j)' => loop'[c].version # loop'[l].version
      BY <2>2, <3>1 DEF Runs
    <3>4. \A m \in Loops \ {l, c} : Runs(m, j)' => loop'[m].version # loop'[l].version
      BY <1>0, <2>3, <3>1 DEF VersionsFenced
    <3>. QED BY <3>2, <3>3, <3>4
  <2>. QED BY <2>4, <2>5
<1>. QED BY <1>0, <1>4, <1>5, LoopSteps

-----------------------------------------------------------------------------
(* What the helpers of the sweeps do to the sweep's locals.                *)
LEMMA SweepLocals ==
    ASSUME TypeOKSched, NEW s \in Schedulers
    PROVE  /\ \A pc, S : Start(s, pc, S) => sched'[s].pc = pc /\ sched'[s].hand = {}
           /\ \A pc, j : Take(s, pc, j) => /\ sched'[s].pc = pc /\ sched'[s].hand = {j}
                                          /\ sched'[s].version = sched[s].batch[j]
           /\ \A j : Skip(s, j) => /\ sched'[s].pc = sched[s].pc
                                   /\ sched'[s].hand = sched[s].hand
                                   /\ sched'[s].version = sched[s].version
           /\ \A pc : To(s, pc) => /\ sched'[s].pc = pc /\ sched'[s].hand = sched[s].hand
                                   /\ sched'[s].version = sched[s].version
           /\ \A pc : PutDown(s, pc) => sched'[s].pc = pc /\ sched'[s].hand = {}
           /\ \A pc, w, b : sched' = [sched EXCEPT ![s] = [Resting EXCEPT !.pc = pc, !.worker = w,
                                                                       !.batch = b]] =>
                              sched'[s].pc = pc /\ sched'[s].hand = {}
           /\ \A pc, b : sched' = [sched EXCEPT ![s] = [Resting EXCEPT !.pc = pc, !.listed = b]] =>
                           sched'[s].pc = pc /\ sched'[s].hand = {}
           /\ sched' = [sched EXCEPT ![s] = Resting] => sched'[s].hand = {}
<1>1. sched[s] \in SchedState /\ DOMAIN sched = Schedulers
  BY DEF TypeOKSched
<1>2. Resting \in SchedState /\ Resting.hand = {}
  BY RestingType DEF Resting
<1>3. ASSUME NEW pc, NEW S, Start(s, pc, S)
      PROVE  sched'[s].pc = pc /\ sched'[s].hand = {}
  BY <1>1, <1>2, <1>3 DEF Start, SchedState
<1>4. ASSUME NEW pc, NEW j, Take(s, pc, j)
      PROVE  /\ sched'[s].pc = pc /\ sched'[s].hand = {j}
             /\ sched'[s].version = sched[s].batch[j]
  BY <1>1, <1>4 DEF Take, SchedState
<1>5. ASSUME NEW j, Skip(s, j)
      PROVE  /\ sched'[s].pc = sched[s].pc
             /\ sched'[s].hand = sched[s].hand
             /\ sched'[s].version = sched[s].version
  BY <1>1, <1>5 DEF Skip, SchedState
<1>6. ASSUME NEW pc, To(s, pc)
      PROVE  /\ sched'[s].pc = pc /\ sched'[s].hand = sched[s].hand
             /\ sched'[s].version = sched[s].version
  BY <1>1, <1>6 DEF To, SchedState
<1>7. ASSUME NEW pc, PutDown(s, pc)
      PROVE  sched'[s].pc = pc /\ sched'[s].hand = {}
  BY <1>1, <1>7 DEF PutDown, SchedState
<1>8. ASSUME NEW pc, NEW w, NEW b,
             sched' = [sched EXCEPT ![s] = [Resting EXCEPT !.pc = pc, !.worker = w, !.batch = b]]
      PROVE  sched'[s].pc = pc /\ sched'[s].hand = {}
  BY <1>1, <1>2, <1>8 DEF SchedState
<1>9. ASSUME NEW pc, NEW b,
             sched' = [sched EXCEPT ![s] = [Resting EXCEPT !.pc = pc, !.listed = b]]
      PROVE  sched'[s].pc = pc /\ sched'[s].hand = {}
  BY <1>1, <1>2, <1>9 DEF SchedState
<1>10. sched' = [sched EXCEPT ![s] = Resting] => sched'[s].hand = {}
  BY <1>1, <1>2
<1>. QED BY <1>3, <1>4, <1>5, <1>6, <1>7, <1>8, <1>9, <1>10

LEMMA InspectedLocals ==
    ASSUME TypeOKSched, NEW s \in Schedulers, NEW j, NEW pc, NEW held, NEW v,
           Inspected(s, j, pc, held, v)
    PROVE  sched'[s].pc = pc /\ sched'[s].hand = held
<1>1. sched[s] \in SchedState /\ DOMAIN sched = Schedulers
  BY DEF TypeOKSched
<1>. QED BY <1>1 DEF Inspected, SchedState

(* A step of a sweep goes on with the job in hand, puts it down, takes     *)
(* another without dispatching it, or starts to dispatch: then the sweep   *)
(* holds the version its update has just left behind.                      *)
Carries == {"retryPush", "retryUndo", "stalePush", "procqPush"}

GoesOn(s) ==
    /\ sched'[s].hand = sched[s].hand
    /\ sched'[s].version = sched[s].version
    /\ sched'[s].pc \in Carries => sched[s].pc \in Carries

PutsDown(s) == sched'[s].hand = {}

Takes(s) == sched'[s].pc \notin Carries /\ \E j \in Jobs : sched'[s].hand = {j}

Dispatches(s) ==
    \E j \in Jobs :
        /\ sched'[s].hand = {j} \/ (sched'[s].hand = sched[s].hand /\ j \in sched[s].hand)
        /\ sched'[s].version = job[j].version
        /\ job'[j].version = job[j].version + 1

SweepMove(s) == GoesOn(s) \/ PutsDown(s) \/ Takes(s) \/ Dispatches(s)

LEMMA SweepMoves ==
    ASSUME TypeOK, NEW s \in Schedulers, Sweep(s) \/ SchedFailure(s)
    PROVE  SweepMove(s)
<1>0. TypeOKStore /\ TypeOKSched
  BY DEF TypeOK
<1>. USE DEF SweepMove
<1>1. ASSUME NEW j \in Jobs, RequeueRetry(s, j) PROVE SweepMove(s)
  <2>1. CASE RetryMatches(s, j) /\ Write(j, Bumped(j, "QUEUED")) /\ Take(s, "retryPush", j)
    <3>1. job'[j].version = job[j].version + 1
      BY <1>0, <2>1, Written, RowFields
    <3>2. Dispatches(s)
      <4>1. sched'[s].hand = {j} /\ sched'[s].version = sched[s].batch[j]
        BY <1>0, <2>1, SweepLocals
      <4>2. job[j].version = sched[s].batch[j]
        BY <2>1 DEF RetryMatches
      <4>. QED BY <3>1, <4>1, <4>2 DEF Dispatches
    <3>. QED BY <3>2
  <2>2. CASE Skip(s, j)
    BY <1>0, <2>2, SweepLocals DEF GoesOn
  <2>. QED BY <1>1, <2>1, <2>2 DEF RequeueRetry
<1>2. ASSUME NEW j \in Jobs, ClaimStale(s, j) \/ ClaimEntry(s, j) PROVE SweepMove(s)
  <2>1. CASE StaleMatches(s, j) /\ Write(j, Bumped(j, "QUEUED"))
             /\ j \in sched[s].hand /\ \E pc : To(s, pc)
    <3>1. job'[j].version = job[j].version + 1
      BY <1>0, <2>1, Written, RowFields
    <3>2. Dispatches(s)
      BY <1>0, <2>1, <3>1, SweepLocals DEF Dispatches, StaleMatches
    <3>. QED BY <3>2
  <2>2. CASE \E pc : PutDown(s, pc)
    BY <1>0, <2>2, SweepLocals DEF PutsDown
  <2>. QED BY <1>2, <2>1, <2>2 DEF ClaimStale, ClaimEntry, Holding
<1>3. ASSUME NEW j \in Jobs,
             \/ RecoverJob(s, j) \/ RecoverDrop(s, j) \/ PushRetry(s, j) \/ UndoRetry(s, j)
             \/ PushPending(s, j) \/ MarkPending(s, j) \/ ScanReady(s, j) \/ ScanProcessing(s, j)
             \/ PushStale(s, j) \/ DropEntry(s, j) \/ PushEntry(s, j) \/ RemoveEntry(s, j)
             \/ PushRetryThrows(s, j) \/ UndoRetryThrows(s, j) \/ PushPendingThrows(s, j)
             \/ PushStaleThrows(s, j) \/ MarkPendingThrows(s, j) \/ ClaimStaleThrows(s, j)
      PROVE  SweepMove(s)
  <2>1. CASE \E pc : PutDown(s, pc)
    BY <1>0, <2>1, SweepLocals DEF PutsDown
  <2>2. CASE \E pc \in {"recoverDrop", "pendingMark", "staleScan"} : Take(s, pc, j)
    BY <1>0, <2>2, SweepLocals DEF Takes, Carries
  <2>3. CASE Skip(s, j)
    BY <1>0, <2>3, SweepLocals DEF GoesOn
  <2>4. CASE \E pc \in {"staleClaim", "procqMoved"} : To(s, pc)
    <3>1. PICK pc \in {"staleClaim", "procqMoved"} : To(s, pc)
      BY <2>4
    <3>2. sched'[s].pc \notin Carries
      BY <1>0, <3>1, SweepLocals DEF Carries
    <3>. QED BY <1>0, <3>1, <3>2, SweepLocals DEF GoesOn
  <2>5. CASE sched[s].pc = "retryPush" /\ To(s, "retryUndo")
    BY <1>0, <2>5, SweepLocals DEF GoesOn, Carries
  <2>. QED
    BY <1>3, <2>1, <2>2, <2>3, <2>4, <2>5
    DEF RecoverJob, RecoverDrop, PushRetry, UndoRetry, PushPending, MarkPending, ScanReady,
        ScanProcessing, PushStale, DropEntry, PushEntry, RemoveEntry, PushRetryThrows,
        UndoRetryThrows, PushPendingThrows, PushStaleThrows, MarkPendingThrows, ClaimStaleThrows,
        Holding
<1>4. ASSUME RecoverDone(s) \/ EndSweep(s) \/ AbortSweep(s) \/ ListProcessing(s)
      PROVE  SweepMove(s)
  <2>1. CASE sched' = [sched EXCEPT ![s] = Resting]
    BY <1>0, <2>1, SweepLocals DEF PutsDown
  <2>2. CASE ListProcessing(s)
    BY <1>0, <2>2, SweepLocals DEF ListProcessing, PutsDown
  <2>. QED BY <1>4, <2>1, <2>2 DEF RecoverDone, EndSweep, AbortSweep
<1>5. ASSUME NEW w, DeclareDead(s, w) PROVE SweepMove(s)
  BY <1>0, <1>5, SweepLocals DEF DeclareDead, PutsDown
<1>6. ASSUME NEW old, QueryRetries(s, old) \/ QueryPending(s, old) \/ QueryStale(s, old)
      PROVE  SweepMove(s)
  BY <1>0, <1>6, SweepLocals DEF QueryRetries, QueryPending, QueryStale, PutsDown
<1>7. ASSUME NEW old, NEW j \in Jobs, InspectEntry(s, j, old) PROVE SweepMove(s)
  <2>1. CASE Inspected(s, j, "procq", {}, 0)
    <3>1. sched'[s].hand = {}
      BY <1>0, <2>1, InspectedLocals
    <3>. QED BY <3>1 DEF PutsDown
  <2>2. CASE \E pc \in {"procqDrop", "procqClaim"} : \E v : Inspected(s, j, pc, {j}, v)
    <3>1. PICK pc \in {"procqDrop", "procqClaim"} : \E v : Inspected(s, j, pc, {j}, v)
      BY <2>2
    <3>2. sched'[s].pc = pc /\ sched'[s].hand = {j}
      BY <1>0, <3>1, InspectedLocals
    <3>. QED BY <3>1, <3>2 DEF Takes, Carries
  <2>. QED BY <1>7, <2>1, <2>2 DEF InspectEntry
<1>8. CASE SchedProgress(s)
  BY <1>1, <1>2, <1>3, <1>4, <1>8 DEF SchedProgress
<1>9. CASE SchedFailure(s)
  BY <1>3, <1>4, <1>9 DEF SchedFailure
<1>. QED BY <1>5, <1>6, <1>7, <1>8, <1>9 DEF Sweep

(* A sweep leaves the locals of the others alone.                          *)
LEMMA OneSweep ==
    ASSUME TypeOK, NEW s \in Schedulers, Sweep(s) \/ SchedFailure(s)
    PROVE  \A t \in Schedulers \ {s} : sched'[t] = sched[t]
<1> DEFINE Alone == \A t \in Schedulers \ {s} : sched'[t] = sched[t]
<1>0. DOMAIN sched = Schedulers
  BY DEF TypeOK, TypeOKSched
<1>1. /\ \A pc, S : Start(s, pc, S) => Alone
      /\ \A locals : sched' = [sched EXCEPT ![s] = locals] => Alone
  BY <1>0 DEF Start
<1>2. \A pc, j : Take(s, pc, j) => Alone
  BY <1>0 DEF Take
<1>3. \A j : Skip(s, j) => Alone
  BY <1>0 DEF Skip
<1>4. \A pc : To(s, pc) \/ PutDown(s, pc) => Alone
  BY <1>0 DEF To, PutDown
<1>5. \A j, pc, held, v : Inspected(s, j, pc, held, v) => Alone
  BY <1>0 DEF Inspected
<1>. SUFFICES Alone
  OBVIOUS
<1>. HIDE DEF Alone
<1>6. CASE SchedProgress(s)
  BY <1>1, <1>2, <1>3, <1>4, <1>6
  DEF SchedProgress, RecoverDone, ListProcessing, EndSweep, RecoverJob, RecoverDrop, RequeueRetry,
      PushRetry, UndoRetry, PushPending, MarkPending, ScanReady, ScanProcessing, ClaimStale,
      PushStale, DropEntry, ClaimEntry, PushEntry, RemoveEntry
<1>7. CASE SchedFailure(s)
  BY <1>1, <1>3, <1>4, <1>7
  DEF SchedFailure, AbortSweep, PushRetryThrows, UndoRetryThrows, PushPendingThrows, PushStaleThrows,
      MarkPendingThrows, ClaimStaleThrows
<1>8. CASE Sweep(s) /\ ~SchedProgress(s)
  BY <1>1, <1>5, <1>8 DEF Sweep, DeclareDead, QueryRetries, QueryPending, QueryStale, InspectEntry
<1>. QED BY <1>6, <1>7, <1>8

LEMMA SweepSteps ==
    ASSUME TypeOK, [Next]_vars
    PROVE  \/ UNCHANGED sched
           \/ \E s \in Schedulers :
                 SweepMove(s) /\ \A t \in Schedulers \ {s} : sched'[t] = sched[t]
BY SweepMoves, OneSweep DEF Next, LoopStep, SchedStep, ApiStep, vars

(* A sweep that dispatches is behind the row, and holds another version    *)
(* than every other sweep that dispatches the same job.                    *)
LEMMA DispatchFenced ==
    ASSUME IInv, [Next]_vars
    PROVE  OneInHand' /\ DispatchBehind' /\ DispatchedOnce'
<1>0. TypeOK /\ OneInHand /\ DispatchBehind /\ DispatchedOnce
  BY DEF IInv
<1>1. \A j \in Jobs : /\ job[j].version \in Nat /\ job'[j].version \in Nat
                      /\ job'[j].version >= job[j].version
  <2>1. TypeOK'
    BY <1>0, TypeStep
  <2>. QED BY <1>0, <2>1, JobRow, VersionsGrow DEF TypeOK, TypeOKStore, Row
<1>2. \A s \in Schedulers : sched[s].version \in Nat
  BY <1>0, SchedFields DEF TypeOK
<1>3. \A j, s : Dispatching(s, j) <=> j \in sched[s].hand /\ sched[s].pc \in Carries
  BY DEF Dispatching, Carries
<1>4. \A j, s : Dispatching(s, j)' <=> j \in sched'[s].hand /\ sched'[s].pc \in Carries
  BY DEF Dispatching, Carries
<1>5. CASE UNCHANGED sched
  <2>1. \A j, s : Dispatching(s, j)' <=> Dispatching(s, j)
    BY <1>3, <1>4, <1>5
  <2>2. OneInHand' /\ DispatchedOnce'
    BY <1>0, <1>5, <2>1 DEF OneInHand, DispatchedOnce
  <2>3. DispatchBehind'
    BY <1>0, <1>1, <1>2, <1>5, <2>1 DEF DispatchBehind
  <2>. QED BY <2>2, <2>3
<1>6. ASSUME NEW s \in Schedulers, SweepMove(s),
             \A t \in Schedulers \ {s} : sched'[t] = sched[t]
      PROVE  OneInHand' /\ DispatchBehind' /\ DispatchedOnce'
  <2>1. OneInHand'
    BY <1>0, <1>6 DEF OneInHand, SweepMove, GoesOn, PutsDown, Takes, Dispatches
  <2>2. \A t \in Schedulers \ {s}, j \in Jobs :
           Dispatching(t, j)' => /\ Dispatching(t, j)
                                 /\ sched'[t].version = sched[t].version
                                 /\ sched[t].version < job[j].version
    BY <1>0, <1>3, <1>4, <1>6 DEF DispatchBehind
  <2>3. \A j \in Jobs :
           Dispatching(s, j)' =>
              \/ Dispatching(s, j) /\ sched'[s].version = sched[s].version
              \/ sched'[s].version = job[j].version /\ job'[j].version = job[j].version + 1
    BY <1>0, <1>3, <1>4, <1>6 DEF OneInHand, SweepMove, GoesOn, PutsDown, Takes, Dispatches
  <2>4. DispatchBehind'
    BY <1>0, <1>1, <1>2, <2>2, <2>3 DEF DispatchBehind
  <2>5. \A j \in Jobs, t \in Schedulers \ {s} :
           Dispatching(s, j)' /\ Dispatching(t, j)' => sched'[s].version # sched'[t].version
    BY <1>0, <1>1, <1>2, <2>2, <2>3 DEF DispatchedOnce
  <2>6. DispatchedOnce'
    BY <1>0, <2>2, <2>5 DEF DispatchedOnce
  <2>. QED BY <2>1, <2>4, <2>6
<1>. QED BY <1>0, <1>5, <1>6, SweepSteps

-----------------------------------------------------------------------------
(* A job is born once, and only a job that exists is run or requested.     *)
LEMMA CreateSteps ==
    ASSUME TypeOK, [Next]_vars, NEW j \in Jobs
    PROVE  \/ create'[j] = create[j]
           \/ create[j] # "none" /\ create'[j] # "none"
           \/ create'[j] # "none" /\ job'[j] = NewRow
<1>1. CASE UNCHANGED create
  BY <1>1
<1>2. CASE \E k \in Jobs : CreateJob(k)
  <2>1. PICK k \in Jobs : CreateJob(k)
    BY <1>2
  <2>2. create' = [create EXCEPT ![k] = "inserted"] /\ job'[k] = NewRow
    BY <2>1, Written DEF CreateJob, Step, TypeOK
  <2>. QED BY <2>2 DEF TypeOK, TypeOKApi
<1>3. CASE \E k \in Jobs, from \in CreatePc \ {"none"}, to \in CreatePc \ {"none"} : Step(k, from, to)
  BY <1>3 DEF Step, TypeOK, TypeOKApi
<1>4. CASE \E k \in Jobs : CreateProgress(k) \/ CreateFailure(k)
  BY <1>3, <1>4
  DEF CreateProgress, CreateFailure, MarkQueued, EnqueueJob, Answer, UndoCreate, MarkQueuedThrows,
      EnqueueThrows, AnswerThrows, AbandonCreate, CreatePc
<1>. QED
  BY <1>1, <1>2, <1>4
  DEF Next, LoopStep, SchedStep, ApiStep, NextApi, UserRequest, CheckCancel, CancelJob, CheckRetry,
      RetryJob, Check, Finish, vars, apiVars

LEMMA RequestSteps ==
    ASSUME TypeOK, [Next]_vars, NEW r \in Requests, NEW j \in request'[r].checked
    PROVE  j \in request[r].checked \/ (j \in Jobs /\ job[j].status # "ABSENT")
<1>1. CASE UNCHANGED request
  BY <1>1
<1>2. ASSUME NEW q \in Requests, NEW k \in Jobs, CheckCancel(q, k) \/ CheckRetry(q, k)
      PROVE  j \in request[r].checked \/ (j \in Jobs /\ job[j].status # "ABSENT")
  BY <1>2 DEF CheckCancel, CheckRetry, Check, TypeOK, TypeOKApi, RequestState
<1>3. ASSUME NEW q \in Requests, NEW k \in Jobs, CancelJob(q, k) \/ RetryJob(q, k)
      PROVE  j \in request[r].checked
  BY <1>3 DEF CancelJob, RetryJob, Finish, TypeOK, TypeOKApi, RequestState
<1>. QED
  BY <1>1, <1>2, <1>3
  DEF Next, LoopStep, SchedStep, ApiStep, NextApi, CreateJob, CreateProgress, CreateFailure,
      MarkQueued, EnqueueJob, Answer, UndoCreate, MarkQueuedThrows, EnqueueThrows, AnswerThrows,
      AbandonCreate, UserRequest, Step, Requests, vars, apiVars

LEMMA BornStep ==
    ASSUME IInv, [Next]_vars
    PROVE  Born'
<1>0. TypeOK /\ Born
  BY DEF IInv
<1>. SUFFICES ASSUME NEW j \in Jobs
              PROVE  IF create'[j] = "none" THEN Unborn(j)' ELSE job'[j].status # "ABSENT"
  BY DEF Born
<1>1. CASE create'[j] = "none"
  <2>1. create[j] = "none" /\ Unborn(j)
    BY <1>0, <1>1, CreateSteps DEF Born
  <2>2. job[j].status = "ABSENT"
    BY <2>1 DEF Unborn, AbsentRow
  <2>3. job'[j] = AbsentRow
    BY <1>1, <2>1, <2>2, RowSteps DEF RowStep, Updated, Unborn
  <2>4. \A l \in Loops : ~Runs(l, j)'
    <3>1. CASE \A l \in Loops : loop'[l].pc = "running" => loop'[l] = loop[l]
      BY <2>1, <3>1 DEF Unborn, Runs
    <3>2. CASE \E c \in Loops : Claims(c)
      <4>1. PICK c \in Loops : Claims(c)
        BY <3>2
      <4>2. ~Runs(c, j)'
        BY <2>2, <4>1 DEF Runs, Claims, At, RowOf, JobOf
      <4>. QED BY <2>1, <4>1, <4>2 DEF Unborn, Runs, Claims
    <3>. QED BY <1>0, <3>1, <3>2, LoopSteps
  <2>5. \A r \in Requests : j \notin request'[r].checked
    BY <1>0, <2>1, <2>2, RequestSteps DEF Unborn
  <2>. QED BY <1>1, <2>3, <2>4, <2>5 DEF Unborn
<1>2. CASE create'[j] # "none"
  <2>1. NewRow.status = "PENDING"
    BY DEF NewRow, AbsentRow
  <2>2. CASE create[j] = "none"
    BY <1>0, <1>2, <2>1, <2>2, CreateSteps
  <2>3. CASE create[j] # "none"
    <3>1. job[j].status # "ABSENT"
      BY <1>0, <2>3 DEF Born
    <3>2. RowStep(j)
      BY RowSteps
    <3>. QED BY <1>2, <2>3, <3>1, <3>2 DEF RowStep, Updated
  <2>. QED BY <2>2, <2>3
<1>. QED BY <1>1, <1>2

LEMMA CompletedStep ==
    ASSUME IInv, [Next]_vars
    PROVE  CompletedUnowned'
<1>. SUFFICES ASSUME NEW j \in Jobs, job'[j].status = "COMPLETED"
              PROVE  job'[j].workerId = NoWorker
  BY DEF CompletedUnowned
<1>1. NewRow.status = "PENDING"
  BY DEF NewRow, AbsentRow
<1>2. RowStep(j)
  BY RowSteps
<1>3. job[j].status = "COMPLETED" => job[j].workerId = NoWorker
  BY DEF IInv, CompletedUnowned
<1>. QED BY <1>1, <1>2, <1>3 DEF RowStep, Updated

LEMMA SweepResult ==
    ASSUME NEW s \in Schedulers, Sweep(s) \/ SchedFailure(s)
    PROVE  UNCHANGED result
<1>1. CASE SchedProgress(s)
  BY <1>1
  DEF SchedProgress, RecoverDone, ListProcessing, EndSweep, RecoverJob, RecoverDrop, RequeueRetry,
      PushRetry, UndoRetry, PushPending, MarkPending, ScanReady, ScanProcessing, ClaimStale,
      PushStale, DropEntry, ClaimEntry, PushEntry, RemoveEntry, storeVars
<1>2. CASE SchedFailure(s)
  BY <1>2
  DEF SchedFailure, AbortSweep, PushRetryThrows, UndoRetryThrows, PushPendingThrows, PushStaleThrows,
      MarkPendingThrows, ClaimStaleThrows
<1>3. CASE Sweep(s) /\ ~SchedProgress(s)
  BY <1>3
  DEF Sweep, DeclareDead, QueryRetries, QueryPending, QueryStale, InspectEntry, storeVars
<1>. QED BY <1>1, <1>2, <1>3

(* Only a completion transaction stores a result.                          *)
LEMMA Storers ==
    ASSUME [Next]_vars, NEW j \in result' \ result
    PROVE  \E l \in Loops : (Complete(l) \/ CompleteThrows(l)) /\ CommitCompletion(l)
<1>1. result' # result
  OBVIOUS
<1>2. ASSUME NEW l \in Loops, LoopProgress(l) \/ LoopFailure(l)
      PROVE  (Complete(l) \/ CompleteThrows(l)) /\ CommitCompletion(l)
  BY <1>1, <1>2
  DEF LoopProgress, LoopFailure, WaitForJob, FindJob, Claim, Complete, FinishCompleted,
      HandlerThrows, HandleFailure, ScheduleRetry, GiveUp, FinishReleased, ClaimThrows,
      CompleteThrows, FinishThrows, FindThrows, CatchThrows, storeVars
<1>3. LoopStep
  <2>1. CASE SchedStep
    <3>1. UNCHANGED result
      BY <2>1, SweepResult DEF SchedStep
    <3>. QED BY <1>1, <3>1
  <2>2. CASE ApiStep
    BY <1>1, <2>2
    DEF ApiStep, NextApi, CreateJob, CreateProgress, CreateFailure, MarkQueued, EnqueueJob, Answer,
        UndoCreate, MarkQueuedThrows, EnqueueThrows, AnswerThrows, AbandonCreate, UserRequest,
        CheckCancel, CancelJob, CheckRetry, RetryJob, storeVars
  <2>. QED BY <1>1, <2>1, <2>2 DEF Next, vars, storeVars
<1>. QED BY <1>1, <1>2, <1>3 DEF LoopStep, NextLoops, ReportProgress, Crash

-----------------------------------------------------------------------------
LEMMA Inductive == Spec => []IInv
<1>1. Init => IInv
  <2>. SUFFICES ASSUME Init PROVE IInv
    OBVIOUS
  <2>1. TypeOK
    BY TypeInit
  <2>2. /\ job = [j \in Jobs |-> AbsentRow]
        /\ \A l \in Loops : loop[l].pc = "idle"
        /\ \A s \in Schedulers : sched[s].hand = {}
        /\ \A j \in Jobs : create[j] = "none"
        /\ \A r \in Requests : request[r].checked = {}
    BY DEF Init, InitStore, InitLoops, InitSched, InitApi, IdleLoop, At, Resting
  <2>3. Born
    BY <2>2 DEF Born, Unborn, Runs
  <2>4. CompletedUnowned
    BY <2>2 DEF CompletedUnowned, AbsentRow
  <2>5. VersionsFenced /\ OneInHand /\ DispatchBehind /\ DispatchedOnce
    BY <2>2 DEF VersionsFenced, Runs, OneInHand, DispatchBehind, DispatchedOnce, Dispatching
  <2>. QED BY <2>1, <2>3, <2>4, <2>5 DEF IInv
<1>2. IInv /\ [Next]_vars => IInv'
  <2>. SUFFICES ASSUME IInv, [Next]_vars PROVE IInv'
    OBVIOUS
  <2>1. TypeOK'
    BY TypeStep DEF IInv
  <2>. QED BY <2>1, BornStep, CompletedStep, AttemptsFenced, DispatchFenced DEF IInv
<1>. QED BY <1>1, <1>2, PTL DEF Spec

(* However many loops, workers and schedulers there are, and whatever is   *)
(* slow or fails: two attempts at a job never carry the same version, so   *)
(* the WHERE clause of the completion can tell them apart.                 *)
THEOREM AttemptsAreFenced == Spec => []VersionsFenced
<1>1. IInv => VersionsFenced
  BY DEF IInv
<1>. QED BY <1>1, Inductive, PTL

(* However many schedulers believe to be the leader, two of them never     *)
(* push the same wait of a job.                                            *)
THEOREM NeverDispatchedTwice == Spec => []DispatchedOnce
<1>1. IInv => DispatchedOnce
  BY DEF IInv
<1>. QED BY <1>1, Inductive, PTL

(* No failure path of worker.ts turns a completed job into RETRYING or     *)
(* FAILED, whichever call throws after the completion committed.           *)
THEOREM CompletionsStand == Spec => CompletionStands
<1>1. IInv /\ [Next]_vars =>
        [\A j \in Jobs : job[j].status = "COMPLETED" =>
                            job'[j].status \notin {"RETRYING", "FAILED"}]_vars
  <2>. SUFFICES ASSUME IInv, [Next]_vars, NEW j \in Jobs, job[j].status = "COMPLETED"
                PROVE  job'[j].status \notin {"RETRYING", "FAILED"}
    OBVIOUS
  <2>1. RowStep(j)
    BY RowSteps
  <2>2. NewRow.status = "PENDING"
    BY DEF NewRow, AbsentRow
  <2>. QED BY <2>1, <2>2 DEF RowStep, Updated
<1>. QED BY <1>1, Inductive, PTL DEF Spec, CompletionStands

(* The completion transaction stores the result of the latest attempt:     *)
(* every other attempt that still runs was claimed before.                 *)
THEOREM LatestAttemptWins == Spec => ResultFromLatestAttempt
<1> DEFINE Stored == \A j \in result' \ result :
                        \E l \in Loops :
                            /\ Runs(l, j)
                            /\ loop'[l].pc # "running"
                            /\ \A m \in Loops \ {l} :
                                  Runs(m, j) => loop[m].version < loop[l].version
<1>1. IInv /\ [Next]_vars => Stored
  <2>. SUFFICES ASSUME IInv, [Next]_vars, NEW j \in result' \ result
                PROVE  \E l \in Loops :
                          /\ Runs(l, j)
                          /\ loop'[l].pc # "running"
                          /\ \A m \in Loops \ {l} :
                                Runs(m, j) => loop[m].version < loop[l].version
    OBVIOUS
  <2>1. PICK l \in Loops : (Complete(l) \/ CompleteThrows(l)) /\ CommitCompletion(l)
    BY Storers
  <2>2. TypeOKLoops /\ VersionsFenced
    BY DEF IInv, TypeOK
  <2>3. /\ loop[l].pc = "running" /\ JobOf(l) = j
        /\ job[j].version = loop[l].version
    BY <2>1 DEF Complete, CompleteThrows, CommitCompletion, CompletionMatches, RowOf, JobOf
  <2>4. j \in Jobs /\ Runs(l, j)
    BY <2>2, <2>3, BusyLoop DEF Runs, JobOf
  <2>5. loop'[l].pc # "running"
    <3>1. \E pc \in LoopPc \ {"running"} : \E k, v : Goto(l, At(pc, k, v))
      BY <2>1 DEF Complete, CompleteThrows, IdleLoop, LoopPc
    <3>. QED BY <2>2, <3>1, Gone DEF At
  <2>6. ASSUME NEW m \in Loops \ {l}, Runs(m, j)
        PROVE  loop[m].version < loop[l].version
    <3>1. loop[m].version \in Nat /\ loop[l].version \in Nat
      BY <2>2, <2>3, <2>6, BusyLoop DEF Runs
    <3>2. loop[m].version <= loop[l].version /\ loop[m].version # loop[l].version
      BY <2>2, <2>3, <2>4, <2>6 DEF VersionsFenced
    <3>. QED BY <3>1, <3>2
  <2>. QED BY <2>4, <2>5, <2>6
<1>. QED BY <1>1, Inductive, PTL DEF Spec, ResultFromLatestAttempt

-----------------------------------------------------------------------------
(* The retry budget, that no job is stranded, and that the platform        *)
(* implements JobLifecycle.  RowMoves says which of thirteen things a step *)
(* does to the rows; everything else is argued from these and not from the *)
(* single actions.  The last two results are about the platform            *)
(* Undisturbed, and their inductive invariant is Recoverable.              *)

-----------------------------------------------------------------------------
(* What a step may do to the row of k: the status and owner it writes, and *)
(* what it adds to the version and the retries.                            *)
Turns(k, status, worker, up, more) ==
    /\ job'[k].status = status
    /\ job'[k].workerId = worker
    /\ job'[k].version = job[k].version + up
    /\ job'[k].retryCount = job[k].retryCount + more

(* No row is touched but the one of k.                                     *)
Only(k) == \A i \in Jobs \ {k} : job'[i] = job[i]

Reported(k) == Turns(k, job[k].status, job[k].workerId, 0, 0)

ClaimedBy(l, k) ==
    /\ job[k].status = "QUEUED"
    /\ Turns(k, "RUNNING", WorkerOf[l], 1, 0)
    /\ loop'[l] \in {At("running", k, job[k].version + 1), At("caught", k, 0)}
    /\ \A m \in Loops \ {l} : loop'[m] = loop[m]

Accepted(k) ==
    /\ job[k].status = "RUNNING"
    /\ Turns(k, "COMPLETED", NoWorker, 1, 0)
    /\ k \notin result
    /\ result' = result \cup {k}

PostponedBy(l, k) ==
    /\ loop[l].pc = "retrying" /\ JobOf(l) = k
    /\ loop[l].version = job[k].version
    /\ job[k].workerId \in Workers
    /\ Turns(k, "RETRYING", NoWorker, 1, 1)

GivenUp(k) ==
    /\ job[k].workerId \in Workers
    /\ Turns(k, "FAILED", NoWorker, 1, 0)

Recovered(k) ==
    /\ job[k].status = "RUNNING"
    /\ Turns(k, "RETRYING", NoWorker, 1, 0)

Requeued(k) ==
    /\ job[k].status \in {"QUEUED", "RETRYING"}
    /\ \E status \in {"QUEUED", "RETRYING"} : Turns(k, status, job[k].workerId, 1, 0)

DispatchedBy(s, k) ==
    /\ sched[s].pc = "pendingMark" /\ k \in sched[s].hand
    /\ job[k].status = "PENDING"
    /\ Turns(k, "QUEUED", job[k].workerId, 1, 0)

Inserted(k) ==
    /\ create[k] = "none" /\ create'[k] = "inserted"
    /\ job'[k] = NewRow

Marked(k) ==
    /\ create[k] = "inserted" /\ create'[k] # "inserted"
    /\ Turns(k, "QUEUED", job[k].workerId, 0, 0)

Withdrawn(k) ==
    /\ job[k].status = "QUEUED"
    /\ Turns(k, "PENDING", job[k].workerId, 1, 0)

CancelledBy(r, k) ==
    /\ k \in request[r].checked
    /\ Turns(k, "CANCELLED", job[k].workerId, 0, 0)

RevivedBy(r, k) ==
    /\ k \in request[r].checked
    /\ request' = [request EXCEPT ![r].checked = {}]
    /\ Turns(k, "PENDING", job[k].workerId, 0, 1)

LoopMove(k) ==
    \/ Reported(k) /\ UNCHANGED <<loop, result>>
    \/ Accepted(k)
    \/ UNCHANGED result /\ (GivenUp(k) \/ \E l \in Loops : ClaimedBy(l, k) \/ PostponedBy(l, k))

SchedMove(k) == Recovered(k) \/ Requeued(k) \/ \E s \in Schedulers : DispatchedBy(s, k)

ApiMove(k) ==
    \/ Inserted(k) \/ Marked(k) \/ Withdrawn(k)
    \/ \E r \in CancelRequests : CancelledBy(r, k)
    \/ \E r \in RetryRequests : RevivedBy(r, k)

RowMove(k) ==
    /\ Only(k)
    /\ \/ LoopMove(k) /\ UNCHANGED <<sched, apiVars>>
       \/ SchedMove(k) /\ UNCHANGED <<result, loop, apiVars>>
       \/ ApiMove(k) /\ UNCHANGED <<result, loop, sched>>

-----------------------------------------------------------------------------
(* The columns of the rows the steps write.                                *)
LEMMA Columns ==
    ASSUME TypeOKStore, NEW k \in Jobs
    PROVE  /\ \A st : Write(k, Bumped(k, st)) =>
                         Only(k) /\ Turns(k, st, job[k].workerId, 1, 0)
           /\ \A st : Write(k, Unassigned(k, st)) =>
                         Only(k) /\ Turns(k, st, NoWorker, 1, 0)
           /\ \A st : Write(k, [job[k] EXCEPT !.status = st]) =>
                         Only(k) /\ Turns(k, st, job[k].workerId, 0, 0)
           /\ \A p : Write(k, [job[k] EXCEPT !.progress = p]) =>
                        Only(k) /\ Reported(k)
<1>1. job[k] \in Row /\ job[k].version \in Nat /\ job[k].retryCount \in Nat
  BY JobRow DEF Row
<1>2. job[k].version + 0 = job[k].version /\ job[k].retryCount + 0 = job[k].retryCount
  BY <1>1
<1>3. \A st : LET row == Bumped(k, st)
              IN  /\ row.status = st /\ row.workerId = job[k].workerId
                  /\ row.version = job[k].version + 1 /\ row.retryCount = job[k].retryCount
  BY <1>1 DEF Bumped, Row
<1>4. \A st : LET row == Unassigned(k, st)
              IN  /\ row.status = st /\ row.workerId = NoWorker
                  /\ row.version = job[k].version + 1 /\ row.retryCount = job[k].retryCount
  BY <1>1 DEF Unassigned, Row
<1>5. \A st : LET row == [job[k] EXCEPT !.status = st]
              IN  /\ row.status = st /\ row.workerId = job[k].workerId
                  /\ row.version = job[k].version /\ row.retryCount = job[k].retryCount
  BY <1>1 DEF Row
<1>6. \A p : LET row == [job[k] EXCEPT !.progress = p]
             IN  /\ row.status = job[k].status /\ row.workerId = job[k].workerId
                 /\ row.version = job[k].version /\ row.retryCount = job[k].retryCount
  BY <1>1 DEF Row
<1>7. \A row : Write(k, row) => job'[k] = row /\ Only(k)
  BY Written DEF Only
<1>8. ASSUME NEW st, Write(k, Bumped(k, st))
      PROVE  Only(k) /\ Turns(k, st, job[k].workerId, 1, 0)
  BY <1>2, <1>3, <1>7, <1>8 DEF Turns
<1>9. ASSUME NEW st, Write(k, Unassigned(k, st))
      PROVE  Only(k) /\ Turns(k, st, NoWorker, 1, 0)
  BY <1>2, <1>4, <1>7, <1>9 DEF Turns
<1>10. ASSUME NEW st, Write(k, [job[k] EXCEPT !.status = st])
       PROVE  Only(k) /\ Turns(k, st, job[k].workerId, 0, 0)
  BY <1>2, <1>5, <1>7, <1>10 DEF Turns
<1>11. ASSUME NEW p, Write(k, [job[k] EXCEPT !.progress = p])
       PROVE  Only(k) /\ Reported(k)
  BY <1>2, <1>6, <1>7, <1>11 DEF Turns, Reported
<1>. QED BY <1>8, <1>9, <1>10, <1>11

LEMMA LoopColumns ==
    ASSUME TypeOKStore, TypeOKLoops, NEW l \in Loops, loop[l].pc \notin {"idle", "dead"},
           NEW k, k = JobOf(l)
    PROVE  /\ k \in Jobs /\ RowOf(l) = job[k]
           /\ Write(JobOf(l), ClaimedRow(l)) =>
                 Only(k) /\ Turns(k, "RUNNING", WorkerOf[l], 1, 0)
           /\ Write(JobOf(l), CompletedRow(l)) =>
                 Only(k) /\ Turns(k, "COMPLETED", NoWorker, 1, 0)
           /\ Write(JobOf(l), RetryingRow(l)) =>
                 Only(k) /\ Turns(k, "RETRYING", NoWorker, 1, 1)
<1>1. k \in Jobs /\ RowOf(l) = job[k]
  BY BusyLoop DEF RowOf, JobOf
<1>2. job[k] \in Row /\ job[k].version \in Nat /\ job[k].retryCount \in Nat
  BY <1>1, JobRow DEF Row
<1>3. job[k].version + 0 = job[k].version /\ job[k].retryCount + 0 = job[k].retryCount
  BY <1>2
<1>4. /\ ClaimedRow(l).status = "RUNNING" /\ ClaimedRow(l).workerId = WorkerOf[l]
      /\ ClaimedRow(l).version = job[k].version + 1
      /\ ClaimedRow(l).retryCount = job[k].retryCount
  BY <1>1, <1>2 DEF ClaimedRow, Row
<1>5. /\ Unassigned(k, "COMPLETED") \in Row
      /\ Unassigned(k, "RETRYING") \in Row
  BY <1>1, UnassignedType DEF Status
<1>6. \A st : /\ Unassigned(k, st).status = st /\ Unassigned(k, st).workerId = NoWorker
              /\ Unassigned(k, st).version = job[k].version + 1
              /\ Unassigned(k, st).retryCount = job[k].retryCount
  BY <1>2 DEF Unassigned, Row
<1>7. /\ CompletedRow(l).status = "COMPLETED" /\ CompletedRow(l).workerId = NoWorker
      /\ CompletedRow(l).version = job[k].version + 1
      /\ CompletedRow(l).retryCount = job[k].retryCount
  BY <1>5, <1>6 DEF CompletedRow, Row
<1>8. /\ RetryingRow(l).status = "RETRYING" /\ RetryingRow(l).workerId = NoWorker
      /\ RetryingRow(l).version = job[k].version + 1
      /\ RetryingRow(l).retryCount = job[k].retryCount + 1
  BY <1>5, <1>6 DEF RetryingRow, Row
<1>9. \A row : Write(k, row) => job'[k] = row /\ Only(k)
  BY <1>1, Written DEF Only
<1>. QED BY <1>1, <1>3, <1>4, <1>7, <1>8, <1>9 DEF Turns

-----------------------------------------------------------------------------
(* The steps of the loops.                                                 *)
LEMMA LoopRowMoves ==
    ASSUME TypeOK, LoopStep
    PROVE  UNCHANGED <<job, result>> \/ \E k \in Jobs : RowMove(k)
<1>0. TypeOKStore /\ TypeOKLoops
  BY DEF TypeOK
<1>1. UNCHANGED <<sched, apiVars>>
  BY DEF LoopStep
<1>. SUFFICES UNCHANGED <<job, result>> \/ \E k \in Jobs : Only(k) /\ LoopMove(k)
  BY <1>1 DEF RowMove
<1>2. ASSUME NEW l \in Loops, Claim(l) \/ ClaimThrows(l), job' # job
      PROVE  \E k \in Jobs : Only(k) /\ LoopMove(k)
  <2>1. /\ loop[l].pc \notin {"idle", "dead"}
        /\ RowOf(l).status = "QUEUED" /\ RowOf(l).version = loop[l].version
        /\ Write(JobOf(l), ClaimedRow(l))
        /\ UNCHANGED result
        /\ \/ Goto(l, At("running", JobOf(l), loop[l].version + 1))
           \/ Goto(l, At("caught", JobOf(l), 0))
    BY <1>2 DEF Claim, ClaimThrows, ClaimMatches
  <2>. DEFINE k == JobOf(l)
  <2>2. k \in Jobs /\ RowOf(l) = job[k] /\ Only(k) /\ Turns(k, "RUNNING", WorkerOf[l], 1, 0)
    BY <1>0, <2>1, LoopColumns
  <2>. HIDE DEF k
  <2>3. /\ loop'[l] \in {At("running", k, job[k].version + 1), At("caught", k, 0)}
        /\ \A m \in Loops \ {l} : loop'[m] = loop[m]
    BY <1>0, <2>1, <2>2, Gone DEF k
  <2>4. ClaimedBy(l, k)
    BY <2>1, <2>2, <2>3 DEF ClaimedBy
  <2>. QED BY <2>1, <2>2, <2>4 DEF LoopMove
<1>3. ASSUME NEW l \in Loops, Complete(l) \/ CompleteThrows(l), <<job, result>>' # <<job, result>>
      PROVE  \E k \in Jobs : Only(k) /\ LoopMove(k)
  <2>1. /\ loop[l].pc \notin {"idle", "dead"}
        /\ CommitCompletion(l)
    BY <1>3 DEF Complete, CompleteThrows
  <2>2. /\ RowOf(l).status = "RUNNING" /\ JobOf(l) \notin result
        /\ Write(JobOf(l), CompletedRow(l))
        /\ result' = result \cup {JobOf(l)}
    BY <2>1 DEF CommitCompletion, CompletionMatches
  <2>3. /\ JobOf(l) \in Jobs /\ RowOf(l) = job[JobOf(l)] /\ Only(JobOf(l))
        /\ Turns(JobOf(l), "COMPLETED", NoWorker, 1, 0)
    BY <1>0, <2>1, <2>2, LoopColumns
  <2>. QED BY <2>2, <2>3 DEF Accepted, LoopMove
<1>4. ASSUME NEW l \in Loops, ScheduleRetry(l) \/ GiveUp(l), job' # job
      PROVE  \E k \in Jobs : Only(k) /\ LoopMove(k)
  <2>1. /\ loop[l].pc \notin {"idle", "dead"}
        /\ RowOf(l).workerId = WorkerOf[l] /\ RowOf(l).version = loop[l].version
        /\ UNCHANGED result
        /\ \/ loop[l].pc = "retrying" /\ Write(JobOf(l), RetryingRow(l))
           \/ Write(JobOf(l), Unassigned(JobOf(l), "FAILED"))
    BY <1>4 DEF ScheduleRetry, GiveUp, FailureMatches
  <2>2. JobOf(l) \in Jobs /\ RowOf(l) = job[JobOf(l)]
    BY <1>0, <2>1, LoopColumns
  <2>3. job[JobOf(l)].workerId \in Workers
    BY <2>1, <2>2, LoopAssumption
  <2>4. CASE loop[l].pc = "retrying" /\ Write(JobOf(l), RetryingRow(l))
    <3>1. Only(JobOf(l)) /\ Turns(JobOf(l), "RETRYING", NoWorker, 1, 1)
      BY <1>0, <2>1, <2>4, LoopColumns
    <3>2. PostponedBy(l, JobOf(l))
      BY <2>1, <2>2, <2>3, <2>4, <3>1 DEF PostponedBy
    <3>. QED BY <2>1, <2>2, <3>1, <3>2 DEF LoopMove
  <2>5. CASE Write(JobOf(l), Unassigned(JobOf(l), "FAILED"))
    <3>1. Only(JobOf(l)) /\ Turns(JobOf(l), "FAILED", NoWorker, 1, 0)
      BY <1>0, <2>2, <2>5, Columns
    <3>. QED BY <2>1, <2>2, <2>3, <3>1 DEF GivenUp, LoopMove
  <2>. QED BY <2>1, <2>4, <2>5
<1>5. ASSUME NEW l \in Loops, NEW p \in Reports, ReportProgress(l, p)
      PROVE  \E k \in Jobs : Only(k) /\ LoopMove(k)
  <2>1. /\ loop[l].pc = "running" /\ UNCHANGED <<loop, result>>
        /\ Write(JobOf(l), [RowOf(l) EXCEPT !.progress = p])
    BY <1>5 DEF ReportProgress
  <2>2. JobOf(l) \in Jobs /\ RowOf(l) = job[JobOf(l)]
    BY <1>0, <2>1, BusyLoop DEF RowOf, JobOf
  <2>3. Only(JobOf(l)) /\ Reported(JobOf(l))
    BY <1>0, <2>1, <2>2, Columns
  <2>. QED BY <2>1, <2>2, <2>3 DEF LoopMove
<1>. QED
  BY <1>2, <1>3, <1>4, <1>5
  DEF LoopStep, NextLoops, LoopProgress, LoopFailure, WaitForJob, FindJob, Claim, Complete,
      FinishCompleted, HandlerThrows, HandleFailure, ScheduleRetry, GiveUp, FinishReleased,
      ClaimThrows, FinishThrows, FindThrows, CatchThrows, Crash, storeVars

(* The steps of the sweeps.                                                *)
LEMMA SweepRowMoves ==
    ASSUME TypeOK, SchedStep
    PROVE  UNCHANGED <<job, result>> \/ \E k \in Jobs : RowMove(k)
<1>1. PICK s \in Schedulers : Sweep(s) \/ SchedFailure(s)
  BY DEF SchedStep
<1>2. UNCHANGED <<result, loop, apiVars>>
  BY <1>1, SweepResult DEF SchedStep
<1>. SUFFICES UNCHANGED job \/ \E k \in Jobs : Only(k) /\ SchedMove(k)
  BY <1>2 DEF RowMove
<1>3. ASSUME NEW j \in Jobs, job' # job,
             \/ RecoverJob(s, j) \/ RequeueRetry(s, j) \/ UndoRetry(s, j)
             \/ MarkPending(s, j) \/ ClaimStale(s, j) \/ ClaimEntry(s, j)
             \/ MarkPendingThrows(s, j) \/ ClaimStaleThrows(s, j)
      PROVE  Only(j) /\ SchedMove(j)
  <2>0. TypeOKStore
    BY DEF TypeOK
  <2>1. CASE RecoverJob(s, j)
    BY <1>3, <2>0, <2>1, Columns DEF RecoverJob, RecoverMatches, SchedMove, Recovered
  <2>2. CASE MarkPending(s, j) \/ MarkPendingThrows(s, j)
    <3>1. /\ sched[s].pc = "pendingMark" /\ j \in sched[s].hand
          /\ job[j].status = "PENDING" /\ Write(j, Bumped(j, "QUEUED"))
      BY <1>3, <2>2 DEF MarkPending, MarkPendingThrows, PendingMatches, Holding
    <3>. QED BY <2>0, <3>1, Columns DEF SchedMove, DispatchedBy
  <2>3. CASE \/ RequeueRetry(s, j) \/ UndoRetry(s, j)
             \/ ClaimStale(s, j) \/ ClaimEntry(s, j) \/ ClaimStaleThrows(s, j)
    <3>1. /\ job[j].status \in {"QUEUED", "RETRYING"}
          /\ \E st \in {"QUEUED", "RETRYING"} : Write(j, Bumped(j, st))
      BY <1>3, <2>3
      DEF RequeueRetry, UndoRetry, ClaimStale, ClaimEntry, ClaimStaleThrows, RetryMatches,
          UndoMatches, StaleMatches, QueuedUnowned
    <3>. QED BY <2>0, <3>1, Columns DEF SchedMove, Requeued
  <2>. QED BY <1>3, <2>1, <2>2, <2>3
<1>4. CASE SchedProgress(s)
  BY <1>3, <1>4
  DEF SchedProgress, RecoverDone, ListProcessing, EndSweep, RecoverDrop, PushRetry, PushPending,
      ScanReady, ScanProcessing, PushStale, DropEntry, PushEntry, RemoveEntry, storeVars
<1>5. CASE SchedFailure(s)
  BY <1>3, <1>5
  DEF SchedFailure, AbortSweep, PushRetryThrows, UndoRetryThrows, PushPendingThrows,
      PushStaleThrows
<1>6. CASE Sweep(s) /\ ~SchedProgress(s)
  BY <1>6
  DEF Sweep, DeclareDead, QueryRetries, QueryPending, QueryStale, InspectEntry, storeVars
<1>. QED BY <1>1, <1>4, <1>5, <1>6

(* The steps of the requests.                                              *)
LEMMA ApiRowMoves ==
    ASSUME TypeOK, ApiStep
    PROVE  UNCHANGED <<job, result>> \/ \E k \in Jobs : RowMove(k)
<1>0. TypeOKStore /\ TypeOKApi
  BY DEF TypeOK
<1>1. UNCHANGED <<result, loop, sched>>
  BY DEF ApiStep, NextApi, CreateJob, CreateProgress, CreateFailure, MarkQueued, EnqueueJob, Answer,
         UndoCreate, MarkQueuedThrows, EnqueueThrows, AnswerThrows, AbandonCreate, UserRequest,
         CheckCancel, CancelJob, CheckRetry, RetryJob, storeVars
<1>. SUFFICES UNCHANGED job \/ \E k \in Jobs : Only(k) /\ ApiMove(k)
  BY <1>1 DEF RowMove
<1>2. ASSUME NEW k \in Jobs, CreateJob(k) PROVE Only(k) /\ ApiMove(k)
  <2>1. create[k] = "none" /\ create'[k] = "inserted" /\ Write(k, NewRow)
    BY <1>0, <1>2 DEF CreateJob, Step, TypeOKApi
  <2>. QED BY <1>0, <2>1, Written DEF Only, ApiMove, Inserted
<1>3. ASSUME NEW k \in Jobs, job' # job, MarkQueued(k) \/ MarkQueuedThrows(k)
      PROVE  Only(k) /\ ApiMove(k)
  <2>1. /\ create[k] = "inserted" /\ create'[k] # "inserted"
        /\ Write(k, [job[k] EXCEPT !.status = "QUEUED"])
    BY <1>0, <1>3 DEF MarkQueued, MarkQueuedThrows, Step, TypeOKApi
  <2>. QED BY <1>0, <2>1, Columns DEF ApiMove, Marked
<1>4. ASSUME NEW k \in Jobs, job' # job, UndoCreate(k)
      PROVE  Only(k) /\ ApiMove(k)
  BY <1>0, <1>4, Columns DEF UndoCreate, RollbackMatches, ApiMove, Withdrawn
<1>5. ASSUME NEW r \in CancelRequests, NEW k \in Jobs, CancelJob(r, k)
      PROVE  Only(k) /\ ApiMove(k)
  <2>1. k \in request[r].checked /\ Write(k, [job[k] EXCEPT !.status = "CANCELLED"])
    BY <1>5 DEF CancelJob, Finish
  <2>. QED BY <1>0, <2>1, Columns DEF ApiMove, CancelledBy
<1>6. ASSUME NEW r \in RetryRequests, NEW k \in Jobs, RetryJob(r, k)
      PROVE  Only(k) /\ ApiMove(k)
  <2>. DEFINE row == [job[k] EXCEPT !.status = "PENDING", !.retryCount = job[k].retryCount + 1]
  <2>1. /\ k \in request[r].checked /\ request' = [request EXCEPT ![r].checked = {}]
        /\ Write(k, row)
    BY <1>6 DEF RetryJob, Finish
  <2>2. job[k] \in Row /\ job[k].version + 0 = job[k].version
    BY <1>0, JobRow DEF Row
  <2>3. /\ row.status = "PENDING" /\ row.workerId = job[k].workerId
        /\ row.version = job[k].version /\ row.retryCount = job[k].retryCount + 1
    BY <2>2 DEF Row
  <2>. HIDE DEF row
  <2>4. Only(k) /\ job'[k] = row
    BY <1>0, <2>1, Written DEF Only
  <2>5. Turns(k, "PENDING", job[k].workerId, 0, 1)
    BY <2>2, <2>3, <2>4 DEF Turns
  <2>. QED BY <2>1, <2>4, <2>5 DEF ApiMove, RevivedBy
<1>. QED
  BY <1>2, <1>3, <1>4, <1>5, <1>6
  DEF ApiStep, NextApi, CreateProgress, CreateFailure, UserRequest, EnqueueJob, Answer,
      EnqueueThrows, AnswerThrows, AbandonCreate, CheckCancel, CheckRetry, storeVars

LEMMA RowMoves ==
    ASSUME TypeOK, [Next]_vars
    PROVE  UNCHANGED <<job, result>> \/ \E k \in Jobs : RowMove(k)
<1>1. CASE UNCHANGED vars
  BY <1>1 DEF vars, storeVars
<1>. QED BY <1>1, LoopRowMoves, SweepRowMoves, ApiRowMoves DEF Next

-----------------------------------------------------------------------------
(* The retry budget.  Served are the retries users asked for that have     *)
(* been written (or were given up): each raised one retryCount by one.  A  *)
(* loop before its RETRYING update has seen a count below the limit, and   *)
(* since then only users have raised it as long as the version is the one  *)
(* the loop has read.                                                      *)
Served == {r \in RetryRequests : ~request[r].fresh /\ request[r].checked = {}}

Allowed == MaxRetries + Cardinality(Served)

CheckedOnce == \A r \in Requests : request[r].checked # {} => ~request[r].fresh

Spent == \A j \in Jobs : job[j].retryCount <= Allowed

Entitled ==
    \A l \in Loops : loop[l].pc = "retrying" =>
        /\ loop[l].version <= job[JobOf(l)].version
        /\ loop[l].version = job[JobOf(l)].version => job[JobOf(l)].retryCount < Allowed

BudgetInv == CheckedOnce /\ Spent /\ Entitled

LEMMA RequestMoves ==
    ASSUME TypeOK, [Next]_vars, NEW r \in Requests
    PROVE  \/ request'[r] = request[r]
           \/ request[r].fresh /\ ~request'[r].fresh
           \/ request'[r].fresh = request[r].fresh /\ request'[r].checked = {}
<1>0. request \in [Requests -> RequestState]
  BY DEF TypeOK, TypeOKApi
<1>1. CASE UNCHANGED request
  BY <1>1
<1>2. ASSUME NEW q \in Requests, NEW k \in Jobs, Check(q, k)
      PROVE  request'[r] = request[r] \/ (request[r].fresh /\ ~request'[r].fresh)
  BY <1>0, <1>2 DEF Check, RequestState
<1>3. ASSUME NEW q \in Requests, NEW k \in Jobs, Finish(q, k)
      PROVE  \/ request'[r] = request[r]
             \/ request'[r].fresh = request[r].fresh /\ request'[r].checked = {}
  BY <1>0, <1>3 DEF Finish, RequestState
<1>. QED
  BY <1>1, <1>2, <1>3
  DEF Next, LoopStep, SchedStep, ApiStep, NextApi, CreateJob, CreateProgress, CreateFailure,
      MarkQueued, EnqueueJob, Answer, UndoCreate, MarkQueuedThrows, EnqueueThrows, AnswerThrows,
      AbandonCreate, UserRequest, CheckCancel, CancelJob, CheckRetry, RetryJob, Step, Requests,
      vars, apiVars

(* What is allowed never shrinks, and a user's retry raises it by one.     *)
LEMMA AllowedGrows ==
    ASSUME IsFiniteSet(RetryRequests), TypeOK, CheckedOnce, [Next]_vars
    PROVE  /\ Allowed \in Nat /\ Allowed' \in Nat /\ Allowed <= Allowed'
           /\ \A r \in RetryRequests, k \in Jobs : RevivedBy(r, k) => Allowed + 1 <= Allowed'
           /\ MaxRetries <= Allowed
<1>1. Served \subseteq RetryRequests /\ Served' \subseteq RetryRequests
  BY DEF Served
<1>2. IsFiniteSet(Served) /\ IsFiniteSet(Served')
  BY <1>1, FS_Subset
<1>3. Cardinality(Served) \in Nat /\ Cardinality(Served') \in Nat
  BY <1>2, FS_CardinalityType
<1>4. Served \subseteq Served'
  <2>. SUFFICES ASSUME NEW r \in Served PROVE r \in Served'
    OBVIOUS
  <2>1. r \in RetryRequests /\ r \in Requests /\ ~request[r].fresh /\ request[r].checked = {}
    BY DEF Served, Requests
  <2>2. ~request'[r].fresh /\ request'[r].checked = {}
    BY <2>1, RequestMoves
  <2>. QED BY <2>1, <2>2 DEF Served
<1>5. Cardinality(Served) <= Cardinality(Served')
  BY <1>2, <1>4, FS_Subset
<1>6. ASSUME NEW r \in RetryRequests, NEW k \in Jobs, RevivedBy(r, k)
      PROVE  Cardinality(Served) + 1 <= Cardinality(Served')
  <2>1. r \in Requests /\ request[r] \in RequestState /\ request \in [Requests -> RequestState]
    BY DEF Requests, TypeOK, TypeOKApi
  <2>2. ~request[r].fresh /\ r \notin Served
    BY <1>6, <2>1 DEF RevivedBy, Served, CheckedOnce
  <2>3. ~request'[r].fresh /\ request'[r].checked = {}
    BY <1>6, <2>1, <2>2 DEF RevivedBy, RequestState
  <2>4. Served \cup {r} \subseteq Served'
    BY <1>4, <2>3 DEF Served
  <2>5. Cardinality(Served \cup {r}) = Cardinality(Served) + 1
    BY <1>2, <2>2, FS_AddElement
  <2>6. Cardinality(Served \cup {r}) <= Cardinality(Served')
    BY <1>2, <2>4, FS_Subset
  <2>. QED BY <2>5, <2>6
<1>. QED BY <1>3, <1>5, <1>6, StoreAssumption DEF Allowed

(* The row of a job: its count goes up only within what is allowed, or     *)
(* together with what is allowed.                                          *)
Counted(j) ==
    /\ job'[j].retryCount <= Allowed'
    /\ job[j].version <= job'[j].version
    /\ job'[j].version = job[j].version =>
          \/ job'[j].retryCount = job[j].retryCount
          \/ job'[j].retryCount = job[j].retryCount + 1 /\ Allowed + 1 <= Allowed'

LEMMA Counts ==
    ASSUME IsFiniteSet(RetryRequests), IInv, BudgetInv, [Next]_vars, NEW j \in Jobs
    PROVE  Counted(j)
<1>0. TypeOK /\ CheckedOnce /\ job[j].retryCount <= Allowed
  BY DEF IInv, BudgetInv, Spent
<1>1. /\ Allowed \in Nat /\ Allowed' \in Nat /\ Allowed <= Allowed'
      /\ job[j].retryCount \in Nat /\ job[j].version \in Nat
  BY <1>0, AllowedGrows, JobRow DEF TypeOK, Row
<1>2. CASE job'[j] = job[j]
  BY <1>0, <1>1, <1>2 DEF Counted
<1>3. ASSUME RowMove(j) PROVE Counted(j)
  <2>1. ASSUME NEW status, NEW worker, NEW up \in {0, 1}, Turns(j, status, worker, up, 0)
        PROVE  Counted(j)
    BY <1>0, <1>1, <2>1 DEF Turns, Counted
  <2>2. ASSUME NEW l \in Loops, PostponedBy(l, j) PROVE Counted(j)
    <3>1. job[j].retryCount < Allowed
      BY <2>2 DEF PostponedBy, BudgetInv, Entitled
    <3>. QED BY <1>1, <2>2, <3>1 DEF PostponedBy, Turns, Counted
  <2>3. ASSUME Inserted(j) PROVE Counted(j)
    <3>1. job[j].version = 0 /\ job[j].retryCount = 0
      BY <2>3 DEF Inserted, IInv, Born, Unborn, AbsentRow
    <3>2. NewRow.version = 1 /\ NewRow.retryCount = 0
      BY DEF NewRow, AbsentRow
    <3>. QED BY <1>1, <2>3, <3>1, <3>2 DEF Inserted, Counted
  <2>4. ASSUME NEW r \in RetryRequests, RevivedBy(r, j) PROVE Counted(j)
    <3>1. Allowed + 1 <= Allowed'
      BY <1>0, <2>4, AllowedGrows
    <3>. QED BY <1>0, <1>1, <2>4, <3>1 DEF RevivedBy, Turns, Counted
  <2>5. CASE LoopMove(j)
    BY <2>1, <2>2, <2>5 DEF LoopMove, Reported, Accepted, GivenUp, ClaimedBy
  <2>6. CASE SchedMove(j)
    BY <2>1, <2>6 DEF SchedMove, Recovered, Requeued, DispatchedBy
  <2>7. CASE ApiMove(j)
    BY <2>1, <2>3, <2>4, <2>7 DEF ApiMove, Marked, Withdrawn, CancelledBy
  <2>. QED BY <1>3, <2>5, <2>6, <2>7 DEF RowMove
<1>. QED BY <1>0, <1>2, <1>3, RowMoves DEF RowMove, Only

(* A loop comes before the RETRYING update only from the lookup of its     *)
(* catch block.                                                            *)
LooksUp(l) ==
    /\ loop[l].pc = "caught" /\ UNCHANGED storeVars
    /\ loop'[l].job = JobOf(l)
    /\ loop'[l].version = job[JobOf(l)].version
    /\ loop'[l].pc = "retrying" => job[JobOf(l)].retryCount < MaxRetries

LEMMA OneLoopMoves ==
    ASSUME TypeOK, NEW l \in Loops, LoopProgress(l) \/ LoopFailure(l)
    PROVE  /\ \A m \in Loops \ {l} : loop'[m] = loop[m]
           /\ loop'[l].pc = "retrying" => LooksUp(l)
<1>0. TypeOKStore /\ TypeOKLoops
  BY DEF TypeOK
<1>1. ASSUME NEW pc, NEW j, NEW v, Goto(l, At(pc, j, v))
      PROVE  loop'[l].pc = pc /\ \A m \in Loops \ {l} : loop'[m] = loop[m]
  BY <1>0, <1>1, Gone DEF At
<1>2. ASSUME Goto(l, IdleLoop)
      PROVE  loop'[l].pc = "idle" /\ \A m \in Loops \ {l} : loop'[m] = loop[m]
  BY <1>0, <1>2, Gone DEF At, IdleLoop
<1>3. CASE HandleFailure(l)
  <2>1. /\ loop[l].pc = "caught" /\ UNCHANGED storeVars
        /\ loop'[l] = At(IF RowOf(l).retryCount < MaxRetries THEN "retrying" ELSE "failing",
                         JobOf(l), RowOf(l).version)
    BY <1>0, <1>3, Gone DEF HandleFailure
  <2>2. LooksUp(l)
    BY <2>1 DEF LooksUp, At, RowOf, JobOf
  <2>. QED BY <1>1, <1>3, <2>2 DEF HandleFailure
<1>4. CASE LoopProgress(l) /\ ~HandleFailure(l)
  BY <1>1, <1>2, <1>4
  DEF LoopProgress, WaitForJob, FindJob, Claim, Complete, FinishCompleted, HandlerThrows,
      ScheduleRetry, GiveUp, FinishReleased
<1>5. CASE LoopFailure(l)
  BY <1>1, <1>2, <1>5
  DEF LoopFailure, ClaimThrows, CompleteThrows, FinishThrows, FindThrows, CatchThrows
<1>. QED BY <1>3, <1>4, <1>5

LEMMA RetryingLoops ==
    ASSUME TypeOK, [Next]_vars, NEW l \in Loops, loop'[l].pc = "retrying"
    PROVE  loop'[l] = loop[l] \/ LooksUp(l)
<1>1. CASE UNCHANGED loop
  BY <1>1
<1>2. CASE \E m \in Loops : LoopProgress(m) \/ LoopFailure(m)
  BY <1>2, OneLoopMoves
<1>3. CASE \E w \in Workers : Crash(w)
  <2>1. DeadLoop.pc # "retrying"
    BY DEF DeadLoop, At
  <2>. QED BY <1>3, <2>1 DEF Crash
<1>. QED BY <1>1, <1>2, <1>3
         DEF Next, LoopStep, SchedStep, ApiStep, NextLoops, ReportProgress, vars

LEMMA BudgetStep ==
    ASSUME IsFiniteSet(RetryRequests), IInv, BudgetInv, [Next]_vars
    PROVE  BudgetInv'
<1>0. TypeOK /\ TypeOK' /\ CheckedOnce
  BY TypeStep DEF IInv, BudgetInv
<1>1. CheckedOnce'
  BY <1>0, RequestMoves DEF CheckedOnce
<1>2. Spent'
  BY Counts DEF Spent, Counted
<1>3. Entitled'
  <2>. SUFFICES ASSUME NEW l \in Loops, loop'[l].pc = "retrying"
                PROVE  /\ loop'[l].version <= job'[loop'[l].job].version
                       /\ loop'[l].version = job'[loop'[l].job].version =>
                             job'[loop'[l].job].retryCount < Allowed'
    BY DEF Entitled, JobOf
  <2>. DEFINE k == loop'[l].job
  <2>1. /\ Allowed \in Nat /\ Allowed' \in Nat /\ Allowed <= Allowed'
        /\ MaxRetries <= Allowed /\ MaxRetries \in Nat
    BY <1>0, AllowedGrows, StoreAssumption
  <2>2. k \in Jobs /\ loop'[l].version \in Nat
    BY <1>0 DEF TypeOK, TypeOKLoops, LoopState, IdleLoop, DeadLoop, At
  <2>3. CASE loop'[l] = loop[l]
    <3>1. /\ loop'[l].version <= job[k].version
          /\ loop'[l].version = job[k].version => job[k].retryCount < Allowed
      BY <2>3 DEF BudgetInv, Entitled, JobOf
    <3>2. Counted(k)
      BY <2>2, Counts
    <3>3. /\ job[k].version \in Nat /\ job[k].retryCount \in Nat
          /\ job'[k].version \in Nat /\ job'[k].retryCount \in Nat
      BY <1>0, <2>2 DEF TypeOK, TypeOKStore, Row
    <3>. HIDE DEF k
    <3>4. loop'[l].version <= job'[k].version
      BY <2>2, <3>1, <3>2, <3>3 DEF Counted
    <3>5. ASSUME loop'[l].version = job'[k].version PROVE job'[k].retryCount < Allowed'
      <4>1. job'[k].version = job[k].version /\ job[k].retryCount < Allowed
        BY <2>2, <3>1, <3>2, <3>3, <3>5 DEF Counted
      <4>. QED BY <2>1, <3>2, <3>3, <4>1 DEF Counted
    <3>. QED BY <3>4, <3>5 DEF k
  <2>4. CASE LooksUp(l)
    <3>1. /\ job'[k].version = loop'[l].version
          /\ job'[k].retryCount < MaxRetries
      BY <2>4 DEF LooksUp, storeVars
    <3>2. job'[k].retryCount \in Nat
      BY <1>0, <2>2 DEF TypeOK, TypeOKStore, Row
    <3>. QED BY <2>1, <2>2, <3>1, <3>2
  <2>. QED BY <1>0, <2>3, <2>4, RetryingLoops
<1>. QED BY <1>1, <1>2, <1>3 DEF BudgetInv

(* However often loops that share a WORKER_ID enter their catch blocks,    *)
(* jobs are recovered and users retry while a worker is about to: the      *)
(* retryCount of a job passes MAX_RETRIES by no more than the retries      *)
(* users asked for.                                                        *)
THEOREM RetriesAreBounded ==
    ASSUME IsFiniteSet(RetryRequests)
    PROVE  Spec => []RetryBudget
<1>1. Init => BudgetInv
  <2>. SUFFICES ASSUME Init PROVE BudgetInv
    OBVIOUS
  <2>1. \A j \in Jobs : job[j].retryCount = 0
    BY DEF Init, InitStore, AbsentRow
  <2>2. \A l \in Loops : loop[l].pc # "retrying"
    BY DEF Init, InitLoops, IdleLoop, At
  <2>3. \A r \in Requests : request[r].checked = {} /\ request[r].fresh
    BY DEF Init, InitApi
  <2>4. Cardinality(Served) \in Nat
    <3>1. IsFiniteSet(Served)
      BY FS_Subset DEF Served
    <3>. QED BY <3>1, FS_CardinalityType
  <2>5. 0 <= Allowed
    BY <2>4, StoreAssumption DEF Allowed
  <2>. QED BY <2>1, <2>2, <2>3, <2>5 DEF BudgetInv, CheckedOnce, Spent, Entitled
<1>2. IInv /\ BudgetInv /\ [Next]_vars => BudgetInv'
  BY BudgetStep
<1>3. IInv /\ BudgetInv => RetryBudget
  <2>. SUFFICES ASSUME IInv, BudgetInv, NEW j \in Jobs
                PROVE  job[j].retryCount <= MaxRetries + Cardinality(RetryRequests)
    BY DEF RetryBudget
  <2>1. Served \subseteq RetryRequests
    BY DEF Served
  <2>2. /\ IsFiniteSet(Served)
        /\ Cardinality(Served) <= Cardinality(RetryRequests)
    BY <2>1, FS_Subset
  <2>3. Cardinality(Served) \in Nat /\ Cardinality(RetryRequests) \in Nat
    BY <2>2, FS_CardinalityType
  <2>4. job[j].retryCount \in Nat /\ job[j].retryCount <= Allowed
    BY JobRow DEF IInv, TypeOK, TypeOKStore, Row, BudgetInv, Spent
  <2>. QED BY <2>2, <2>3, <2>4, StoreAssumption DEF Allowed
<1>. QED BY <1>1, <1>2, <1>3, Inductive, PTL DEF Spec

-----------------------------------------------------------------------------
(* The platform without the disturbances that break it: a create request   *)
(* is served within the 10 s after which a sweep may take its row, and of  *)
(* the two handlers that write by id alone, cancelJob is not used and no   *)
(* two retryJob requests overlap.  Workers and schedulers may be as slow   *)
(* as they like, and any calls and processes may fail.                     *)
Undisturbed ==
    /\ "api" \in Timely
    /\ CancelRequests = {}
    /\ \A r, q \in RetryRequests : r = q

(* A job has an owner only while it is RUNNING: the WORKER_ID in the WHERE *)
(* clause of the catch block's updates stands for the status.              *)
Unowned == \A j \in Jobs : job[j].status # "RUNNING" => job[j].workerId = NoWorker

(* Nobody but its create request touches a row before it is marked.        *)
FreshPending == \A j \in Jobs : create[j] = "inserted" => job[j].status = "PENDING"

(* What the pending sweep has queried, or works on.                        *)
Sweeps(s, j) ==
    /\ sched[s].pc \in {"pending", "pendingMark"}
    /\ sched[s].batch[j] > 0 \/ j \in sched[s].hand

SweptCreated == \A s \in Schedulers, j \in Jobs : Sweeps(s, j) => create[j] = "done"

(* The status retryJob has checked is still there when it writes.          *)
ChecksHold == \A r \in RetryRequests : \A j \in request[r].checked : job[j].status = "FAILED"

Recoverable == Unowned /\ FreshPending /\ SweptCreated /\ ChecksHold

(* The create request of a job.                                            *)
LEMMA CreateMoves ==
    ASSUME TypeOK, [Next]_vars, NEW j \in Jobs
    PROVE  \/ create'[j] = create[j]
           \/ create[j] = "none" /\ create'[j] = "inserted" /\ job'[j] = NewRow
           \/ create[j] \notin {"none", "done"} /\ create'[j] # "inserted"
<1>0. create \in [Jobs -> CreatePc]
  BY DEF TypeOK, TypeOKApi
<1>1. CASE UNCHANGED create
  BY <1>1
<1>2. ASSUME NEW k \in Jobs, CreateJob(k)
      PROVE  \/ create'[j] = create[j]
             \/ create[j] = "none" /\ create'[j] = "inserted" /\ job'[j] = NewRow
  <2>1. /\ create[k] = "none" /\ create' = [create EXCEPT ![k] = "inserted"]
        /\ job'[k] = NewRow
    BY <1>2, Written DEF CreateJob, Step, TypeOK
  <2>. QED BY <1>0, <2>1
<1>3. ASSUME NEW k \in Jobs, CreateProgress(k) \/ CreateFailure(k)
      PROVE  \/ create'[j] = create[j]
             \/ create[j] \notin {"none", "done"} /\ create'[j] # "inserted"
  <2>1. PICK from \in CreatePc \ {"none", "done"}, to \in CreatePc \ {"inserted"} : Step(k, from, to)
    BY <1>3
    DEF CreateProgress, CreateFailure, MarkQueued, EnqueueJob, Answer, UndoCreate, MarkQueuedThrows,
        EnqueueThrows, AnswerThrows, AbandonCreate, CreatePc
  <2>2. create[k] = from /\ create' = [create EXCEPT ![k] = to]
    BY <2>1 DEF Step
  <2>. QED BY <1>0, <2>1, <2>2
<1>. QED
  BY <1>1, <1>2, <1>3
  DEF Next, LoopStep, SchedStep, ApiStep, NextApi, UserRequest, CheckCancel, CancelJob, CheckRetry,
      RetryJob, Check, Finish, vars, apiVars

(* A retry request holds a job it has held before, or one that is FAILED.  *)
LEMMA RetryChecks ==
    ASSUME TypeOK, [Next]_vars, NEW r \in RetryRequests, NEW j \in request'[r].checked
    PROVE  \/ j \in request[r].checked
           \/ j \in Jobs /\ job[j].status = "FAILED" /\ UNCHANGED job
<1>0. request \in [Requests -> RequestState] /\ r \in Requests /\ r \notin CancelRequests
  BY RequestAssumption DEF TypeOK, TypeOKApi, Requests
<1>1. CASE UNCHANGED request
  BY <1>1
<1>2. ASSUME NEW q \in Requests, NEW k \in Jobs, Finish(q, k)
      PROVE  j \in request[r].checked
  BY <1>0, <1>2 DEF Finish, RequestState
<1>3. ASSUME NEW q \in CancelRequests, NEW k \in Jobs, CheckCancel(q, k)
      PROVE  j \in request[r].checked
  BY <1>0, <1>3 DEF CheckCancel, Check
<1>4. ASSUME NEW q \in RetryRequests, NEW k \in Jobs, CheckRetry(q, k)
      PROVE  \/ j \in request[r].checked
             \/ j \in Jobs /\ job[j].status = "FAILED" /\ UNCHANGED job
  BY <1>0, <1>4 DEF CheckRetry, Check, RequestState, storeVars
<1>. QED
  BY <1>1, <1>2, <1>3, <1>4
  DEF Next, LoopStep, SchedStep, ApiStep, NextApi, CreateJob, CreateProgress, CreateFailure,
      MarkQueued, EnqueueJob, Answer, UndoCreate, MarkQueuedThrows, EnqueueThrows, AnswerThrows,
      AbandonCreate, UserRequest, CancelJob, RetryJob, Step, Requests, vars, apiVars

(* The pending sweep works on what it has queried: rows PENDING for long.  *)
LEMMA PendingLocals ==
    ASSUME TypeOK, NEW s \in Schedulers
    PROVE  /\ \A pc, S : Start(s, pc, S) =>
                 /\ sched'[s].pc = pc /\ sched'[s].hand = {}
                 /\ \A j \in Jobs : sched'[s].batch[j] > 0 => j \in S
           /\ \A pc, i : Take(s, pc, i) =>
                 /\ sched'[s].pc = pc /\ sched'[s].hand = {i}
                 /\ \A j \in Jobs : sched'[s].batch[j] > 0 => sched[s].batch[j] > 0
           /\ \A i : Skip(s, i) =>
                 /\ sched'[s].pc = sched[s].pc /\ sched'[s].hand = sched[s].hand
                 /\ \A j \in Jobs : sched'[s].batch[j] > 0 => sched[s].batch[j] > 0
           /\ \A pc : PutDown(s, pc) =>
                 /\ sched'[s].pc = pc /\ sched'[s].hand = {}
                 /\ \A j \in Jobs : sched'[s].batch[j] > 0 => sched[s].batch[j] > 0
           /\ \A pc : To(s, pc) => sched'[s].pc = pc
<1>1. /\ sched[s] \in SchedState /\ DOMAIN sched = Schedulers
      /\ sched[s].batch \in [Jobs -> Nat]
  BY SchedFields DEF TypeOK, TypeOKSched
<1>2. Resting \in SchedState /\ Resting.hand = {}
  BY RestingType DEF Resting
<1>3. ASSUME NEW pc, NEW S, Start(s, pc, S)
      PROVE  /\ sched'[s].pc = pc /\ sched'[s].hand = {}
             /\ \A j \in Jobs : sched'[s].batch[j] > 0 => j \in S
  <2>1. sched'[s].batch = Batch(S) /\ sched'[s].pc = pc /\ sched'[s].hand = {}
    BY <1>1, <1>2, <1>3 DEF Start, SchedState
  <2>2. \A j \in Jobs : Batch(S)[j] > 0 => j \in S
    BY DEF Batch
  <2>. QED BY <2>1, <2>2
<1>4. ASSUME NEW pc, NEW i, Take(s, pc, i)
      PROVE  /\ sched'[s].pc = pc /\ sched'[s].hand = {i}
             /\ \A j \in Jobs : sched'[s].batch[j] > 0 => sched[s].batch[j] > 0
  <2>. DEFINE batch == [sched[s].batch EXCEPT ![i] = 0]
  <2>1. /\ sched'[s].pc = pc /\ sched'[s].hand = {i}
        /\ sched'[s].batch = batch
    BY <1>1, <1>4 DEF Take, SchedState
  <2>2. \A j \in Jobs : batch[j] = 0 \/ batch[j] = sched[s].batch[j]
    BY <1>1
  <2>. HIDE DEF batch
  <2>. QED BY <1>1, <2>1, <2>2
<1>5. ASSUME NEW i, Skip(s, i)
      PROVE  /\ sched'[s].pc = sched[s].pc /\ sched'[s].hand = sched[s].hand
             /\ \A j \in Jobs : sched'[s].batch[j] > 0 => sched[s].batch[j] > 0
  <2>. DEFINE batch == [sched[s].batch EXCEPT ![i] = 0]
  <2>1. /\ sched'[s].pc = sched[s].pc /\ sched'[s].hand = sched[s].hand
        /\ sched'[s].batch = batch
    BY <1>1, <1>5 DEF Skip, SchedState
  <2>2. \A j \in Jobs : batch[j] = 0 \/ batch[j] = sched[s].batch[j]
    BY <1>1
  <2>. HIDE DEF batch
  <2>. QED BY <1>1, <2>1, <2>2
<1>6. ASSUME NEW pc, PutDown(s, pc)
      PROVE  /\ sched'[s].pc = pc /\ sched'[s].hand = {}
             /\ \A j \in Jobs : sched'[s].batch[j] > 0 => sched[s].batch[j] > 0
  BY <1>1, <1>6 DEF PutDown, SchedState
<1>7. ASSUME NEW pc, To(s, pc) PROVE sched'[s].pc = pc
  BY <1>1, <1>7 DEF To, SchedState
<1>. QED BY <1>3, <1>4, <1>5, <1>6, <1>7

LEMMA PendingSweeps ==
    ASSUME TypeOK, NEW s \in Schedulers, Sweep(s) \/ SchedFailure(s), NEW j \in Jobs, Sweeps(s, j)'
    PROVE  Sweeps(s, j) \/ (j \in LongPending /\ job[j].status = "PENDING")
<1>. DEFINE Pcs == {"pending", "pendingMark"}
<1>1. sched'[s].pc \in Pcs /\ (sched'[s].batch[j] > 0 \/ j \in sched'[s].hand)
  BY DEF Sweeps
<1>2. ASSUME NEW pc, NEW i, Take(s, pc, i) PROVE pc \in Pcs /\ (sched[s].batch[j] > 0 \/ i = j)
  BY <1>1, <1>2, PendingLocals
<1>3. ASSUME NEW pc, PutDown(s, pc) PROVE pc \in Pcs /\ sched[s].batch[j] > 0
  BY <1>1, <1>3, PendingLocals
<1>4. ASSUME NEW i, Skip(s, i) PROVE Sweeps(s, j)
  BY <1>1, <1>4, PendingLocals DEF Sweeps
<1>5. ASSUME NEW pc, To(s, pc) PROVE pc \in Pcs
  BY <1>1, <1>5, PendingLocals
<1>6. ASSUME NEW pc, NEW S, Start(s, pc, S) PROVE pc \in Pcs /\ j \in S
  BY <1>1, <1>6, PendingLocals
<1>7. ASSUME NEW w, DeclareDead(s, w) PROVE FALSE
  <2>1. sched'[s].pc = "recover"
    BY <1>7, SweepLocals DEF DeclareDead, TypeOK
  <2>. QED BY <1>1, <2>1
<1>8. ASSUME ListProcessing(s) PROVE FALSE
  <2>1. sched'[s].pc = "procq"
    BY <1>8, SweepLocals DEF ListProcessing, TypeOK
  <2>. QED BY <1>1, <2>1
<1>9. sched' # [sched EXCEPT ![s] = Resting]
  BY <1>1 DEF TypeOK, TypeOKSched, Resting
<1>10. \A pc, i, held, v : Inspected(s, i, pc, held, v) => pc \in Pcs
  BY <1>1, InspectedLocals DEF TypeOK
<1>11. CASE SchedProgress(s)
  <2>1. ASSUME NEW i \in Jobs,
               \/ RecoverJob(s, i) \/ RequeueRetry(s, i) \/ PushPending(s, i)
               \/ ScanReady(s, i)
        PROVE  Sweeps(s, j)
    BY <1>2, <1>4, <2>1
    DEF RecoverJob, RequeueRetry, PushPending, ScanReady, InBatch, Sweeps
  <2>2. ASSUME NEW i \in Jobs, MarkPending(s, i) PROVE Sweeps(s, j)
    BY <1>3, <2>2 DEF MarkPending, Holding, Sweeps
  <2>. QED
    BY <1>3, <1>5, <1>8, <1>9, <1>11, <2>1, <2>2
    DEF SchedProgress, RecoverDone, EndSweep, RecoverDrop, PushRetry, UndoRetry,
        ScanProcessing, ClaimStale, PushStale, DropEntry, ClaimEntry, PushEntry, RemoveEntry
<1>12. CASE SchedFailure(s)
  <2>1. ASSUME NEW i \in Jobs, MarkPendingThrows(s, i) PROVE Sweeps(s, j)
    BY <1>3, <2>1 DEF MarkPendingThrows, Holding, Sweeps
  <2>. QED
    BY <1>3, <1>4, <1>5, <1>9, <1>12, <2>1
    DEF SchedFailure, AbortSweep, PushRetryThrows, UndoRetryThrows, PushPendingThrows,
        ClaimStaleThrows, PushStaleThrows
<1>13. CASE Sweep(s) /\ ~SchedProgress(s)
  <2>1. ASSUME NEW old, QueryRetries(s, old) \/ QueryStale(s, old) PROVE FALSE
    BY <1>6, <2>1 DEF QueryRetries, QueryStale
  <2>2. ASSUME NEW old \in SUBSET LongPending, QueryPending(s, old)
        PROVE  j \in LongPending /\ job[j].status = "PENDING"
    <3>1. j \in {i \in old : job[i].status = "PENDING"}
      BY <1>6, <2>2 DEF QueryPending
    <3>. QED BY <3>1
  <2>3. ASSUME NEW old, NEW i, InspectEntry(s, i, old) PROVE FALSE
    BY <1>10, <2>3 DEF InspectEntry
  <2>. QED BY <1>7, <1>13, <2>1, <2>2, <2>3 DEF Sweep
<1>. QED BY <1>11, <1>12, <1>13

LEMMA SweptStep ==
    ASSUME Undisturbed, IInv, SweptCreated, [Next]_vars
    PROVE  SweptCreated'
<1>0. TypeOK /\ Born
  BY DEF IInv
<1>. SUFFICES ASSUME NEW s \in Schedulers, NEW j \in Jobs, Sweeps(s, j)'
              PROVE  create'[j] = "done"
  BY DEF SweptCreated
<1>1. Sweeps(s, j) \/ (j \in LongPending /\ job[j].status = "PENDING")
  <2>1. CASE sched'[s] = sched[s]
    BY <2>1 DEF Sweeps
  <2>2. CASE Sweep(s) \/ SchedFailure(s)
    BY <1>0, <2>2, PendingSweeps
  <2>. QED BY <1>0, <2>1, <2>2, OneSweep DEF Next, LoopStep, SchedStep, ApiStep, vars
<1>2. create[j] = "done"
  <2>1. CASE Sweeps(s, j)
    BY <2>1 DEF SweptCreated
  <2>2. CASE j \in LongPending /\ job[j].status = "PENDING"
    <3>1. create[j] # "none"
      BY <1>0, <2>2 DEF Born, Unborn, AbsentRow
    <3>2. ~Creating(j)
      BY <2>2 DEF LongPending, Undisturbed
    <3>. QED BY <1>0, <3>1, <3>2 DEF Creating, TypeOK, TypeOKApi, CreatePc
  <2>. QED BY <1>1, <2>1, <2>2
<1>. QED BY <1>0, <1>2, CreateMoves

(* With the invariant, each move of a row starts from the status that the  *)
(* state machine has it start from.                                        *)
LEMMA FromStatus ==
    ASSUME Undisturbed, IInv, Recoverable, NEW k \in Jobs
    PROVE  /\ \A l \in Loops : PostponedBy(l, k) => job[k].status = "RUNNING"
           /\ GivenUp(k) => job[k].status = "RUNNING"
           /\ \A s \in Schedulers : DispatchedBy(s, k) => create[k] = "done"
           /\ Inserted(k) => job[k].status = "ABSENT"
           /\ Marked(k) => job[k].status = "PENDING"
           /\ ~\E r \in CancelRequests : CancelledBy(r, k)
           /\ \A r \in RetryRequests : RevivedBy(r, k) => job[k].status = "FAILED"
<1>1. job[k].workerId \in Workers => job[k].status = "RUNNING"
  BY StoreAssumption DEF Recoverable, Unowned
<1>2. \A s \in Schedulers : DispatchedBy(s, k) => create[k] = "done"
  BY DEF DispatchedBy, Recoverable, SweptCreated, Sweeps
<1>3. Inserted(k) => job[k].status = "ABSENT"
  BY DEF Inserted, IInv, Born, Unborn, AbsentRow
<1>4. Marked(k) => job[k].status = "PENDING"
  BY DEF Marked, Recoverable, FreshPending
<1>5. \A r \in RetryRequests : RevivedBy(r, k) => job[k].status = "FAILED"
  BY DEF RevivedBy, Recoverable, ChecksHold
<1>6. \A l \in Loops : PostponedBy(l, k) => job[k].workerId \in Workers
  BY DEF PostponedBy
<1>7. GivenUp(k) => job[k].workerId \in Workers
  BY DEF GivenUp
<1>. QED BY <1>1, <1>2, <1>3, <1>4, <1>5, <1>6, <1>7 DEF Undisturbed

LEMMA UnownedStep ==
    ASSUME Undisturbed, IInv, Recoverable, NEW k \in Jobs, RowMove(k), job'[k].status # "RUNNING"
    PROVE  job'[k].workerId = NoWorker
<1>1. job[k].status # "RUNNING" => job[k].workerId = NoWorker
  BY DEF Recoverable, Unowned
<1>2. CASE LoopMove(k)
  BY <1>1, <1>2 DEF LoopMove, Reported, Accepted, GivenUp, ClaimedBy, PostponedBy, Turns
<1>3. CASE SchedMove(k)
  BY <1>1, <1>3 DEF SchedMove, Recovered, Requeued, DispatchedBy, Turns
<1>4. CASE ApiMove(k)
  <2>1. NewRow.workerId = NoWorker
    BY DEF NewRow, AbsentRow
  <2>2. CASE Inserted(k)
    BY <2>1, <2>2 DEF Inserted
  <2>3. CASE Marked(k) \/ Withdrawn(k) \/ \E r \in RetryRequests : RevivedBy(r, k)
    BY <1>1, <2>3, FromStatus DEF Marked, Withdrawn, RevivedBy, Turns
  <2>. QED BY <1>4, <2>2, <2>3, FromStatus DEF ApiMove
<1>. QED BY <1>2, <1>3, <1>4 DEF RowMove

LEMMA FreshStep ==
    ASSUME Undisturbed, IInv, Recoverable, NEW k \in Jobs, RowMove(k),
           create[k] = "inserted", create'[k] = "inserted"
    PROVE  job'[k].status = "PENDING"
<1>1. job[k].status = "PENDING"
  BY DEF Recoverable, FreshPending
<1>2. CASE LoopMove(k)
  BY <1>1, <1>2, FromStatus DEF LoopMove, Reported, Accepted, ClaimedBy, Turns
<1>3. CASE SchedMove(k)
  BY <1>1, <1>3, FromStatus DEF SchedMove, Recovered, Requeued
<1>4. CASE ApiMove(k)
  BY <1>1, <1>4, FromStatus DEF ApiMove, Inserted, Marked, Withdrawn
<1>. QED BY <1>2, <1>3, <1>4 DEF RowMove

LEMMA ChecksStep ==
    ASSUME Undisturbed, IInv, Recoverable, NEW k \in Jobs, RowMove(k),
           NEW r \in RetryRequests, k \in request[r].checked, k \in request'[r].checked
    PROVE  job'[k].status = "FAILED"
<1>1. job[k].status = "FAILED"
  BY DEF Recoverable, ChecksHold
<1>2. create[k] # "inserted"
  BY <1>1 DEF Recoverable, FreshPending
<1>3. CASE LoopMove(k)
  BY <1>1, <1>3, FromStatus DEF LoopMove, Reported, Accepted, ClaimedBy, Turns
<1>4. CASE SchedMove(k)
  BY <1>1, <1>4 DEF SchedMove, Recovered, Requeued, DispatchedBy
<1>5. CASE ApiMove(k)
  <2>1. ASSUME NEW q \in RetryRequests, RevivedBy(q, k) PROVE FALSE
    <3>1. q = r
      BY DEF Undisturbed
    <3>2. request \in [Requests -> RequestState] /\ r \in Requests
      BY DEF IInv, TypeOK, TypeOKApi, Requests
    <3>. QED BY <2>1, <3>1, <3>2 DEF RevivedBy, RequestState
  <2>. QED BY <1>1, <1>2, <1>5, <2>1, FromStatus DEF ApiMove, Inserted, Marked, Withdrawn
<1>. QED BY <1>3, <1>4, <1>5 DEF RowMove

LEMMA RecoverableStep ==
    ASSUME Undisturbed, IInv, Recoverable, [Next]_vars
    PROVE  Recoverable'
<1>0. TypeOK
  BY DEF IInv
<1>1. \A k \in Jobs : job'[k] = job[k] \/ RowMove(k)
  BY <1>0, RowMoves DEF RowMove, Only
<1>2. Unowned'
  BY <1>1, UnownedStep DEF Recoverable, Unowned
<1>3. FreshPending'
  <2>. SUFFICES ASSUME NEW j \in Jobs, create'[j] = "inserted" PROVE job'[j].status = "PENDING"
    BY DEF FreshPending
  <2>1. CASE create[j] = "inserted"
    BY <1>1, <2>1, FreshStep DEF Recoverable, FreshPending
  <2>2. CASE create[j] # "inserted"
    <3>1. job'[j] = NewRow
      BY <1>0, <2>2, CreateMoves
    <3>. QED BY <3>1 DEF NewRow, AbsentRow
  <2>. QED BY <2>1, <2>2
<1>4. SweptCreated'
  BY SweptStep DEF Recoverable
<1>5. ChecksHold'
  <2>. SUFFICES ASSUME NEW r \in RetryRequests, NEW j \in request'[r].checked
                PROVE  job'[j].status = "FAILED"
    BY DEF ChecksHold
  <2>1. CASE j \in request[r].checked
    <3>1. j \in Jobs
      BY <1>0, <2>1 DEF TypeOK, TypeOKApi, Requests, RequestState
    <3>. QED BY <1>1, <2>1, <3>1, ChecksStep DEF Recoverable, ChecksHold
  <2>2. CASE j \notin request[r].checked
    BY <1>0, <2>2, RetryChecks
  <2>. QED BY <2>1, <2>2
<1>. QED BY <1>2, <1>3, <1>4, <1>5 DEF Recoverable

LEMMA RecoverableInit ==
    ASSUME Init
    PROVE  Recoverable
<1>1. \A j \in Jobs : job[j].workerId = NoWorker /\ create[j] = "none"
  BY DEF Init, InitStore, InitApi, AbsentRow
<1>2. \A s \in Schedulers : sched[s].pc = "monitor"
  BY DEF Init, InitSched, Resting
<1>3. \A r \in RetryRequests : request[r].checked = {}
  BY DEF Init, InitApi, Requests
<1>. QED BY <1>1, <1>2, <1>3
         DEF Recoverable, Unowned, FreshPending, SweptCreated, Sweeps, ChecksHold

LEMMA RecoverableAlways ==
    ASSUME Undisturbed
    PROVE  Spec => []Recoverable
<1>1. IInv /\ Recoverable /\ [Next]_vars => Recoverable'
  BY RecoverableStep
<1>. QED BY <1>1, RecoverableInit, Inductive, PTL DEF Spec

-----------------------------------------------------------------------------
(* The state machine.                                                      *)
Statuses == [j \in Jobs |-> job[j].status]

LEMMA StatusBecomes ==
    ASSUME NEW k \in Jobs, NEW from, NEW to, Only(k), job[k].status \in from, job'[k].status = to
    PROVE  Lifecycle!Becomes(k, from, to)
<1>1. Statuses' = [Statuses EXCEPT ![k] = to]
  BY DEF Statuses, Only
<1>2. Statuses[k] \in from
  BY DEF Statuses
<1>. QED BY <1>1, <1>2 DEF Statuses, Lifecycle!Becomes

LEMMA LifecycleStep ==
    ASSUME Undisturbed, IInv, Recoverable, [Next]_vars
    PROVE  [Lifecycle!Next]_(Lifecycle!lifecycleVars)
<1>. DEFINE Stutter == Statuses' = Statuses /\ result' = result
<1>1. CASE UNCHANGED <<job, result>>
  BY <1>1 DEF Lifecycle!lifecycleVars
<1>2. ASSUME NEW k \in Jobs, RowMove(k)
      PROVE  Lifecycle!Next \/ Stutter
  <2>0. Only(k)
    BY <1>2 DEF RowMove
  <2>1. ASSUME job'[k].status = job[k].status PROVE Statuses' = Statuses
    BY <2>0, <2>1 DEF Statuses, Only
  <2>. USE DEF Turns
  <2>2. CASE LoopMove(k)
    <3>1. CASE Accepted(k)
      BY <2>0, <3>1, StatusBecomes DEF Accepted, Lifecycle!Accept, Lifecycle!Next
    <3>2. CASE Reported(k) /\ UNCHANGED result
      BY <2>1, <3>2 DEF Reported
    <3>3. CASE GivenUp(k) /\ UNCHANGED result
      <4>1. Lifecycle!Fail(k)
        BY <2>0, <3>3, FromStatus, StatusBecomes DEF GivenUp, Lifecycle!Fail
      <4>. QED BY <4>1 DEF Lifecycle!Next
    <3>4. ASSUME NEW l \in Loops, ClaimedBy(l, k), UNCHANGED result PROVE Lifecycle!Next
      <4>1. Lifecycle!Begin(k)
        BY <2>0, <3>4, StatusBecomes DEF ClaimedBy, Lifecycle!Begin
      <4>. QED BY <4>1 DEF Lifecycle!Next
    <3>5. ASSUME NEW l \in Loops, PostponedBy(l, k), UNCHANGED result PROVE Lifecycle!Next
      <4>1. Lifecycle!Postpone(k)
        BY <2>0, <3>5, FromStatus, StatusBecomes DEF PostponedBy, Lifecycle!Postpone
      <4>. QED BY <4>1 DEF Lifecycle!Next
    <3>. QED BY <2>2, <3>1, <3>2, <3>3, <3>4, <3>5 DEF LoopMove
  <2>3. CASE SchedMove(k) /\ UNCHANGED result
    <3>1. CASE Recovered(k)
      <4>1. Lifecycle!Postpone(k)
        BY <2>0, <2>3, <3>1, StatusBecomes DEF Recovered, Lifecycle!Postpone
      <4>. QED BY <4>1 DEF Lifecycle!Next
    <3>2. CASE Requeued(k)
      <4>1. CASE job'[k].status = job[k].status
        BY <2>1, <2>3, <4>1
      <4>2. CASE job[k].status = "RETRYING" /\ job'[k].status = "QUEUED"
        <5>1. Lifecycle!Dispatch(k)
          BY <2>0, <2>3, <4>2, StatusBecomes DEF Lifecycle!Dispatch
        <5>. QED BY <5>1 DEF Lifecycle!Next
      <4>3. CASE job[k].status = "QUEUED" /\ job'[k].status = "RETRYING"
        <5>1. Lifecycle!Withdraw(k)
          BY <2>0, <2>3, <4>3, StatusBecomes DEF Lifecycle!Withdraw
        <5>. QED BY <5>1 DEF Lifecycle!Next
      <4>. QED BY <3>2, <4>1, <4>2, <4>3 DEF Requeued
    <3>3. ASSUME NEW s \in Schedulers, DispatchedBy(s, k) PROVE Lifecycle!Next
      <4>1. Lifecycle!Dispatch(k)
        BY <2>0, <2>3, <3>3, StatusBecomes DEF DispatchedBy, Lifecycle!Dispatch
      <4>. QED BY <4>1 DEF Lifecycle!Next
    <3>. QED BY <2>3, <3>1, <3>2, <3>3 DEF SchedMove
  <2>4. CASE ApiMove(k) /\ UNCHANGED result
    <3>1. CASE Inserted(k)
      <4>1. job'[k].status = "PENDING"
        BY <3>1 DEF Inserted, NewRow, AbsentRow
      <4>2. Lifecycle!Submit(k)
        BY <2>0, <2>4, <3>1, <4>1, FromStatus, StatusBecomes DEF Lifecycle!Submit
      <4>. QED BY <4>2 DEF Lifecycle!Next
    <3>2. CASE Marked(k)
      <4>1. Lifecycle!Dispatch(k)
        BY <2>0, <2>4, <3>2, FromStatus, StatusBecomes DEF Marked, Lifecycle!Dispatch
      <4>. QED BY <4>1 DEF Lifecycle!Next
    <3>3. CASE Withdrawn(k)
      <4>1. Lifecycle!Withdraw(k)
        BY <2>0, <2>4, <3>3, StatusBecomes DEF Withdrawn, Lifecycle!Withdraw
      <4>. QED BY <4>1 DEF Lifecycle!Next
    <3>4. ASSUME NEW r \in RetryRequests, RevivedBy(r, k) PROVE Lifecycle!Next
      <4>1. Lifecycle!Revive(k)
        BY <2>0, <2>4, <3>4, FromStatus, StatusBecomes DEF RevivedBy, Lifecycle!Revive
      <4>. QED BY <4>1 DEF Lifecycle!Next
    <3>. QED BY <2>4, <3>1, <3>2, <3>3, <3>4, FromStatus DEF ApiMove
  <2>. QED BY <1>2, <2>2, <2>3, <2>4 DEF RowMove
<1>3. Stutter => UNCHANGED Lifecycle!lifecycleVars
  BY DEF Statuses, Lifecycle!lifecycleVars
<1>4. TypeOK
  BY DEF IInv
<1>. QED BY <1>1, <1>2, <1>3, <1>4, RowMoves

(* Seen through the statuses and the stored results, the platform is the   *)
(* JobLifecycle, step by step: however slow workers and schedulers are,    *)
(* whichever calls throw and processes die, no row takes an edge but the   *)
(* drawn ones, a manual retry and a withdrawn offer (job.service.ts:77,    *)
(* retry.service.ts:43), and a result is stored exactly in the step that   *)
(* completes the job, and once.                                            *)
THEOREM PlatformImplementsLifecycle ==
    ASSUME Undisturbed
    PROVE  Spec => ImplementsLifecycle
<1>1. Init => Lifecycle!Init
  BY DEF Init, InitStore, AbsentRow, Lifecycle!Init
<1>2. IInv /\ Recoverable /\ [Next]_vars => [Lifecycle!Next]_(Lifecycle!lifecycleVars)
  BY LifecycleStep
<1>3. Spec => []Recoverable
  BY RecoverableAlways
<1>. QED BY <1>1, <1>2, <1>3, Inductive, PTL DEF Spec, ImplementsLifecycle, Lifecycle!Spec

-----------------------------------------------------------------------------
(* No job is stranded.  The loop that owns a RUNNING row works on it, or   *)
(* is on its way through the catch block with the row's version.           *)
Attends(l, j) ==
    /\ WorkerOf[l] = job[j].workerId
    /\ JobOf(l) = j
    /\ \/ loop[l].pc = "running" /\ loop[l].version = job[j].version
       \/ loop[l].pc = "caught"
       \/ loop[l].pc \in {"retrying", "failing"} /\ loop[l].version = job[j].version

Owned ==
    \A j \in Jobs : job[j].status = "RUNNING" =>
        Dead(job[j].workerId) \/ \E l \in Loops : Attends(l, j)

LEMMA DeadStays ==
    ASSUME TypeOK, [Next]_vars, NEW w, Dead(w)
    PROVE  Dead(w)'
<1>. SUFFICES ASSUME NEW l \in Loops, loop[l].pc = "dead" PROVE loop'[l].pc = "dead"
  BY DEF Dead
<1>1. CASE UNCHANGED loop
  BY <1>1
<1>2. ASSUME NEW m \in Loops, LoopProgress(m) \/ LoopFailure(m) PROVE loop'[l].pc = "dead"
  <2>1. loop[m].pc # "dead"
    BY <1>2
    DEF LoopProgress, LoopFailure, WaitForJob, FindJob, Claim, Complete, FinishCompleted,
        HandlerThrows, HandleFailure, ScheduleRetry, GiveUp, FinishReleased, ClaimThrows,
        CompleteThrows, FinishThrows, FindThrows, CatchThrows
  <2>. QED BY <1>2, <2>1, OneLoopMoves
<1>3. CASE \E w1 \in Workers : Crash(w1)
  <2>1. DeadLoop.pc = "dead"
    BY DEF DeadLoop, At
  <2>. QED BY <1>3, <2>1 DEF Crash
<1>. QED BY <1>1, <1>2, <1>3
         DEF Next, LoopStep, SchedStep, ApiStep, NextLoops, ReportProgress, vars

(* While the row stays what it is, the loop does not let go of it: its     *)
(* conditional updates match, and no call of the catch block throws.       *)
LEMMA AttendantStays ==
    ASSUME "catch" \notin FailureModes, TypeOK, [Next]_vars,
           NEW l \in Loops, NEW j \in Jobs, Attends(l, j), job[j].status = "RUNNING",
           Reported(j), job'[j].version = job[j].version
    PROVE  Attends(l, j)' \/ Dead(WorkerOf[l])'
<1>0. TypeOKStore /\ TypeOKLoops
  BY DEF TypeOK
<1>1. /\ job'[j].status = "RUNNING" /\ job'[j].workerId = job[j].workerId
      /\ job'[j].version = job[j].version
  BY DEF Reported, Turns
<1>2. /\ loop[l].pc \in {"running", "caught", "retrying", "failing"} /\ JobOf(l) = j
      /\ RowOf(l) = job[j] /\ WorkerOf[l] = job[j].workerId
  BY DEF Attends, RowOf, JobOf
<1>3. CASE loop'[l] = loop[l]
  BY <1>1, <1>3 DEF Attends, JobOf
<1>4. ASSUME NEW v, Goto(l, At("caught", j, v))
      PROVE  Attends(l, j)'
  BY <1>0, <1>1, <1>2, <1>4, Gone DEF At, Attends, JobOf
<1>5. ASSUME NEW pc \in {"retrying", "failing"}, Goto(l, At(pc, j, job[j].version))
      PROVE  Attends(l, j)'
  BY <1>0, <1>1, <1>2, <1>5, Gone DEF At, Attends, JobOf
<1>6. CASE LoopProgress(l) \/ LoopFailure(l)
  <2>1. ~CommitCompletion(l)
    <3>1. ASSUME CommitCompletion(l) PROVE FALSE
      <4>1. loop[l].pc \notin {"idle", "dead"} /\ Write(JobOf(l), CompletedRow(l))
        BY <1>2, <3>1 DEF CommitCompletion
      <4>2. Turns(j, "COMPLETED", NoWorker, 1, 0)
        BY <1>0, <1>2, <4>1, LoopColumns
      <4>. QED BY <1>1, <4>2 DEF Turns
    <3>. QED BY <3>1
  <2>2. CASE Complete(l)
    <3>1. loop[l].pc = "running" /\ CompletionMatches(l)
      BY <1>2, <2>2 DEF Complete, CompletionMatches, Attends
    <3>. QED BY <1>2, <1>4, <2>1, <2>2, <3>1 DEF Complete
  <2>3. CASE HandlerThrows(l)
    BY <1>2, <1>4, <2>3 DEF HandlerThrows
  <2>4. CASE HandleFailure(l)
    <3>1. PICK pc \in {"retrying", "failing"} : Goto(l, At(pc, j, job[j].version))
      BY <1>2, <2>4 DEF HandleFailure
    <3>. QED BY <1>5, <3>1
  <2>5. CASE ScheduleRetry(l) \/ GiveUp(l)
    <3>1. FailureMatches(l)
      BY <1>2, <2>5 DEF ScheduleRetry, GiveUp, FailureMatches, Attends
    <3>2. \E st \in {"RETRYING", "FAILED"} : job'[j].status = st
      <4>1. CASE Write(JobOf(l), RetryingRow(l))
        BY <1>0, <1>2, <4>1, LoopColumns DEF Turns
      <4>2. CASE Write(JobOf(l), Unassigned(JobOf(l), "FAILED"))
        BY <1>0, <1>2, <4>2, Columns DEF Turns
      <4>. QED BY <2>5, <3>1, <4>1, <4>2 DEF ScheduleRetry, GiveUp
    <3>. QED BY <1>1, <3>2
  <2>6. ~CatchThrows(l)
    BY <1>2 DEF CatchThrows, Failure
  <2>. QED
    BY <1>2, <1>6, <2>1, <2>2, <2>3, <2>4, <2>5, <2>6
    DEF LoopProgress, LoopFailure, WaitForJob, FindJob, Claim, FinishCompleted, FinishReleased,
        ClaimThrows, CompleteThrows, FinishThrows, FindThrows
<1>7. ASSUME NEW w \in Workers, Crash(w)
      PROVE  loop'[l] = loop[l] \/ Dead(WorkerOf[l])'
  <2>1. DeadLoop.pc = "dead"
    BY DEF DeadLoop, At
  <2>2. \A m \in Loops : loop'[m] = IF WorkerOf[m] = w THEN DeadLoop ELSE loop[m]
    BY <1>7 DEF Crash
  <2>. QED BY <2>1, <2>2 DEF Dead
<1>8. ASSUME NEW m \in Loops, m # l, LoopProgress(m) \/ LoopFailure(m)
      PROVE  loop'[l] = loop[l]
  BY <1>0, <1>8, OneLoopMoves
<1>. QED BY <1>3, <1>6, <1>7, <1>8
         DEF Next, LoopStep, SchedStep, ApiStep, NextLoops, ReportProgress, vars

(* A row that is RUNNING after a step was so before, or has been claimed.  *)
LEMMA StillRunning ==
    ASSUME Undisturbed, IInv, Recoverable, NEW k \in Jobs, RowMove(k), job'[k].status = "RUNNING"
    PROVE  \/ job[k].status = "RUNNING" /\ Reported(k)
           \/ \E l \in Loops : ClaimedBy(l, k)
<1>1. CASE LoopMove(k)
  BY <1>1 DEF LoopMove, Reported, Accepted, GivenUp, PostponedBy, Turns
<1>2. CASE SchedMove(k)
  BY <1>2 DEF SchedMove, Recovered, Requeued, DispatchedBy, Turns
<1>3. CASE ApiMove(k)
  BY <1>3, FromStatus
  DEF ApiMove, Inserted, Marked, Withdrawn, RevivedBy, Turns, NewRow, AbsentRow
<1>. QED BY <1>1, <1>2, <1>3 DEF RowMove

LEMMA OwnedStep ==
    ASSUME "catch" \notin FailureModes, Undisturbed, IInv, Recoverable, Owned, [Next]_vars
    PROVE  Owned'
<1>0. TypeOK
  BY DEF IInv
<1>. SUFFICES ASSUME NEW j \in Jobs, job'[j].status = "RUNNING"
              PROVE  Dead(job[j].workerId)' \/ \E l \in Loops : Attends(l, j)'
  BY DEF Owned
<1>1. /\ job[j].version \in Nat /\ job[j].version + 0 = job[j].version
      /\ job[j].retryCount + 0 = job[j].retryCount
  BY <1>0, JobRow DEF TypeOK, Row
<1>2. CASE job[j].status = "RUNNING" /\ Reported(j)
  <2>1. job'[j].workerId = job[j].workerId /\ job'[j].version = job[j].version
    BY <1>1, <1>2 DEF Reported, Turns
  <2>2. CASE Dead(job[j].workerId)
    <3>1. PICK w : w = job[j].workerId
      OBVIOUS
    <3>2. Dead(w)'
      BY <1>0, <2>2, <3>1, DeadStays
    <3>. QED BY <2>1, <3>1, <3>2 DEF Dead
  <2>3. ASSUME NEW l \in Loops, Attends(l, j)
        PROVE  Dead(job[j].workerId)' \/ Attends(l, j)'
    <3>1. WorkerOf[l] = job'[j].workerId
      BY <2>1, <2>3 DEF Attends
    <3>2. Attends(l, j)' \/ Dead(WorkerOf[l])'
      BY <1>0, <1>2, <2>1, <2>3, AttendantStays
    <3>. QED BY <3>1, <3>2 DEF Dead
  <2>. QED BY <1>2, <2>2, <2>3 DEF Owned
<1>3. ASSUME NEW l \in Loops, ClaimedBy(l, j) PROVE Attends(l, j)'
  BY <1>3 DEF ClaimedBy, Turns, At, Attends, JobOf
<1>4. job'[j] = job[j] \/ RowMove(j)
  BY <1>0, RowMoves DEF RowMove, Only
<1>5. job'[j] = job[j] => Reported(j)
  BY <1>1 DEF Reported, Turns
<1>. QED BY <1>2, <1>3, <1>4, <1>5, StillRunning

(* Whatever call throws outside the catch block and whatever process dies, *)
(* any number of times: a QUEUED job has no owner, so the QUEUED queries   *)
(* find it, and a RUNNING one has a loop of its worker that will let go of *)
(* it, or a worker whose death will be noticed.                            *)
THEOREM NoneIsStranded ==
    ASSUME Undisturbed, "catch" \notin FailureModes
    PROVE  Spec => []NoJobStranded
<1>1. Init => Owned
  BY DEF Init, InitStore, AbsentRow, Owned
<1>2. IInv /\ Recoverable /\ Owned /\ [Next]_vars => Owned'
  BY OwnedStep
<1>3. Recoverable /\ Owned => NoJobStranded
  <2>. SUFFICES ASSUME Recoverable, Owned, NEW j \in Jobs PROVE Attended(j)
    BY DEF NoJobStranded
  <2>1. CASE job[j].status = "QUEUED"
    BY <2>1 DEF Recoverable, Unowned, Attended
  <2>2. CASE job[j].status = "RUNNING"
    BY <2>2 DEF Owned, Attends, Attended, Holds, Runs, JobOf
  <2>3. CASE job[j].status \notin {"QUEUED", "RUNNING"}
    BY <2>3 DEF Attended
  <2>. QED BY <2>1, <2>2, <2>3
<1>4. Spec => []Recoverable
  BY RecoverableAlways
<1>. QED BY <1>1, <1>2, <1>3, <1>4, Inductive, PTL DEF Spec

==============================================================================
