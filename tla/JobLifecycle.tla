---------------------------- MODULE JobLifecycle ----------------------------
(***************************************************************************)
(* The life of one job that no user cancels, with no queues, versions or   *)
(* processes: between which statuses it may move, and that a result is     *)
(* accepted exactly when the job completes, at most once.  JobPlatform is  *)
(* shown to implement it, as long as nobody cancels.                       *)
(*                                                                         *)
(* The first group of actions is the state machine that PROJECT_STATE.md   *)
(* (:236-249) and ARCHITECTURE.md (:242-252) draw, without the two edges   *)
(* to CANCELLED.  The edges of the other two groups are not drawn there.   *)
(***************************************************************************)
CONSTANT Jobs

VARIABLES
    status,     \* status[j]
    accepted    \* the jobs whose result has been accepted

lifecycleVars == <<status, accepted>>

Init ==
    /\ status = [j \in Jobs |-> "ABSENT"]
    /\ accepted = {}

Becomes(j, from, to) ==
    /\ status[j] \in from
    /\ status' = [status EXCEPT ![j] = to]

(***************************************************************************)
(* The drawn state machine.                                                *)
(***************************************************************************)
Submit(j) == Becomes(j, {"ABSENT"}, "PENDING") /\ UNCHANGED accepted

(* A submitted job, or one whose delay is over, is offered to the workers. *)
Dispatch(j) == Becomes(j, {"PENDING", "RETRYING"}, "QUEUED") /\ UNCHANGED accepted

(* An attempt starts, and ends in a result, a delay or a failure.  The     *)
(* machine draws RUNNING -> RETRYING for an attempt that failed.  The code *)
(* takes it for the recovery from a dead worker as well, where the other   *)
(* diagram of ARCHITECTURE.md (:91) has "Reset job -> QUEUED", an edge     *)
(* that neither the machine nor the code has.                              *)
Begin(j) == Becomes(j, {"QUEUED"}, "RUNNING") /\ UNCHANGED accepted
Postpone(j) == Becomes(j, {"RUNNING"}, "RETRYING") /\ UNCHANGED accepted
Fail(j) == Becomes(j, {"RUNNING"}, "FAILED") /\ UNCHANGED accepted
Accept(j) ==
    /\ Becomes(j, {"RUNNING"}, "COMPLETED")
    /\ j \notin accepted
    /\ accepted' = accepted \cup {j}

(***************************************************************************)
(* Only in project_design/09 - API Design.md (:232-250): a user retries a  *)
(* job that failed.                                                        *)
(***************************************************************************)
Revive(j) == Becomes(j, {"FAILED"}, "PENDING") /\ UNCHANGED accepted

(***************************************************************************)
(* In no document: an offer that could not be delivered is withdrawn, by   *)
(* the API (job.service.ts:77-81) or by the sweep (retry.service.ts:43-55).*)
(***************************************************************************)
Withdraw(j) ==
    /\ Becomes(j, {"QUEUED"}, "PENDING") \/ Becomes(j, {"QUEUED"}, "RETRYING")
    /\ UNCHANGED accepted

Next ==
    \E j \in Jobs :
        \/ Submit(j)
        \/ Dispatch(j)
        \/ Begin(j)
        \/ Postpone(j)
        \/ Fail(j)
        \/ Accept(j)
        \/ Revive(j)
        \/ Withdraw(j)

Spec == Init /\ [][Next]_lifecycleVars

=============================================================================
