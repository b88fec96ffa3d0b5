--------------------------- MODULE ClusterMonitor ---------------------------
(***************************************************************************)
(* scheduler-service/src/worker-monitor.ts, run by whoever holds the lease *)
(* of LeaderLease, over the keys of WorkerRegistry.  JobPlatform takes     *)
(* from failure detection that only dead workers are recovered and that    *)
(* each of them eventually is; here is where that comes from.              *)
(***************************************************************************)
EXTENDS WorkerRegistry, LeaderLease

CONSTANTS
    MissThreshold,  \* MISS_THRESHOLD
    NoWorker,
    Timely          \* the processes that keep within the TTLs

ASSUME MonitorAssumption ==
    /\ MissThreshold \in Nat \ {0}
    /\ NoWorker \notin Workers
    /\ Timely \subseteq {"workers", "schedulers"}

VARIABLES
    mon,       \* mon[s]: where s is in monitorWorkers, and its locals
    strikes    \* strikes[s][w]: missedHeartbeats of process s, 0 if unset

vars == <<registryVars, leaseVars, mon, strikes, failures>>

(* off      not in monitorWorkers                                          *)
(* check    works through the workers SMEMBERS returned                    *)
(* recover  before recoverWorkerJobs      remove   before removeWorker     *)
MonPc == {"off", "check", "recover", "remove"}

MonState == [pc : MonPc, left : SUBSET Workers, target : Workers \cup {NoWorker}]

Off == [pc |-> "off", left |-> {}, target |-> NoWorker]

TypeOK ==
    /\ TypeOKRegistry
    /\ TypeOKLease
    /\ failures \in 0 .. MaxFailures
    /\ mon \in [Schedulers -> MonState]
    /\ strikes \in [Schedulers -> [Workers -> 0 .. MissThreshold - 1]]

Init ==
    /\ InitRegistry
    /\ InitLease
    /\ failures = 0
    /\ mon = [s \in Schedulers |-> Off]
    /\ strikes = [s \in Schedulers |-> [w \in Workers |-> 0]]

Monitors(s, pc, left, target) ==
    mon' = [mon EXCEPT ![s] = [pc |-> pc, left |-> left, target |-> target]]

Counts(s, w, n) == strikes' = [strikes EXCEPT ![s][w] = n]

-----------------------------------------------------------------------------
(* getActiveWorkers: SMEMBERS.                                             *)
ListWorkers(s) ==
    /\ Leading(s)
    /\ mon[s].pc = "off"
    /\ Monitors(s, "check", active, NoWorker)
    /\ UNCHANGED <<registryVars, leaseVars, strikes, failures>>

(* isWorkerAlive: GET, and the strikes.                                    *)
(* Mutant: misses compared with MISS_THRESHOLD by >.                       *)
CheckOneMore(s, w) ==
    /\ mon[s].pc = "check"
    /\ w \in mon[s].left
    /\ \/ /\ w \notin key
          /\ strikes[s][w] + 1 <= MissThreshold
          /\ Counts(s, w, strikes[s][w] + 1)
          /\ Monitors(s, "check", mon[s].left \ {w}, NoWorker)
       \/ /\ w \notin key
          /\ strikes[s][w] + 1 > MissThreshold
          /\ Counts(s, w, 0)
          /\ Monitors(s, "recover", mon[s].left \ {w}, w)
    /\ UNCHANGED <<registryVars, leaseVars, failures>>

CheckWorker(s, w) ==
    /\ mon[s].pc = "check"
    /\ w \in mon[s].left
    /\ \/ /\ w \in key
          /\ Counts(s, w, 0)
          /\ Monitors(s, "check", mon[s].left \ {w}, NoWorker)
       \/ /\ w \notin key
          /\ strikes[s][w] + 1 < MissThreshold
          /\ Counts(s, w, strikes[s][w] + 1)
          /\ Monitors(s, "check", mon[s].left \ {w}, NoWorker)
       \/ /\ w \notin key
          /\ strikes[s][w] + 1 >= MissThreshold
          /\ Counts(s, w, 0)
          /\ Monitors(s, "recover", mon[s].left \ {w}, w)
    /\ UNCHANGED <<registryVars, leaseVars, failures>>

(* recoverWorkerJobs: every row that is RUNNING with this WORKER_ID goes   *)
(* back, whoever works on it.  Its calls are steps of SchedulerSweeps.     *)
RecoverJobs(s) ==
    /\ mon[s].pc = "recover"
    /\ busy' = busy \ {mon[s].target}
    /\ orphaned' = orphaned \ {mon[s].target}
    /\ Monitors(s, "remove", mon[s].left, mon[s].target)
    /\ UNCHANGED <<key, active, beat, stop, starts, leaseVars, strikes, failures>>

(* removeWorker: SREM.                                                     *)
(* Mutant: DEL of the key in place of the SREM.                            *)
RemoveKey(s) ==
    /\ mon[s].pc = "remove"
    /\ key' = key \ {mon[s].target}
    /\ Monitors(s, "check", mon[s].left, NoWorker)
    /\ UNCHANGED <<active, beat, stop, starts, busy, orphaned, leaseVars, strikes, failures>>

RemoveWorker(s) ==
    /\ mon[s].pc = "remove"
    /\ active' = active \ {mon[s].target}
    /\ Monitors(s, "check", mon[s].left, NoWorker)
    /\ UNCHANGED <<key, beat, stop, starts, busy, orphaned, leaseVars, strikes, failures>>

(* A call throws, some of it may have taken effect: monitorWorkers is over *)
(* and the other sweeps of the round follow.                               *)
(* Mutant: the failed recovery is logged and the worker removed.           *)
MonitorCarriesOn(s) ==
    /\ mon[s].pc = "recover"
    /\ Fault
    /\ Monitors(s, "remove", mon[s].left, mon[s].target)
    /\ UNCHANGED <<registryVars, leaseVars, strikes>>

MonitorThrows(s) ==
    /\ mon[s].pc # "off"
    /\ Fault
    /\ Monitors(s, "check", {}, NoWorker)
    /\ UNCHANGED <<key, beat, stop, starts, busy, orphaned, leaseVars, strikes>>
    /\ \/ mon[s].pc = "remove" /\ active' = active \ {mon[s].target}
       \/ UNCHANGED active

-----------------------------------------------------------------------------
(* POLL_INTERVAL, 5 s, goes by after each round.  Registration takes a     *)
(* timely worker less than that.                                           *)
PollInterval == "workers" \in Timely => \A w \in Workers : ~Registering(w)

(* The round of a leader ends after the monitor: the other sweeps do not   *)
(* touch this state.                                                       *)
Sleep(s) ==
    /\ mon[s].pc = "check"
    /\ mon[s].left = {}
    /\ PollInterval
    /\ EndRound(s)
    /\ Monitors(s, "off", {}, NoWorker)
    /\ UNCHANGED <<registryVars, strikes>>

(* An exception outside of monitorWorkers; the death of the process, and   *)
(* of its missedHeartbeats; its shutdown.                                  *)
AbortRound(s) ==
    /\ RoundThrows(s)
    /\ PollInterval
    /\ mon[s].pc \in {"off", "check"} /\ mon[s].left = {}
    /\ Monitors(s, "off", {}, NoWorker)
    /\ UNCHANGED <<registryVars, strikes>>

SchedulerDies(s) ==
    /\ Die(s) \/ ReleaseLeadership(s)
    /\ Monitors(s, "off", {}, NoWorker)
    /\ strikes' = [strikes EXCEPT ![s] = [w \in Workers |-> 0]]
    /\ UNCHANGED registryVars

LeaseStep(s) ==
    /\ IsLeader(s) \/ AcquireLeadership(s) \/ RenewLeadership(s)
    /\ UNCHANGED <<registryVars, mon, strikes>>

SchedulerStarts(s) ==
    /\ StartScheduler(s)
    /\ UNCHANGED <<registryVars, mon, strikes>>

(* The TTLs.  The key of a timely worker expires only when its process is  *)
(* gone: it beats every 5 s.  The key of a timely scheduler does not       *)
(* expire from the SET to the renewal, nor from the renewal to the end of  *)
(* the round: each takes less than 15 s.                                   *)
WorkerExpires(w) ==
    /\ KeyExpires(w)
    /\ "workers" \in Timely => ~Up(w)
    /\ UNCHANGED <<leaseVars, mon, strikes>>

LeaderExpires ==
    /\ LeaseExpires
    /\ "schedulers" \in Timely => at[lease] \notin {"acquired", "lead"}
    /\ UNCHANGED <<registryVars, mon, strikes>>

-----------------------------------------------------------------------------
MonitorProgress(s) ==
    \/ ListWorkers(s)
    \/ \E w \in Workers : CheckWorker(s, w)
    \/ RecoverJobs(s)
    \/ RemoveWorker(s)
    \/ Sleep(s)

SchedulerProgress(s) == LeaseStep(s) \/ MonitorProgress(s)

SchedulerStep(s) ==
    \/ SchedulerProgress(s)
    \/ SchedulerStarts(s)
    \/ MonitorThrows(s)
    \/ AbortRound(s)
    \/ SchedulerDies(s)

WorkerStep == NextRegistry /\ UNCHANGED <<leaseVars, mon, strikes>>

Expiry == LeaderExpires \/ \E w \in Workers : WorkerExpires(w)

Next == WorkerStep \/ Expiry \/ \E s \in Schedulers : SchedulerStep(s)

Spec == Init /\ [][Next]_vars

(* Processes go on, a scheduler that is down is started again (compose     *)
(* restarts it), TTLs run out.  Heartbeats of live workers need no         *)
(* fairness for what is checked, jobs and shutdowns are up to users.       *)
Fairness ==
    /\ \A s \in Schedulers :
          /\ WF_vars(SchedulerProgress(s))
          /\ WF_vars(SchedulerStarts(s))
    /\ \A w \in Workers :
          /\ WF_vars(WorkerProgress(w) /\ UNCHANGED <<leaseVars, mon, strikes>>)
          /\ WF_vars(WorkerExpires(w))
    /\ WF_vars(LeaderExpires)

FairSpec == Spec /\ Fairness

-----------------------------------------------------------------------------
(* Only one scheduler coordinates the cluster at a time, if no round       *)
(* outlasts the lease: a scheduler in its round is the holder of the key.  *)
(* A crashed, restarted or stopping scheduler must not take the key of     *)
(* another, and the renewal between isLeader and the round must fail when  *)
(* the key has changed hands.                                              *)
OneCoordinator == \A s, t \in Schedulers : Leading(s) /\ Leading(t) => s = t

(* Accuracy.  No job is taken from a loop that works on it: registration   *)
(* and shutdown leave a moment in which a live worker is in workers:active *)
(* without a key, and the strikes must outlast it, those of an earlier     *)
(* term of leadership included.                                            *)
NoFalseRecovery == \A s \in Schedulers : mon[s].pc = "recover" => mon[s].target \notin busy

(* Completeness.  The jobs a dead worker left are recovered, whichever     *)
(* scheduler dies, loses its lease or meets an exception on the way.  The  *)
(* recovery must come before the worker leaves workers:active, and the     *)
(* worker must have joined it before its first claim.                      *)
DeadWorkersRecovered ==
    \A w \in Workers : w \in orphaned ~> w \notin orphaned

(* workers:active is a list of live workers: one that died or stopped is   *)
(* not kept for ever, even if its last heartbeat came after its goodbye.   *)
DeadWorkersForgotten ==
    \A w \in Workers : ~Up(w) /\ w \in active ~> Up(w) \/ w \notin active

=============================================================================
