------------------------ MODULE ClusterMonitor_proofs ------------------------
(***************************************************************************)
(* Safety of failure detection and of the leader's lease, for any workers, *)
(* schedulers and bounds.                                                  *)
(***************************************************************************)
EXTENDS ClusterMonitor, TLAPS

-----------------------------------------------------------------------------
(* Typing.                                                                 *)
LEMMA TypeInit == Init => TypeOK
BY FaultAssumption, LeaseAssumption, StartAssumption, MonitorAssumption
DEF Init, TypeOK, InitRegistry, InitLease, TypeOKRegistry, TypeOKLease, BeatPc, StopPc,
    RoundPc, MonPc, MonState, Off

LEMMA FaultType == ASSUME TypeOK, Fault PROVE failures' \in 0 .. MaxFailures
BY FaultAssumption DEF TypeOK, Fault

LEMMA BeatsType ==
    ASSUME TypeOK, NEW w \in Workers, NEW from, NEW to \in BeatPc, Beats(w, from, to)
    PROVE  beat' \in [Workers -> BeatPc]
BY DEF TypeOK, TypeOKRegistry, Beats

LEMMA StopsType ==
    ASSUME TypeOK, NEW w \in Workers, NEW from, NEW to \in StopPc, Stops(w, from, to)
    PROVE  stop' \in [Workers -> StopPc]
BY DEF TypeOK, TypeOKRegistry, Stops

LEMMA MovesType ==
    ASSUME TypeOK, NEW s \in Schedulers, NEW from, NEW to \in RoundPc, Moves(s, from, to)
    PROVE  at' \in [Schedulers -> RoundPc]
BY DEF TypeOK, TypeOKLease, Moves

LEMMA MonitorsType ==
    ASSUME TypeOK, NEW s \in Schedulers, NEW pc \in MonPc, NEW left \in SUBSET Workers,
           NEW target \in Workers \cup {NoWorker}, Monitors(s, pc, left, target)
    PROVE  mon' \in [Schedulers -> MonState]
<1>1. [pc |-> pc, left |-> left, target |-> target] \in MonState
  BY DEF MonState
<1>. QED BY <1>1 DEF TypeOK, Monitors

LEMMA CountsType ==
    ASSUME TypeOK, NEW s \in Schedulers, NEW w \in Workers, NEW n \in 0 .. MissThreshold - 1,
           Counts(s, w, n)
    PROVE  strikes' \in [Schedulers -> [Workers -> 0 .. MissThreshold - 1]]
BY DEF TypeOK, Counts

LEMMA WorkerType ==
    ASSUME TypeOK, WorkerStep
    PROVE  TypeOK'
<1>. USE DEF TypeOK, TypeOKRegistry
<1>1. UNCHANGED <<leaseVars, mon, strikes>> /\ TypeOKLease'
  BY DEF WorkerStep, TypeOKLease, leaseVars
<1>2. PICK w \in Workers :
        \/ WorkerProgress(w) \/ Heartbeat(w) \/ StartWorker(w) \/ ClaimJob(w) \/ EndJob(w)
        \/ Shutdown(w) \/ HeartbeatThrows(w) \/ Crash(w)
  BY DEF WorkerStep, NextRegistry
<1>3. failures' \in 0 .. MaxFailures
  BY <1>2, FaultType
  DEF WorkerProgress, AddToActive, WriteKey, JobsDone, DeleteKey, Leave, Exit, Heartbeat,
      StartWorker, ClaimJob, EndJob, Shutdown, HeartbeatThrows, Crash
<1>4. beat' \in [Workers -> BeatPc]
  BY <1>2, BeatsType
  DEF WorkerProgress, AddToActive, WriteKey, JobsDone, DeleteKey, Leave, Exit, Heartbeat,
      StartWorker, ClaimJob, EndJob, Shutdown, HeartbeatThrows, Crash, BeatPc
<1>5. stop' \in [Workers -> StopPc]
  BY <1>2, StopsType
  DEF WorkerProgress, AddToActive, WriteKey, JobsDone, DeleteKey, Leave, Exit, Heartbeat,
      StartWorker, ClaimJob, EndJob, Shutdown, HeartbeatThrows, Crash, StopPc
<1>6. starts' \in [Workers -> 0 .. MaxStarts]
  BY <1>2, StartAssumption
  DEF WorkerProgress, AddToActive, WriteKey, JobsDone, DeleteKey, Leave, Exit, Heartbeat,
      StartWorker, ClaimJob, EndJob, Shutdown, HeartbeatThrows, Crash
<1>7. /\ key' \subseteq Workers /\ active' \subseteq Workers
      /\ busy' \subseteq Workers /\ orphaned' \subseteq Workers
  BY <1>2
  DEF WorkerProgress, AddToActive, WriteKey, JobsDone, DeleteKey, Leave, Exit, Heartbeat,
      StartWorker, ClaimJob, EndJob, Shutdown, HeartbeatThrows, Crash
<1>. QED BY <1>1, <1>3, <1>4, <1>5, <1>6, <1>7

LEMMA ExpiryType ==
    ASSUME TypeOK, Expiry
    PROVE  TypeOK'
BY DEF Expiry, LeaderExpires, LeaseExpires, WorkerExpires, KeyExpires, TypeOK, TypeOKRegistry,
       TypeOKLease, registryVars, leaseVars

LEMMA LeaseType ==
    ASSUME TypeOK, NEW s \in Schedulers,
           \/ IsLeader(s) \/ AcquireLeadership(s) \/ RenewLeadership(s) \/ EndRound(s)
           \/ ReleaseLeadership(s) \/ RoundThrows(s) \/ Die(s) \/ StartScheduler(s)
    PROVE  TypeOKLease' /\ failures' \in 0 .. MaxFailures
<1>1. at' \in [Schedulers -> RoundPc]
  BY MovesType
  DEF IsLeader, AcquireLeadership, RenewLeadership, EndRound, ReleaseLeadership, RoundThrows,
      Die, StartScheduler, RoundPc
<1>2. lease' \in Schedulers \cup {NoScheduler}
  BY DEF IsLeader, AcquireLeadership, RenewLeadership, EndRound, ReleaseLeadership, RoundThrows,
         Die, StartScheduler, TypeOK, TypeOKLease
<1>3. failures' \in 0 .. MaxFailures
  BY FaultType
  DEF IsLeader, AcquireLeadership, RenewLeadership, EndRound, ReleaseLeadership, RoundThrows,
      Die, StartScheduler, TypeOK
<1>. QED BY <1>1, <1>2, <1>3 DEF TypeOKLease

LEMMA SchedulerType ==
    ASSUME TypeOK, NEW s \in Schedulers, SchedulerStep(s)
    PROVE  TypeOK'
<1>0. mon[s] \in MonState /\ active \subseteq Workers
  BY DEF TypeOK, TypeOKRegistry
<1>a. /\ mon[s].left \in SUBSET Workers /\ mon[s].target \in Workers \cup {NoWorker}
      /\ \A w : mon[s].left \ {w} \in SUBSET Workers
  BY <1>0 DEF MonState
<1>1. CASE LeaseStep(s) \/ SchedulerStarts(s)
  BY <1>1, LeaseType DEF LeaseStep, SchedulerStarts, TypeOK, TypeOKRegistry, registryVars
<1>2. CASE ListWorkers(s)
  <2>1. mon' \in [Schedulers -> MonState]
    BY <1>0, <1>2, MonitorsType DEF ListWorkers, MonPc
  <2>. QED
    BY <1>2, <2>1 DEF ListWorkers, TypeOK, TypeOKRegistry, TypeOKLease, registryVars, leaseVars
<1>3. ASSUME NEW w \in Workers, CheckWorker(s, w) PROVE TypeOK'
  <2>1. mon' \in [Schedulers -> MonState]
    BY <1>a, <1>3, MonitorsType DEF CheckWorker, MonPc
  <2>2. strikes[s][w] \in 0 .. MissThreshold - 1 /\ MissThreshold \in Nat \ {0}
    BY MonitorAssumption DEF TypeOK
  <2>3. \E n \in 0 .. MissThreshold - 1 : Counts(s, w, n)
    <3>1. CASE Counts(s, w, 0)
      BY <2>2, <3>1
    <3>2. CASE strikes[s][w] + 1 < MissThreshold /\ Counts(s, w, strikes[s][w] + 1)
      BY <2>2, <3>2
    <3>. QED BY <1>3, <3>1, <3>2 DEF CheckWorker
  <2>4. strikes' \in [Schedulers -> [Workers -> 0 .. MissThreshold - 1]]
    BY <2>3, CountsType
  <2>. QED
    BY <1>3, <2>1, <2>4
    DEF CheckWorker, TypeOK, TypeOKRegistry, TypeOKLease, registryVars, leaseVars
<1>4. CASE RecoverJobs(s) \/ RemoveWorker(s) \/ MonitorThrows(s)
  <2>1. mon' \in [Schedulers -> MonState]
    BY <1>a, <1>4, MonitorsType DEF RecoverJobs, RemoveWorker, MonitorThrows, MonPc
  <2>2. failures' \in 0 .. MaxFailures
    BY <1>4, FaultType DEF RecoverJobs, RemoveWorker, MonitorThrows, TypeOK
  <2>3. TypeOKRegistry' /\ TypeOKLease' /\ strikes' = strikes
    BY <1>4
    DEF RecoverJobs, RemoveWorker, MonitorThrows, TypeOK, TypeOKRegistry, TypeOKLease, leaseVars
  <2>. QED BY <2>1, <2>2, <2>3 DEF TypeOK
<1>5. CASE Sleep(s) \/ AbortRound(s) \/ SchedulerDies(s)
  <2>1. mon' \in [Schedulers -> MonState]
    BY <1>5, MonitorsType DEF Sleep, AbortRound, SchedulerDies, MonPc
  <2>2. TypeOKLease' /\ failures' \in 0 .. MaxFailures
    BY <1>5, LeaseType DEF Sleep, AbortRound, SchedulerDies
  <2>3. strikes' \in [Schedulers -> [Workers -> 0 .. MissThreshold - 1]]
    BY <1>5, MonitorAssumption DEF Sleep, AbortRound, SchedulerDies, TypeOK
  <2>4. TypeOKRegistry'
    BY <1>5 DEF Sleep, AbortRound, SchedulerDies, TypeOK, TypeOKRegistry, registryVars
  <2>. QED BY <2>1, <2>2, <2>3, <2>4 DEF TypeOK
<1>. QED
  BY <1>1, <1>2, <1>3, <1>4, <1>5 DEF SchedulerStep, SchedulerProgress, MonitorProgress

LEMMA TypeStep == TypeOK /\ [Next]_vars => TypeOK'
<1>. SUFFICES ASSUME TypeOK, [Next]_vars PROVE TypeOK'
  OBVIOUS
<1>1. CASE UNCHANGED vars
  BY <1>1 DEF vars, TypeOK, TypeOKRegistry, TypeOKLease, registryVars, leaseVars
<1>2. CASE Next
  BY <1>2, WorkerType, ExpiryType, SchedulerType DEF Next
<1>. QED BY <1>1, <1>2

(* Every variable has its type; the strikes stay below MISS_THRESHOLD.     *)
THEOREM TypeCorrect == Spec => []TypeOK
BY TypeInit, TypeStep, PTL DEF Spec

-----------------------------------------------------------------------------
(* The lease.  If no round outlasts it, who is in a round holds the key.   *)
HolderLeads == \A s \in Schedulers : Leading(s) => lease = s

LEMMA HolderStep ==
    ASSUME "schedulers" \in Timely, TypeOK, HolderLeads, [Next]_vars
    PROVE  HolderLeads'
<1>. USE DEF HolderLeads, Leading, TypeOK, TypeOKLease
<1>1. CASE UNCHANGED <<lease, at>>
  BY <1>1
<1>2. CASE LeaderExpires
  BY <1>2 DEF LeaderExpires, LeaseExpires
<1>3. ASSUME NEW s \in Schedulers, SchedulerStep(s), ~UNCHANGED <<lease, at>>
      PROVE  HolderLeads'
  <2>1. \/ IsLeader(s) \/ AcquireLeadership(s) \/ RenewLeadership(s) \/ EndRound(s)
        \/ ReleaseLeadership(s) \/ RoundThrows(s) \/ Die(s) \/ StartScheduler(s)
    BY <1>3
    DEF SchedulerStep, SchedulerProgress, MonitorProgress, LeaseStep, SchedulerStarts, Sleep,
        AbortRound, SchedulerDies, ListWorkers, CheckWorker, RecoverJobs, RemoveWorker,
        MonitorThrows, leaseVars
  <2>2. CASE IsLeader(s) \/ AcquireLeadership(s) \/ RenewLeadership(s)
    BY <2>2, LeaseAssumption DEF IsLeader, AcquireLeadership, RenewLeadership, Moves
  <2>3. CASE EndRound(s) \/ ReleaseLeadership(s)
    BY <2>3 DEF EndRound, ReleaseLeadership, Moves
  <2>4. CASE RoundThrows(s) \/ Die(s) \/ StartScheduler(s)
    BY <2>4, LeaseAssumption DEF RoundThrows, Die, StartScheduler, Moves
  <2>. QED BY <2>1, <2>2, <2>3, <2>4
<1>. QED
  BY <1>1, <1>2, <1>3
  DEF Next, Expiry, WorkerStep, WorkerExpires, vars, leaseVars

(* Schedulers whose rounds fit into the lease coordinate one at a time,    *)
(* with any number of crashes, restarts, shutdowns and exceptions.         *)
THEOREM CoordinatorsTakeTurns ==
    ASSUME "schedulers" \in Timely
    PROVE  Spec => []OneCoordinator
<1>1. Init => HolderLeads
  BY DEF Init, InitLease, HolderLeads, Leading
<1>2. HolderLeads => OneCoordinator
  BY DEF HolderLeads, OneCoordinator
<1>. QED BY <1>1, <1>2, HolderStep, TypeCorrect, PTL DEF Spec

-----------------------------------------------------------------------------
(* Accuracy.  Serving: the loops run, and the heartbeats come.             *)
Serving(w) == Up(w) /\ ~Registering(w) /\ stop[w] \in {"no", "drain"}

(* A process that will not claim a job any more.                           *)
Gone(w) == starts[w] # 0 /\ (~Up(w) \/ stop[w] \in {"clear", "leave", "quit"})

(* A worker that was never started has left no trace.                      *)
Traceless(w) ==
    /\ ~Up(w) /\ w \notin active
    /\ \A s \in Schedulers :
          strikes[s][w] = 0 /\ w \notin mon[s].left /\ mon[s].target # w

Fresh == \A w \in Workers : starts[w] = 0 => Traceless(w)

StopsLast == \A w \in Workers : ~Up(w) => stop[w] = "no"

Keyed == \A w \in Workers : Serving(w) => w \in key

BusyServes == \A w \in busy : Serving(w)

(* While a worker registers no process of a scheduler has seen it missing  *)
(* more than once: the worker is done before the next round.               *)
OneStrike ==
    \A w \in Workers, s \in Schedulers :
        Registering(w) =>
            \/ strikes[s][w] = 0
            \/ strikes[s][w] = 1 /\ mon[s].pc # "off" /\ w \notin mon[s].left

OnlyGone ==
    \A s \in Schedulers : mon[s].pc = "recover" => mon[s].target \in Workers /\ Gone(mon[s].target)

AccInv ==
    /\ TypeOK
    /\ Fresh
    /\ StopsLast
    /\ Keyed
    /\ BusyServes
    /\ OneStrike
    /\ OnlyGone

(* The three assumptions: workers beat in time and register within a poll  *)
(* interval, a WORKER_ID is used once, one strike is not enough.           *)
Accurate == "workers" \in Timely /\ MaxStarts = 1 /\ MissThreshold > 1

LEMMA WorkerAccurate ==
    ASSUME Accurate, AccInv, WorkerStep
    PROVE  Fresh' /\ StopsLast' /\ Keyed' /\ BusyServes' /\ OneStrike' /\ OnlyGone'
<1>. USE DEF AccInv, Traceless, Serving, Gone, Up, Registering, TypeOK, TypeOKRegistry
<1>0. UNCHANGED <<mon, strikes>>
  BY DEF WorkerStep
<1>1. PICK w \in Workers :
        \/ WorkerProgress(w) \/ Heartbeat(w) \/ StartWorker(w) \/ ClaimJob(w) \/ EndJob(w)
        \/ Shutdown(w) \/ HeartbeatThrows(w) \/ Crash(w)
  BY DEF WorkerStep, NextRegistry
<1>2. CASE StartWorker(w)
  BY <1>0, <1>2
  DEF Accurate, StartWorker, Beats, Fresh, StopsLast, Keyed, BusyServes, OneStrike, OnlyGone
<1>3. CASE AddToActive(w)
  BY <1>0, <1>3
  DEF AddToActive, Beats, Fresh, StopsLast, Keyed, BusyServes, OneStrike, OnlyGone
<1>4. CASE WriteKey(w)
  BY <1>0, <1>4
  DEF WriteKey, Beats, Fresh, StopsLast, Keyed, BusyServes, OneStrike, OnlyGone
<1>5. CASE JobsDone(w) \/ DeleteKey(w) \/ Leave(w) \/ Shutdown(w)
  <2>1. CASE DeleteKey(w)
    BY <1>0, <2>1
    DEF DeleteKey, Stops, Fresh, StopsLast, Keyed, BusyServes, OneStrike, OnlyGone
  <2>2. CASE Leave(w)
    BY <1>0, <2>2
    DEF Leave, Stops, Fresh, StopsLast, Keyed, BusyServes, OneStrike, OnlyGone
  <2>3. CASE Shutdown(w)
    BY <1>0, <2>3
    DEF Shutdown, Stops, Fresh, StopsLast, Keyed, BusyServes, OneStrike, OnlyGone
  <2>4. CASE JobsDone(w)
    BY <1>0, <2>4
    DEF JobsDone, Stops, Fresh, StopsLast, Keyed, BusyServes, OneStrike, OnlyGone
  <2>. QED BY <1>5, <2>1, <2>2, <2>3, <2>4
<1>6. CASE Exit(w)
  BY <1>0, <1>6
  DEF Exit, Stops, Fresh, StopsLast, Keyed, BusyServes, OneStrike, OnlyGone
<1>7. CASE Heartbeat(w) \/ HeartbeatThrows(w)
  BY <1>0, <1>7
  DEF Heartbeat, HeartbeatThrows, Beats, Fresh, StopsLast, Keyed, BusyServes, OneStrike, OnlyGone
<1>8. CASE ClaimJob(w) \/ EndJob(w)
  BY <1>0, <1>8
  DEF ClaimJob, EndJob, Fresh, StopsLast, Keyed, BusyServes, OneStrike, OnlyGone
<1>9. CASE Crash(w)
  BY <1>0, <1>9 DEF Crash, Fresh, StopsLast, Keyed, BusyServes, OneStrike, OnlyGone
<1>. QED
  BY <1>1, <1>2, <1>3, <1>4, <1>5, <1>6, <1>7, <1>8, <1>9 DEF WorkerProgress

LEMMA ExpiryAccurate ==
    ASSUME Accurate, AccInv, Expiry
    PROVE  Fresh' /\ StopsLast' /\ Keyed' /\ BusyServes' /\ OneStrike' /\ OnlyGone'
BY DEF Accurate, AccInv, Expiry, LeaderExpires, LeaseExpires, WorkerExpires, KeyExpires,
       registryVars, leaseVars, Traceless, Serving, Gone, Up, Registering, Fresh, StopsLast,
       Keyed, BusyServes, OneStrike, OnlyGone

(* The monitor changes nothing of the workers but busy, and that shrinks.  *)
LEMMA SchedulerLeavesWorkers ==
    ASSUME NEW s \in Schedulers, SchedulerStep(s)
    PROVE  /\ UNCHANGED <<key, beat, stop, starts>>
           /\ busy' \subseteq busy /\ active' \subseteq active
BY DEF SchedulerStep, SchedulerProgress, MonitorProgress, LeaseStep, SchedulerStarts, Sleep,
       AbortRound, SchedulerDies, ListWorkers, CheckWorker, RecoverJobs, RemoveWorker,
       MonitorThrows, registryVars

(* The locals of the scheduler that takes the step; the others keep theirs.*)
LEMMA MonitorsLocals ==
    ASSUME TypeOK, NEW s \in Schedulers, NEW pc, NEW left, NEW target,
           Monitors(s, pc, left, target)
    PROVE  /\ mon'[s] = [pc |-> pc, left |-> left, target |-> target]
           /\ mon'[s].pc = pc /\ mon'[s].left = left /\ mon'[s].target = target
           /\ \A u \in Schedulers \ {s} : mon'[u] = mon[u]
BY DEF TypeOK, Monitors

LEMMA CountsLocals ==
    ASSUME TypeOK, NEW s \in Schedulers, NEW w \in Workers, NEW n, Counts(s, w, n)
    PROVE  /\ strikes'[s][w] = n
           /\ \A x \in Workers \ {w} : strikes'[s][x] = strikes[s][x]
           /\ \A u \in Schedulers \ {s} : strikes'[u] = strikes[u]
BY DEF TypeOK, Counts

LEMMA SchedulerAccurate ==
    ASSUME Accurate, AccInv, NEW s \in Schedulers, SchedulerStep(s)
    PROVE  Fresh' /\ StopsLast' /\ Keyed' /\ BusyServes' /\ OneStrike' /\ OnlyGone'
<1>0. /\ TypeOK /\ Fresh /\ OneStrike /\ OnlyGone
      /\ UNCHANGED <<key, beat, stop, starts>>
      /\ busy' \subseteq busy /\ active' \subseteq active
  BY SchedulerLeavesWorkers DEF AccInv
<1>1. StopsLast' /\ Keyed' /\ BusyServes'
  BY <1>0 DEF AccInv, StopsLast, Keyed, BusyServes, Serving, Up, Registering
<1>2. SUFFICES Fresh' /\ OneStrike' /\ OnlyGone'
  BY <1>1
<1>. USE DEF Traceless, Gone, Up, Registering
<1>3. CASE UNCHANGED <<mon, strikes>>
  BY <1>0, <1>3 DEF Fresh, OneStrike, OnlyGone
<1>4. CASE ListWorkers(s)
  <2>1. mon'[s] = [pc |-> "check", left |-> active, target |-> NoWorker]
    BY <1>0, <1>4, MonitorsLocals DEF ListWorkers
  <2>2. mon[s].pc = "off" /\ strikes' = strikes /\ active' = active
        /\ \A u \in Schedulers \ {s} : mon'[u] = mon[u]
    BY <1>0, <1>4, MonitorsLocals DEF ListWorkers, registryVars
  <2>. QED
    BY <1>0, <2>1, <2>2, MonitorAssumption DEF Fresh, OneStrike, OnlyGone
<1>5. ASSUME NEW w \in Workers, CheckWorker(s, w) PROVE Fresh' /\ OneStrike' /\ OnlyGone'
  <2>1. starts[w] # 0 /\ (Registering(w) => strikes[s][w] = 0) /\ mon[s].pc = "check"
    BY <1>0, <1>5 DEF CheckWorker, Fresh, OneStrike
  <2>a. \/ /\ Counts(s, w, 0)
           /\ Monitors(s, "check", mon[s].left \ {w}, NoWorker)
        \/ /\ Counts(s, w, strikes[s][w] + 1)
           /\ Monitors(s, "check", mon[s].left \ {w}, NoWorker)
        \/ /\ Counts(s, w, 0)
           /\ Monitors(s, "recover", mon[s].left \ {w}, w)
           /\ w \notin key /\ strikes[s][w] + 1 >= MissThreshold
    BY <1>5 DEF CheckWorker
  <2>b. ASSUME NEW pc, NEW left, NEW target, NEW n,
               Monitors(s, pc, left, target), Counts(s, w, n)
        PROVE  /\ strikes'[s][w] = n
               /\ mon'[s].pc = pc /\ mon'[s].left = left /\ mon'[s].target = target
               /\ \A u \in Schedulers \ {s} : mon'[u] = mon[u] /\ strikes'[u] = strikes[u]
               /\ \A x \in Workers \ {w} : strikes'[s][x] = strikes[s][x]
    <3>1. /\ mon'[s].pc = pc /\ mon'[s].left = left /\ mon'[s].target = target
          /\ \A u \in Schedulers \ {s} : mon'[u] = mon[u]
      BY <1>0, <2>b, MonitorsLocals
    <3>. QED BY <1>0, <2>b, <3>1, CountsLocals
  <2>. HIDE DEF Traceless, Gone
  <2>2. /\ \A u \in Schedulers \ {s} : mon'[u] = mon[u] /\ strikes'[u] = strikes[u]
        /\ \A x \in Workers \ {w} : strikes'[s][x] = strikes[s][x]
        /\ mon'[s].left = mon[s].left \ {w}
    BY <2>a, <2>b
  <2>3. \/ strikes'[s][w] = 0 /\ mon'[s].pc = "check" /\ mon'[s].target = NoWorker
        \/ /\ strikes'[s][w] = strikes[s][w] + 1
           /\ mon'[s].pc = "check" /\ mon'[s].target = NoWorker
        \/ /\ strikes'[s][w] = 0 /\ mon'[s].pc = "recover" /\ mon'[s].target = w
           /\ w \notin key /\ strikes[s][w] + 1 >= MissThreshold
    BY <2>a, <2>b
  <2>. USE DEF Traceless, Gone
  <2>4. mon'[s].pc = "recover" => mon'[s].target = w /\ Gone(w)
    <3>1. CASE mon'[s].pc = "recover"
      <4>1. mon'[s].target = w /\ w \notin key /\ strikes[s][w] + 1 >= MissThreshold
        BY <2>3, <3>1
      <4>2. ~Registering(w)
        BY <2>1, <4>1, MonitorAssumption DEF Accurate
      <4>3. ~Serving(w) /\ stop[w] \in StopPc
        BY <4>1 DEF AccInv, Keyed, TypeOK, TypeOKRegistry
      <4>. QED BY <2>1, <4>1, <4>2, <4>3 DEF Serving, StopPc
    <3>. QED BY <3>1
  <2>5. Fresh'
    BY <1>0, <2>1, <2>2, <2>3, MonitorAssumption DEF Fresh
  <2>6. OneStrike'
    BY <1>0, <2>1, <2>2, <2>3 DEF OneStrike
  <2>7. OnlyGone'
    BY <1>0, <2>2, <2>4 DEF OnlyGone
  <2>. QED BY <2>5, <2>6, <2>7
<1>6. CASE RecoverJobs(s) \/ RemoveWorker(s) \/ MonitorThrows(s)
  <2>a. /\ strikes' = strikes /\ mon[s].pc # "off"
        /\ \/ Monitors(s, "remove", mon[s].left, mon[s].target)
           \/ Monitors(s, "check", mon[s].left, NoWorker)
           \/ Monitors(s, "check", {}, NoWorker)
    BY <1>6 DEF RecoverJobs, RemoveWorker, MonitorThrows
  <2>1. /\ mon[s].pc # "off" /\ mon'[s].pc \in {"check", "remove"}
        /\ mon'[s].left \subseteq mon[s].left
        /\ mon'[s].target \in {mon[s].target, NoWorker}
    <3>0. \A pc, left, target : Monitors(s, pc, left, target) =>
            mon'[s].pc = pc /\ mon'[s].left = left /\ mon'[s].target = target
      BY <1>0, MonitorsLocals
    <3>. HIDE DEF Traceless, Gone
    <3>1. CASE Monitors(s, "remove", mon[s].left, mon[s].target)
      <4>1. mon'[s].pc = "remove" /\ mon'[s].left = mon[s].left /\ mon'[s].target = mon[s].target
        BY <3>0, <3>1
      <4>. QED BY <2>a, <4>1
    <3>2. CASE Monitors(s, "check", mon[s].left, NoWorker)
      <4>1. mon'[s].pc = "check" /\ mon'[s].left = mon[s].left /\ mon'[s].target = NoWorker
        BY <3>0, <3>2
      <4>. QED BY <2>a, <4>1
    <3>3. CASE Monitors(s, "check", {}, NoWorker)
      <4>1. mon'[s].pc = "check" /\ mon'[s].left = {} /\ mon'[s].target = NoWorker
        BY <3>0, <3>3
      <4>. QED BY <2>a, <4>1
    <3>. QED BY <2>a, <3>1, <3>2, <3>3
  <2>2. strikes' = strikes /\ \A u \in Schedulers \ {s} : mon'[u] = mon[u]
    BY <1>0, <2>a, MonitorsLocals
  <2>. QED
    BY <1>0, <2>1, <2>2, MonitorAssumption DEF Fresh, OneStrike, OnlyGone
<1>7. CASE Sleep(s) \/ AbortRound(s)
  <2>1. \A w \in Workers : ~Registering(w)
    BY <1>7 DEF Sleep, AbortRound, PollInterval, Accurate
  <2>2. mon'[s] = Off /\ strikes' = strikes /\ \A u \in Schedulers \ {s} : mon'[u] = mon[u]
    BY <1>0, <1>7, MonitorsLocals DEF Sleep, AbortRound, Off
  <2>. QED
    BY <1>0, <2>1, <2>2, MonitorAssumption DEF Fresh, OneStrike, OnlyGone, Off
<1>8. CASE SchedulerDies(s)
  <2>1. mon'[s] = Off /\ \A u \in Schedulers \ {s} : mon'[u] = mon[u]
    BY <1>0, <1>8, MonitorsLocals DEF SchedulerDies, Off
  <2>2. /\ \A w \in Workers : strikes'[s][w] = 0
        /\ \A u \in Schedulers \ {s} : strikes'[u] = strikes[u]
    BY <1>0, <1>8 DEF SchedulerDies, TypeOK
  <2>. QED
    BY <1>0, <2>1, <2>2, MonitorAssumption DEF Fresh, OneStrike, OnlyGone, Off
<1>. QED
  BY <1>3, <1>4, <1>5, <1>6, <1>7, <1>8
  DEF SchedulerStep, SchedulerProgress, MonitorProgress, LeaseStep, SchedulerStarts

(* Failure detection is accurate: workers that beat in time, register      *)
(* within a poll interval and never reuse a WORKER_ID do not lose a job    *)
(* they work on, whatever the schedulers go through.                       *)
THEOREM NoFalseRecoveries ==
    ASSUME Accurate
    PROVE  Spec => []NoFalseRecovery
<1>1. Init => AccInv
  <2>. SUFFICES ASSUME Init PROVE AccInv
    OBVIOUS
  <2>1. TypeOK
    BY TypeInit
  <2>2. Fresh /\ StopsLast /\ Keyed /\ BusyServes /\ OneStrike /\ OnlyGone
    BY MonitorAssumption
    DEF Init, InitRegistry, Off, Fresh, StopsLast, Keyed, BusyServes, OneStrike, OnlyGone,
        Traceless, Serving, Up, Registering
  <2>. QED BY <2>1, <2>2 DEF AccInv
<1>2. AccInv /\ [Next]_vars => AccInv'
  <2>. SUFFICES ASSUME AccInv, [Next]_vars PROVE AccInv'
    OBVIOUS
  <2>1. TypeOK'
    BY TypeStep DEF AccInv
  <2>2. CASE UNCHANGED vars
    BY <2>1, <2>2
    DEF vars, registryVars, AccInv, Fresh, StopsLast, Keyed, BusyServes, OneStrike, OnlyGone,
        Traceless, Serving, Gone, Up, Registering
  <2>3. CASE Next
    BY <2>1, <2>3, WorkerAccurate, ExpiryAccurate, SchedulerAccurate DEF Next, AccInv
  <2>. QED BY <2>2, <2>3
<1>3. AccInv => NoFalseRecovery
  <2>. SUFFICES ASSUME AccInv PROVE NoFalseRecovery
    OBVIOUS
  <2>1. \A w \in Workers : Gone(w) => ~Serving(w)
    BY DEF Gone, Serving
  <2>. QED BY <2>1 DEF AccInv, OnlyGone, BusyServes, NoFalseRecovery
<1>. QED BY <1>1, <1>2, <1>3, PTL DEF Spec

=============================================================================
