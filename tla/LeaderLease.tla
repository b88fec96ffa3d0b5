---------------------------- MODULE LeaderLease ----------------------------
(***************************************************************************)
(* scheduler-service/src/leader-election and the loop around it in         *)
(* scheduler.ts: one Redis key with a TTL of 15 s, which a scheduler reads *)
(* or takes (SET NX EX) and then renews (EXPIRE if the value is its own)   *)
(* before each round of sweeps.  Each call is a step.  Nothing looks at    *)
(* the key again during the round.                                         *)
(***************************************************************************)
EXTENDS Faults

CONSTANTS
    Schedulers,
    NoScheduler     \* the key does not exist

ASSUME LeaseAssumption == NoScheduler \notin Schedulers

VARIABLES
    lease,    \* the value of scheduler:leader
    at        \* at[s]: where scheduler s is in the loop of runScheduler

leaseVars == <<lease, at>>

(* down      not running             asleep   between two rounds           *)
(* acquire   isLeader said no        renew    isLeader said yes            *)
(* acquired  the SET took the key    lead     renewed; in the round        *)
RoundPc == {"down", "asleep", "acquire", "acquired", "renew", "lead"}

TypeOKLease ==
    /\ lease \in Schedulers \cup {NoScheduler}
    /\ at \in [Schedulers -> RoundPc]

InitLease ==
    /\ lease = NoScheduler
    /\ at = [s \in Schedulers |-> "asleep"]

Moves(s, from, to) == at[s] = from /\ at' = [at EXCEPT ![s] = to]

-----------------------------------------------------------------------------
(* isLeader: GET, compared with the scheduler's own id.                    *)
IsLeader(s) ==
    /\ Moves(s, "asleep", IF lease = s THEN "renew" ELSE "acquire")
    /\ UNCHANGED <<lease, failures>>

(* SET scheduler:leader id EX 15 NX.                                       *)
AcquireLeadership(s) ==
    /\ IF lease = NoScheduler
       THEN Moves(s, "acquire", "acquired") /\ lease' = s
       ELSE Moves(s, "acquire", "asleep") /\ UNCHANGED lease
    /\ UNCHANGED failures

(* Mutant: EXPIRE without looking at the value.                            *)
RenewUnchecked(s) ==
    /\ \E pc \in {"acquired", "renew"} :
          Moves(s, pc, IF lease # NoScheduler THEN "lead" ELSE "asleep")
    /\ UNCHANGED <<lease, failures>>

RenewLeadership(s) ==
    /\ \E pc \in {"acquired", "renew"} :
          Moves(s, pc, IF lease = s THEN "lead" ELSE "asleep")
    /\ UNCHANGED <<lease, failures>>

EndRound(s) ==
    /\ Moves(s, "lead", "asleep")
    /\ UNCHANGED <<lease, failures>>

(* Graceful shutdown: the loop ends after its round, and the key is        *)
(* deleted if it is still the scheduler's own.  Shutdowns are counted with *)
(* the faults: a deployment has finitely many.                             *)
ReleaseLeadership(s) ==
    /\ Moves(s, "asleep", "down")
    /\ Fault
    /\ lease' = IF lease = s THEN NoScheduler ELSE lease

-----------------------------------------------------------------------------
(* A call of the loop throws: the catch block logs, the loop sleeps.  The  *)
(* SET may have taken effect.                                              *)
RoundThrows(s) ==
    /\ \E pc \in {"acquire", "acquired", "renew", "lead"} : Moves(s, pc, "asleep")
    /\ Fault
    /\ \/ at[s] = "acquire" /\ lease = NoScheduler /\ lease' = s
       \/ UNCHANGED lease

(* The process dies, and is started again.  SCHEDULER_ID may be set by the *)
(* environment, so it is the same scheduler.                               *)
Die(s) ==
    /\ \E pc \in RoundPc \ {"down"} : Moves(s, pc, "down")
    /\ Fault
    /\ UNCHANGED lease

StartScheduler(s) ==
    /\ Moves(s, "down", "asleep")
    /\ UNCHANGED <<lease, failures>>

(* The TTL of the key runs out.                                            *)
LeaseExpires ==
    /\ lease # NoScheduler
    /\ lease' = NoScheduler
    /\ UNCHANGED <<at, failures>>

Leading(s) == at[s] = "lead"

=============================================================================
