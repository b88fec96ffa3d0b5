------------------------------- MODULE Faults -------------------------------
(***************************************************************************)
(* Failures of the cluster modules: a process that dies, a call to Redis   *)
(* or Postgres that throws.  They are counted so that a run can bound them.*)
(***************************************************************************)
EXTENDS Naturals

CONSTANT MaxFailures

ASSUME FaultAssumption == MaxFailures \in Nat

VARIABLE failures

Fault ==
    /\ failures < MaxFailures
    /\ failures' = failures + 1

=============================================================================
