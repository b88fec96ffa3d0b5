----------------------------- MODULE MCConsole ------------------------------
(* Three scenes: one run of any scenario that submits two jobs; two runs      *)
(* whose submissions are refused, on a page that goes from one to the other;  *)
(* and the page of a job.                                                     *)
EXTENDS Console, TLC

CONSTANTS j1, j2, j3, r1, r2

MCMaxAttempts == j1 :> 1 @@ j2 :> 1 @@ j3 :> 2
MCScenes ==
    {[present |-> {}, jobs |-> {j1, j2}, started |-> {r1}, runs |-> {}, scenarios |-> Scenarios,
      paths |-> {}],
     [present |-> {}, jobs |-> {}, started |-> {}, runs |-> {r1, r2},
      scenarios |-> {"failover"}, paths |-> {"lab"}],
     [present |-> {j3}, jobs |-> {}, started |-> {}, runs |-> {}, scenarios |-> {},
      paths |-> {"job"}]}
=============================================================================
