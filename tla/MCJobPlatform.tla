--------------------------- MODULE MCJobPlatform ---------------------------
(* Values for the constants of JobPlatform that a configuration cannot     *)
(* write.                                                                  *)
EXTENDS JobPlatform, TLC

CONSTANTS l1, l2, w1, w2

(* One worker with two loops.                                              *)
OneWorker == (l1 :> w1) @@ (l2 :> w1)

(* One worker with one loop.                                               *)
LoopOne == l1 :> w1

(* Two workers with one loop each.                                         *)
LoopEach == (l1 :> w1) @@ (l2 :> w2)

=============================================================================
