---------------------------- MODULE MCScheduler ----------------------------
(* Instances of Scheduler for TLC. *)
EXTENDS Scheduler, TLC
CONSTANTS w1, w2, r1, r2, none
TwoWorkers  == {w1, w2}
OneWorker   == {w1}
TwoRequests == {r1, r2}
R1Blocking  == {r1}
Symmetry    == Permutations(TwoWorkers)
=============================================================================
