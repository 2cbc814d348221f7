---------------------------- MODULE MCScheduler ----------------------------
(* Scheduler with one library of two books and one scan by hand beside the *)
(* worker of its source.                                                    *)
EXTENDS Scheduler
CONSTANTS s1, c1, c2, r1
=============================================================================
