---------------------------- MODULE MCScheduler ----------------------------
(* Small instances of Scheduler.                                           *)
EXTENDS Scheduler, TLC

CONSTANTS c1, c2, s1, s2

LoopSymmetry == Permutations({c1, c2}) \cup Permutations({s1, s2})
OneSymmetry == Permutations({s1, s2})
=============================================================================
