---------------------------- MODULE MCScheduler ----------------------------
(***************************************************************************)
(* The scheduler for TLC: a pipeline whose schedule parses and one whose   *)
(* schedule does not, which one request may create, in two processes.      *)
(***************************************************************************)
EXTENDS Scheduler, TLC

CONSTANTS p1, p2, s1, s2

\* Processes are interchangeable.
ReplicaSymmetry == Permutations(Replica)
=============================================================================
