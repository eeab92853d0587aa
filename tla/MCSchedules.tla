---------------------------- MODULE MCSchedules ----------------------------
(***************************************************************************)
(* Schedules for TLC: the constants are given in the .cfg files.           *)
(***************************************************************************)
EXTENDS Schedules, TLC

Symmetry == Permutations(Schedules) \cup Permutations(Jobs)
=============================================================================
