---------------------------- MODULE MCScanJobs ----------------------------
(***************************************************************************)
(* ScanJobs for TLC: the constants are given in the .cfg files.  Agents    *)
(* and targets are interchangeable, so the safety runs are symmetric.      *)
(***************************************************************************)
EXTENDS ScanJobs, TLC

Symmetry == Permutations(Agents) \cup Permutations(IPs)
=============================================================================
