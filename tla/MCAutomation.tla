---------------------------- MODULE MCAutomation ----------------------------
(***************************************************************************)
(* Automation for TLC: the constants are given in the .cfg files.          *)
(***************************************************************************)
EXTENDS Automation, TLC

Symmetry == Permutations(Sources)
=============================================================================
