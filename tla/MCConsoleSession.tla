-------------------------- MODULE MCConsoleSession --------------------------
(***************************************************************************)
(* ConsoleSession for TLC: the constants are given in the .cfg files.      *)
(***************************************************************************)
EXTENDS ConsoleSession, TLC

Symmetry == Permutations(Tokens) \cup Permutations(Users \ Admins)
=============================================================================
