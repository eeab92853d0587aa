------------------------------ MODULE MCUsers ------------------------------
(***************************************************************************)
(* Users for TLC: the constants are given in the .cfg file.                *)
(***************************************************************************)
EXTENDS Users, TLC

Symmetry == Permutations(Users) \cup Permutations(Tokens)
            \cup Permutations(Centers) \cup Permutations(Requests)
=============================================================================
