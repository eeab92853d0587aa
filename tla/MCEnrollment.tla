---------------------------- MODULE MCEnrollment ----------------------------
(***************************************************************************)
(* Enrollment for TLC: the constants are given in the .cfg files.          *)
(***************************************************************************)
EXTENDS Enrollment, TLC

Symmetry == Permutations(Hosts) \cup Permutations(Enrollments)
            \cup Permutations(Credentials) \cup Permutations(Names)
=============================================================================
