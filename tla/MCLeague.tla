------------------------------ MODULE MCLeague ------------------------------
(***************************************************************************)
(* League for TLC: the intervals of 1, 6 and 24 hours become 1, 2 and 3.   *)
(***************************************************************************)
EXTENDS League

MCInterval == [observation |-> 3, challenger |-> 2, champion |-> 1]
=============================================================================
