-------------------------- MODULE MCConsoleQueries --------------------------
(***************************************************************************)
(* TLC instances of ConsoleQueries.  Each query is watched alone, under    *)
(* all the mutations that concern it; Few are one that no timer repeats,   *)
(* one that some of its pages repeat, and one that two mutations share.    *)
(***************************************************************************)
EXTENDS ConsoleQueries

Few == {{"users"}, {"agents"}, {"official"}}
=============================================================================
