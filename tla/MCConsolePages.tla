--------------------------- MODULE MCConsolePages ---------------------------
(***************************************************************************)
(* A TLC instance of ConsolePages.  The places are two countries and two   *)
(* cities of one of them, so that a city can stay without its country.     *)
(* Each query is watched alone, under all the mutations that concern it:   *)
(* one that no timer repeats and one that some of its pages repeat.        *)
(***************************************************************************)
EXTENDS ConsolePages, TLC

Place(continent, country, city, code) ==
    [continent |-> continent, country |-> country, city |-> city, code |-> code]

Three == {Place("Europe", "Germany", "Frankfurt", "FRA"),
          Place("Europe", "Germany", "Munich", "MUC"),
          Place("Asia", "Japan", "Tokyo", "NRT")}

Few == {{"users"}, {"agents"}}

Symmetry == Permutations(Items) \cup Permutations(Words)
=============================================================================
