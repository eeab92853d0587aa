\* Three queries, each alone, with all the mutations that concern it: two writes of what it
\* reads, by this tab or elsewhere, and two faults, so that an older answer, an invalidation
\* and a newer answer meet, and that a query fails with its retry and pages show the error.
SPECIFICATION LiveSpec
CONSTANTS
    Followed <- Few
    MaxWrites = 2
    MaxPending = 2
    MaxFaults = 2
PROPERTIES
    EveryChangeAppears
