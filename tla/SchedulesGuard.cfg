\* Two schedules, both loops and a request to run one by hand, under fairness: at most one
\* open job of a schedule, and both are dispatched again and again.
SPECIFICATION FairSpec
CONSTANTS
    Schedules = {s1, s2}
    Jobs = {j1, j2}
    Ticker = ticker
    Startup = startup
    Clerks = {clerk}
    NoJob = NoJob
    MaxEdits = 2
    MaxFaults = 1
INVARIANTS
    OneOpenJob
PROPERTIES
    RunsAgain
\* With every schedule deleted nothing is left to do.
CHECK_DEADLOCK FALSE
