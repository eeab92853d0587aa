\* One source, both loops and a request, under fairness: who may run it at once, and that it
\* is run again and again.  Open records are enough for every run that the faults leave open.
SPECIFICATION FairSpec
CONSTANTS
    Sources = {official}
    Ticker = ticker
    Startup = startup
    Clerks = {clerk}
    NoSource = NoSource
    MaxRuns = 8
    MaxEdits = 2
    MaxFaults = 2
INVARIANTS
    RunningSyncIsVisible
    ClaimedOnce
PROPERTIES
    SourceRunsAgain
\* With every source disabled nothing is left to do.
CHECK_DEADLOCK FALSE
