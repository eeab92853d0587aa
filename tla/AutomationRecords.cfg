\* One source under fairness: is a record that was left open closed by time?
SPECIFICATION FairSpec
CONSTANTS
    Sources = {official}
    Ticker = ticker
    Startup = startup
    Clerks = {}
    NoSource = NoSource
    MaxRuns = 4
    MaxEdits = 0
    MaxFaults = 1
PROPERTIES
    RunsConverge
CHECK_DEADLOCK FALSE
