\* Two prefixes for a scheduled scan each hour with forced ones beside it, one failure: four
\* targets are three of a champion and one more.
SPECIFICATION FairSpec
CONSTANTS
    Prefixes = {p1, p2}
    IPv6 = {p2}
    Budget = 4
    Interval <- MCInterval
    MaxArrivals = 2
    MaxFaults = 1
INVARIANTS
    NoDoublePenalty
PROPERTIES
    ObservationServed
