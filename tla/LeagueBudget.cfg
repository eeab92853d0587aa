\* No failure, but three targets: a champion that is due every hour takes them all.
SPECIFICATION FairSpec
CONSTANTS
    Prefixes = {p1, p2}
    IPv6 = {p2}
    Budget = 3
    Interval <- MCInterval
    MaxArrivals = 2
    MaxFaults = 0
PROPERTIES
    ObservationServed
