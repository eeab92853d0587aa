\* Two Agents share two jobs: its counters and its status.
SPECIFICATION Spec
CONSTANTS
    Agents = {a1, a2}
    IPs = {i1}
    MaxJobs = 2
    ClaimLimit = 1
    MaxFaults = 2
INVARIANTS
    CountersMatchRows
    StatusMatchesRows
SYMMETRY Symmetry
