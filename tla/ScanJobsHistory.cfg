\* Two Agents share a job of two targets, in batches of one or two, with a lost request or
\* answer or a crash: leases, late and repeated results, the blacklist and the end of the job.
SPECIFICATION FairSpec
CONSTANTS
    Agents = {a1, a2}
    IPs = {i1, i2}
    MaxJobs = 1
    ClaimLimit = 2
    MaxFaults = 1
INVARIANTS
    ResultPerCompletedTask
PROPERTIES
    FinishedJobsAreFinal
    LeaseIsHonoured
    ResultsAreWrittenOnce
    BlacklistFollowsResults
    ImplementsLifecycle
    JobsFinish
