SPECIFICATION FairSpec
CONSTANTS
    once = once
    kept = kept
    dream = dream
    Jobs <- MCJobs
    SystemJobs = {dream}
    At <- MCAt
    Period = 2
    DeleteAfter = {once}
    MaxSleep = 2
    MaxTime = 3
    MaxOps = 3
    MaxCrashes = 1
    MaxTicks = 2
    MaxDeaf = 1
INVARIANTS
    OncePerDue
    JobKept
    RemovedStays
PROPERTIES
    DueJobRuns
