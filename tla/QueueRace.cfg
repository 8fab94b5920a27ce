SPECIFICATION FairSpec
CONSTANTS
    w1 = w1
    w2 = w2
    j1 = j1
    bad = bad
    Workers <- TwoWorkers
    Jobs <- TwoJobs
    Invalid <- OneInvalid
    MaxDeliver <- SameLimits
    MaxMessages = 1
    Prefetch = 2
    MaxFaults = 1
INVARIANTS
    UnsettledIsKept
    DeadLetterIsFinal
    NoJobIsStranded
PROPERTIES
    JobsEnd
CHECK_DEADLOCK FALSE
