SPECIFICATION FairSpec
CONSTANTS
    Workers = {w1}
    Requests = {r1}
    NONE = none
    Targets <- JoblessTargets
    Overlap = TRUE
    MaxAttempts = 2
    MaxVersion = 2
    MaxJobs = 3
    MaxCrashes = 1
CHECK_DEADLOCK FALSE
PROPERTIES
    WaitingSettles
    JobsSettle
