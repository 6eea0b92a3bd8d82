SPECIFICATION Spec
CONSTANTS
    Versions = {v1, v2}
    Requests = {r1, r2}
    NONE = none
    InitState = "verifying"
    Ops <- AllOps
    Targets <- ReleaseTargets
    MaxDeploys = 2
SYMMETRY ReleaseSymmetry
INVARIANTS TypeOK ConsumerWasApproved OneActive
PROPERTIES KilledStaysDown OnlyLifecycleSteps ServedUnlessWithdrawn
CHECK_DEADLOCK FALSE
