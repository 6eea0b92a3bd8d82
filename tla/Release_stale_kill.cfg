SPECIFICATION Spec
CONSTANTS
    Versions = {v1}
    Requests = {r1, r2}
    NONE = none
    InitState = "verifying"
    Ops <- AllOps
    Targets <- WebTargets
    MaxDeploys = 1
SYMMETRY ReleaseSymmetry
PROPERTIES KillIsFinal
CHECK_DEADLOCK FALSE
