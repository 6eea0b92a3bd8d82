SPECIFICATION Spec
CONSTANTS
    Workers = {w1, w2}
    Requests = {r1}
    NONE = none
    Targets <- WebTargets
    Overlap = FALSE
    MaxAttempts = 2
    MaxVersion = 2
    MaxJobs = 3
    MaxCrashes = 1
SYMMETRY PipelineSymmetry
CHECK_DEADLOCK FALSE
INVARIANTS
    JobHeldOnce
    AuditedArtifact
    SuccessorReplaces
PROPERTIES
    ImplementsLifecycle
