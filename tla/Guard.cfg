SPECIFICATION Spec
CONSTANTS
    NONE = NONE
    Values <- MCValues
    Trained <- MCTrained
    High = {"SSN"}
    Texts <- MCTexts
    Rests <- MCRests
    Answers <- MCAnswers
    Policies <- MCPolicies
    Default <- MCDefault
    Keys = {k1}
    Apps = {a1, a2}
    TTL = 1
    MaxClock = 2
    MaxRuns = 2
SYMMETRY Symmetry
INVARIANTS
    MaskedUnseen
    RepliesFaithful
    MemorizedHeld
