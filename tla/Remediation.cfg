SPECIFICATION Spec
CONSTANTS
    NONE = NONE
    Raw <- MCRaw
    Scores <- MCScores
    Again = {30, 600}
    Null <- MCNull
    Impact <- MCImpact
    Fdr = 50
    MAX_FINDINGS = 2
    MIN_TYPE_METRICS = 1
    Sites <- MCSites
    LaterSites <- MCLaterSites
    Template <- MCTemplate
    Always = {"SSN"}
    Strategies = {"surrogate", "mask", "drop"}
    Pool <- MCPool
    Scrambled <- MCScrambled
    TypeAucMax = 600
    MaxRounds = 2
    MaxBuilds = 3
CHECK_DEADLOCK FALSE
INVARIANTS
    BlockingIsConfirmed
    ReportTrue
    GatesAgree
    SanitizedInPlace
    HistoryKept
