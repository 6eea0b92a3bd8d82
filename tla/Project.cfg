SPECIFICATION Spec
CONSTANTS
    NONE = NONE
    Stages <- MCStages
    Datasets = {"raw", "data"}
    Model = "model"
    Config = "passport.yaml"
    Sources = {"raw", "steps.py", "passport.yaml"}
    Procs = {p1}
    MaxEdits = 2
    MaxPassports = 2
    MaxEvents = 2
    MaxKeys = 2
INVARIANTS
    Provenance
    VerifiedMeansAssessed
    VerifiesAsWritten
    HistoryLinked
    EventsKept
