SPECIFICATION MCSpec
CONSTANTS
    Tenants = {t1}
    Writers = {w1, w2}
    Values = {v1, v2}
    InitValue = v1
    Other = other
    NONE = none
    Dialect = "postgresql"
    MaxEvents = 2
    MaxSeq = 4
    MaxForged = 2
INVARIANTS ChainsIntact NoFork LogMatchesData HistoryAnchored
PROPERTIES TransactionsEnd ImplementsJournal
CHECK_DEADLOCK FALSE
