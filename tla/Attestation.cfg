SPECIFICATION Spec
CONSTANTS
    NONE = NONE
    Tenants = {t1, t2}
    Owner = t1
    Names = {n1}
    Corpora = {d1}
    Workers = {w1, w2}
    Versions = {1, 2, 3}
    Parent <- MCParent
    MaxLog = 6
    MaxCopies = 1
    MaxOutages = 1
SYMMETRY Symmetry
CHECK_DEADLOCK FALSE
INVARIANTS
    NothingForeign
    OneKeyVerifies
    AttestationsLinked
