SPECIFICATION RegistrySpec
CONSTANTS
    NONE = NONE
    c1 = c1
    id1 = id1
    id2 = id2
    k1 = k1
    k2 = k2
    Clients = {c1}
    Ids = {id1, id2}
    Holds <- MCHolds
    Key <- MCKey
    MaxMade = 3
    MaxSent = 5
CHECK_DEADLOCK FALSE
INVARIANTS
    RegistryFollows
PROPERTIES
    Answered
