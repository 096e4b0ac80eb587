SPECIFICATION Spec
CONSTANTS
    History <- Forks
    Depth = 256
    MaxSupport = 2
    Node = {v1, v2}
    UNL = {v1, v2}
    CURRENT_WALL = 2
    CURRENT_LOCAL = 1
    CURRENT_EARLY = 1
    SET_EXPIRES = 0
    SignTimes = {1, 2}
    Keep = {1}
    MaxClock = 2
    MaxEvents = 4
SYMMETRY Validators
INVARIANTS
    TrieAccounts
    NewestCounted
    WaitsForNewest
    TrustAgrees
    OneLedgerPerSeq
