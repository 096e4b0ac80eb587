CONSTANTS
    Node = {n1, n2}
    Backend = {b1, b2, b3, b4, b5}
    NoBackend = NoBackend
    NoNode = NoNode
    DeleteInterval = 1
    Advice <- MCAdvice
    MaxSeq = 4
    MaxCrashes = 1
    MaxUnhealthy = 1
SPECIFICATION Spec
INVARIANTS
    LastLedgerStored
    Restartable
    FetchFinds
    StopHeard
SYMMETRY Nodes
CHECK_DEADLOCK FALSE
