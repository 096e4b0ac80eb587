CONSTANTS
    p1 = p1
    p2 = p2
    t1 = t1
    t2 = t2
    L = L
    K = K
    none = none
    Peer <- MCPeer
    Tx <- MCTx
    PeerSets <- MCPeerSets
    OpenSets <- MCOpenSets
    CloseTimes <- MCCloseTimes
    PeerSeqs <- MCPeerSeqs
    SeqLeave = 9
    Ledger <- MCLedger
    LedgerInfo <- MCLedgerInfo
    NoLedger = none
    PauseViews <- MCPauseViews
    Validated <- MCValidated
    Distrusted <- MCDistrusted
    Standalone = {FALSE, TRUE}
    MaxRecent = 1
    StartClock = 100000
    TickSteps <- MCTickSteps
    MaxClock = 130000
    QuietClock = 115000
    MaxMsgs = 2
    MaxSwitches = 2
    MaxRounds = 2
SYMMETRY MCSymmetry
SPECIFICATION Spec
INVARIANTS
    StanceMatchesPhase
    PeersOnOurLedger
    WrongLedgerKnown
    ProposingOnOurLedger
PROPERTIES
    LeavesAloud
    NoWayBack
CHECK_DEADLOCK FALSE
