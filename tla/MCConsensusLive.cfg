CONSTANTS
    p1 = p1
    t1 = t1
    t2 = t2
    L = L
    K = K
    none = none
    Peer <- MCPeer
    Tx <- MCTx
    PeerSets <- MCPeerSets
    OpenSets <- MCOpenSets
    CloseTimes <- MCCloseTimes
    PeerSeqs <- MCPeerSeqs
    SeqLeave = 9
    Ledger <- MCLedger
    LedgerInfo <- MCLedgerInfo
    NoLedger = none
    PauseViews <- MCPauseViews
    Validated <- MCValidated
    Distrusted <- MCDistrusted
    Standalone = {FALSE}
    MaxRecent = 1
    StartClock = 100000
    TickSteps <- MCTickSteps
    MaxClock = 140000
    QuietClock = 110000
    MaxMsgs = 1
    MaxSwitches = 1
    MaxRounds = 1
SPECIFICATION FairSpec
PROPERTIES
    OpenEnds
    EstablishEnds
CHECK_DEADLOCK FALSE
