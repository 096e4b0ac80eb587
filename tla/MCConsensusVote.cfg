CONSTANTS
    p1 = p1
    p2 = p2
    t1 = t1
    t2 = t2
    L = L
    none = none
    Peer <- MCPeer
    Tx <- MCTx
    PeerSets <- MCPeerSets
    OpenSets <- MCOpenSets
    CloseTimes <- MCCloseTimes
    PeerSeqs <- MCPeerSeqs
    SeqLeave = 9
    Ledger <- MCLedger
    LedgerInfo <- MCLedgerInfo
    NoLedger = none
    PauseViews <- MCPauseViews
    Validated <- MCValidated
    Distrusted <- MCDistrusted
    Standalone = {FALSE}
    MaxRecent = 1
    StartClock = 100000
    TickSteps <- MCTickSteps
    MaxClock = 130000
    QuietClock = 130000
    MaxMsgs = 3
    MaxSwitches = 0
    MaxRounds = 1
SYMMETRY MCSymmetry
SPECIFICATION Spec
INVARIANTS
    DisputesComplete
    VotesFaithful
    PositionMatchesVotes
    AcceptedBySupermajority
    AcceptedCloseTime
PROPERTIES
    ProposalsAdvance
    AcceptedFrozen
CHECK_DEADLOCK FALSE
