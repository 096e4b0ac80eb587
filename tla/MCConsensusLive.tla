-------------------------- MODULE MCConsensusLive --------------------------
(***************************************************************************)
(* Two prior ledgers, fair time, timer and handlers: rounds end.           *)
(***************************************************************************)
EXTENDS Consensus, TLC

CONSTANTS p1, t1, t2, L, K, none

MCPeer == {p1}
MCTx == {t1, t2}
MCPeerSets == {{t2}}
MCOpenSets == {{t1}}
MCCloseTimes == {102}
MCPeerSeqs == {0}
MCLedger == {L, K}
MCLedgerInfo == [l \in MCLedger |->
    [seq |-> 7, closeTime |-> 90, parentCloseTime |-> 80, closeAgree |-> TRUE,
     closeTimeResolution |-> 10]]
MCPauseViews ==
    {[ahead |-> a, laggards |-> a, offline |-> 0, totalValidators |-> 3, quorum |-> 3,
      validating |-> TRUE] : a \in {0, 1}}
MCValidated == {0, 1}
MCDistrusted == {{}}
MCTickSteps == {10000}

=============================================================================
