-------------------------- MODULE MCConsensusSwitch -------------------------
(***************************************************************************)
(* Two prior ledgers between which the network changes its mind, and two   *)
(* rounds: playback, bowing out, wrong and switched ledgers.               *)
(***************************************************************************)
EXTENDS Consensus, TLC

CONSTANTS p1, p2, t1, t2, L, K, none

MCPeer == {p1, p2}
MCTx == {t1, t2}
MCPeerSets == {{t2}}
MCOpenSets == {{t1}}
MCCloseTimes == {102}
MCPeerSeqs == {0, 9}
MCLedger == {L, K}
MCLedgerInfo == [l \in MCLedger |->
    [seq |-> 7, closeTime |-> 90, parentCloseTime |-> 80, closeAgree |-> TRUE,
     closeTimeResolution |-> 10]]
MCPauseViews ==
    {[ahead |-> a, laggards |-> a, offline |-> 0, totalValidators |-> 3, quorum |-> 3,
      validating |-> TRUE] : a \in {0}}
MCValidated == {0}
MCDistrusted == {{}, {p1}, {p2}}
MCTickSteps == {15000}
MCSymmetry == Permutations(MCPeer) \cup Permutations(MCLedger)

=============================================================================
