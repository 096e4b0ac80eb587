-------------------------- MODULE MCConsensusVote ---------------------------
(***************************************************************************)
(* One prior ledger, so no switches: disputes, close times and acceptance. *)
(***************************************************************************)
EXTENDS Consensus, TLC

CONSTANTS p1, p2, t1, t2, L, none

MCPeer == {p1, p2}
MCTx == {t1, t2}
MCPeerSets == {{t1}, {t2}}
MCOpenSets == {{t1}}
MCCloseTimes == {128}
MCPeerSeqs == {0, 1, 9}
MCLedger == {L}
MCLedgerInfo == [l \in MCLedger |->
    [seq |-> 7, closeTime |-> 90, parentCloseTime |-> 80, closeAgree |-> TRUE,
     closeTimeResolution |-> 10]]
MCPauseViews ==
    {[ahead |-> a, laggards |-> a, offline |-> 0, totalValidators |-> 3, quorum |-> 3,
      validating |-> TRUE] : a \in {0}}
MCValidated == {0}
MCDistrusted == {{}}
MCTickSteps == {15000}
MCSymmetry == Permutations(MCPeer)

=============================================================================
