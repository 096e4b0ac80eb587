--------------------------- MODULE ConsensusRules ---------------------------
(***************************************************************************)
(* The thresholds of a consensus round: when to close the open ledger,     *)
(* when to declare consensus, how much support a disputed transaction or a *)
(* close time needs (consensus/Consensus.cpp, ConsensusParms.h and the     *)
(* threshold arithmetic of Consensus.h and DisputedTx.h).                  *)
(*                                                                         *)
(* Durations of the engine's own clock are in milliseconds, those of the   *)
(* network clock in seconds, as in the code.                               *)
(***************************************************************************)
EXTENDS Integers, FiniteSets

----------------------------------------------------------------------------
\* ConsensusParms
proposeFRESHNESS == 20
proposeINTERVAL == 12
minCONSENSUS_PCT == 80
ledgerIDLE_INTERVAL == 15000
ledgerMIN_CONSENSUS == 1950
ledgerMAX_CONSENSUS == 10000
ledgerMIN_CLOSE == 2000
avMIN_CONSENSUS_TIME == 5000
avINIT_CONSENSUS_PCT == 50
avMID_CONSENSUS_TIME == 50
avMID_CONSENSUS_PCT == 65
avLATE_CONSENSUS_TIME == 85
avLATE_CONSENSUS_PCT == 70
avSTUCK_CONSENSUS_TIME == 200
avSTUCK_CONSENSUS_PCT == 95
avCT_CONSENSUS_PCT == 75

AtLeast(a, b) == IF a < b THEN b ELSE a

----------------------------------------------------------------------------
\* Mutant: an idle ledger only closes with the network.
NeverIdle(anyTransactions, prevProposers, proposersClosed, proposersValidated, prevRoundTime, timeSincePrevClose, openTime, idleInterval) ==
    \/ timeSincePrevClose > 600000
    \/ proposersClosed + proposersValidated > prevProposers \div 2
    \/ /\ anyTransactions
       /\ openTime >= ledgerMIN_CLOSE
       /\ openTime >= prevRoundTime \div 2

\* When to close the open ledger: something is off with the clocks, most of
\* the network has closed, the ledger has idled long enough, or it holds
\* transactions and has been open long enough.
shouldCloseLedger(anyTransactions, prevProposers, proposersClosed, proposersValidated, prevRoundTime, timeSincePrevClose, openTime, idleInterval) ==
    \/ prevRoundTime < -1000
    \/ prevRoundTime > 600000
    \/ timeSincePrevClose > 600000
    \/ proposersClosed + proposersValidated > prevProposers \div 2
    \/ ~anyTransactions /\ timeSincePrevClose >= idleInterval
    \/ /\ anyTransactions
       /\ openTime >= ledgerMIN_CLOSE
       /\ openTime >= prevRoundTime \div 2

\* Mutant: count ourselves as agreeing but not in the total.
OvercountingSelf(agreeing, total, count_self, minConsensusPct) ==
    \/ total = 0
    \/ ((agreeing + 1) * 100) \div total >= minConsensusPct

checkConsensusReached(agreeing, total, count_self, minConsensusPct) ==
    LET self == IF count_self THEN 1 ELSE 0 IN
    \/ total = 0
    \/ ((agreeing + self) * 100) \div (total + self) >= minConsensusPct

\* Few of the last round's proposers are here and the last round took longer.
TooFewTooFast(prevProposers, currentProposers, previousAgreeTime, currentAgreeTime) ==
    /\ currentProposers < (prevProposers * 3) \div 4
    /\ currentAgreeTime < previousAgreeTime + ledgerMIN_CONSENSUS

checkConsensus(prevProposers, currentProposers, currentAgree, currentFinished, previousAgreeTime, currentAgreeTime, proposing) ==
    IF \/ currentAgreeTime <= ledgerMIN_CONSENSUS
       \/ TooFewTooFast(prevProposers, currentProposers,
                        previousAgreeTime, currentAgreeTime)
    THEN "No"
    ELSE IF checkConsensusReached(currentAgree, currentProposers, proposing, minCONSENSUS_PCT)
    THEN "Yes"
    ELSE IF checkConsensusReached(currentFinished, currentProposers, FALSE, minCONSENSUS_PCT)
    THEN "MovedOn"
    ELSE "No"

----------------------------------------------------------------------------
\* The avalanche: the percentage of support needed grows with the time the
\* round has taken, as a percentage of the last round's.
neededWeight(percentTime) ==
    IF percentTime < avMID_CONSENSUS_TIME THEN avINIT_CONSENSUS_PCT
    ELSE IF percentTime < avLATE_CONSENSUS_TIME THEN avMID_CONSENSUS_PCT
    ELSE IF percentTime < avSTUCK_CONSENSUS_TIME THEN avLATE_CONSENSUS_PCT
    ELSE avSTUCK_CONSENSUS_PCT

participantsNeeded(participants, percent) ==
    AtLeast((participants * percent + percent \div 2) \div 100, 1)

\* Mutants: no early return when nobody disagrees; our weight on the wrong side.
VoteWithoutEarlyReturn(yays, nays, ourVote, percentTime, proposing) ==
    IF proposing
    THEN (yays * 100 + (IF ourVote THEN 100 ELSE 0)) \div (nays + yays + 1)
             > neededWeight(percentTime)
    ELSE yays > nays
VoteAgainstOurselves(yays, nays, ourVote, percentTime, proposing) ==
    IF proposing
    THEN (yays * 100 + (IF ourVote THEN 0 ELSE 100)) \div (nays + yays + 1)
             > neededWeight(percentTime)
    ELSE yays > nays

\* Our next vote on a disputed transaction that yays peers include and nays
\* peers leave out (DisputedTx::updateVote).  A proposer counts itself and
\* needs more than the threshold, an observer follows the majority.
NextVote(yays, nays, ourVote, percentTime, proposing) ==
    LET ours == IF ourVote THEN 100 ELSE 0
        weight == (yays * 100 + ours) \div (nays + yays + 1)
    IN  IF \/ ourVote /\ nays = 0
           \/ ~ourVote /\ yays = 0
        THEN ourVote
        ELSE IF proposing
        THEN weight > neededWeight(percentTime)
        ELSE yays > nays

----------------------------------------------------------------------------
\* Mutant: the pause has no limit.
PauseForEver(ahead, laggards, offline, totalValidators, quorum, validating, roundTime) ==
    ahead # 0 /\ laggards # 0 /\ totalValidators # 0 /\ validating

\* Whether to wait for validators that lag behind or are offline: only within
\* the longest round, with a share of the others that rises with the number
\* of ledgers we are ahead and cycles through maxPausePhase + 1 phases.  The
\* code compares floats; here both sides are multiplied out.
maxPausePhase == 4

shouldPause(ahead, laggards, offline, totalValidators, quorum, validating, roundTime) ==
    LET pausePhase == (ahead - 1) % (maxPausePhase + 1)
        nonLaggards == totalValidators - (laggards + offline)
    IN  /\ ahead # 0
        /\ laggards # 0
        /\ totalValidators # 0
        /\ validating
        /\ roundTime <= ledgerMAX_CONSENSUS
        /\ \/ pausePhase = 0 /\ laggards + offline > totalValidators - quorum
           \/ pausePhase = maxPausePhase
           \/ /\ pausePhase \notin {0, maxPausePhase}
              /\ maxPausePhase * nonLaggards
                     < maxPausePhase * quorum + (totalValidators - quorum) * pausePhase

=============================================================================
