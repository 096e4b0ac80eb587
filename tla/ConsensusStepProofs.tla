------------------------ MODULE ConsensusStepProofs ------------------------
(***************************************************************************)
(* What a step of the consensus engine may not do, and what a round that   *)
(* was accepted rests on, from the inductive invariant of ConsensusProofs. *)
(***************************************************************************)
EXTENDS ConsensusProofs

\* Our proposals only come from closing the ledger, changing our position and
\* bowing out.
LEMMA PhaseEstablishAdvances ==
    ASSUME IInv, phaseEstablish, UNCHANGED env, proposed' # proposed
    PROVE  /\ mode = "proposing" /\ taken
           /\ position.proposeSeq \in Nat
           /\ proposed'.round = rounds
           /\ proposed'.prop.proposeSeq > position.proposeSeq
  <1>0. TypeRest /\ Control /\ Data
    BY Split
  <1> DEFINE curr == [p \in Fresh |-> currPeerPositions[p]]
  <1>1. PICK t \in CloseTimeCandidates(curr) : updateOurPositions(curr, t)
    BY DEF phaseEstablish
  <1>2. /\ phase = "establish" /\ mode' = mode
    BY DEF phaseEstablish
  <1>3. taken /\ previousLedger \in Ledger
    BY <1>0, <1>2 DEF Control, StanceMatchesPhase
  <1> DEFINE unvoted == unVotes(disputes, DOMAIN currPeerPositions \ Fresh)
             newSet == ourNewSet(unvoted, updateVotes(unvoted))
             ours == changePosition(position, newSet, t)
  <1>4. /\ ours.proposeSeq # SeqLeave /\ mode = "proposing"
        /\ propose(ours)
    BY <1>1, Zenon DEF updateOurPositions
  <1>5. /\ position.proposeSeq \in Nat
        /\ ours.proposeSeq = IF position.proposeSeq = SeqLeave THEN SeqLeave
                             ELSE position.proposeSeq + 1
    <2>1. position \in Positions
      BY <1>0 DEF TypeRest
    <2> HIDE DEF newSet
    <2> QED
      BY <2>1 DEF Positions, changePosition
  <1> HIDE DEF ours
  <1> QED
    BY <1>3, <1>4, <1>5 DEF propose

LEMMA ProposalStep ==
    ASSUME IInv, Next, proposed' # proposed
    PROVE  proposed'.round > proposed.round \/ proposed'.prop.proposeSeq > proposed.prop.proposeSeq
  <1>0. TypeRest /\ Control /\ Data
    BY Split
  <1>1. /\ proposed.round \in Nat /\ proposed.prop.proposeSeq \in Nat /\ rounds \in Nat
        /\ position.proposeSeq \in Nat /\ SeqLeave \in Nat
        /\ position.proposeSeq <= SeqLeave
    BY <1>0, BoundsType DEF TypeRest, Positions
  <1>2. /\ proposed.round <= rounds
        /\ mode = "proposing" /\ ~taken => proposed.round < rounds
        /\ mode = "proposing" /\ taken /\ proposed.round = rounds =>
              proposed.prop.proposeSeq <= position.proposeSeq
    BY <1>0 DEF Control
  <1>3. \/ timerEntry \/ RunPhase \/ simulate
    <2>1. ~startRound
      BY DEF startRound
    <2>2. \A p \in Peer : ~PeerProposal(p) /\ ~playbackProposals(p)
      BY DEF PeerProposal, playbackProposals
    <2>3. \A s \in PeerSets : ~gotTxSet(s)
      BY DEF gotTxSet
    <2>4. ~RoundStarted /\ ~SwitchLedger /\ ~Tick /\ ~NetworkSwitches
      BY DEF RoundStarted, SwitchLedger, Tick, NetworkSwitches
    <2> QED
      BY <2>1, <2>2, <2>3, <2>4 DEF Next
  <1>4. CASE timerEntry
    <2>1. leaveConsensus
      BY <1>4 DEF timerEntry, checkLedger, handleWrongLedger
    <2>2. /\ mode = "proposing" /\ taken /\ position.proposeSeq # SeqLeave
          /\ propose(bowOut(position))
      BY <2>1 DEF leaveConsensus
    <2>3. bowOut(position).proposeSeq = SeqLeave
      BY <1>0 DEF TypeRest, Positions, bowOut
    <2>4. proposed'.round = rounds /\ proposed'.prop.proposeSeq = SeqLeave
      BY <2>2, <2>3 DEF propose
    <2> QED
      BY <1>1, <1>2, <2>2, <2>4
  <1>5. ASSUME NEW s \in OpenSets, closeLedger(s), phase = "open"
        PROVE  proposed'.round > proposed.round
    <2>1. ~taken
      BY <1>0, <1>5 DEF Control, StanceMatchesPhase
    <2>2. mode = "proposing" /\ proposed'.round = rounds
      BY <1>5 DEF closeLedger, propose
    <2> QED
      BY <1>1, <1>2, <2>1, <2>2
  <1>6. CASE simulate
    BY <1>5, <1>6 DEF simulate
  <1>7. CASE RunPhase /\ phaseOpen
    BY <1>5, <1>7 DEF phaseOpen
  <1>8. CASE RunPhase /\ phaseEstablish
    <2>1. UNCHANGED env
      BY <1>8 DEF RunPhase
    <2>2. /\ mode = "proposing" /\ taken
          /\ proposed'.round = rounds /\ proposed'.prop.proposeSeq > position.proposeSeq
      BY <1>8, <2>1, PhaseEstablishAdvances
    <2>3. CASE proposed.round < rounds
      BY <1>1, <2>2, <2>3
    <2>4. CASE proposed.round = rounds
      <3>1. proposed.prop.proposeSeq <= position.proposeSeq
        BY <1>2, <2>2, <2>4, SMTT(30)
      <3>2. proposed'.prop.proposeSeq \in Nat
        <4>1. IInv'
          BY NextKeepsIInv
        <4> QED
          BY <4>1 DEF IInv, TypeOK, Positions
      <3> QED
        BY <1>1, <2>2, <3>1, <3>2, SMTT(30)
    <2> QED
      BY <1>1, <1>2, <2>3, <2>4
  <1> QED
    BY <1>3, <1>4, <1>6, <1>7, <1>8 DEF RunPhase

\* What the engine proposes supersedes what it proposed before, whatever order
\* changePosition, bowOut and new rounds come in.
THEOREM ProposalsSupersede == Spec => ProposalsAdvance
  <1>1. IInv /\ [Next]_vars =>
          [proposed' # proposed =>
             proposed'.round > proposed.round \/ proposed'.prop.proposeSeq > proposed.prop.proposeSeq]_vars
    <2> SUFFICES ASSUME IInv, [Next]_vars, proposed' # proposed
                 PROVE  \/ proposed'.round > proposed.round
                        \/ proposed'.prop.proposeSeq > proposed.prop.proposeSeq
      OBVIOUS
    <2>1. Next
      BY DEF vars
    <2> QED
      BY <2>1, ProposalStep
  <1> QED
    BY Invariance, <1>1, PTL DEF Spec, ProposalsAdvance

LEMMA OffLedgerStep ==
    ASSUME IInv, Next, OffLedger, rounds' = rounds
    PROVE  OffLedger'
  <1>0. rounds \in Nat
    BY DEF IInv, TypeOK
  <1>1. CASE startRound
    BY <1>0, <1>1 DEF startRound
  <1>2. ASSUME NEW p \in Peer, PeerProposal(p) \/ playbackProposals(p) PROVE OffLedger'
    BY <1>2 DEF PeerProposal, playbackProposals, round, OffLedger
  <1>3. ASSUME NEW s \in PeerSets, gotTxSet(s) PROVE OffLedger'
    BY <1>3 DEF gotTxSet, round, OffLedger
  <1>4. CASE timerEntry
    BY <1>4 DEF timerEntry, checkLedger, handleWrongLedger, leaveConsensus, OffLedger
  <1>5. CASE SwitchLedger
    BY <1>5 DEF SwitchLedger, SwitchTo, LackLedger, startRoundInternal, round, OffLedger
  <1>6. CASE RunPhase
    BY <1>6, SMTT(30) DEF RunPhase, phaseOpen, phaseEstablish, OffLedger
  <1>7. CASE RoundStarted \/ simulate \/ Tick \/ NetworkSwitches
    BY <1>7 DEF RoundStarted, simulate, Tick, NetworkSwitches, round, OffLedger
  <1> QED
    BY <1>1, <1>2, <1>3, <1>4, <1>5, <1>6, <1>7, SMTT(30) DEF Next

\* In a wrong or switched ledger's mode, no step short of a new round proposes
\* or observes, whichever way checkLedger goes.
THEOREM OffLedgerStays == Spec => NoWayBack
  <1>1. IInv /\ [Next]_vars => [OffLedger /\ rounds' = rounds => OffLedger']_vars
    BY OffLedgerStep
  <1> QED
    BY Invariance, <1>1, PTL DEF Spec, NoWayBack

Frozen == <<result, mode, prevLedgerID, previousLedger, rawCloseTimesSelf,
            prevProposers, prevRoundTime, peers>>

LEMMA FrozenStep ==
    ASSUME IInv, Next, phase = "accepted", phase' = "accepted"
    PROVE  UNCHANGED Frozen
  <1>0. Control
    BY Split, SMTT(30)
  <1>1. ~startRound
    BY SMTT(30) DEF startRound, startRoundInternal
  <1>2. ~timerEntry /\ ~SwitchLedger /\ ~RunPhase /\ ~simulate
    BY <1>0 DEF Control, timerEntry, SwitchLedger, RunPhase, phaseOpen, phaseEstablish, simulate
  <1>3. ASSUME NEW s \in PeerSets PROVE ~gotTxSet(s)
    BY SMTT(30) DEF gotTxSet
  <1>4. ASSUME NEW p \in Peer, NEW m, peerProposalInternal(p, m)
        PROVE  UNCHANGED <<peers, disputes, compares>>
    BY <1>4 DEF peerProposalInternal, PeerBowsOut, PeerTakesPosition, Ignored
  <1>5. ASSUME NEW p \in Peer, PeerProposal(p) \/ playbackProposals(p)
        PROVE  UNCHANGED Frozen
    <2>1. UNCHANGED <<peers, disputes, compares>>
      BY <1>4, <1>5, Zenon DEF PeerProposal, playbackProposals
    <2>2. UNCHANGED <<round, state, position, roundStart>>
      BY <1>5 DEF PeerProposal, playbackProposals
    <2> QED
      BY <2>1, <2>2 DEF Frozen, round, result
  <1>6. CASE RoundStarted \/ Tick \/ NetworkSwitches
    BY <1>6 DEF RoundStarted, Tick, NetworkSwitches, round, Frozen
  <1> QED
    BY <1>1, <1>2, <1>3, <1>5, <1>6, SMTT(30) DEF Next

\* While another thread builds the accepted ledger, no handler of the engine
\* changes the result or the state it came from.
THEOREM AcceptanceIsFrozen == Spec => AcceptedFrozen
  <1>1. IInv /\ [Next]_vars =>
          [phase = "accepted" /\ phase' = "accepted" =>
              UNCHANGED <<result, mode, prevLedgerID, previousLedger, rawCloseTimesSelf,
                          prevProposers, prevRoundTime, peers>>]_vars
    BY FrozenStep DEF Frozen
  <1> QED
    BY Invariance, <1>1, PTL DEF Spec, AcceptedFrozen

LEMMA PercentExact ==
    ASSUME NEW x \in Nat, NEW n \in Nat \ {0}, NEW k \in Nat, x \div n >= k
    PROVE  x >= k * n
  <1>1. /\ x = n * (x \div n) + (x % n) /\ x % n >= 0 /\ x \div n \in Nat
    OBVIOUS
  <1>2. n * (x \div n) >= n * k
    BY <1>1
  <1>3. n * k = k * n /\ n * k \in Nat /\ n * (x \div n) \in Nat /\ x % n \in Nat
    BY <1>1
  <1> QED
    BY <1>1, <1>2, <1>3

AcceptInv == AcceptedBySupermajority /\ AcceptedIsDecided

LEMMA AcceptStep ==
    ASSUME IInv, phaseEstablish, phase' = "accepted"
    PROVE  AcceptInv'
  <1>0. TypeRest /\ Control /\ Data
    BY Split, SMTT(30)
  <1> DEFINE curr == [p \in Fresh |-> currPeerPositions[p]]
             agree == Cardinality(On(curr, position'.position))
             total == Cardinality(DOMAIN curr)
  <1>1. /\ phase = "establish" /\ mode' = mode
        /\ Decide(curr, position'.position)
        /\ currPeerPositions' = curr
    BY DEF phaseEstablish, updateOurPositions
  <1> HIDE DEF curr
  <1>2. PICK finished \in Validated :
          /\ state' = haveConsensus(curr, position'.position, finished)
          /\ state' # "No"
    BY <1>1 DEF Decide
  <1>3. AcceptedIsDecided'
    BY <1>2 DEF AcceptedIsDecided
  <1>4. DOMAIN curr \subseteq Peer /\ On(curr, position'.position) \subseteq DOMAIN curr
    BY <1>0, SMTT(30) DEF Data, PeersOK, Fresh, On, curr
  <1>5. agree \in Nat /\ total \in Nat /\ (total = 0 <=> DOMAIN curr = {})
    BY <1>4, PeersCounted, Zenon DEF SubsetsCount
  <1> HIDE DEF agree, total
  <1>6. ASSUME state' = "Yes", DOMAIN curr # {}
        PROVE  (agree + Counted) * 100 >= minCONSENSUS_PCT * (total + Counted)
    <2>1. checkConsensusReached(agree, total, mode = "proposing", minCONSENSUS_PCT)
      BY <1>2, <1>6 DEF haveConsensus, checkConsensus, agree, total
    <2>2. ((agree + Counted) * 100) \div (total + Counted) >= minCONSENSUS_PCT
      BY <1>5, <1>6, <2>1, SMTT(30) DEF checkConsensusReached, Counted
    <2>3. (agree + Counted) * 100 \in Nat /\ total + Counted \in Nat \ {0}
      BY <1>5, <1>6 DEF Counted
    <2> QED
      BY <2>2, <2>3, PercentExact, SMTT(30) DEF minCONSENSUS_PCT
  <1>7. Counted' = Counted
    BY <1>1 DEF Counted
  <1>8. AcceptedBySupermajority'
    BY <1>1, <1>6, <1>7, SMTT(30) DEF AcceptedBySupermajority, agree, total
  <1> QED
    BY <1>3, <1>8 DEF AcceptInv

\* No step changes whether the server stands alone.
LEMMA StandaloneKept == [Next]_vars => standalone' = standalone
  <1> SUFFICES ASSUME [Next]_vars PROVE standalone' = standalone
    OBVIOUS
  <1>1. CASE UNCHANGED vars
    BY <1>1, SMTT(30) DEF vars, env
  <1>2. startRound => standalone' = standalone
    BY SMTT(30) DEF startRound, env
  <1>3. \A p \in Peer : PeerProposal(p) \/ playbackProposals(p) => standalone' = standalone
    BY DEF PeerProposal, playbackProposals, env
  <1>4. \A s \in PeerSets : gotTxSet(s) => standalone' = standalone
    BY DEF gotTxSet, env
  <1>5. RoundStarted \/ timerEntry => standalone' = standalone
    BY DEF RoundStarted, timerEntry, env
  <1>6. SwitchLedger => standalone' = standalone
    BY DEF SwitchLedger, env
  <1>7. RunPhase => standalone' = standalone
    BY DEF RunPhase, env
  <1>8. simulate => standalone' = standalone
    BY DEF simulate, env
  <1>9. Tick \/ NetworkSwitches => standalone' = standalone
    BY DEF Tick, NetworkSwitches
  <1> QED
    BY <1>1, <1>2, <1>3, <1>4, <1>5, <1>6, <1>7, <1>8, <1>9, SMTT(30) DEF Next

\* A ledger is accepted at the end of the establish phase or, standing alone,
\* at once.
LEMMA Accepting ==
    ASSUME IInv, [Next]_vars, phase # "accepted", phase' = "accepted"
    PROVE  (RunPhase /\ phaseEstablish) \/ simulate
  <1>1. Next
    BY SMTT(30) DEF vars, round
  <1>2. ~startRound /\ ~timerEntry /\ ~SwitchLedger
    BY SMTT(30) DEF startRound, startRoundInternal, timerEntry, SwitchLedger, SwitchTo,
                    LackLedger, round
  <1>3. \A p \in Peer : ~PeerProposal(p) /\ ~playbackProposals(p)
    BY DEF PeerProposal, playbackProposals, round
  <1>4. \A s \in PeerSets : ~gotTxSet(s)
    BY SMTT(30) DEF gotTxSet, round
  <1>5. ~RoundStarted /\ ~Tick /\ ~NetworkSwitches
    BY DEF RoundStarted, Tick, NetworkSwitches, round
  <1>6. ~(RunPhase /\ phaseOpen)
    BY DEF phaseOpen
  <1> QED
    BY <1>1, <1>2, <1>3, <1>4, <1>5, <1>6, SMTT(30) DEF Next, RunPhase

LEMMA AcceptedKept == IInv /\ AcceptInv /\ [Next]_vars => AcceptInv'
  <1> SUFFICES ASSUME IInv, AcceptInv, [Next]_vars, phase' = "accepted"
               PROVE  AcceptInv'
    BY Zenon DEF AcceptInv, AcceptedBySupermajority, AcceptedIsDecided
  <1>0. standalone' = standalone
    BY StandaloneKept, SMTT(30)
  <1>1. CASE phase = "accepted"
    <2>1. UNCHANGED Frozen
      BY <1>1, FrozenStep DEF vars, round, Frozen
    <2>2. UNCHANGED <<position, state, mode, previousLedger, currPeerPositions, disputes>>
      BY <2>1 DEF Frozen, result, peers
    <2>3. taken' = taken /\ Counted' = Counted
      BY <2>2 DEF taken, Counted
    <2>4. On(currPeerPositions, position.position)' = On(currPeerPositions, position.position)
      BY <2>2 DEF On
    <2>5. AcceptedBySupermajority'
      BY <1>0, <1>1, <2>2, <2>3, <2>4 DEF AcceptInv, AcceptedBySupermajority
    <2>6. AcceptedIsDecided'
      BY <1>0, <1>1, <2>2, <2>3 DEF AcceptInv, AcceptedIsDecided
    <2> QED
      BY <2>5, <2>6 DEF AcceptInv
  <1>2. CASE phase # "accepted"
    <2>1. (RunPhase /\ phaseEstablish) \/ simulate
      BY <1>2, Accepting
    <2>2. CASE RunPhase /\ phaseEstablish
      BY <2>2, AcceptStep, SMTT(30)
    <2>3. CASE simulate
      BY <1>0, <2>3, Zenon DEF simulate, closeLedger, AcceptInv, AcceptedBySupermajority, AcceptedIsDecided
    <2> QED
      BY <2>1, <2>2, <2>3, SMTT(30)
  <1> QED
    BY <1>1, <1>2, SMTT(30)

LEMMA AcceptedAlways == Spec => []AcceptInv
  <1>1. Init => AcceptInv
    BY DEF Init, AcceptInv, AcceptedBySupermajority, AcceptedIsDecided, taken
  <1> QED
    BY Invariance, <1>1, AcceptedKept, PTL DEF Spec

\* checkConsensus's percentage, rounded down over the peers and ourselves, is a
\* real supermajority for the very set that is accepted: updateOurPositions may
\* change our set just before the count.
THEOREM SupermajorityAccepted == Spec => []AcceptedBySupermajority
  <1>1. AcceptInv => AcceptedBySupermajority
    BY DEF AcceptInv
  <1> QED
    BY AcceptedAlways, <1>1, PTL

\* With peers, an accepted round has an outcome other than ConsensusState::No.
THEOREM AcceptedWasDecided == Spec => []AcceptedIsDecided
  <1>1. AcceptInv => AcceptedIsDecided
    BY DEF AcceptInv
  <1> QED
    BY AcceptedAlways, <1>1, PTL

----------------------------------------------------------------------------

\* The resolutions are those of the table, and a rounded time is a fixed point
\* of rounding.
LEMMA RoundedTwice ==
    ASSUME previousLedger \in Ledger, NEW t \in Nat
    PROVE  asCloseTime(asCloseTime(t)) = asCloseTime(t)
  <1>1. /\ LedgerInfo[previousLedger].closeTimeResolution \in Resolutions
        /\ LedgerInfo[previousLedger].seq + 1 \in Nat
    BY InfoType
  <1>2. LedgerInfo[previousLedger].closeAgree \in BOOLEAN
    BY ConsensusAssumption, Zenon
  <1>3. Bins = 1 .. 6
    <2>1. Len(ledgerPossibleTimeResolutions) = 6
      BY DEF ledgerPossibleTimeResolutions
    <2> QED
      BY <2>1 DEF Bins
  <1>4. \A b \in Bins : ledgerPossibleTimeResolutions[b] \in {10, 20, 30, 60, 90, 120}
    BY <1>3 DEF ledgerPossibleTimeResolutions
  <1>5. \A r \in Resolutions : r \in {10, 20, 30, 60, 90, 120} /\ BinOf(r) \in Bins
    BY <1>4 DEF Resolutions, BinOf
  <1>6. closeResolution \in {10, 20, 30, 60, 90, 120}
    BY <1>1, <1>2, <1>3, <1>4, <1>5 DEF closeResolution, getNextLedgerTimeResolution
  <1>7. ASSUME NEW r \in {10, 20, 30, 60, 90, 120}
        PROVE  roundCloseTime(roundCloseTime(t, r), r) = roundCloseTime(t, r)
    <2> DEFINE h == r \div 2
               s == t + h
               q == s - (s % r)
    <2>1. h \in Nat /\ h < r
      BY <1>7
    <2>2. q \in Nat /\ q % r = 0
      BY <1>7, <2>1
    <2>3. (q + h) % r = h
      BY <1>7, <2>1, <2>2
    <2> HIDE DEF q, h
    <2>4. CASE t = 0
      BY <2>4 DEF roundCloseTime
    <2>5. CASE t # 0
      <3>1. roundCloseTime(t, r) = q
        BY <2>5 DEF roundCloseTime, q, h
      <3>2. q # 0 => roundCloseTime(q, r) = (q + h) - ((q + h) % r)
        BY DEF roundCloseTime, h
      <3>3. q = 0 => roundCloseTime(q, r) = q
        BY DEF roundCloseTime
      <3> QED
        BY <2>1, <2>2, <2>3, <3>1, <3>2, <3>3
    <2> QED
      BY <2>4, <2>5
  <1> QED
    BY <1>6, <1>7, Zenon DEF asCloseTime

\* updateOurPositions may move our close time just before the count, to the one
\* most voted for: we count for it, and no vote for it is lost.
LEMMA CloseTimeStep ==
    ASSUME IInv, phaseEstablish, phase' = "accepted"
    PROVE  AcceptedCloseTime'
  <1>0. TypeRest /\ Control /\ Data
    BY Split, SMTT(30)
  <1> DEFINE curr == [p \in Fresh |-> currPeerPositions[p]]
             needed == participantsNeeded(Cardinality(DOMAIN curr) + Counted, avCT_CONSENSUS_PCT)
             On75(t) == {p \in DOMAIN curr : asCloseTime(curr[p].closeTime) = t}
  <1>1. PICK t \in CloseTimeCandidates(curr) :
          IsConsensusCloseTime(curr, t) /\ updateOurPositions(curr, t)
    BY DEF phaseEstablish
  <1>2. /\ phase = "establish" /\ UNCHANGED <<mode, previousLedger>>
        /\ Decide(curr, position'.position)
    BY Zenon DEF phaseEstablish
  <1>3. currPeerPositions' = curr
    BY <1>1, Zenon DEF updateOurPositions
  <1>4. previousLedger \in Ledger
    BY <1>0, <1>2, Zenon DEF Control
  <1>5. DOMAIN curr \subseteq Peer /\ \A p \in DOMAIN curr : curr[p].closeTime \in Nat
    BY <1>0 DEF Data, PeersOK, Fresh, Proposal
  <1>6. haveCloseTimeConsensus(curr)
    BY <1>2 DEF Decide
  <1>7. position \in Positions
    BY <1>0 DEF TypeRest
  <1> HIDE DEF curr
  <1> SUFFICES ASSUME DOMAIN curr # {}
               PROVE  closeTimeVotes(currPeerPositions, ourCloseTime)' >= needed
    BY <1>2, <1>3 DEF AcceptedCloseTime, Counted
  <1>8. PICK u \in ClosestTimes(curr) : closeTimeVotes(curr, u) >= needed
    BY <1>6 DEF haveCloseTimeConsensus
  <1>9. t \in ClosestTimes(curr)
    BY <1>1, <1>8, Zenon DEF IsConsensusCloseTime
  <1>10. closeTimeVotes(curr, u) <= closeTimeVotes(curr, t)
    BY <1>8, <1>9, Zenon DEF ClosestTimes
  <1>11. /\ \A x : Cardinality(On75(x)) \in Nat
         /\ Counted \in {0, 1}
         /\ \A x : closeTimeVotes(curr, x) = Cardinality(On75(x)) + (IF ourCloseTime = x THEN Counted ELSE 0)
    BY <1>5, PeersCounted, Zenon DEF SubsetsCount, Counted, closeTimeVotes
  <1>12. asCloseTime(t) = t
    <2>1. CASE t = ourCloseTime
      BY <1>4, <1>7, <2>1, RoundedTwice, Zenon DEF ourCloseTime, Positions
    <2>2. ASSUME NEW p \in DOMAIN curr, t = asCloseTime(curr[p].closeTime) PROVE asCloseTime(t) = t
      BY <1>4, <1>5, <2>2, RoundedTwice, Zenon
    <2> QED
      BY <1>9, <2>1, <2>2 DEF ClosestTimes
  <1>13. ourCloseTime' = t
    <2>1. position'.closeTime = t \/ (position' = position /\ t = ourCloseTime)
      <3> DEFINE unvoted == unVotes(disputes, DOMAIN currPeerPositions \ Fresh)
                 newSet == ourNewSet(unvoted, updateVotes(unvoted))
      <3>1. position' = changePosition(position, newSet, t) \/ (position' = position /\ t = ourCloseTime)
        BY <1>1, Zenon DEF updateOurPositions
      <3> HIDE DEF newSet
      <3>2. changePosition(position, newSet, t).closeTime = t
        BY <1>7, Zenon DEF changePosition, Positions
      <3> QED
        BY <3>1, <3>2
    <2>2. asCloseTime(position.closeTime)' = asCloseTime(position'.closeTime)
      BY <1>2, Zenon DEF asCloseTime, closeResolution
    <2> QED
      BY <1>12, <2>1, <2>2 DEF ourCloseTime
  <1>14. closeTimeVotes(currPeerPositions, ourCloseTime)' = Cardinality(On75(t)) + Counted
    <2>1. Counted' = Counted
      BY <1>2, Zenon DEF Counted
    <2>2. {p \in DOMAIN currPeerPositions :
              asCloseTime(currPeerPositions[p].closeTime) = ourCloseTime}' = On75(t)
      BY <1>2, <1>3, <1>13 DEF asCloseTime, closeResolution
    <2> QED
      BY <2>1, <2>2, Zenon DEF closeTimeVotes
  <1>15. needed \in Int
    <2>1. Cardinality(DOMAIN curr) + Counted \in Nat
      BY <1>5, <1>11, PeersCounted DEF SubsetsCount
    <2> QED
      BY <2>1 DEF participantsNeeded, AtLeast, avCT_CONSENSUS_PCT
  <1> HIDE DEF needed, On75
  <1>16. closeTimeVotes(curr, u) \in Int /\ closeTimeVotes(curr, t) \in Int
    BY <1>11
  <1>17. closeTimeVotes(curr, t) >= needed
    BY <1>8, <1>10, <1>15, <1>16
  <1>18. closeTimeVotes(curr, t) <= Cardinality(On75(t)) + Counted
    BY <1>11
  <1>19. Cardinality(On75(t)) + Counted \in Int
    BY <1>11
  <1> QED
    BY <1>14, <1>15, <1>16, <1>17, <1>18, <1>19

LEMMA CloseTimeKept == IInv /\ AcceptedCloseTime /\ [Next]_vars => AcceptedCloseTime'
  <1> SUFFICES ASSUME IInv, AcceptedCloseTime, [Next]_vars, phase' = "accepted"
               PROVE  AcceptedCloseTime'
    BY DEF AcceptedCloseTime
  <1>0. standalone' = standalone
    BY StandaloneKept
  <1>1. CASE phase = "accepted"
    <2>1. UNCHANGED Frozen
      BY <1>1, FrozenStep DEF vars, round, Frozen
    <2>2. UNCHANGED <<state, position, mode, previousLedger, currPeerPositions>>
      BY <2>1, Zenon DEF Frozen, result, peers
    <2>3. closeTimeVotes(currPeerPositions, ourCloseTime)' = closeTimeVotes(currPeerPositions, ourCloseTime)
          /\ Counted' = Counted
      BY <2>2, Zenon DEF closeTimeVotes, ourCloseTime, asCloseTime, closeResolution, Counted
    <2> QED
      BY <1>0, <1>1, <2>2, <2>3 DEF AcceptedCloseTime, taken
  <1>2. CASE phase # "accepted"
    <2>1. CASE RunPhase /\ phaseEstablish
      BY <2>1, CloseTimeStep, Zenon
    <2>2. CASE simulate
      BY <1>0, <2>2 DEF simulate, AcceptedCloseTime
    <2> QED
      BY <1>2, <2>1, <2>2, Accepting
  <1> QED
    BY <1>1, <1>2, Zenon

\* The close time a round is accepted with is, once rounded, that of three
\* quarters of its participants, though haveCloseTimeConsensus is decided
\* before our own position moves to it.
THEOREM CloseTimeIsAgreed == Spec => []AcceptedCloseTime
  <1>1. Init => AcceptedCloseTime
    BY DEF Init, AcceptedCloseTime, taken
  <1> QED
    BY Invariance, <1>1, CloseTimeKept, PTL DEF Spec

----------------------------------------------------------------------------

\* The count of our positions has run up to ConsensusProposal::seqLeave, which
\* changePosition does not tell from having bowed out.
Spent == position.proposeSeq = SeqLeave

LEMMA LeaveStep ==
    ASSUME IInv, Next, mode = "proposing", mode' # "proposing", taken, pc' # "started", ~Spent
    PROVE  proposed'.prop.proposeSeq = SeqLeave
  <1>0. TypeRest /\ Control
    BY Split, Zenon
  <1>1. ~startRound
    BY DEF startRound, startRoundInternal
  <1>2. ~SwitchLedger
    <2>1. previousLedger = prevLedgerID
      BY <1>0, Zenon DEF Control, ProposingOnOurLedger
    <2> QED
      BY <2>1, Zenon DEF SwitchLedger, round
  <1>3. \A p \in Peer : ~PeerProposal(p) /\ ~playbackProposals(p)
    BY DEF PeerProposal, playbackProposals, round
  <1>4. \A s \in PeerSets : ~gotTxSet(s)
    BY Zenon DEF gotTxSet, round
  <1>5. ~RoundStarted /\ ~Tick /\ ~NetworkSwitches /\ ~simulate
    BY Zenon DEF RoundStarted, Tick, NetworkSwitches, simulate, round
  <1>6. ~RunPhase
    BY DEF RunPhase, phaseOpen, phaseEstablish
  <1>7. timerEntry
    BY <1>1, <1>2, <1>3, <1>4, <1>5, <1>6, Zenon DEF Next
  <1>8. leaveConsensus
    BY <1>7 DEF timerEntry, checkLedger, handleWrongLedger
  <1>9. propose(bowOut(position))
    BY <1>8 DEF leaveConsensus, Spent
  <1>10. bowOut(position).proposeSeq = SeqLeave
    BY <1>0 DEF TypeRest, Positions, bowOut
  <1> QED
    BY <1>9, <1>10 DEF propose

\* A proposer that leaves its round says so, whatever made it leave, unless it
\* changed its position seqLeave times.
THEOREM LeavesAloudUnlessSpent ==
    Spec => [][mode = "proposing" /\ mode' # "proposing" /\ taken /\ pc' # "started" /\ ~Spent =>
                  proposed'.prop.proposeSeq = SeqLeave]_vars
  <1>1. IInv /\ [Next]_vars =>
          [mode = "proposing" /\ mode' # "proposing" /\ taken /\ pc' # "started" /\ ~Spent =>
              proposed'.prop.proposeSeq = SeqLeave]_vars
    <2>1. UNCHANGED vars => mode' = mode
      BY DEF vars, round
    <2> QED
      BY <2>1, LeaveStep
  <1> QED
    BY Invariance, <1>1, PTL DEF Spec
=============================================================================
