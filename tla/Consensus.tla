----------------------------- MODULE Consensus ------------------------------
(***************************************************************************)
(* One node's consensus engine (consensus/Consensus.h) against a network   *)
(* that may send any proposals, deliver transaction sets late or never,    *)
(* and change its mind about the prior ledger at any time.                 *)
(*                                                                         *)
(* The engine's entry points hold one mutex.  startRound and timerEntry    *)
(* call each other (startRoundInternal ends in timerEntry, whose           *)
(* checkLedger may call startRoundInternal) and ask the adaptor for the    *)
(* network's ledger and for ledgers while they run, so they are modelled   *)
(* in small steps: pc is where the handler is, frames the number of        *)
(* timerEntry activations on its stack, replay what playbackProposals has  *)
(* still to process.                                                       *)
(*                                                                         *)
(* A transaction set is its own identifier, so result_->txns and           *)
(* result_->position.position() are the one field position.position.       *)
(* Left out: the histogram of raw peer close times and the proposer count  *)
(* of the result, which the engine only reports.                           *)
(***************************************************************************)
EXTENDS ConsensusRules, LedgerTiming, Counting

CONSTANTS
    Peer,         \* trusted validators other than us
    Tx,           \* transactions
    PeerSets,     \* transaction sets peers may propose
    OpenSets,     \* transaction sets our open ledger may close with
    CloseTimes,   \* close times peers may propose, 0 for no agreement
    PeerSeqs,     \* sequence numbers of peer proposals
    SeqLeave,     \* ConsensusProposal::seqLeave
    Ledger,       \* prior ledgers
    LedgerInfo,   \* seq, close time, parent close time, agreement, resolution
    NoLedger,     \* the default constructed ledger
    PauseViews,   \* what shouldPause may see of the other validators
    Validated,    \* possible proposersValidated and proposersFinished counts
    Distrusted,   \* possible sets of nodes that lost our trust
    Standalone,   \* possible values of standalone
    MaxRecent,    \* proposals remembered per peer (10 in the code)
    QuietClock,   \* up to when the network sends and switches
    StartClock, TickSteps, MaxClock, MaxMsgs, MaxSwitches, MaxRounds

ASSUME ConsensusAssumption ==
    /\ IsFiniteSet(Peer)
    /\ PeerSets \subseteq SUBSET Tx
    /\ OpenSets \subseteq SUBSET Tx
    /\ CloseTimes \subseteq Nat
    /\ SeqLeave \in Nat \ {0}
    /\ PeerSeqs \subseteq Nat
    /\ \A s \in PeerSeqs : s <= SeqLeave
    /\ NoLedger \notin Ledger
    /\ LedgerInfo \in [Ledger -> [seq : Nat, closeTime : Nat,
                                  parentCloseTime : Nat, closeAgree : BOOLEAN,
                                  closeTimeResolution : Resolutions]]
    /\ PauseViews \subseteq [ahead : Nat, laggards : Nat, offline : Nat,
                             totalValidators : Nat, quorum : Nat,
                             validating : BOOLEAN]
    /\ Validated \subseteq Nat
    /\ Distrusted \subseteq SUBSET Peer
    /\ Standalone \subseteq BOOLEAN
    /\ MaxRecent \in Nat \ {0}
    /\ StartClock \in Nat
    /\ TickSteps \subseteq Nat
    /\ MaxClock \in Nat
    /\ QuietClock \in Nat
    /\ MaxMsgs \in Nat
    /\ MaxSwitches \in Nat
    /\ MaxRounds \in Nat

\* What IsFiniteSet(Peer) implies: peers can be counted.
ASSUME PeersCounted == SubsetsCount(Peer)

VARIABLES
    \* where the running handler is
    pc, frames, replay,
    \* the round
    phase, mode, prevLedgerID, previousLedger,
    firstRound, prevProposers, prevRoundTime, prevCloseTime,
    rawCloseTimesSelf, openStart,
    \* result_: outcome ("None": no result_ yet), our position, disputes,
    \* compared sets, when it was taken
    state, position, disputes, compares, roundStart,
    \* what we know of the peers
    currPeerPositions, recentPeerPositions, deadNodes, acquired,
    \* the last proposal handed to the adaptor, with its round
    proposed,
    \* the environment: engine clock, open ledger's parent, network's ledger
    clock, openParent, netLedger, msgs, switches, rounds,
    \* no network: rounds are simulated (Config::standalone, which never changes)
    standalone

control == <<pc, frames, replay>>
round == <<phase, mode, prevLedgerID, previousLedger, firstRound,
           prevProposers, prevRoundTime, prevCloseTime, rawCloseTimesSelf, openStart>>
result == <<state, position, disputes, compares, roundStart>>
peers == <<currPeerPositions, deadNodes, acquired>>
env == <<clock, openParent, netLedger, msgs, switches, rounds, standalone>>
vars == <<control, round, result, peers, recentPeerPositions, proposed, env>>

----------------------------------------------------------------------------
\* Clocks, ledgers and proposals; whether we have taken a stance

now == clock \div 1000
taken == state # "None"
Nothing == [x \in {} |-> x]

Proposal == [prevLedger : Ledger, proposeSeq : Nat, position : SUBSET Tx,
             closeTime : Nat, time : Nat]

closeResolution ==
    LET prev == LedgerInfo[previousLedger]
    IN  getNextLedgerTimeResolution(prev.closeTimeResolution, prev.closeAgree, prev.seq + 1)
asCloseTime(raw) == roundCloseTime(raw, closeResolution)

\* Mutant: the sequence number stays.
SameSeqPosition(prop, newPosition, newCloseTime) ==
    [prop EXCEPT !.position = newPosition, !.closeTime = newCloseTime, !.time = now]
changePosition(prop, newPosition, newCloseTime) ==
    [prop EXCEPT !.position = newPosition, !.closeTime = newCloseTime, !.time = now,
                 !.proposeSeq = IF @ = SeqLeave THEN @ ELSE @ + 1]
bowOut(prop) == [prop EXCEPT !.time = now, !.proposeSeq = SeqLeave]

propose(prop) ==
    proposed' = [round |-> rounds, prop |-> prop]

----------------------------------------------------------------------------
\* Disputes.  A dispute is our vote and the peers that vote yes and no; that
\* DisputedTx's counters are the sizes of these sets is DisputedTx's theorem.

Dispute == [ourVote : BOOLEAN, yes : SUBSET Peer, no : SUBSET Peer]

differences(a, b) == (a \ b) \cup (b \ a)

setVotes(d, nodes, vote) ==
    [d EXCEPT !.yes = IF vote THEN @ \cup nodes ELSE @ \ nodes,
              !.no = IF vote THEN @ \ nodes ELSE @ \cup nodes]

\* Mutant: the votes of departed peers still count.
KeepVotes(ds, nodes) == ds
unVotes(ds, nodes) ==
    [t \in DOMAIN ds |-> [ds[t] EXCEPT !.yes = @ \ nodes, !.no = @ \ nodes]]

\* A new dispute starts with the vote of every peer whose set we have.
NewDispute(t, ours, curr, acq) ==
    LET known == {p \in DOMAIN curr : curr[p].position \in acq}
    IN  [ourVote |-> t \in ours,
         yes |-> {p \in known : t \in curr[p].position},
         no |-> {p \in known : t \notin curr[p].position}]

\* createDisputes for each of the sets in others, which are not in compares.
createDisputes(ds, others, ours, curr, acq) ==
    LET created == UNION {differences(ours, o) : o \in others}
    IN  [t \in DOMAIN ds \cup created |->
            IF t \in DOMAIN ds THEN ds[t] ELSE NewDispute(t, ours, curr, acq)]

\* Mutant: a set the first dispute of which exists is not compared again.
UpdateKnownDisputes(ds, nodes, other, ours, curr, acq) ==
    [t \in DOMAIN ds |-> setVotes(ds[t], nodes, t \in other)]
\* updateDisputes(node, other) for each of nodes.
updateDisputes(ds, nodes, other, ours, curr, acq) ==
    LET all == IF nodes = {} \/ other \in compares THEN ds
               ELSE createDisputes(ds, {other}, ours, curr, acq)
    IN  [t \in DOMAIN all |-> setVotes(all[t], nodes, t \in other)]
Compared(nodes, other) == IF nodes = {} THEN compares ELSE compares \cup {other}

On(curr, s) == {p \in DOMAIN curr : curr[p].position = s}

----------------------------------------------------------------------------
\* Peer proposals and transaction sets

\* A set has arrived, the peers are at curr.
gotTxSetInternal(s, curr) ==
    LET acq == acquired \cup {s} IN
    /\ acquired' = acq
    /\ IF taken
       THEN /\ disputes' = updateDisputes(disputes, On(curr, s), s, position.position, curr, acq)
            /\ compares' = Compared(On(curr, s), s)
       ELSE UNCHANGED <<disputes, compares>>

\* Mutant: proposals are also processed while the ledger is being accepted.
IgnoredWhenOld(p, m) ==
    \/ m.prevLedger # prevLedgerID
    \/ p \in deadNodes
    \/ p \in DOMAIN currPeerPositions /\ m.proposeSeq <= currPeerPositions[p].proposeSeq
Ignored(p, m) ==
    \/ phase = "accepted"
    \/ m.prevLedger # prevLedgerID
    \/ p \in deadNodes
    \/ p \in DOMAIN currPeerPositions /\ m.proposeSeq <= currPeerPositions[p].proposeSeq

\* The peer leaves this round for good.
PeerBowsOut(p, m) ==
    /\ ~Ignored(p, m)
    /\ m.proposeSeq = SeqLeave
    /\ currPeerPositions' = [q \in DOMAIN currPeerPositions \ {p} |-> currPeerPositions[q]]
    /\ deadNodes' = deadNodes \cup {p}
    /\ disputes' = unVotes(disputes, {p})
    /\ UNCHANGED <<acquired, compares>>

\* A newer position.  A set we lack is either at hand (acquireTxSet returns
\* it) or requested, to arrive with a later gotTxSet.
PeerTakesPosition(p, m) ==
    LET curr == [q \in DOMAIN currPeerPositions \cup {p} |->
                    IF q = p THEN m ELSE currPeerPositions[q]] IN
    /\ ~Ignored(p, m)
    /\ m.proposeSeq # SeqLeave
    /\ currPeerPositions' = curr
    /\ deadNodes' = deadNodes
    /\ \/ /\ m.position \in acquired
          /\ acquired' = acquired
          /\ IF taken
             THEN /\ disputes' = updateDisputes(disputes, {p}, m.position,
                                                position.position, curr, acquired)
                  /\ compares' = Compared({p}, m.position)
             ELSE UNCHANGED <<disputes, compares>>
       \/ /\ m.position \notin acquired
          /\ gotTxSetInternal(m.position, curr)
       \/ /\ m.position \notin acquired
          /\ UNCHANGED <<acquired, disputes, compares>>

peerProposalInternal(p, m) ==
    \/ Ignored(p, m) /\ UNCHANGED <<peers, disputes, compares>>
    \/ PeerBowsOut(p, m)
    \/ PeerTakesPosition(p, m)

Remember(props, m) ==
    Append(IF Len(props) >= MaxRecent THEN Tail(props) ELSE props, m)

PeerProposal(p) ==
    /\ pc = "idle"
    /\ ~standalone
    /\ msgs < MaxMsgs /\ clock <= QuietClock
    /\ \E l \in Ledger, seq \in PeerSeqs, s \in PeerSets, ct \in CloseTimes :
          LET m == [prevLedger |-> l, proposeSeq |-> seq, position |-> s,
                    closeTime |-> ct, time |-> now] IN
          /\ recentPeerPositions' = [recentPeerPositions EXCEPT ![p] = Remember(@, m)]
          /\ peerProposalInternal(p, m)
    /\ msgs' = msgs + 1
    /\ UNCHANGED <<control, round, state, position, roundStart, proposed,
                   clock, openParent, netLedger, switches, rounds, standalone>>

gotTxSet(s) ==
    /\ pc = "idle"
    /\ ~standalone
    /\ phase # "accepted"
    /\ s \notin acquired
    /\ gotTxSetInternal(s, currPeerPositions)
    /\ UNCHANGED <<control, round, state, position, roundStart, currPeerPositions,
                   deadNodes, recentPeerPositions, proposed, env>>

----------------------------------------------------------------------------
\* Rounds and prior ledgers

Played == \A p \in Peer : replay[p] = <<>>

\* Mutant: the last round's result is kept.
StartWithOldResult(prevID, prevLedger, startMode, recent) ==
    /\ phase' = "open"
    /\ mode' = startMode
    /\ prevLedgerID' = prevID
    /\ previousLedger' = prevLedger
    /\ UNCHANGED <<state, disputes, compares>>
    /\ openStart' = clock
    /\ currPeerPositions' = Nothing
    /\ acquired' = {}
    /\ rawCloseTimesSelf' = 0
    /\ deadNodes' = {}
    /\ replay' = recent
    /\ pc' = "started"
\* Everything but its trailing playback, which is pc = "started".
startRoundInternal(prevID, prevLedger, startMode, recent) ==
    /\ phase' = "open"
    /\ mode' = startMode
    /\ prevLedgerID' = prevID
    /\ previousLedger' = prevLedger
    /\ state' = "None"
    /\ disputes' = Nothing
    /\ compares' = {}
    /\ openStart' = clock
    /\ currPeerPositions' = Nothing
    /\ acquired' = {}
    /\ rawCloseTimesSelf' = 0
    /\ deadNodes' = {}
    /\ replay' = recent
    /\ pc' = "started"

\* The network's ledger is netLedger, handed is the parent of our open ledger.
\* Only a synchronised node proposes (NetworkOPs), so it was handed netLedger.
startRound ==
    /\ pc = "idle"
    /\ phase = "accepted" \/ (standalone /\ phase = "open")
    /\ rounds < MaxRounds
    /\ \E handed \in Ledger, nowUntrusted \in Distrusted, proposing, have \in BOOLEAN :
          LET recent == [p \in Peer |-> IF p \in nowUntrusted THEN <<>>
                                        ELSE recentPeerPositions[p]]
              wrong == handed # netLedger /\ ~have
          IN  /\ proposing => handed = netLedger
              /\ prevRoundTime' = IF firstRound THEN ledgerIDLE_INTERVAL ELSE prevRoundTime
              /\ prevCloseTime' = IF firstRound THEN LedgerInfo[handed].closeTime
                                  ELSE rawCloseTimesSelf
              /\ recentPeerPositions' = recent
              /\ openParent' = handed
              /\ startRoundInternal(netLedger, IF wrong THEN handed ELSE netLedger,
                                    IF wrong THEN "wrongLedger"
                                    ELSE IF proposing THEN "proposing" ELSE "observing",
                                    recent)
    /\ firstRound' = FALSE
    /\ rounds' = rounds + 1
    /\ UNCHANGED <<frames, prevProposers, position, roundStart, proposed,
                   clock, netLedger, msgs, switches, standalone>>

\* playbackProposals: the peers in any order, each peer's proposals in theirs;
\* those for another ledger are skipped, as peerProposalInternal would.
playbackProposals(p) ==
    /\ pc \in {"started", "switch"}
    /\ replay[p] # <<>>
    /\ replay' = [replay EXCEPT ![p] = Tail(@)]
    /\ peerProposalInternal(p, Head(replay[p]))
    /\ UNCHANGED <<pc, frames, round, state, position, roundStart,
                   recentPeerPositions, proposed, env>>

\* Where a handler goes on when the call it made returns.
Return(n) == IF n > 0 THEN "phase" ELSE "idle"

\* The end of startRoundInternal: if most proposers are already ahead of us,
\* enter timerEntry at once.
RoundStarted ==
    /\ pc = "started"
    /\ Played
    /\ pc' = IF Cardinality(DOMAIN currPeerPositions) > prevProposers \div 2
             THEN "timer" ELSE Return(frames)
    /\ UNCHANGED <<frames, replay, round, result, peers, recentPeerPositions, proposed, env>>

\* Mutant: bow out but go on in the same mode.
LeaveStillProposing ==
    /\ UNCHANGED mode
    /\ IF mode = "proposing" /\ taken /\ position.proposeSeq # SeqLeave
       THEN /\ position' = bowOut(position)
            /\ propose(bowOut(position))
       ELSE UNCHANGED <<position, proposed>>
\* Mutant: stop proposing without a word.
LeaveSilently ==
    /\ mode' = IF mode = "proposing" THEN "observing" ELSE mode
    /\ UNCHANGED <<position, proposed>>
leaveConsensus ==
    /\ mode' = IF mode = "proposing" THEN "observing" ELSE mode
    /\ IF mode = "proposing" /\ taken /\ position.proposeSeq # SeqLeave
       THEN /\ position' = bowOut(position)
            /\ propose(bowOut(position))
       ELSE UNCHANGED <<position, proposed>>

\* Mutant: the positions of peers on the ledger we leave are kept.
KeepPeersFor(lgrId) ==
    /\ prevLedgerID' = lgrId
    /\ disputes' = Nothing
    /\ compares' = {}
    /\ deadNodes' = {}
    /\ replay' = recentPeerPositions
    /\ UNCHANGED currPeerPositions
\* First time switching to this ledger: start over with its proposals.
SyncTo(lgrId) ==
    /\ prevLedgerID' = lgrId
    /\ disputes' = Nothing
    /\ compares' = {}
    /\ currPeerPositions' = Nothing
    /\ deadNodes' = {}
    /\ replay' = recentPeerPositions

\* handleWrongLedger up to the end of its playback, which is pc = "switch".
handleWrongLedger(lgrId) ==
    /\ leaveConsensus
    /\ IF prevLedgerID # lgrId
       THEN SyncTo(lgrId)
       ELSE UNCHANGED <<prevLedgerID, disputes, compares, currPeerPositions, deadNodes, replay>>
    /\ pc' = "switch"

\* timerEntry up to the end of checkLedger.
checkLedger ==
    IF netLedger = prevLedgerID /\ previousLedger = prevLedgerID
    THEN /\ pc' = "phase"
         /\ UNCHANGED <<replay, mode, prevLedgerID, position, disputes, compares,
                        currPeerPositions, deadNodes, proposed>>
    ELSE handleWrongLedger(netLedger)

timerEntry ==
    /\ pc = "idle" \/ pc = "timer"
    /\ ~standalone
    /\ phase # "accepted"
    /\ frames' = frames + 1
    /\ checkLedger
    /\ UNCHANGED <<phase, previousLedger, firstRound, prevProposers, prevRoundTime,
                   prevCloseTime, rawCloseTimesSelf, openStart, state, roundStart,
                   acquired, recentPeerPositions, env>>

\* Mutant: a round on another ledger is one like any other.
RestartAfresh ==
    /\ startRoundInternal(prevLedgerID, prevLedgerID, "observing", recentPeerPositions)
    /\ UNCHANGED <<firstRound, prevProposers, prevRoundTime, prevCloseTime,
                   position, roundStart>>
\* The ledger is at hand: the round starts over with it.
SwitchTo ==
    /\ startRoundInternal(prevLedgerID, prevLedgerID, "switchedLedger", recentPeerPositions)
    /\ UNCHANGED <<firstRound, prevProposers, prevRoundTime, prevCloseTime,
                   position, roundStart>>

\* Mutant: the mode does not tell.
LackSilently ==
    /\ pc' = "phase"
    /\ UNCHANGED <<replay, round, result, peers>>
\* The ledger has to be acquired first.
LackLedger ==
    /\ mode' = "wrongLedger"
    /\ pc' = "phase"
    /\ UNCHANGED <<replay, phase, prevLedgerID, previousLedger, firstRound, prevProposers,
                   prevRoundTime, prevCloseTime, rawCloseTimesSelf, openStart, result, peers>>

\* The rest of handleWrongLedger: nothing if we are back on the ledger we have.
SwitchLedger ==
    /\ pc = "switch"
    /\ Played
    /\ \/ /\ previousLedger = prevLedgerID
          /\ pc' = "phase"
          /\ UNCHANGED <<replay, round, result, peers>>
       \/ previousLedger # prevLedgerID /\ SwitchTo
       \/ previousLedger # prevLedgerID /\ LackLedger
    /\ UNCHANGED <<frames, recentPeerPositions, proposed, env>>

----------------------------------------------------------------------------
\* The open phase

\* Time since the last close: the network's, if the prior ledger agreed on it
\* and it was not merely pushed past its parent's, else our own record.
sinceClose ==
    LET prev == LedgerInfo[previousLedger]
        previousCloseCorrect == /\ mode # "wrongLedger"
                                /\ prev.closeAgree
                                /\ prev.closeTime # prev.parentCloseTime + 1
    IN  1000 * (now - (IF previousCloseCorrect THEN prev.closeTime ELSE prevCloseTime))

idleInterval ==
    AtLeast(ledgerIDLE_INTERVAL, 2000 * LedgerInfo[previousLedger].closeTimeResolution)

\* Take the stance s.  Our position is on the open ledger's parent.
closeLedger(s) ==
    LET ours == [prevLedger |-> openParent, proposeSeq |-> 0, position |-> s,
                 closeTime |-> now, time |-> now]
        acq == acquired \cup {s}
        others == {currPeerPositions[p].position : p \in DOMAIN currPeerPositions} \cap acq
    IN  /\ rawCloseTimesSelf' = now
        /\ position' = ours
        /\ state' = "No"
        /\ roundStart' = clock
        /\ acquired' = acq
        /\ IF mode = "proposing" THEN propose(ours) ELSE UNCHANGED proposed
        /\ disputes' = createDisputes(Nothing, others, s, currPeerPositions, acq)
        /\ compares' = others

phaseOpen ==
    /\ phase = "open"
    /\ \E anyTransactions \in BOOLEAN, proposersValidated \in Validated :
          IF shouldCloseLedger(anyTransactions, prevProposers,
                               Cardinality(DOMAIN currPeerPositions), proposersValidated,
                               prevRoundTime, sinceClose, clock - openStart, idleInterval)
          THEN /\ phase' = "establish"
               /\ \E s \in OpenSets : closeLedger(s)
          ELSE UNCHANGED <<phase, rawCloseTimesSelf, result, acquired, proposed>>
    /\ UNCHANGED <<mode, prevLedgerID, previousLedger, firstRound, prevProposers, prevRoundTime,
                   prevCloseTime, openStart, currPeerPositions, deadNodes>>

\* Standalone: close and accept in one step, with a nominal round time.
simulatedRoundTime == 100
simulate ==
    /\ pc = "idle"
    /\ standalone
    /\ phase = "open"
    /\ \E s \in OpenSets : closeLedger(s)
    /\ phase' = "accepted"
    /\ prevProposers' = Cardinality(DOMAIN currPeerPositions)
    /\ prevRoundTime' = simulatedRoundTime
    /\ UNCHANGED <<control, mode, prevLedgerID, previousLedger, firstRound, prevCloseTime,
                   openStart, currPeerPositions, deadNodes, recentPeerPositions, env>>

----------------------------------------------------------------------------
\* The establish phase

roundTime == clock - roundStart
convergePercent == (roundTime * 100) \div AtLeast(prevRoundTime, avMIN_CONSENSUS_TIME)

Fresh ==
    {p \in DOMAIN currPeerPositions : currPeerPositions[p].time > now - proposeFRESHNESS}

updateVotes(ds) ==
    [t \in DOMAIN ds |->
        [ds[t] EXCEPT !.ourVote = NextVote(Cardinality(ds[t].yes), Cardinality(ds[t].no), @,
                                           convergePercent, mode = "proposing")]]

\* Mutant: transactions voted out stay in the set.
OnlyInsert(ds, new) == position.position \cup {t \in DOMAIN ds : new[t].ourVote}
\* Our set after the votes changed from ds to new.
ourNewSet(ds, new) ==
    LET flipped == {t \in DOMAIN ds : new[t].ourVote # ds[t].ourVote}
        yes == {t \in flipped : new[t].ourVote}
    IN  (position.position \ (flipped \ yes)) \cup yes

\* The close times proposed, their votes, and the one most voted for, of equals
\* the latest, if that is enough to try it, else 0.
ourCloseTime == asCloseTime(position.closeTime)
Counted == IF mode = "proposing" THEN 1 ELSE 0
closeTimeVotes(curr, t) ==
    Cardinality({p \in DOMAIN curr : asCloseTime(curr[p].closeTime) = t})
        + (IF ourCloseTime = t THEN Counted ELSE 0)
CloseTimeCandidates(curr) ==
    {asCloseTime(curr[p].closeTime) : p \in DOMAIN curr} \cup {ourCloseTime, 0}
ClosestTimes(curr) ==
    LET times == {asCloseTime(curr[p].closeTime) : p \in DOMAIN curr}
                     \cup (IF mode = "proposing" THEN {ourCloseTime} ELSE {})
        threshVote == participantsNeeded(Cardinality(DOMAIN curr) + Counted,
                                         neededWeight(convergePercent))
    IN  {t \in times : /\ closeTimeVotes(curr, t) >= threshVote
                       /\ \A u \in times : closeTimeVotes(curr, u) <= closeTimeVotes(curr, t)}
IsConsensusCloseTime(curr, t) ==
    IF DOMAIN curr = {} THEN t = ourCloseTime
    ELSE IF ClosestTimes(curr) = {} THEN t = 0
    ELSE t \in ClosestTimes(curr) /\ \A u \in ClosestTimes(curr) : u <= t

\* Mutant: close times that differ do not hold up the round.
AnyCloseTimeAgreed(curr) == TRUE
haveCloseTimeConsensus(curr) ==
    \/ DOMAIN curr = {}
    \/ \E t \in ClosestTimes(curr) :
          closeTimeVotes(curr, t) >= participantsNeeded(Cardinality(DOMAIN curr) + Counted,
                                                        avCT_CONSENSUS_PCT)

\* Drop stale peers, update our votes and close time, and if that changes our
\* position, or it has become stale itself, take and propose the new one.
updateOurPositions(curr, consensusCloseTime) ==
    LET unvoted == unVotes(disputes, DOMAIN currPeerPositions \ Fresh)
        voted == updateVotes(unvoted)
        newSet == ourNewSet(unvoted, voted)
        changed == \/ \E t \in DOMAIN unvoted : voted[t].ourVote # unvoted[t].ourVote
                   \/ consensusCloseTime # ourCloseTime
                   \/ position.time <= now - proposeINTERVAL
        ours == changePosition(position, newSet, consensusCloseTime)
    IN  /\ currPeerPositions' = curr
        /\ IF changed
           THEN /\ position' = ours
                /\ acquired' = acquired \cup {newSet}
                /\ IF newSet \notin acquired
                   THEN /\ disputes' = updateDisputes(voted, On(curr, newSet), newSet,
                                                      newSet, curr, acquired \cup {newSet})
                        /\ compares' = Compared(On(curr, newSet), newSet)
                   ELSE disputes' = voted /\ UNCHANGED compares
                /\ IF ours.proposeSeq # SeqLeave /\ mode = "proposing"
                   THEN propose(ours) ELSE UNCHANGED proposed
           ELSE /\ disputes' = voted
                /\ UNCHANGED <<position, acquired, compares, proposed>>

haveConsensus(curr, ours, finished) ==
    checkConsensus(prevProposers, Cardinality(DOMAIN curr), Cardinality(On(curr, ours)),
                   finished, prevRoundTime, roundTime, mode = "proposing")

\* The end of phaseEstablish, with the positions just updated.
Decide(curr, ours) ==
    \E view \in PauseViews, finished \in Validated :
       LET outcome == haveConsensus(curr, ours, finished)
           paused == shouldPause(view.ahead, view.laggards, view.offline, view.totalValidators,
                                 view.quorum, view.validating, roundTime)
       IN  /\ state' = IF paused THEN state ELSE outcome
           /\ IF ~paused /\ outcome # "No" /\ haveCloseTimeConsensus(curr)
              THEN /\ phase' = "accepted"
                   /\ prevProposers' = Cardinality(DOMAIN curr)
                   /\ prevRoundTime' = roundTime
              ELSE UNCHANGED <<phase, prevProposers, prevRoundTime>>

phaseEstablish ==
    LET curr == [p \in Fresh |-> currPeerPositions[p]] IN
    /\ phase = "establish"
    /\ IF roundTime < ledgerMIN_CONSENSUS
       THEN UNCHANGED <<phase, prevProposers, prevRoundTime, position, disputes, compares,
                        state, currPeerPositions, acquired, proposed>>
       ELSE /\ \E t \in CloseTimeCandidates(curr) :
                  IsConsensusCloseTime(curr, t) /\ updateOurPositions(curr, t)
            /\ Decide(curr, position'.position)
    /\ UNCHANGED <<mode, prevLedgerID, previousLedger, firstRound, prevCloseTime,
                   rawCloseTimesSelf, openStart, roundStart, deadNodes>>

\* timerEntry after checkLedger.
RunPhase ==
    /\ pc = "phase"
    /\ phaseOpen \/ phaseEstablish
    /\ frames' = frames - 1
    /\ pc' = Return(frames - 1)
    /\ UNCHANGED <<replay, recentPeerPositions, env>>

----------------------------------------------------------------------------
\* The environment

\* Timers have a granularity of a second, a handler takes no time.
Tick ==
    /\ pc = "idle"
    /\ \E d \in TickSteps :
          /\ clock + d <= MaxClock
          /\ clock' = clock + d
    /\ UNCHANGED <<control, round, result, peers, recentPeerPositions, proposed,
                   openParent, netLedger, msgs, switches, rounds, standalone>>

\* What getPrevLedger would answer changes, also between two questions of the
\* same handler.
NetworkSwitches ==
    /\ ~standalone
    /\ switches < MaxSwitches /\ clock <= QuietClock
    /\ \E l \in Ledger \ {netLedger} : netLedger' = l
    /\ switches' = switches + 1
    /\ UNCHANGED <<control, round, result, peers, recentPeerPositions, proposed,
                   clock, openParent, msgs, rounds, standalone>>

NoPosition == [prevLedger |-> NoLedger, proposeSeq |-> 0, position |-> {},
               closeTime |-> 0, time |-> 0]

Init ==
    /\ pc = "idle"
    /\ frames = 0
    /\ replay = [p \in Peer |-> <<>>]
    /\ phase = "accepted"
    /\ mode = "observing"
    /\ prevLedgerID = NoLedger
    /\ previousLedger = NoLedger
    /\ firstRound = TRUE
    /\ prevProposers = 0
    /\ prevRoundTime = 0
    /\ prevCloseTime = 0
    /\ rawCloseTimesSelf = 0
    /\ openStart = 0
    /\ position = NoPosition
    /\ disputes = Nothing
    /\ compares = {}
    /\ roundStart = 0
    /\ state = "None"
    /\ currPeerPositions = Nothing
    /\ recentPeerPositions = [p \in Peer |-> <<>>]
    /\ deadNodes = {}
    /\ acquired = {}
    /\ proposed = [round |-> 0, prop |-> NoPosition]
    /\ clock = StartClock
    /\ openParent = NoLedger
    /\ netLedger \in Ledger
    /\ msgs = 0
    /\ switches = 0
    /\ rounds = 0
    /\ standalone \in Standalone

Next ==
    \/ startRound
    \/ \E p \in Peer : PeerProposal(p)
    \/ \E s \in PeerSets : gotTxSet(s)
    \/ \E p \in Peer : playbackProposals(p)
    \/ RoundStarted
    \/ timerEntry
    \/ SwitchLedger
    \/ RunPhase
    \/ simulate
    \/ Tick
    \/ NetworkSwitches

Spec == Init /\ [][Next]_vars

----------------------------------------------------------------------------
\* Properties

Positions == [prevLedger : Ledger \cup {NoLedger}, proposeSeq : Nat,
              position : SUBSET Tx, closeTime : Nat, time : Nat]

\* Every variable has its type; at most MaxRecent proposals of a peer are
\* remembered (peerProposal pops the oldest), and our sequence number never
\* passes the one that means leaving.
TypeOK ==
    /\ pc \in {"idle", "started", "timer", "switch", "phase"}
    /\ frames \in Nat
    /\ replay \in [Peer -> Seq(Proposal)]
    /\ phase \in {"open", "establish", "accepted"}
    /\ mode \in {"proposing", "observing", "wrongLedger", "switchedLedger"}
    /\ prevLedgerID \in Ledger \cup {NoLedger}
    /\ previousLedger \in Ledger \cup {NoLedger}
    /\ firstRound \in BOOLEAN
    /\ prevProposers \in Nat
    /\ prevRoundTime \in Nat
    /\ prevCloseTime \in Nat
    /\ rawCloseTimesSelf \in Nat
    /\ openStart \in Nat
    /\ position \in Positions
    /\ position.proposeSeq <= SeqLeave
    /\ DOMAIN disputes \subseteq Tx
    /\ disputes \in [DOMAIN disputes -> Dispute]
    /\ compares \subseteq SUBSET Tx
    /\ roundStart \in Nat
    /\ roundStart <= clock
    /\ state \in {"None", "No", "MovedOn", "Yes"}
    /\ DOMAIN currPeerPositions \subseteq Peer
    /\ currPeerPositions \in [DOMAIN currPeerPositions -> Proposal]
    /\ recentPeerPositions \in [Peer -> Seq(Proposal)]
    /\ \A p \in Peer : Len(recentPeerPositions[p]) <= MaxRecent
    /\ deadNodes \subseteq Peer
    /\ acquired \subseteq SUBSET Tx
    /\ proposed \in [round : Nat, prop : Positions]
    /\ clock \in Nat
    /\ openParent \in Ledger \cup {NoLedger}
    /\ netLedger \in Ledger
    /\ msgs \in Nat
    /\ switches \in Nat
    /\ rounds \in Nat

\* Every transaction on which our set differs from the set of a peer is under
\* dispute as soon as we have that peer's set, whatever the order in which
\* proposals, sets, our own changes of position and ledger switches came
\* (createDisputes is skipped for a set compared before, with an older
\* position of ours).
DisputesComplete ==
    taken => \A p \in DOMAIN currPeerPositions :
                currPeerPositions[p].position \in acquired =>
                    differences(position.position, currPeerPositions[p].position)
                        \subseteq DOMAIN disputes

\* On each dispute, the votes are those of peers in the round, and a peer whose
\* set we have votes as its current position says: no vote is left of a peer
\* that bowed out, went stale, changed its position or was on another ledger.
VotesFaithful ==
    \A t \in DOMAIN disputes :
        /\ disputes[t].yes \cap disputes[t].no = {}
        /\ disputes[t].yes \cup disputes[t].no \subseteq DOMAIN currPeerPositions
        /\ \A p \in DOMAIN currPeerPositions :
              currPeerPositions[p].position \in acquired =>
                  IF t \in currPeerPositions[p].position
                  THEN p \in disputes[t].yes ELSE p \in disputes[t].no

\* We have a stance in the establish phase and none while the ledger is open
\* (asserted by phaseEstablish and by closeLedger).
StanceMatchesPhase ==
    /\ phase = "open" => ~taken
    /\ phase = "establish" => taken

\* The set we propose holds exactly the disputed transactions we vote for, and
\* we have it ourselves (gotTxSet asserts that a set that arrives is not ours).
PositionMatchesVotes ==
    taken => /\ position.position \in acquired
             /\ \A t \in DOMAIN disputes :
                   disputes[t].ourVote <=> t \in position.position

\* The peers in the round are on the prior ledger we are on, have not bowed
\* out, and are not counted again after they did.
PeersOnOurLedger ==
    \A p \in DOMAIN currPeerPositions :
        /\ currPeerPositions[p].prevLedger = prevLedgerID
        /\ currPeerPositions[p].proposeSeq # SeqLeave
        /\ p \notin deadNodes

\* Whenever no handler runs, working from another ledger than the one we are
\* supposed to be on shows in the mode; doAccept and phaseOpen rely on it.
WrongLedgerKnown ==
    pc = "idle" /\ previousLedger # prevLedgerID => mode = "wrongLedger"

\* While we propose, what we propose is a successor of the ledger we work from,
\* which is the one the network was on.
ProposingOnOurLedger ==
    mode = "proposing" =>
        /\ previousLedger = prevLedgerID
        /\ taken => position.prevLedger = prevLedgerID

\* Each proposal we send supersedes the ones we sent before in the round, so
\* none follows our bowing out and no peer ignores one as old.
ProposalsAdvance ==
    [][proposed' # proposed =>
          proposed'.round > proposed.round \/ proposed'.prop.proposeSeq > proposed.prop.proposeSeq]_vars

\* A round in which a proposer had to leave ends with its bowing out: it is not
\* left proposing in its peers' eyes.
LeavesAloud ==
    [][mode = "proposing" /\ mode' # "proposing" /\ taken /\ pc' # "started" =>
          proposed'.prop.proposeSeq = SeqLeave]_vars

\* Once a ledger is accepted, the result and the state it came from do not change
\* until the next startRound, whatever arrives while another thread builds the
\* ledger: what the comment in RCLConsensus::onAccept says Consensus guarantees.
AcceptedFrozen ==
    [][phase = "accepted" /\ phase' = "accepted" =>
          UNCHANGED <<result, mode, prevLedgerID, previousLedger, rawCloseTimesSelf,
                      prevProposers, prevRoundTime, peers>>]_vars

OffLedger == mode \in {"wrongLedger", "switchedLedger"}

\* Once on a wrong or switched ledger, a node neither proposes nor observes
\* until the next round (docs/consensus.md).
NoWayBack ==
    [][OffLedger /\ rounds' = rounds => OffLedger']_vars

\* A ledger accepted with consensus has the exact set of at least 80% of the
\* participants, ourselves included if we propose.
AcceptedBySupermajority ==
    phase = "accepted" /\ taken /\ state = "Yes" /\ DOMAIN currPeerPositions # {} =>
        (Cardinality(On(currPeerPositions, position.position)) + Counted) * 100
            >= minCONSENSUS_PCT * (Cardinality(DOMAIN currPeerPositions) + Counted)

\* An accepted round's close time, once rounded, is that of three quarters of
\* its participants (as participantsNeeded counts them), zero included.
AcceptedCloseTime ==
    phase = "accepted" /\ taken /\ ~standalone /\ DOMAIN currPeerPositions # {} =>
        closeTimeVotes(currPeerPositions, ourCloseTime)
            >= participantsNeeded(Cardinality(DOMAIN currPeerPositions) + Counted,
                                  avCT_CONSENSUS_PCT)

\* A round that was accepted was decided (ConsensusResult::state).
AcceptedIsDecided == phase = "accepted" /\ taken /\ ~standalone => state # "No"

----------------------------------------------------------------------------
\* Progress: time passes between heartbeats, the heartbeat timer fires again
\* and again (NetworkOPs::setHeartbeatTimer) and a running handler takes its
\* steps.
Handler == (\E p \in Peer : playbackProposals(p)) \/ RoundStarted \/ SwitchLedger \/ RunPhase
FairSpec == Spec /\ SF_vars(Tick) /\ WF_vars(timerEntry) /\ WF_vars(Handler)

\* An open ledger is closed, whatever the network does, unless it was opened so
\* late, by a switch of ledgers, that the bound on the clock comes first.
OpenEnds ==
    (phase = "open") ~> (phase # "open" \/ openStart + idleInterval > MaxClock)

\* The establish phase ends: in acceptance once the network is quiet, for peers
\* that disagree go stale, pauses end and a slow last round is outwaited; or in
\* a switch of ledgers.  Again unless it began too late for the clock's bound.
EstablishEnds ==
    (phase = "establish") ~>
        (phase # "establish" \/ roundStart + 1000 * proposeFRESHNESS > MaxClock)
=============================================================================
