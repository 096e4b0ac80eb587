-------------------------- MODULE ConsensusProofs ---------------------------
(***************************************************************************)
(* Proofs about the consensus engine, for any number of peers,             *)
(* transactions, ledgers and rounds.                                       *)
(***************************************************************************)
EXTENDS Consensus, TLAPS

----------------------------------------------------------------------------
\* The disputes ds, with the sets cmp compared, are right for our set ours, the
\* peers at curr and the sets acq at hand.
VotesOn(d, t, curr, acq) ==
    /\ d.yes \cap d.no = {}
    /\ d.yes \cup d.no \subseteq DOMAIN curr
    /\ \A p \in DOMAIN curr :
          curr[p].position \in acq =>
              IF t \in curr[p].position THEN p \in d.yes ELSE p \in d.no

DisputesOK(ds, cmp, ours, curr, acq) ==
    /\ DOMAIN ds \subseteq Tx
    /\ ds \in [DOMAIN ds -> Dispute]
    /\ \A o \in cmp : differences(ours, o) \subseteq DOMAIN ds
    /\ \A p \in DOMAIN curr : curr[p].position \in acq => curr[p].position \in cmp
    /\ \A t \in DOMAIN ds : ds[t].ourVote = (t \in ours)
    /\ \A t \in DOMAIN ds : VotesOn(ds[t], t, curr, acq)

PeersOK(curr) == DOMAIN curr \subseteq Peer /\ curr \in [DOMAIN curr -> Proposal]

\* A new dispute is right from the start.
LEMMA NewDisputeOK ==
    ASSUME NEW ours \in SUBSET Tx, NEW t \in Tx, NEW curr, NEW acq, PeersOK(curr)
    PROVE  /\ NewDispute(t, ours, curr, acq) \in Dispute
           /\ NewDispute(t, ours, curr, acq).ourVote = (t \in ours)
           /\ VotesOn(NewDispute(t, ours, curr, acq), t, curr, acq)
  BY DEF NewDispute, Dispute, VotesOn, PeersOK

\* Setting votes on a dispute for the peers on a set that is (now) at hand.
LEMMA SetVotesOK ==
    ASSUME NEW d \in Dispute, NEW t, NEW curr, NEW acq, NEW other, NEW nodes,
           NEW old, NEW oldAcq,
           PeersOK(curr), nodes \subseteq DOMAIN curr,
           VotesOn(d, t, old, oldAcq),
           DOMAIN old \subseteq DOMAIN curr,
           \A p \in nodes : curr[p].position = other,
           \A p \in DOMAIN curr \ nodes :
               /\ p \in DOMAIN old
               /\ curr[p].position = old[p].position
               /\ curr[p].position \in acq => curr[p].position \in oldAcq
    PROVE  /\ setVotes(d, nodes, t \in other) \in Dispute
           /\ setVotes(d, nodes, t \in other).ourVote = d.ourVote
           /\ VotesOn(setVotes(d, nodes, t \in other), t, curr, acq)
  BY Zenon DEF setVotes, Dispute, VotesOn, PeersOK

\* Comparing further sets, with the peers and the sets at hand as they are.
LEMMA CreateDisputesOK ==
    ASSUME NEW ds, NEW cmp, NEW ours \in SUBSET Tx, NEW curr, NEW acq,
           NEW others \in SUBSET SUBSET Tx, PeersOK(curr),
           DOMAIN ds \subseteq Tx, ds \in [DOMAIN ds -> Dispute],
           \A o \in cmp : differences(ours, o) \subseteq DOMAIN ds,
           \A t \in DOMAIN ds : ds[t].ourVote = (t \in ours)
    PROVE  LET new == createDisputes(ds, others, ours, curr, acq) IN
           /\ DOMAIN ds \subseteq DOMAIN new
           /\ DOMAIN new \subseteq Tx
           /\ new \in [DOMAIN new -> Dispute]
           /\ \A o \in cmp \cup others : differences(ours, o) \subseteq DOMAIN new
           /\ \A t \in DOMAIN new : new[t].ourVote = (t \in ours)
           /\ \A t \in DOMAIN ds : new[t] = ds[t]
           /\ \A t \in DOMAIN new \ DOMAIN ds : VotesOn(new[t], t, curr, acq)
  <1> DEFINE created == UNION {differences(ours, o) : o \in others}
             new == createDisputes(ds, others, ours, curr, acq)
  <1>1. created \subseteq Tx
    BY DEF differences
  <1>2. DOMAIN new = DOMAIN ds \cup created
    BY DEF createDisputes
  <1>3. \A t \in DOMAIN ds : new[t] = ds[t]
    BY DEF createDisputes
  <1>4. \A t \in created \ DOMAIN ds :
            /\ new[t] \in Dispute
            /\ new[t].ourVote = (t \in ours)
            /\ VotesOn(new[t], t, curr, acq)
    <2> TAKE t \in created \ DOMAIN ds
    <2>1. new[t] = NewDispute(t, ours, curr, acq)
      BY DEF createDisputes
    <2> QED
      BY <1>1, <2>1, NewDisputeOK
  <1>5. new = [t \in DOMAIN ds \cup created |-> new[t]]
    BY DEF createDisputes
  <1>6. \A o \in cmp \cup others : differences(ours, o) \subseteq DOMAIN ds \cup created
    OBVIOUS
  <1> HIDE DEF new, created
  <1>7. new \in [DOMAIN new -> Dispute]
    BY <1>2, <1>3, <1>4, <1>5
  <1> QED
    BY <1>1, <1>2, <1>3, <1>4, <1>6, <1>7 DEF new

\* Peers nodes are on the set other, which is at hand: their votes are set and
\* the set is compared, if it was not before.
LEMMA UpdateDisputesOK ==
    ASSUME NEW ds, NEW ours \in SUBSET Tx, NEW old, NEW oldAcq,
           NEW curr, NEW acq, NEW nodes, NEW other \in SUBSET Tx,
           DisputesOK(ds, compares, ours, old, oldAcq),
           PeersOK(curr), nodes \subseteq DOMAIN curr,
           DOMAIN old \subseteq DOMAIN curr,
           \A p \in nodes : curr[p].position = other,
           \A p \in DOMAIN curr \ nodes :
               /\ p \in DOMAIN old
               /\ curr[p].position = old[p].position
               /\ curr[p].position \in acq => curr[p].position \in oldAcq
    PROVE  DisputesOK(updateDisputes(ds, nodes, other, ours, curr, acq),
                      Compared(nodes, other), ours, curr, acq)
  <1> DEFINE all == IF nodes = {} \/ other \in compares THEN ds
                    ELSE createDisputes(ds, {other}, ours, curr, acq)
             new == updateDisputes(ds, nodes, other, ours, curr, acq)
             cmp == Compared(nodes, other)
  <1>1. /\ DOMAIN ds \subseteq DOMAIN all
        /\ DOMAIN all \subseteq Tx
        /\ all \in [DOMAIN all -> Dispute]
        /\ \A o \in cmp : differences(ours, o) \subseteq DOMAIN all
        /\ \A t \in DOMAIN all : all[t].ourVote = (t \in ours)
        /\ \A t \in DOMAIN ds : all[t] = ds[t]
        /\ \A t \in DOMAIN all \ DOMAIN ds : VotesOn(all[t], t, curr, acq)
    <2>1. CASE nodes = {} \/ other \in compares
      <3>1. all = ds /\ cmp \subseteq compares
        BY <2>1 DEF Compared
      <3>2. /\ DOMAIN ds \subseteq Tx /\ ds \in [DOMAIN ds -> Dispute]
            /\ \A o \in compares : differences(ours, o) \subseteq DOMAIN ds
            /\ \A t \in DOMAIN ds : ds[t].ourVote = (t \in ours)
        BY DEF DisputesOK
      <3> HIDE DEF all, cmp
      <3> QED
        BY <3>1, <3>2
    <2>2. CASE ~(nodes = {} \/ other \in compares)
      <3>1. all = createDisputes(ds, {other}, ours, curr, acq) /\ cmp = compares \cup {other}
        BY <2>2 DEF Compared
      <3>2. /\ DOMAIN ds \subseteq Tx /\ ds \in [DOMAIN ds -> Dispute]
            /\ \A o \in compares : differences(ours, o) \subseteq DOMAIN ds
            /\ \A t \in DOMAIN ds : ds[t].ourVote = (t \in ours)
        BY DEF DisputesOK
      <3>3. {other} \in SUBSET SUBSET Tx
        OBVIOUS
      <3> DEFINE made == createDisputes(ds, {other}, ours, curr, acq)
      <3>4. /\ DOMAIN ds \subseteq DOMAIN made
            /\ DOMAIN made \subseteq Tx
            /\ made \in [DOMAIN made -> Dispute]
            /\ \A o \in compares \cup {other} : differences(ours, o) \subseteq DOMAIN made
            /\ \A t \in DOMAIN made : made[t].ourVote = (t \in ours)
            /\ \A t \in DOMAIN ds : made[t] = ds[t]
            /\ \A t \in DOMAIN made \ DOMAIN ds : VotesOn(made[t], t, curr, acq)
        BY <3>2, <3>3, CreateDisputesOK, ZenonT(30)
      <3> HIDE DEF all, cmp, made
      <3>5. all = made /\ cmp = compares \cup {other}
        BY <3>1 DEF made
      <3> QED
        BY <3>4, <3>5
    <2> QED
      BY <2>1, <2>2, Zenon
  <1>2. /\ DOMAIN new = DOMAIN all
        /\ \A t \in DOMAIN all : new[t] = setVotes(all[t], nodes, t \in other)
        /\ new = [t \in DOMAIN all |-> new[t]]
    BY DEF updateDisputes
  <1>3. \A p \in DOMAIN curr : curr[p].position \in acq => curr[p].position \in cmp
    BY DEF DisputesOK, Compared
  <1> HIDE DEF all, new, cmp
  <1>4. \A t \in DOMAIN all :
            /\ new[t] \in Dispute
            /\ new[t].ourVote = (t \in ours)
            /\ VotesOn(new[t], t, curr, acq)
    <2> TAKE t \in DOMAIN all
    <2>1. CASE t \in DOMAIN ds
      <3>1. VotesOn(all[t], t, old, oldAcq)
        BY <1>1, <2>1 DEF DisputesOK
      <3>2. all[t] \in Dispute /\ all[t].ourVote = (t \in ours)
        BY <1>1
      <3> QED
        BY <1>2, <3>1, <3>2, SetVotesOK
    <2>2. CASE t \notin DOMAIN ds
      <3>1. VotesOn(all[t], t, curr, acq)
        BY <1>1, <2>2
      <3>2. all[t] \in Dispute /\ all[t].ourVote = (t \in ours)
        BY <1>1
      <3>3. /\ setVotes(all[t], nodes, t \in other) \in Dispute
            /\ setVotes(all[t], nodes, t \in other).ourVote = all[t].ourVote
            /\ VotesOn(setVotes(all[t], nodes, t \in other), t, curr, acq)
        BY <3>1, <3>2, SetVotesOK, Zenon
      <3> QED
        BY <1>2, <3>2, <3>3
    <2> QED
      BY <2>1, <2>2
  <1>5. new \in [DOMAIN new -> Dispute]
    BY <1>2, <1>4
  <1> QED
    BY <1>1, <1>2, <1>3, <1>4, <1>5 DEF DisputesOK, new, cmp

\* Peers leave the round.
LEMMA UnVotesOK ==
    ASSUME NEW ds, NEW cmp, NEW ours, NEW old, NEW acq, NEW gone, NEW curr,
           DisputesOK(ds, cmp, ours, old, acq),
           curr = [p \in DOMAIN old \ gone |-> old[p]]
    PROVE  DisputesOK(unVotes(ds, gone), cmp, ours, curr, acq)
  <1> DEFINE new == unVotes(ds, gone)
  <1>1. /\ DOMAIN new = DOMAIN ds
        /\ \A t \in DOMAIN ds : new[t] = [ds[t] EXCEPT !.yes = @ \ gone, !.no = @ \ gone]
        /\ new = [t \in DOMAIN ds |-> new[t]]
    BY DEF unVotes
  <1> HIDE DEF new
  <1>2. \A t \in DOMAIN ds :
            new[t] \in Dispute /\ new[t].ourVote = ds[t].ourVote
            /\ VotesOn(new[t], t, curr, acq)
    <2> TAKE t \in DOMAIN ds
    <2>1. ds[t] \in Dispute /\ VotesOn(ds[t], t, old, acq)
      BY DEF DisputesOK
    <2> DEFINE d == ds[t]
               e == new[t]
    <2>a. e = [d EXCEPT !.yes = @ \ gone, !.no = @ \ gone] /\ d \in Dispute
      BY <1>1, <2>1, Zenon
    <2> HIDE DEF d, e
    <2>b. /\ e \in Dispute
          /\ e.ourVote = d.ourVote
          /\ e.yes = d.yes \ gone
          /\ e.no = d.no \ gone
      BY <2>a, Zenon DEF Dispute
    <2>2. /\ new[t] \in Dispute
          /\ new[t].ourVote = ds[t].ourVote
          /\ new[t].yes = ds[t].yes \ gone
          /\ new[t].no = ds[t].no \ gone
      BY <2>b DEF d, e
    <2>3. DOMAIN curr = DOMAIN old \ gone /\ \A p \in DOMAIN curr : curr[p] = old[p]
      OBVIOUS
    <2>4. VotesOn(new[t], t, curr, acq)
      BY <2>1, <2>2, <2>3 DEF VotesOn
    <2> QED
      BY <2>2, <2>4
  <1>3. new \in [DOMAIN new -> Dispute]
    BY <1>1, <1>2, Zenon
  <1> QED
    BY <1>1, <1>2, <1>3, Zenon DEF DisputesOK, new

LEMMA NextVoteType ==
    ASSUME NEW yays \in Nat, NEW nays \in Nat, NEW ourVote \in BOOLEAN,
           NEW percentTime, NEW proposing \in BOOLEAN
    PROVE  NextVote(yays, nays, ourVote, percentTime, proposing) \in BOOLEAN
  <1> DEFINE weight == (yays * 100 + (IF ourVote THEN 100 ELSE 0)) \div (nays + yays + 1)
  <1>1. (weight > neededWeight(percentTime)) \in BOOLEAN
    OBVIOUS
  <1>2. (yays > nays) \in BOOLEAN
    OBVIOUS
  <1> QED
    BY <1>1, <1>2, Zenon DEF NextVote

\* Our votes change and our set follows them.
LEMMA UpdateVotesOK ==
    ASSUME NEW ds, NEW cmp, NEW curr, NEW acq,
           position.position \in SUBSET Tx,
           DisputesOK(ds, cmp, position.position, curr, acq)
    PROVE  LET new == updateVotes(ds)
               set == ourNewSet(ds, new)
           IN  /\ DisputesOK(new, cmp, set, curr, acq)
               /\ set \in SUBSET Tx
               /\ DOMAIN new = DOMAIN ds
               /\ (\A t \in DOMAIN ds : new[t].ourVote = ds[t].ourVote) => set = position.position
  <1> DEFINE new == updateVotes(ds)
             set == ourNewSet(ds, new)
             vote(t) == NextVote(Cardinality(ds[t].yes), Cardinality(ds[t].no), ds[t].ourVote,
                                 convergePercent, mode = "proposing")
  <1>1. /\ DOMAIN new = DOMAIN ds
        /\ \A t \in DOMAIN ds : new[t] = [ds[t] EXCEPT !.ourVote = vote(t)]
        /\ new = [t \in DOMAIN ds |-> new[t]]
    BY DEF updateVotes
  <1>2. \A t \in DOMAIN ds : vote(t) \in BOOLEAN
    <2> TAKE t \in DOMAIN ds
    <2>1. /\ ds[t].yes \subseteq Peer /\ ds[t].no \subseteq Peer
          /\ ds[t].ourVote \in BOOLEAN
      BY DEF DisputesOK, Dispute
    <2>2. Cardinality(ds[t].yes) \in Nat /\ Cardinality(ds[t].no) \in Nat
      BY <2>1, PeersCounted, Zenon DEF SubsetsCount
    <2>3. (mode = "proposing") \in BOOLEAN
      OBVIOUS
    <2> QED
      BY <2>1, <2>2, <2>3, NextVoteType, Zenon
  <1> HIDE DEF vote, new
  <1>3. \A t \in DOMAIN ds :
            /\ new[t] \in Dispute
            /\ VotesOn(new[t], t, curr, acq)
    <2> TAKE t \in DOMAIN ds
    <2>1. ds[t] \in Dispute /\ VotesOn(ds[t], t, curr, acq)
      BY DEF DisputesOK
    <2>2. new[t] = [ds[t] EXCEPT !.ourVote = vote(t)] /\ vote(t) \in BOOLEAN
      BY <1>1, <1>2
    <2> QED
      BY <2>1, <2>2 DEF Dispute, VotesOn
  <1>4. new \in [DOMAIN new -> Dispute]
    BY <1>1, <1>3
  <1>5. \A t \in DOMAIN ds : ds[t].ourVote \in BOOLEAN /\ new[t].ourVote \in BOOLEAN
    BY <1>3 DEF DisputesOK, Dispute
  <1>6. \A t \in DOMAIN ds : ds[t].ourVote = (t \in position.position)
    BY DEF DisputesOK
  <1>7. \A t \in DOMAIN ds : new[t].ourVote = (t \in set)
    BY <1>5, <1>6 DEF ourNewSet
  <1>8. \A t : t \notin DOMAIN ds => (t \in set <=> t \in position.position)
    BY DEF ourNewSet
  <1>9. DOMAIN ds \subseteq Tx
    BY DEF DisputesOK
  <1>10. set \in SUBSET Tx
    BY <1>8, <1>9
  <1>11. ASSUME \A t \in DOMAIN ds : new[t].ourVote = ds[t].ourVote
         PROVE  set = position.position
    BY <1>11 DEF ourNewSet
  <1> HIDE DEF set
  <1>12. \A o \in cmp : differences(set, o) \subseteq DOMAIN new
    BY <1>1, <1>8 DEF DisputesOK, differences
  <1>13. DisputesOK(new, cmp, set, curr, acq)
    BY <1>1, <1>3, <1>4, <1>7, <1>9, <1>12 DEF DisputesOK
  <1> QED
    BY <1>1, <1>10, <1>11, <1>13 DEF new, set

----------------------------------------------------------------------------
\* The inductive invariant

\* Where handlers are, which ledger a round is on, and what was proposed.
Control ==
    /\ pc \in {"phase", "switch"} => frames > 0
    /\ pc = "switch" => phase # "accepted"
    /\ phase # "accepted" => previousLedger \in Ledger /\ prevLedgerID \in Ledger
    /\ StanceMatchesPhase
    /\ previousLedger # prevLedgerID => mode = "wrongLedger" \/ pc = "switch"
    /\ mode = "proposing" => openParent = prevLedgerID
    /\ ProposingOnOurLedger
    /\ proposed.round <= rounds
    /\ mode = "proposing" /\ ~taken => proposed.round < rounds
    /\ mode = "proposing" /\ taken /\ proposed.round = rounds =>
           proposed.prop.proposeSeq <= position.proposeSeq

\* The disputes are right, or there are none as we have no stance.
Disputed ==
    /\ taken => /\ position.position \in acquired
                /\ DisputesOK(disputes, compares, position.position,
                              currPeerPositions, acquired)
    /\ ~taken => disputes = Nothing /\ compares = {}

IInv == TypeOK /\ Control /\ Disputed /\ PeersOnOurLedger

\* The part of it about peers and disputes.
Data ==
    /\ PeersOK(currPeerPositions)
    /\ deadNodes \subseteq Peer
    /\ acquired \subseteq SUBSET Tx
    /\ compares \subseteq SUBSET Tx
    /\ DOMAIN disputes \subseteq Tx
    /\ disputes \in [DOMAIN disputes -> Dispute]
    /\ Disputed
    /\ PeersOnOurLedger

LEMMA NothingType ==
    /\ DOMAIN Nothing = {}
    /\ \A S : Nothing \in [DOMAIN Nothing -> S]
  BY DEF Nothing

LEMMA ComparedType ==
    ASSUME compares \subseteq SUBSET Tx, NEW nodes, NEW other \in SUBSET Tx
    PROVE  Compared(nodes, other) \subseteq SUBSET Tx
  BY DEF Compared

\* A set arrives; the peers on it may include one that just took its position.
LEMMA GotTxSetOK ==
    ASSUME Data, position.position \in SUBSET Tx, NEW s \in SUBSET Tx, NEW curr,
           PeersOK(curr), DOMAIN currPeerPositions \subseteq DOMAIN curr,
           \A p \in DOMAIN curr : curr[p].position # s =>
               p \in DOMAIN currPeerPositions /\ curr[p] = currPeerPositions[p],
           s \notin acquired, gotTxSetInternal(s, curr),
           currPeerPositions' = curr, UNCHANGED <<state, position>>
    PROVE  /\ acquired' \subseteq SUBSET Tx
           /\ compares' \subseteq SUBSET Tx
           /\ DOMAIN disputes' \subseteq Tx
           /\ disputes' \in [DOMAIN disputes' -> Dispute]
           /\ Disputed'
  <1> DEFINE nodes == On(curr, s)
             acq == acquired \cup {s}
  <1>1. acquired' = acq
    BY DEF taken, gotTxSetInternal
  <1>2. CASE taken
    <2>1. /\ disputes' = updateDisputes(disputes, nodes, s, position.position, curr, acq)
          /\ compares' = Compared(nodes, s)
      BY <1>2 DEF taken, gotTxSetInternal
    <2>2. /\ nodes \subseteq DOMAIN curr
          /\ \A p \in nodes : curr[p].position = s
          /\ \A p \in DOMAIN curr \ nodes :
                /\ p \in DOMAIN currPeerPositions
                /\ curr[p].position = currPeerPositions[p].position
                /\ curr[p].position \in acq => curr[p].position \in acquired
      BY DEF On
    <2>3. DisputesOK(disputes, compares, position.position, currPeerPositions, acquired)
      BY <1>2 DEF taken, Data, Disputed
    <2> HIDE DEF nodes, acq
    <2>4. DisputesOK(updateDisputes(disputes, nodes, s, position.position, curr, acq),
                     Compared(nodes, s), position.position, curr, acq)
      BY <2>2, <2>3, UpdateDisputesOK
    <2>5. DisputesOK(disputes', compares', position'.position, currPeerPositions', acquired')
      BY <1>1, <2>1, <2>4
    <2>6. compares' \subseteq SUBSET Tx
      BY <2>1, ComparedType DEF Data
    <2>7. position'.position \in acquired' /\ acquired' \subseteq SUBSET Tx
      BY <1>1, <1>2 DEF taken, Data, Disputed, acq
    <2>8. DOMAIN disputes' \subseteq Tx /\ disputes' \in [DOMAIN disputes' -> Dispute]
      BY <2>5 DEF DisputesOK
    <2> QED
      BY <1>2, <2>5, <2>6, <2>7, <2>8 DEF taken, Disputed
  <1>3. CASE ~taken
    <2>1. UNCHANGED <<disputes, compares>>
      BY <1>3 DEF taken, gotTxSetInternal
    <2> QED
      BY <1>1, <1>3, <2>1 DEF taken, Data, Disputed
  <1> QED
    BY <1>2, <1>3

\* A peer's proposal, new or played back, keeps peers and disputes right.
LEMMA PeerProposalOK ==
    ASSUME Data, position.position \in SUBSET Tx, NEW p \in Peer, NEW m \in Proposal,
           peerProposalInternal(p, m), UNCHANGED <<state, position, prevLedgerID>>
    PROVE  Data'
  <1>1. CASE Ignored(p, m) /\ UNCHANGED <<peers, disputes, compares>>
    BY <1>1 DEF taken, Data, Disputed, PeersOnOurLedger, peers
  <1>2. CASE PeerBowsOut(p, m)
    <2> DEFINE curr == [q \in DOMAIN currPeerPositions \ {p} |-> currPeerPositions[q]]
    <2>1. /\ currPeerPositions' = curr
          /\ deadNodes' = deadNodes \cup {p}
          /\ disputes' = unVotes(disputes, {p})
          /\ UNCHANGED <<acquired, compares>>
      BY <1>2 DEF PeerBowsOut
    <2>2. PeersOK(currPeerPositions') /\ PeersOnOurLedger'
      BY <2>1 DEF Data, PeersOK, PeersOnOurLedger
    <2>3. CASE taken
      <3>1. DisputesOK(unVotes(disputes, {p}), compares, position.position, curr, acquired)
        BY <2>3, UnVotesOK, Zenon DEF taken, Data, Disputed
      <3>2. DisputesOK(disputes', compares', position'.position, currPeerPositions', acquired')
        BY <2>1, <3>1
      <3>3. DOMAIN disputes' \subseteq Tx /\ disputes' \in [DOMAIN disputes' -> Dispute]
        BY <3>2 DEF DisputesOK
      <3> QED
        BY <2>1, <2>2, <2>3, <3>2, <3>3, Zenon DEF taken, Data, Disputed
    <2>4. CASE ~taken
      <3>1. disputes' = disputes
        BY <2>1, <2>4 DEF taken, Data, Disputed, Nothing, unVotes
      <3> QED
        BY <2>1, <2>2, <2>4, <3>1, Zenon DEF taken, Data, Disputed
    <2> QED
      BY <2>3, <2>4
  <1>3. CASE PeerTakesPosition(p, m)
    <2> DEFINE curr == [q \in DOMAIN currPeerPositions \cup {p} |->
                           IF q = p THEN m ELSE currPeerPositions[q]]
    <2>1. currPeerPositions' = curr /\ deadNodes' = deadNodes
      BY <1>3 DEF PeerTakesPosition
    <2>2. /\ PeersOK(curr)
          /\ DOMAIN curr = DOMAIN currPeerPositions \cup {p}
          /\ curr[p] = m
          /\ \A q \in DOMAIN curr \ {p} : q \in DOMAIN currPeerPositions
                                          /\ curr[q] = currPeerPositions[q]
      BY DEF Data, PeersOK
    <2>3. PeersOnOurLedger'
      BY <1>3, <2>1, <2>2 DEF Data, PeersOnOurLedger, PeerTakesPosition, Ignored
    <2>4. m.position \in SUBSET Tx
      BY DEF Proposal
    <2> HIDE DEF curr
    <2>5. CASE m.position \notin acquired /\ gotTxSetInternal(m.position, curr)
      <3>1. /\ acquired' \subseteq SUBSET Tx
            /\ compares' \subseteq SUBSET Tx
            /\ DOMAIN disputes' \subseteq Tx
            /\ disputes' \in [DOMAIN disputes' -> Dispute]
            /\ Disputed'
        BY <2>1, <2>2, <2>4, <2>5, GotTxSetOK
      <3> QED
        BY <2>1, <2>2, <2>3, <3>1 DEF Data
    <2>6. CASE m.position \notin acquired /\ UNCHANGED <<acquired, disputes, compares>>
      <3>1. taken => DisputesOK(disputes, compares, position.position, curr, acquired)
        BY <2>2, <2>6 DEF taken, Data, Disputed, DisputesOK, VotesOn
      <3> QED
        BY <2>1, <2>2, <2>3, <2>6, <3>1 DEF taken, Data, Disputed
    <2>7. CASE m.position \in acquired /\ acquired' = acquired /\ taken
               /\ disputes' = updateDisputes(disputes, {p}, m.position, position.position,
                                             curr, acquired)
               /\ compares' = Compared({p}, m.position)
      <3>1. DisputesOK(disputes, compares, position.position, currPeerPositions, acquired)
        BY <2>7, SMTT(30) DEF taken, Data, Disputed
      <3>2. DisputesOK(updateDisputes(disputes, {p}, m.position, position.position,
                                      curr, acquired),
                       Compared({p}, m.position), position.position, curr, acquired)
        BY <2>2, <2>4, <3>1, UpdateDisputesOK, SMTT(30)
      <3>3. DisputesOK(disputes', compares', position'.position, currPeerPositions', acquired')
        BY <2>1, <2>7, <3>2
      <3>4. DOMAIN disputes' \subseteq Tx /\ disputes' \in [DOMAIN disputes' -> Dispute]
        BY <3>3 DEF DisputesOK
      <3>5. compares' \subseteq SUBSET Tx
        BY <2>4, <2>7, ComparedType DEF Data
      <3> QED
        BY <2>1, <2>2, <2>3, <2>7, <3>3, <3>4, <3>5, Zenon DEF taken, Data, Disputed
    <2>8. CASE m.position \in acquired /\ acquired' = acquired /\ ~taken
               /\ UNCHANGED <<disputes, compares>>
      BY <2>1, <2>2, <2>3, <2>8 DEF taken, Data, Disputed
    <2> QED
      BY <1>3, <2>5, <2>6, <2>7, <2>8 DEF taken, PeerTakesPosition, curr
  <1> QED
    BY <1>1, <1>2, <1>3 DEF peerProposalInternal

\* The other types, the one flag apart.
Flags == firstRound \in BOOLEAN

TypeRest ==
    /\ pc \in {"idle", "started", "timer", "switch", "phase"}
    /\ frames \in Nat
    /\ replay \in [Peer -> Seq(Proposal)]
    /\ phase \in {"open", "establish", "accepted"}
    /\ mode \in {"proposing", "observing", "wrongLedger", "switchedLedger"}
    /\ prevLedgerID \in Ledger \cup {NoLedger}
    /\ previousLedger \in Ledger \cup {NoLedger}
    /\ prevProposers \in Nat
    /\ prevRoundTime \in Nat
    /\ prevCloseTime \in Nat
    /\ rawCloseTimesSelf \in Nat
    /\ openStart \in Nat
    /\ position \in Positions
    /\ position.proposeSeq <= SeqLeave
    /\ roundStart \in Nat
    /\ roundStart <= clock
    /\ state \in {"None", "No", "MovedOn", "Yes"}
    /\ recentPeerPositions \in [Peer -> Seq(Proposal)]
    /\ \A p \in Peer : Len(recentPeerPositions[p]) <= MaxRecent
    /\ proposed \in [round : Nat, prop : Positions]
    /\ clock \in Nat
    /\ openParent \in Ledger \cup {NoLedger}
    /\ netLedger \in Ledger
    /\ msgs \in Nat
    /\ switches \in Nat
    /\ rounds \in Nat

LEMMA Split == IInv <=> Flags /\ TypeRest /\ Control /\ Data
  BY SMTT(30) DEF IInv, TypeOK, Flags, TypeRest, Data, PeersOK

LEMMA Joined == Flags' /\ TypeRest' /\ Control' /\ Data' => IInv'
  BY DEF IInv, TypeOK, Flags, TypeRest, Data, PeersOK

LEMMA BoundsType == SeqLeave \in Nat \ {0} /\ MaxRecent \in Nat \ {0} /\ StartClock \in Nat
  BY ConsensusAssumption

LEMMA InfoType ==
    ASSUME NEW l \in Ledger
    PROVE  /\ LedgerInfo[l].seq \in Nat
           /\ LedgerInfo[l].closeTime \in Nat
           /\ LedgerInfo[l].closeTimeResolution \in Resolutions
  BY ConsensusAssumption

LEMMA InitOK == Init => IInv
  <1> SUFFICES ASSUME Init PROVE Flags /\ TypeRest /\ Control /\ Data
    BY Split
  <1>1. TypeRest
    BY BoundsType DEF Init, TypeRest, Positions, NoPosition
  <1>2. Control
    BY DEF taken, Init, Control, StanceMatchesPhase, ProposingOnOurLedger
  <1>3. Data
    BY NothingType DEF taken, Init, Data, PeersOK, Disputed, PeersOnOurLedger
  <1>4. Flags
    BY Zenon DEF Init, Flags
  <1> QED
    BY <1>1, <1>2, <1>3, <1>4

\* startRoundInternal: a clean round.
LEMMA FreshRoundOK ==
    ASSUME IInv, NEW prevID \in Ledger, NEW prevLedger \in Ledger, NEW startMode, NEW recent,
           startRoundInternal(prevID, prevLedger, startMode, recent)
    PROVE  Data'
  BY NothingType DEF taken, startRoundInternal, Data, PeersOK, Disputed, PeersOnOurLedger

LEMMA StartRoundOK ==
    ASSUME IInv, startRound
    PROVE  IInv'
  <1>0. Flags /\ TypeRest /\ Control /\ Data
    BY Split
  <1>1. PICK handed \in Ledger, nowUntrusted \in Distrusted, proposing \in BOOLEAN,
             have \in BOOLEAN :
          LET recent == [p \in Peer |-> IF p \in nowUntrusted THEN <<>>
                                        ELSE recentPeerPositions[p]]
              wrong == handed # netLedger /\ ~have
          IN  /\ proposing => handed = netLedger
              /\ prevRoundTime' = IF firstRound THEN ledgerIDLE_INTERVAL ELSE prevRoundTime
              /\ prevCloseTime' = IF firstRound THEN LedgerInfo[handed].closeTime
                                  ELSE rawCloseTimesSelf
              /\ recentPeerPositions' = recent
              /\ openParent' = handed
              /\ startRoundInternal(netLedger, IF wrong THEN handed ELSE netLedger,
                                    IF wrong THEN "wrongLedger"
                                    ELSE IF proposing THEN "proposing" ELSE "observing",
                                    recent)
    BY DEF startRound
  <1> DEFINE recent == [p \in Peer |-> IF p \in nowUntrusted THEN <<>>
                                       ELSE recentPeerPositions[p]]
             wrong == handed # netLedger /\ ~have
             startMode == IF wrong THEN "wrongLedger"
                          ELSE IF proposing THEN "proposing" ELSE "observing"
             ledger == IF wrong THEN handed ELSE netLedger
  <1>2. startRoundInternal(netLedger, ledger, startMode, recent)
    BY <1>1, Zenon
  <1>3. netLedger \in Ledger /\ ledger \in Ledger
    BY <1>0 DEF TypeRest
  <1>4. /\ recent \in [Peer -> Seq(Proposal)]
        /\ \A p \in Peer : Len(recent[p]) <= MaxRecent
    <2>1. ASSUME NEW p \in Peer
          PROVE  recent[p] \in Seq(Proposal) /\ Len(recent[p]) <= MaxRecent
      <3>1. CASE p \in nowUntrusted
        <4>1. recent[p] = <<>>
          BY <3>1
        <4>2. <<>> \in Seq(Proposal) /\ Len(<<>>) = 0
          OBVIOUS
        <4> HIDE DEF recent
        <4> QED
          BY <4>1, <4>2, BoundsType
      <3>2. CASE p \notin nowUntrusted
        BY <1>0, <3>2 DEF TypeRest
      <3> QED
        BY <3>1, <3>2
    <2> QED
      BY <2>1, SMTT(30)
  <1>5. startMode \in {"proposing", "observing", "wrongLedger"}
    OBVIOUS
  <1>6. /\ startMode = "proposing" => handed = netLedger
        /\ ledger # netLedger => startMode = "wrongLedger"
    BY <1>1
  <1> HIDE DEF recent, wrong, startMode, ledger
  <1>7. Data'
    BY <1>2, <1>3, FreshRoundOK
  <1>8. /\ phase' = "open" /\ mode' = startMode
        /\ prevLedgerID' = netLedger /\ previousLedger' = ledger
        /\ state' = "None"
        /\ openStart' = clock /\ rawCloseTimesSelf' = 0
        /\ replay' = recent /\ pc' = "started"
    BY <1>2, SMTT(30) DEF startRoundInternal
  <1>9. /\ recentPeerPositions' = recent /\ openParent' = handed /\ rounds' = rounds + 1
        /\ UNCHANGED <<frames, prevProposers, position, roundStart, proposed,
                       clock, netLedger, msgs, switches>>
    BY <1>1 DEF startRound, recent
  <1>10. TypeRest'
    <2>1. prevRoundTime' \in Nat
      BY <1>0, <1>1, SMTT(30) DEF TypeRest, ledgerIDLE_INTERVAL
    <2>2. prevCloseTime' \in Nat
      BY <1>0, <1>1, InfoType, SMTT(30) DEF TypeRest
    <2> QED
      BY <1>0, <1>3, <1>4, <1>5, <1>8, <1>9, <2>1, <2>2, SMTT(60) DEF TypeRest
  <1>11. Control'
    BY <1>0, <1>3, <1>5, <1>6, <1>8, <1>9
    DEF taken, Control, TypeRest, StanceMatchesPhase, ProposingOnOurLedger
  <1>12. Flags'
    BY <1>2, Zenon DEF Flags, startRound, startRoundInternal
  <1> QED
    BY <1>7, <1>10, <1>11, <1>12, Joined

\* Control only reads these.
LEMMA ControlFrame ==
    ASSUME Control, UNCHANGED <<pc, frames, phase, previousLedger, prevLedgerID, mode, state,
                                openParent, position, proposed, rounds>>
    PROVE  Control'
  BY DEF taken, Control, StanceMatchesPhase, ProposingOnOurLedger

LEMMA RememberType ==
    ASSUME NEW props \in Seq(Proposal), NEW m \in Proposal, Len(props) <= MaxRecent
    PROVE  Remember(props, m) \in Seq(Proposal) /\ Len(Remember(props, m)) <= MaxRecent
  <1>1. MaxRecent \in Nat \ {0}
    BY BoundsType
  <1>2. CASE Len(props) >= MaxRecent
    <2>1. props # <<>>
      BY <1>1, <1>2
    <2>2. Tail(props) \in Seq(Proposal) /\ Len(Tail(props)) = Len(props) - 1
      BY <2>1
    <2> HIDE DEF Proposal
    <2> DEFINE rest == Tail(props)
    <2> HIDE DEF rest
    <2>3. rest \in Seq(Proposal) /\ Len(rest) = Len(props) - 1
      BY <2>2 DEF rest
    <2>4. Remember(props, m) = Append(rest, m)
      BY <1>2 DEF Remember, rest
    <2>5. Append(rest, m) \in Seq(Proposal) /\ Len(Append(rest, m)) = Len(rest) + 1
      BY <2>3
    <2>6. Len(props) \in Nat
      OBVIOUS
    <2> QED
      BY <1>1, <2>3, <2>4, <2>5, <2>6
  <1>3. CASE ~(Len(props) >= MaxRecent)
    <2>1. Remember(props, m) = Append(props, m)
      BY <1>3 DEF Remember
    <2>2. Append(props, m) \in Seq(Proposal) /\ Len(Append(props, m)) = Len(props) + 1
      OBVIOUS
    <2>3. Len(props) \in Nat
      OBVIOUS
    <2> QED
      BY <1>1, <1>3, <2>1, <2>2, <2>3
  <1> QED
    BY <1>2, <1>3

LEMMA PeerProposalStep ==
    ASSUME IInv, NEW p \in Peer, PeerProposal(p)
    PROVE  IInv'
  <1>0. Flags /\ TypeRest /\ Control /\ Data
    BY Split
  <1>1. PICK l \in Ledger, seq \in PeerSeqs, s \in PeerSets, ct \in CloseTimes :
          LET m == [prevLedger |-> l, proposeSeq |-> seq, position |-> s,
                    closeTime |-> ct, time |-> now] IN
          /\ recentPeerPositions' = [recentPeerPositions EXCEPT ![p] = Remember(@, m)]
          /\ peerProposalInternal(p, m)
    BY Zenon DEF PeerProposal
  <1> DEFINE m == [prevLedger |-> l, proposeSeq |-> seq, position |-> s,
                   closeTime |-> ct, time |-> now]
  <1>2. now \in Nat
    BY <1>0 DEF TypeRest, now
  <1>3. m \in Proposal
    <2>1. seq \in Nat /\ s \in SUBSET Tx /\ ct \in Nat
      BY ConsensusAssumption
    <2> QED
      BY <1>2, <2>1 DEF Proposal
  <1>4. /\ recentPeerPositions' = [recentPeerPositions EXCEPT ![p] = Remember(@, m)]
        /\ peerProposalInternal(p, m)
    BY <1>1
  <1> HIDE DEF m
  <1>5. /\ UNCHANGED <<control, round, state, position, roundStart, proposed,
                       clock, openParent, netLedger, switches, rounds>>
        /\ msgs' = msgs + 1
    BY SMTT(30) DEF PeerProposal
  <1>6. Data'
    <2>1. position.position \in SUBSET Tx
      BY <1>0 DEF TypeRest, Positions
    <2>2. UNCHANGED <<state, position, prevLedgerID>>
      BY <1>5 DEF round
    <2> QED
      BY <1>0, <1>3, <1>4, <2>1, <2>2, PeerProposalOK
  <1>7. /\ recentPeerPositions' \in [Peer -> Seq(Proposal)]
        /\ \A q \in Peer : Len(recentPeerPositions'[q]) <= MaxRecent
    <2>1. /\ Remember(recentPeerPositions[p], m) \in Seq(Proposal)
          /\ Len(Remember(recentPeerPositions[p], m)) <= MaxRecent
      BY <1>0, <1>3, RememberType, SMTT(30) DEF TypeRest
    <2> QED
      BY <1>0, <1>4, <2>1 DEF TypeRest
  <1>8. TypeRest'
    BY <1>0, <1>5, <1>7 DEF TypeRest, control, round
  <1>9. Control'
    BY <1>0, <1>5, ControlFrame DEF control, round
  <1>10. Flags'
    BY <1>0, <1>5, Zenon DEF Flags, round
  <1> QED
    BY <1>6, <1>8, <1>9, <1>10, Joined

LEMMA GotTxSetStep ==
    ASSUME IInv, NEW s \in PeerSets, gotTxSet(s)
    PROVE  IInv'
  <1>0. Flags /\ TypeRest /\ Control /\ Data
    BY Split
  <1>1. s \in SUBSET Tx
    BY ConsensusAssumption
  <1>2. /\ s \notin acquired
        /\ gotTxSetInternal(s, currPeerPositions)
        /\ UNCHANGED <<control, round, state, position, roundStart, currPeerPositions,
                       deadNodes, recentPeerPositions, proposed, env>>
    BY DEF gotTxSet
  <1>3. Data'
    <2>1. position.position \in SUBSET Tx /\ PeersOK(currPeerPositions)
      BY <1>0 DEF TypeRest, Positions, Data
    <2>2. /\ acquired' \subseteq SUBSET Tx
          /\ compares' \subseteq SUBSET Tx
          /\ DOMAIN disputes' \subseteq Tx
          /\ disputes' \in [DOMAIN disputes' -> Dispute]
          /\ Disputed'
      BY <1>0, <1>1, <1>2, <2>1, GotTxSetOK
    <2>3. PeersOnOurLedger' /\ PeersOK(currPeerPositions') /\ deadNodes' \subseteq Peer
      BY <1>0, <1>2 DEF Data, PeersOnOurLedger, round
    <2> QED
      BY <2>2, <2>3 DEF Data
  <1>4. TypeRest'
    BY <1>0, <1>2 DEF TypeRest, control, round, env
  <1>5. Control'
    BY <1>0, <1>2, ControlFrame DEF control, round, env
  <1>6. Flags'
    BY <1>0, <1>2, Zenon DEF Flags, round
  <1> QED
    BY <1>3, <1>4, <1>5, <1>6, Joined

LEMMA PlaybackStep ==
    ASSUME IInv, NEW p \in Peer, playbackProposals(p)
    PROVE  IInv'
  <1>0. Flags /\ TypeRest /\ Control /\ Data
    BY Split
  <1>1. /\ replay[p] # <<>>
        /\ replay' = [replay EXCEPT ![p] = Tail(@)]
        /\ peerProposalInternal(p, Head(replay[p]))
        /\ UNCHANGED <<pc, frames, round, state, position, roundStart,
                       recentPeerPositions, proposed, env>>
    BY DEF playbackProposals
  <1>2. Head(replay[p]) \in Proposal /\ Tail(replay[p]) \in Seq(Proposal)
    BY <1>0, <1>1, SMTT(30) DEF TypeRest
  <1>3. Data'
    <2>1. position.position \in SUBSET Tx
      BY <1>0 DEF TypeRest, Positions
    <2>2. UNCHANGED <<state, position, prevLedgerID>>
      BY <1>1 DEF round
    <2> QED
      BY <1>0, <1>1, <1>2, <2>1, <2>2, PeerProposalOK
  <1>4. replay' \in [Peer -> Seq(Proposal)]
    BY <1>0, <1>1, <1>2, SMTT(30) DEF TypeRest
  <1>5. TypeRest'
    BY <1>0, <1>1, <1>4 DEF TypeRest, round, env
  <1>6. Control'
    BY <1>0, <1>1, ControlFrame DEF round, env
  <1>7. Flags'
    BY <1>0, <1>1, Zenon DEF Flags, round
  <1> QED
    BY <1>3, <1>5, <1>6, <1>7, Joined

\* Data only reads these.
LEMMA DataFrame ==
    ASSUME Data, position'.position = position.position,
           UNCHANGED <<currPeerPositions, deadNodes, acquired, compares, disputes, state,
                       prevLedgerID>>
    PROVE  Data'
  BY DEF taken, Data, Disputed, PeersOnOurLedger

LEMMA RoundStartedStep ==
    ASSUME IInv, RoundStarted
    PROVE  IInv'
  <1>0. Flags /\ TypeRest /\ Control /\ Data
    BY Split
  <1>1. /\ pc' \in {"timer", "phase", "idle"}
        /\ pc' = "phase" => frames > 0
        /\ pc = "started"
        /\ UNCHANGED <<frames, replay, round, result, peers, recentPeerPositions, proposed, env>>
    BY DEF RoundStarted, Return
  <1>2. Data'
    BY <1>0, <1>1, DataFrame, SMTT(30) DEF round, result, peers
  <1>3. TypeRest'
    BY <1>0, <1>1, SMTT(30) DEF TypeRest, round, result, env
  <1>4. Control'
    BY <1>0, <1>1 DEF taken, Control, StanceMatchesPhase, ProposingOnOurLedger,
                      round, result, env
  <1>5. Flags'
    BY <1>0, <1>1, Zenon DEF Flags, round
  <1> QED
    BY <1>2, <1>3, <1>4, <1>5, Joined

LEMMA TickStep ==
    ASSUME IInv, Tick
    PROVE  IInv'
  <1>0. Flags /\ TypeRest /\ Control /\ Data
    BY Split
  <1>1. PICK d \in TickSteps : clock' = clock + d
    BY DEF Tick
  <1>2. d \in Nat
    BY ConsensusAssumption
  <1>3. UNCHANGED <<control, round, result, peers, recentPeerPositions, proposed,
                    openParent, netLedger, msgs, switches, rounds>>
    BY DEF Tick
  <1>4. Data'
    BY <1>0, <1>3, DataFrame, SMTT(30) DEF round, result, peers
  <1>5. TypeRest'
    BY <1>0, <1>1, <1>2, <1>3 DEF TypeRest, control, round, result
  <1>6. Control'
    BY <1>0, <1>3, ControlFrame DEF control, round, result
  <1>7. Flags'
    BY <1>0, <1>3, Zenon DEF Flags, round
  <1> QED
    BY <1>4, <1>5, <1>6, <1>7, Joined

LEMMA NetworkStep ==
    ASSUME IInv, NetworkSwitches
    PROVE  IInv'
  <1>0. Flags /\ TypeRest /\ Control /\ Data
    BY Split
  <1>1. /\ netLedger' \in Ledger
        /\ switches' = switches + 1
        /\ UNCHANGED <<control, round, result, peers, recentPeerPositions, proposed,
                       clock, openParent, msgs, rounds>>
    BY DEF NetworkSwitches
  <1>2. Data'
    BY <1>0, <1>1, DataFrame, SMTT(30) DEF round, result, peers
  <1>3. TypeRest'
    BY <1>0, <1>1 DEF TypeRest, control, round, result
  <1>4. Control'
    BY <1>0, <1>1, ControlFrame DEF control, round, result
  <1>5. Flags'
    BY <1>0, <1>1, Zenon DEF Flags, round
  <1> QED
    BY <1>2, <1>3, <1>4, <1>5, Joined

\* What leaving the consensus process does to mode, position and proposals.
LEMMA LeaveConsensusOK ==
    ASSUME IInv, leaveConsensus
    PROVE  /\ mode' \in {"observing", "wrongLedger", "switchedLedger"}
           /\ position' \in Positions
           /\ position'.position = position.position
           /\ position'.prevLedger = position.prevLedger
           /\ position'.proposeSeq <= SeqLeave
           /\ proposed' \in [round : Nat, prop : Positions]
           /\ proposed'.round <= rounds
  <1>0. TypeRest /\ Control
    BY Split
  <1>1. now \in Nat
    BY <1>0 DEF TypeRest, now
  <1>2. SeqLeave \in Nat
    BY BoundsType
  <1>3. /\ bowOut(position) \in Positions
        /\ bowOut(position).position = position.position
        /\ bowOut(position).prevLedger = position.prevLedger
        /\ bowOut(position).proposeSeq = SeqLeave
    BY <1>0, <1>1, <1>2, Zenon DEF TypeRest, Positions, bowOut
  <1>4. mode' \in {"observing", "wrongLedger", "switchedLedger"}
    BY <1>0, SMTT(30) DEF TypeRest, leaveConsensus
  <1>5. CASE mode = "proposing" /\ taken /\ position.proposeSeq # SeqLeave
    <2>1. /\ position' = bowOut(position)
          /\ proposed' = [round |-> rounds, prop |-> bowOut(position)]
      BY <1>5 DEF leaveConsensus, propose
    <2>2. position.prevLedger \in Ledger \cup {NoLedger} /\ rounds \in Nat
      BY <1>0 DEF TypeRest, Positions
    <2> QED
      BY <1>2, <1>3, <1>4, <2>1, <2>2
  <1>6. CASE ~(mode = "proposing" /\ taken /\ position.proposeSeq # SeqLeave)
    BY <1>0, <1>4, <1>6 DEF leaveConsensus, TypeRest, Control
  <1> QED
    BY <1>5, <1>6

LEMMA TimerEntryStep ==
    ASSUME IInv, timerEntry
    PROVE  IInv'
  <1>0. Flags /\ TypeRest /\ Control /\ Data
    BY Split
  <1>1. /\ pc = "idle" \/ pc = "timer"
        /\ phase # "accepted"
        /\ frames' = frames + 1
        /\ UNCHANGED <<phase, previousLedger, firstRound, prevProposers, prevRoundTime,
                       prevCloseTime, rawCloseTimesSelf, openStart, state, roundStart,
                       acquired, recentPeerPositions, env>>
    BY DEF timerEntry
  <1>2. Flags'
    BY <1>0, <1>1, Zenon DEF Flags
  <1>3. CASE netLedger = prevLedgerID /\ previousLedger = prevLedgerID
    <2>1. /\ pc' = "phase"
          /\ UNCHANGED <<replay, mode, prevLedgerID, position, disputes, compares,
                         currPeerPositions, deadNodes, proposed>>
      BY <1>3 DEF timerEntry, checkLedger
    <2>2. Data'
      BY <1>0, <1>1, <2>1, DataFrame, SMTT(30)
    <2>3. TypeRest'
      BY <1>0, <1>1, <2>1, SMTT(30) DEF TypeRest, env
    <2>4. Control'
      BY <1>0, <1>1, <2>1 DEF taken, Control, TypeRest, StanceMatchesPhase,
                              ProposingOnOurLedger, env
    <2> QED
      BY <1>2, <2>2, <2>3, <2>4, Joined
  <1>4. CASE ~(netLedger = prevLedgerID /\ previousLedger = prevLedgerID)
    <2>1. leaveConsensus /\ pc' = "switch"
      BY <1>4 DEF timerEntry, checkLedger, handleWrongLedger
    <2>2. \/ prevLedgerID # netLedger /\ SyncTo(netLedger)
          \/ /\ prevLedgerID = netLedger
             /\ UNCHANGED <<prevLedgerID, disputes, compares, currPeerPositions,
                            deadNodes, replay>>
      BY <1>4, SMTT(30) DEF timerEntry, checkLedger, handleWrongLedger
    <2>3. /\ mode' \in {"observing", "wrongLedger", "switchedLedger"}
          /\ position' \in Positions
          /\ position'.position = position.position
          /\ position'.prevLedger = position.prevLedger
          /\ position'.proposeSeq <= SeqLeave
          /\ proposed' \in [round : Nat, prop : Positions]
          /\ proposed'.round <= rounds
      BY <2>1, LeaveConsensusOK
    <2>4. prevLedgerID' = netLedger
      BY <2>2 DEF SyncTo
    <2>5. Data'
      <3>1. CASE SyncTo(netLedger)
        <4>1. /\ disputes' = Nothing /\ compares' = {} /\ currPeerPositions' = Nothing
              /\ deadNodes' = {}
          BY <3>1, SMTT(30) DEF SyncTo
        <4>2. Disputed'
          BY <1>0, <1>1, <2>3, <4>1, NothingType
          DEF taken, Data, Disputed, DisputesOK
        <4> QED
          BY <1>0, <1>1, <4>1, <4>2, NothingType DEF Data, PeersOK, PeersOnOurLedger
      <3>2. CASE UNCHANGED <<prevLedgerID, disputes, compares, currPeerPositions,
                             deadNodes, replay>>
        BY <1>0, <1>1, <2>3, <3>2, DataFrame, Zenon
      <3> QED
        BY <2>2, <3>1, <3>2
    <2>6. replay' \in [Peer -> Seq(Proposal)]
      BY <1>0, <2>2, SMTT(30) DEF TypeRest, SyncTo
    <2>7. TypeRest'
      BY <1>0, <1>1, <2>1, <2>3, <2>4, <2>6, SMTT(30) DEF TypeRest, env
    <2>8. Control'
      BY <1>0, <1>1, <2>1, <2>3, <2>4
      DEF taken, Control, TypeRest, StanceMatchesPhase, ProposingOnOurLedger, env
    <2> QED
      BY <1>2, <2>5, <2>7, <2>8, Joined
  <1> QED
    BY <1>3, <1>4

LEMMA SwitchLedgerStep ==
    ASSUME IInv, SwitchLedger
    PROVE  IInv'
  <1>0. Flags /\ TypeRest /\ Control /\ Data
    BY Split
  <1>1. /\ pc = "switch"
        /\ UNCHANGED <<frames, recentPeerPositions, proposed, env>>
    BY SMTT(30) DEF SwitchLedger
  <1>2. frames > 0 /\ phase # "accepted" /\ prevLedgerID \in Ledger
    BY <1>0, <1>1 DEF Control
  <1>3. CASE /\ previousLedger = prevLedgerID
             /\ pc' = "phase"
             /\ UNCHANGED <<replay, round, result, peers>>
    <2>1. Data'
      BY <1>0, <1>3, DataFrame, SMTT(30) DEF round, result, peers
    <2>2. TypeRest'
      BY <1>0, <1>1, <1>3 DEF TypeRest, round, result, env
    <2>3. Control'
      BY <1>0, <1>1, <1>2, <1>3, Zenon
      DEF taken, Control, StanceMatchesPhase, ProposingOnOurLedger, round, result, env
    <2>4. Flags'
      BY <1>0, <1>3, Zenon DEF Flags, round
    <2> QED
      BY <2>1, <2>2, <2>3, <2>4, Joined
  <1>4. CASE previousLedger # prevLedgerID /\ SwitchTo
    <2>1. startRoundInternal(prevLedgerID, prevLedgerID, "switchedLedger", recentPeerPositions)
      BY <1>4 DEF SwitchTo
    <2>2. UNCHANGED <<firstRound, prevProposers, prevRoundTime, prevCloseTime,
                      position, roundStart>>
      BY <1>4 DEF SwitchTo
    <2>3. Data'
      BY <1>2, <2>1, FreshRoundOK, SMTT(30)
    <2>4. TypeRest'
      BY <1>0, <1>1, <1>2, <2>1, <2>2, SMTT(30) DEF TypeRest, startRoundInternal, env
    <2>5. Control'
      BY <1>0, <1>1, <1>2, <2>1, <2>2
      DEF taken, Control, TypeRest, StanceMatchesPhase, ProposingOnOurLedger,
          startRoundInternal, env
    <2>6. Flags'
      BY <1>0, <2>2, Zenon DEF Flags
    <2> QED
      BY <2>3, <2>4, <2>5, <2>6, Joined
  <1>5. CASE previousLedger # prevLedgerID /\ LackLedger
    <2>1. /\ mode' = "wrongLedger"
          /\ pc' = "phase"
          /\ UNCHANGED <<replay, phase, prevLedgerID, previousLedger, firstRound, prevProposers,
                         prevRoundTime, prevCloseTime, rawCloseTimesSelf, openStart,
                         result, peers>>
      BY <1>5 DEF LackLedger
    <2>2. Data'
      BY <1>0, <2>1, DataFrame, SMTT(30) DEF result, peers
    <2>3. TypeRest'
      BY <1>0, <1>1, <2>1 DEF TypeRest, result, env
    <2>4. Control'
      BY <1>0, <1>1, <1>2, <2>1, Zenon
      DEF taken, Control, StanceMatchesPhase, ProposingOnOurLedger, result, env
    <2>5. Flags'
      BY <1>0, <2>1, Zenon DEF Flags
    <2> QED
      BY <2>2, <2>3, <2>4, <2>5, Joined
  <1> QED
    BY <1>3, <1>4, <1>5 DEF SwitchLedger

\* Taking a stance: every set of a peer that is at hand is compared with ours.
LEMMA CloseLedgerOK ==
    ASSUME IInv, phase = "open", NEW s \in OpenSets, closeLedger(s),
           UNCHANGED <<currPeerPositions, deadNodes, prevLedgerID>>
    PROVE  /\ Data'
           /\ position' = [prevLedger |-> openParent, proposeSeq |-> 0, position |-> s,
                           closeTime |-> now, time |-> now]
           /\ position' \in Positions
           /\ state' = "No" /\ roundStart' = clock /\ rawCloseTimesSelf' \in Nat
           /\ IF mode = "proposing"
              THEN proposed' = [round |-> rounds, prop |-> position']
              ELSE proposed' = proposed
  <1>0. Flags /\ TypeRest /\ Control /\ Data
    BY Split
  <1>1. s \in SUBSET Tx
    BY ConsensusAssumption
  <1>2. now \in Nat
    BY <1>0 DEF TypeRest, now
  <1> DEFINE ours == [prevLedger |-> openParent, proposeSeq |-> 0, position |-> s,
                      closeTime |-> now, time |-> now]
             acq == acquired \cup {s}
             others == {currPeerPositions[p].position : p \in DOMAIN currPeerPositions} \cap acq
             new == createDisputes(Nothing, others, s, currPeerPositions, acq)
  <1>3. /\ position' = ours /\ state' = "No" /\ roundStart' = clock
        /\ rawCloseTimesSelf' = now /\ acquired' = acq
        /\ disputes' = new /\ compares' = others
    BY Zenon DEF closeLedger
  <1>4. ours \in Positions
    BY <1>0, <1>1, <1>2 DEF TypeRest, Positions
  <1>5. acq \subseteq SUBSET Tx /\ others \in SUBSET SUBSET Tx
    BY <1>0, <1>1 DEF Data
  <1>6. /\ DOMAIN new \subseteq Tx
        /\ new \in [DOMAIN new -> Dispute]
        /\ \A o \in others : differences(s, o) \subseteq DOMAIN new
        /\ \A t \in DOMAIN new : new[t].ourVote = (t \in s)
        /\ \A t \in DOMAIN new : VotesOn(new[t], t, currPeerPositions, acq)
    <2> DEFINE none == {}
    <2>1. PeersOK(currPeerPositions)
      BY <1>0 DEF Data
    <2>2. /\ DOMAIN Nothing \subseteq Tx /\ Nothing \in [DOMAIN Nothing -> Dispute]
          /\ \A o \in none : differences(s, o) \subseteq DOMAIN Nothing
          /\ \A t \in DOMAIN Nothing : Nothing[t].ourVote = (t \in s)
      BY NothingType
    <2> HIDE DEF others, acq, none
    <2>3. /\ DOMAIN Nothing \subseteq DOMAIN new
          /\ DOMAIN new \subseteq Tx
          /\ new \in [DOMAIN new -> Dispute]
          /\ \A o \in none \cup others : differences(s, o) \subseteq DOMAIN new
          /\ \A t \in DOMAIN new : new[t].ourVote = (t \in s)
          /\ \A t \in DOMAIN Nothing : new[t] = Nothing[t]
          /\ \A t \in DOMAIN new \ DOMAIN Nothing : VotesOn(new[t], t, currPeerPositions, acq)
      BY <1>1, <1>5, <2>1, <2>2, CreateDisputesOK, ZenonT(30)
    <2> HIDE DEF new
    <2> QED
      BY <2>3, NothingType
  <1>7. \A p \in DOMAIN currPeerPositions :
            currPeerPositions[p].position \in acq => currPeerPositions[p].position \in others
    OBVIOUS
  <1>8. s \in acq
    OBVIOUS
  <1>9. ours.position = s
    OBVIOUS
  <1> HIDE DEF new, others, acq, ours
  <1>10. DisputesOK(new, others, s, currPeerPositions, acq)
    BY <1>6, <1>7 DEF DisputesOK
  <1>11. Disputed'
    BY <1>3, <1>8, <1>9, <1>10, SMTT(30) DEF taken, Disputed
  <1>12. Data'
    BY <1>0, <1>3, <1>5, <1>6, <1>11 DEF Data, PeersOnOurLedger
  <1>13. IF mode = "proposing"
         THEN proposed' = [round |-> rounds, prop |-> position']
         ELSE proposed' = proposed
    BY Zenon DEF closeLedger, propose
  <1> QED
    BY <1>2, <1>3, <1>4, <1>12, <1>13 DEF ours

\* Control after closing: the stance is on the ledger we propose on.
LEMMA CloseControlOK ==
    ASSUME IInv, phase = "open",
           phase' \in {"establish", "accepted"},
           pc' \in {"phase", "idle"}, pc' = "phase" => frames' > 0,
           position' = [prevLedger |-> openParent, proposeSeq |-> 0, position |-> position'.position,
                        closeTime |-> now, time |-> now],
           state' = "No",
           IF mode = "proposing"
           THEN proposed' = [round |-> rounds, prop |-> position']
           ELSE proposed' = proposed,
           UNCHANGED <<mode, prevLedgerID, previousLedger, openParent, rounds>>,
           previousLedger # prevLedgerID => mode = "wrongLedger"
    PROVE  Control'
  <1>0. TypeRest /\ Control
    BY Split, SMTT(30)
  <1>1. position'.prevLedger = openParent /\ position'.proposeSeq = 0
    OBVIOUS
  <1>2. CASE mode = "proposing"
    <2>1. proposed'.round = rounds /\ proposed'.prop.proposeSeq = 0
      BY <1>2
    <2>2. /\ mode' = "proposing" /\ taken' /\ rounds' = rounds
          /\ openParent' = openParent /\ prevLedgerID' = prevLedgerID
          /\ previousLedger' = previousLedger
          /\ phase' # "open" /\ pc' # "switch"
      BY <1>2 DEF taken
    <2>3. /\ previousLedger \in Ledger /\ prevLedgerID \in Ledger
          /\ openParent = prevLedgerID
          /\ rounds \in Nat
      BY <1>0, <1>2 DEF Control, TypeRest
    <2>4. previousLedger = prevLedgerID
      BY <1>2
    <2>5. StanceMatchesPhase'
      BY <2>2 DEF StanceMatchesPhase
    <2>6. ProposingOnOurLedger'
      BY <1>1, <2>2, <2>3 DEF ProposingOnOurLedger
    <2>7. /\ proposed'.round <= rounds'
          /\ proposed'.prop.proposeSeq <= position'.proposeSeq
      BY <1>1, <2>1, <2>2, <2>3
    <2>8. pc' \in {"phase", "switch"} => frames' > 0
      BY <2>2
    <2> QED
      BY <2>2, <2>3, <2>4, <2>5, <2>6, <2>7, <2>8, Zenon DEF Control
  <1>3. CASE mode # "proposing"
    BY <1>0, <1>1, <1>3, Zenon
    DEF taken, Control, TypeRest, StanceMatchesPhase, ProposingOnOurLedger
  <1> QED
    BY <1>2, <1>3, SMTT(30)

\* Going on in timerEntry's last part keeps the stack right.
LEMMA RunPhaseReturns ==
    ASSUME IInv, RunPhase
    PROVE  /\ pc = "phase"
           /\ frames' \in Nat
           /\ pc' \in {"phase", "idle"}
           /\ pc' = "phase" => frames' > 0
           /\ UNCHANGED <<replay, recentPeerPositions, env>>
           /\ previousLedger # prevLedgerID => mode = "wrongLedger"
  <1>0. TypeRest /\ Control
    BY Split
  <1>1. /\ pc = "phase" /\ frames' = frames - 1 /\ pc' = Return(frames - 1)
        /\ UNCHANGED <<replay, recentPeerPositions, env>>
    BY SMTT(30) DEF RunPhase
  <1>2. frames > 0 /\ frames \in Nat
    BY <1>0, <1>1, SMTT(30) DEF Control, TypeRest
  <1>3. previousLedger # prevLedgerID => mode = "wrongLedger"
    BY <1>0, <1>1 DEF Control
  <1>4. /\ frames' \in Nat
        /\ pc' \in {"phase", "idle"}
        /\ pc' = "phase" => frames' > 0
    BY <1>1, <1>2 DEF Return
  <1> QED
    BY <1>1, <1>3, <1>4

LEMMA PhaseOpenStep ==
    ASSUME IInv, RunPhase, phaseOpen
    PROVE  IInv'
  <1>0. Flags /\ TypeRest /\ Control /\ Data
    BY Split
  <1>1. /\ pc = "phase"
        /\ frames' \in Nat
        /\ pc' \in {"phase", "idle"}
        /\ pc' = "phase" => frames' > 0
        /\ UNCHANGED <<replay, recentPeerPositions, env>>
        /\ previousLedger # prevLedgerID => mode = "wrongLedger"
    BY RunPhaseReturns
  <1>2. /\ phase = "open"
        /\ UNCHANGED <<mode, prevLedgerID, previousLedger, firstRound, prevProposers,
                       prevRoundTime, prevCloseTime, openStart, currPeerPositions, deadNodes>>
    BY DEF phaseOpen
  <1>3. Flags'
    BY <1>0, <1>2, Zenon DEF Flags
  <1>4. CASE UNCHANGED <<phase, rawCloseTimesSelf, result, acquired, proposed>>
    <2>1. Data'
      BY <1>0, <1>2, <1>4, DataFrame, SMTT(30) DEF result
    <2>2. TypeRest'
      BY <1>0, <1>1, <1>2, <1>4 DEF TypeRest, result, env
    <2>3. Control'
      BY <1>0, <1>1, <1>2, <1>4, Zenon
      DEF taken, Control, StanceMatchesPhase, ProposingOnOurLedger, result, env
    <2> QED
      BY <1>3, <2>1, <2>2, <2>3, Joined
  <1>5. ASSUME NEW s \in OpenSets, closeLedger(s), phase' = "establish"
        PROVE  IInv'
    <2>1. /\ Data'
          /\ position' = [prevLedger |-> openParent, proposeSeq |-> 0, position |-> s,
                          closeTime |-> now, time |-> now]
          /\ position' \in Positions
          /\ state' = "No" /\ roundStart' = clock /\ rawCloseTimesSelf' \in Nat
          /\ IF mode = "proposing"
             THEN proposed' = [round |-> rounds, prop |-> position']
             ELSE proposed' = proposed
      BY <1>2, <1>5, CloseLedgerOK, SMTT(30)
    <2>2. position'.position = s /\ position'.proposeSeq = 0
      BY <2>1
    <2>3. Control'
      BY <1>1, <1>2, <1>5, <2>1, <2>2, CloseControlOK, ZenonT(30) DEF env
    <2>4. proposed' \in [round : Nat, prop : Positions]
      BY <1>0, <2>1 DEF TypeRest
    <2>5. /\ position' \in Positions /\ position'.proposeSeq <= SeqLeave
          /\ state' = "No" /\ rawCloseTimesSelf' \in Nat
          /\ roundStart' \in Nat /\ roundStart' <= clock'
      <3>1. position'.proposeSeq <= SeqLeave
        BY <2>2, BoundsType
      <3>2. clock \in Nat
        BY <1>0 DEF TypeRest
      <3>3. clock' = clock
        BY <1>1, Zenon DEF env
      <3>4. clock <= clock
        BY <3>2, SMTT(30)
      <3> QED
        BY <2>1, <3>1, <3>2, <3>3, <3>4, Zenon
    <2>6. TypeRest'
      BY <1>0, <1>1, <1>2, <1>5, <2>4, <2>5, SMTT(30) DEF TypeRest, env
    <2> QED
      BY <1>3, <2>1, <2>3, <2>6, Joined, SMTT(30)
  <1> QED
    BY <1>4, <1>5 DEF phaseOpen

LEMMA SimulateStep ==
    ASSUME IInv, simulate
    PROVE  IInv'
  <1>0. Flags /\ TypeRest /\ Control /\ Data
    BY Split
  <1>1. /\ pc = "idle" /\ phase = "open" /\ phase' = "accepted"
        /\ prevProposers' = Cardinality(DOMAIN currPeerPositions)
        /\ prevRoundTime' = 100
        /\ UNCHANGED <<control, mode, prevLedgerID, previousLedger, firstRound, prevCloseTime,
                       openStart, currPeerPositions, deadNodes, recentPeerPositions, env>>
    BY DEF simulate, simulatedRoundTime
  <1>2. PICK s \in OpenSets : closeLedger(s)
    BY SMTT(30) DEF simulate
  <1>3. /\ Data'
        /\ position' = [prevLedger |-> openParent, proposeSeq |-> 0, position |-> s,
                        closeTime |-> now, time |-> now]
        /\ position' \in Positions
        /\ state' = "No" /\ roundStart' = clock /\ rawCloseTimesSelf' \in Nat
        /\ IF mode = "proposing"
           THEN proposed' = [round |-> rounds, prop |-> position']
           ELSE proposed' = proposed
    BY <1>1, <1>2, CloseLedgerOK, SMTT(30)
  <1>4. position'.position = s /\ position'.proposeSeq = 0
    BY <1>3
  <1>5. previousLedger # prevLedgerID => mode = "wrongLedger"
    BY <1>0, <1>1, Zenon DEF Control
  <1>6. Control'
    BY <1>1, <1>3, <1>4, <1>5, CloseControlOK, Zenon DEF control, env
  <1>7. prevProposers' \in Nat
    <2>1. DOMAIN currPeerPositions \subseteq Peer
      BY <1>0 DEF Data, PeersOK
    <2> QED
      BY <1>1, <2>1, PeersCounted DEF SubsetsCount
  <1>8. proposed' \in [round : Nat, prop : Positions]
    <2>1. position' \in Positions /\ rounds \in Nat /\ proposed \in [round : Nat, prop : Positions]
      BY <1>0, <1>3 DEF TypeRest
    <2>2. CASE mode = "proposing"
      <3>1. proposed' = [round |-> rounds, prop |-> position']
        BY <1>3, <2>2
      <3> QED
        BY <2>1, <3>1, SMTT(30)
    <2>3. CASE mode # "proposing"
      <3>1. proposed' = proposed
        BY <1>3, <2>3
      <3> QED
        BY <2>1, <3>1, SMTT(30)
    <2> QED
      BY <2>2, <2>3, SMTT(30)
  <1>9. /\ position' \in Positions /\ position'.proposeSeq <= SeqLeave
        /\ state' = "No" /\ rawCloseTimesSelf' \in Nat
        /\ roundStart' \in Nat /\ roundStart' <= clock'
    <2>1. position' \in Positions /\ position'.proposeSeq <= SeqLeave
      BY <1>3, <1>4, BoundsType, SMTT(30)
    <2>2. clock \in Nat
      BY <1>0 DEF TypeRest
    <2>3. clock' = clock
      BY <1>1, Zenon DEF env
    <2>4. clock <= clock
      BY <2>2, SMTT(30)
    <2> QED
      BY <1>3, <2>1, <2>2, <2>3, <2>4, ZenonT(30)
  <1>10. TypeRest'
    BY <1>0, <1>1, <1>7, <1>8, <1>9 DEF TypeRest, control, env
  <1>11. Flags'
    BY <1>0, <1>1, Zenon DEF Flags
  <1> QED
    BY <1>3, <1>6, <1>10, <1>11, Joined, SMTT(30)

\* Rounded close times are times.
LEMMA AsCloseTimeType ==
    ASSUME previousLedger \in Ledger, NEW t \in Nat
    PROVE  asCloseTime(t) \in Nat
  <1>1. /\ LedgerInfo[previousLedger].closeTimeResolution \in Resolutions
        /\ LedgerInfo[previousLedger].seq + 1 \in Nat
    BY InfoType
  <1>2. LedgerInfo[previousLedger].closeAgree \in BOOLEAN
    BY ConsensusAssumption, Zenon
  <1>3. Bins = 1 .. 6 /\ \A b \in Bins : ledgerPossibleTimeResolutions[b] \in Nat \ {0}
    <2>1. Len(ledgerPossibleTimeResolutions) = 6
      BY DEF ledgerPossibleTimeResolutions
    <2> QED
      BY <2>1 DEF Bins, ledgerPossibleTimeResolutions
  <1>4. \A r \in Resolutions : r \in Nat \ {0} /\ BinOf(r) \in Bins
    BY <1>3 DEF Resolutions, BinOf
  <1>5. closeResolution \in Nat \ {0}
    <2>1. ASSUME NEW r \in Resolutions, NEW agree \in BOOLEAN, NEW s \in Nat
          PROVE  getNextLedgerTimeResolution(r, agree, s) \in Nat \ {0}
      <3> DEFINE bin == BinOf(r)
      <3>1. r \in Nat \ {0} /\ bin \in Bins
        BY <1>4, Zenon
      <3>2. bin # 1 => bin - 1 \in Bins
        BY <1>3, <3>1
      <3>3. bin + 1 \in Bins => ledgerPossibleTimeResolutions[bin + 1] \in Nat \ {0}
        BY <1>3, Zenon
      <3>4. bin # 1 => ledgerPossibleTimeResolutions[bin - 1] \in Nat \ {0}
        BY <1>3, <3>2, Zenon
      <3> QED
        BY <3>1, <3>3, <3>4, Zenon DEF getNextLedgerTimeResolution
    <2> QED
      BY <1>1, <1>2, <2>1, Zenon DEF closeResolution
  <1>6. ASSUME NEW s \in Nat, NEW r \in Nat \ {0}
        PROVE  s - (s % r) \in Nat
    BY <1>6
  <1>7. t + closeResolution \div 2 \in Nat
    BY <1>5
  <1> QED
    BY <1>5, <1>6, <1>7, Zenon DEF asCloseTime, roundCloseTime

LEMMA CandidatesType ==
    ASSUME previousLedger \in Ledger, position \in Positions, NEW curr, PeersOK(curr),
           NEW t \in CloseTimeCandidates(curr)
    PROVE  t \in Nat
  <1>1. position.closeTime \in Nat
    BY DEF Positions
  <1>2. \A p \in DOMAIN curr : curr[p].closeTime \in Nat
    BY DEF PeersOK, Proposal
  <1>3. CASE t = 0
    BY <1>3
  <1>4. CASE t = ourCloseTime
    BY <1>1, <1>4, AsCloseTimeType, SMTT(30) DEF ourCloseTime
  <1>5. ASSUME NEW p \in DOMAIN curr, t = asCloseTime(curr[p].closeTime)
        PROVE  t \in Nat
    BY <1>2, <1>5, AsCloseTimeType
  <1> QED
    BY <1>3, <1>4, <1>5 DEF CloseTimeCandidates

LEMMA ChangePositionType ==
    ASSUME NEW pos \in Positions, NEW s \in SUBSET Tx, NEW t \in Nat, now \in Nat
    PROVE  /\ changePosition(pos, s, t) \in Positions
           /\ changePosition(pos, s, t).position = s
           /\ changePosition(pos, s, t).prevLedger = pos.prevLedger
           /\ changePosition(pos, s, t).proposeSeq =
                 IF pos.proposeSeq = SeqLeave THEN SeqLeave ELSE pos.proposeSeq + 1
  <1>1. /\ DOMAIN pos = {"prevLedger", "proposeSeq", "position", "closeTime", "time"}
        /\ pos.proposeSeq \in Nat
        /\ pos.prevLedger \in Ledger \cup {NoLedger}
    BY DEF Positions
  <1>2. (IF pos.proposeSeq = SeqLeave THEN pos.proposeSeq ELSE pos.proposeSeq + 1) \in Nat
    BY <1>1
  <1> QED
    BY <1>1, <1>2, Zenon DEF changePosition, Positions

LEMMA DataJoined ==
    /\ PeersOK(currPeerPositions') /\ deadNodes' \subseteq Peer
    /\ acquired' \subseteq SUBSET Tx /\ compares' \subseteq SUBSET Tx
    /\ DOMAIN disputes' \subseteq Tx /\ disputes' \in [DOMAIN disputes' -> Dispute]
    /\ Disputed' /\ PeersOnOurLedger'
    => Data'
  BY DEF Data

\* Our position changes, or not; disputes and peers stay right, and what is
\* proposed goes up.
LEMMA UpdateOurPositionsOK ==
    ASSUME IInv, taken, previousLedger \in Ledger,
           NEW t \in Nat,
           updateOurPositions([p \in Fresh |-> currPeerPositions[p]], t),
           state' # "None", UNCHANGED <<prevLedgerID, deadNodes, previousLedger>>
    PROVE  /\ Data'
           /\ position' \in Positions
           /\ position'.prevLedger = position.prevLedger
           /\ position'.proposeSeq <= SeqLeave
           /\ position'.proposeSeq >= position.proposeSeq
           /\ \/ proposed' = proposed
              \/ /\ mode = "proposing"
                 /\ proposed' = [round |-> rounds, prop |-> position']
                 /\ position'.proposeSeq > position.proposeSeq
  <1>0. Flags /\ TypeRest /\ Control /\ Data
    BY Split
  <1> DEFINE gone == DOMAIN currPeerPositions \ Fresh
             curr == [p \in Fresh |-> currPeerPositions[p]]
             unvoted == unVotes(disputes, gone)
             voted == updateVotes(unvoted)
             newSet == ourNewSet(unvoted, voted)
             changed == \/ \E x \in DOMAIN unvoted : voted[x].ourVote # unvoted[x].ourVote
                        \/ t # ourCloseTime
                        \/ position.time <= now - proposeINTERVAL
             ours == changePosition(position, newSet, t)
             acq == acquired \cup {newSet}
  <1>1. curr = [p \in DOMAIN currPeerPositions \ gone |-> currPeerPositions[p]]
    <2>1. Fresh = DOMAIN currPeerPositions \ gone
      BY DEF Fresh
    <2> QED
      BY <2>1, SMTT(30)
  <1>2. DisputesOK(disputes, compares, position.position, currPeerPositions, acquired)
    BY <1>0 DEF Data, Disputed
  <1>3. DisputesOK(unvoted, compares, position.position, curr, acquired)
    <2> HIDE DEF curr, gone
    <2> QED
      BY <1>1, <1>2, UnVotesOK, Zenon
  <1>4. position.position \in SUBSET Tx
    BY <1>0 DEF TypeRest, Positions
  <1>5. /\ DisputesOK(voted, compares, newSet, curr, acquired)
        /\ newSet \in SUBSET Tx
        /\ DOMAIN voted = DOMAIN unvoted
        /\ (\A x \in DOMAIN unvoted : voted[x].ourVote = unvoted[x].ourVote)
               => newSet = position.position
    <2> HIDE DEF curr, unvoted
    <2> QED
      BY <1>3, <1>4, UpdateVotesOK, Zenon
  <1>6. PeersOK(curr) /\ \A p \in DOMAIN curr : p \in DOMAIN currPeerPositions
                                                /\ curr[p] = currPeerPositions[p]
    BY <1>0 DEF Data, PeersOK, Fresh
  <1>7. /\ currPeerPositions' = curr
        /\ \/ /\ changed
              /\ position' = ours
              /\ acquired' = acq
              /\ IF newSet \notin acquired
                 THEN /\ disputes' = updateDisputes(voted, On(curr, newSet), newSet,
                                                    newSet, curr, acq)
                      /\ compares' = Compared(On(curr, newSet), newSet)
                 ELSE disputes' = voted /\ UNCHANGED compares
              /\ IF ours.proposeSeq # SeqLeave /\ mode = "proposing"
                 THEN propose(ours) ELSE UNCHANGED proposed
           \/ /\ ~changed
              /\ disputes' = voted
              /\ UNCHANGED <<position, acquired, compares, proposed>>
    BY Zenon DEF updateOurPositions
  <1>8. now \in Nat
    BY <1>0 DEF TypeRest, now
  <1>9. /\ ours \in Positions
        /\ ours.position = newSet
        /\ ours.prevLedger = position.prevLedger
        /\ ours.proposeSeq = IF position.proposeSeq = SeqLeave THEN SeqLeave
                             ELSE position.proposeSeq + 1
    <2>1. /\ position \in Positions
          /\ newSet \in SUBSET Tx
      BY <1>0, <1>5, Zenon DEF TypeRest
    <2> HIDE DEF newSet
    <2> QED
      BY <1>8, <2>1, ChangePositionType, Zenon
  <1> HIDE DEF curr, unvoted, voted, newSet, ours
  <1>10. SeqLeave \in Nat /\ position.proposeSeq \in Nat /\ position.proposeSeq <= SeqLeave
    BY <1>0, BoundsType, SMTT(30) DEF TypeRest, Positions
  <1>11. PeersOnOurLedger'
    BY <1>0, <1>6, <1>7, SMTT(30) DEF Data, PeersOnOurLedger
  <1>12. acq \subseteq SUBSET Tx
    BY <1>0, <1>5 DEF Data
  <1>13. CASE changed
    <2>1. /\ position' = ours /\ acquired' = acq
      BY <1>7, <1>13, Zenon
    <2>2. ASSUME newSet \notin acquired PROVE Data'
      <3> DEFINE nodes == On(curr, newSet)
      <3>1. /\ disputes' = updateDisputes(voted, nodes, newSet, newSet, curr, acq)
            /\ compares' = Compared(nodes, newSet)
        BY <1>7, <1>13, <2>2, Zenon
      <3>2. /\ nodes \subseteq DOMAIN curr
            /\ \A p \in nodes : curr[p].position = newSet
            /\ \A p \in DOMAIN curr \ nodes :
                  /\ p \in DOMAIN curr
                  /\ curr[p].position = curr[p].position
                  /\ curr[p].position \in acq => curr[p].position \in acquired
        BY DEF On
      <3> HIDE DEF nodes, acq
      <3>3. DisputesOK(updateDisputes(voted, nodes, newSet, newSet, curr, acq),
                       Compared(nodes, newSet), newSet, curr, acq)
        BY <1>5, <1>6, <3>2, UpdateDisputesOK, Zenon
      <3>4. Compared(nodes, newSet) \subseteq SUBSET Tx
        BY <1>0, <1>5, ComparedType DEF Data
      <3>5. newSet \in acq
        BY DEF acq
      <3>6. DisputesOK(disputes', compares', position'.position, currPeerPositions', acquired')
        BY <1>7, <1>9, <2>1, <3>1, <3>3, Zenon
      <3>7. DOMAIN disputes' \subseteq Tx /\ disputes' \in [DOMAIN disputes' -> Dispute]
        BY <3>6 DEF DisputesOK
      <3>8. Disputed'
        BY <1>9, <2>1, <3>5, <3>6, ZenonT(30) DEF taken, Disputed
      <3>9. /\ PeersOK(currPeerPositions')
            /\ deadNodes' \subseteq Peer
            /\ acquired' \subseteq SUBSET Tx
            /\ compares' \subseteq SUBSET Tx
        BY <1>0, <1>6, <1>7, <1>12, <2>1, <3>1, <3>4, SMTT(30) DEF Data
      <3> QED
        BY <1>11, <3>7, <3>8, <3>9, DataJoined
    <2>3. ASSUME newSet \in acquired PROVE Data'
      <3>1. disputes' = voted /\ compares' = compares /\ acq = acquired
        BY <1>7, <1>13, <2>3, Zenon
      <3>2. DOMAIN voted \subseteq Tx /\ voted \in [DOMAIN voted -> Dispute]
        BY <1>5 DEF DisputesOK
      <3>3. DisputesOK(disputes', compares', position'.position, currPeerPositions', acquired')
        BY <1>5, <1>7, <1>9, <2>1, <3>1, Zenon
      <3>4. Disputed'
        BY <1>9, <2>1, <2>3, <3>1, <3>3, ZenonT(30) DEF taken, Disputed
      <3>5. /\ PeersOK(currPeerPositions')
            /\ deadNodes' \subseteq Peer
            /\ acquired' \subseteq SUBSET Tx
            /\ compares' \subseteq SUBSET Tx
        BY <1>0, <1>6, <1>7, <1>12, <2>1, <3>1 DEF Data
      <3>6. DOMAIN disputes' \subseteq Tx /\ disputes' \in [DOMAIN disputes' -> Dispute]
        BY <3>1, <3>2
      <3> QED
        BY <1>11, <3>4, <3>5, <3>6, DataJoined
    <2>4. Data'
      BY <2>2, <2>3
    <2>5. \/ proposed' = proposed
          \/ /\ mode = "proposing" /\ ours.proposeSeq # SeqLeave
             /\ proposed' = [round |-> rounds, prop |-> ours]
      BY <1>7, <1>13, Zenon DEF propose
    <2>6. /\ position' \in Positions
          /\ position'.prevLedger = position.prevLedger
          /\ position'.proposeSeq = ours.proposeSeq
      BY <1>9, <2>1, Zenon
    <2>7. /\ ours.proposeSeq \in Nat
          /\ ours.proposeSeq <= SeqLeave
          /\ ours.proposeSeq >= position.proposeSeq
          /\ ours.proposeSeq # SeqLeave => ours.proposeSeq > position.proposeSeq
      <3>1. position.proposeSeq # SeqLeave => position.proposeSeq + 1 <= SeqLeave
        BY <1>10, SMTT(30)
      <3>2. CASE position.proposeSeq = SeqLeave
        BY <1>9, <1>10, <3>2, SMTT(30)
      <3>3. CASE position.proposeSeq # SeqLeave
        <4>1. ours.proposeSeq = position.proposeSeq + 1
          BY <1>9, <3>3
        <4> QED
          BY <1>10, <3>1, <3>3, <4>1, SMTT(30)
      <3> QED
        BY <3>2, <3>3
    <2>8. \/ proposed' = proposed
          \/ /\ mode = "proposing"
             /\ proposed' = [round |-> rounds, prop |-> position']
             /\ position'.proposeSeq > position.proposeSeq
      BY <2>1, <2>5, <2>6, <2>7, Zenon
    <2> QED
      BY <2>4, <2>6, <2>7, <2>8, Zenon
  <1>14. CASE ~changed
    <2>1. disputes' = voted /\ UNCHANGED <<position, acquired, compares, proposed>>
      BY <1>7, <1>14, Zenon
    <2>2. \A x \in DOMAIN unvoted : voted[x].ourVote = unvoted[x].ourVote
      BY <1>14, Zenon
    <2>3. newSet = position.position
      BY <1>5, <2>2, Zenon
    <2>4. DOMAIN voted \subseteq Tx /\ voted \in [DOMAIN voted -> Dispute]
      BY <1>5 DEF DisputesOK
    <2>5. DisputesOK(disputes', compares', position'.position, currPeerPositions', acquired')
      BY <1>5, <1>7, <2>1, <2>3, Zenon
    <2>6. Disputed'
      BY <1>0, <2>1, <2>5 DEF taken, Data, Disputed
    <2>7. Data'
      BY <1>0, <1>6, <1>7, <1>11, <2>1, <2>4, <2>6, ZenonT(30) DEF Data
    <2>8. position \in Positions
      BY <1>0 DEF TypeRest
    <2> QED
      BY <1>10, <2>1, <2>7, <2>8
  <1> QED
    BY <1>13, <1>14, Zenon

LEMMA OutcomeType ==
    ASSUME NEW a, NEW b, NEW c, NEW d, NEW e, NEW f, NEW g
    PROVE  checkConsensus(a, b, c, d, e, f, g) \in {"No", "MovedOn", "Yes"}
  BY SMTT(30) DEF checkConsensus

LEMMA PhaseEstablishStep ==
    ASSUME IInv, RunPhase, phaseEstablish
    PROVE  IInv'
  <1>0. Flags /\ TypeRest /\ Control /\ Data
    BY Split
  <1>1. /\ pc = "phase"
        /\ frames' \in Nat
        /\ pc' \in {"phase", "idle"}
        /\ pc' = "phase" => frames' > 0
        /\ UNCHANGED <<replay, recentPeerPositions, env>>
        /\ previousLedger # prevLedgerID => mode = "wrongLedger"
    BY RunPhaseReturns
  <1>2. /\ phase = "establish"
        /\ UNCHANGED <<mode, prevLedgerID, previousLedger, firstRound, prevCloseTime,
                       rawCloseTimesSelf, openStart, roundStart, deadNodes>>
    BY DEF phaseEstablish
  <1>3. /\ taken /\ state # "None"
        /\ previousLedger \in Ledger
    BY <1>0, <1>2, Zenon DEF taken, Control, StanceMatchesPhase
  <1>4. Flags'
    BY <1>0, <1>2, Zenon DEF Flags
  <1>5. CASE UNCHANGED <<phase, prevProposers, prevRoundTime, position, disputes, compares,
                         state, currPeerPositions, acquired, proposed>>
    <2>1. Data'
      BY <1>0, <1>2, <1>5, DataFrame
    <2>2. TypeRest'
      BY <1>0, <1>1, <1>2, <1>5, Zenon DEF TypeRest, env
    <2>3. Control'
      BY <1>0, <1>1, <1>2, <1>5, Zenon
      DEF taken, Control, StanceMatchesPhase, ProposingOnOurLedger, env
    <2> QED
      BY <1>4, <2>1, <2>2, <2>3, Joined
  <1> DEFINE curr == [p \in Fresh |-> currPeerPositions[p]]
  <1>6. ASSUME NEW t \in CloseTimeCandidates(curr), updateOurPositions(curr, t),
               Decide(curr, position'.position)
        PROVE  IInv'
    <2>1. PeersOK(curr)
      BY <1>0, SMTT(30) DEF Data, PeersOK, Fresh
    <2>2. t \in Nat
      <3> HIDE DEF curr
      <3> QED
        BY <1>0, <1>3, <1>6, <2>1, CandidatesType DEF TypeRest
    <2>3. /\ state' \in {"No", "MovedOn", "Yes"}
          /\ \/ /\ phase' = "accepted"
                /\ prevProposers' = Cardinality(DOMAIN curr)
                /\ prevRoundTime' = roundTime
             \/ UNCHANGED <<phase, prevProposers, prevRoundTime>>
      <3>1. state \in {"No", "MovedOn", "Yes"}
        BY <1>0, <1>3 DEF TypeRest
      <3>2. \A f \in Validated : haveConsensus(curr, position'.position, f)
                                     \in {"No", "MovedOn", "Yes"}
        BY OutcomeType DEF haveConsensus
      <3> HIDE DEF curr
      <3> QED
        BY <1>6, <3>1, <3>2, Zenon DEF Decide
    <2>4. /\ Data'
          /\ position' \in Positions
          /\ position'.prevLedger = position.prevLedger
          /\ position'.proposeSeq <= SeqLeave
          /\ position'.proposeSeq >= position.proposeSeq
          /\ \/ proposed' = proposed
             \/ /\ mode = "proposing"
                /\ proposed' = [round |-> rounds, prop |-> position']
                /\ position'.proposeSeq > position.proposeSeq
      BY <1>2, <1>3, <1>6, <2>2, <2>3, UpdateOurPositionsOK, Zenon
    <2>5. roundTime \in Nat
      BY <1>0 DEF TypeRest, roundTime
    <2>6. Cardinality(DOMAIN curr) \in Nat
      <3>1. DOMAIN curr \subseteq Peer
        BY <2>1, SMTT(30) DEF PeersOK
      <3> QED
        BY <3>1, PeersCounted, Zenon DEF SubsetsCount
    <2> HIDE DEF curr
    <2>7. /\ prevProposers' \in Nat /\ prevRoundTime' \in Nat
          /\ phase' \in {"establish", "accepted"}
      BY <1>0, <1>2, <2>3, <2>5, <2>6, SMTT(30) DEF TypeRest
    <2>8. proposed' \in [round : Nat, prop : Positions]
      BY <1>0, <2>4 DEF TypeRest, Positions
    <2>9. TypeRest'
      BY <1>0, <1>1, <1>2, <2>3, <2>4, <2>7, <2>8, ZenonT(30) DEF TypeRest, env
    <2>10. Control'
      <3>1. /\ position.proposeSeq \in Nat /\ position'.proposeSeq \in Nat
            /\ proposed.prop.proposeSeq \in Nat /\ proposed.round \in Nat /\ rounds \in Nat
            /\ proposed'.round \in Nat /\ rounds' = rounds
        <4>1. position \in Positions /\ position' \in Positions
          BY <1>0, <2>4, Zenon DEF TypeRest
        <4>2. proposed \in [round : Nat, prop : Positions] /\ rounds \in Nat
          BY <1>0, Zenon DEF TypeRest
        <4>3. rounds' = rounds
          BY <1>1, Zenon DEF env
        <4> QED
          BY <2>8, <4>1, <4>2, <4>3 DEF Positions
      <3>2. /\ proposed'.round <= rounds'
            /\ mode = "proposing" /\ proposed'.round = rounds' =>
                  proposed'.prop.proposeSeq <= position'.proposeSeq
        <4>1. /\ proposed.round <= rounds
              /\ mode = "proposing" /\ proposed.round = rounds =>
                    proposed.prop.proposeSeq <= position.proposeSeq
          BY <1>0, <1>3, Zenon DEF Control
        <4>2. CASE proposed' = proposed
          <5>1. position'.proposeSeq >= position.proposeSeq
            BY <2>4, Zenon
          <5> QED
            BY <3>1, <4>1, <4>2, <5>1
        <4>3. CASE proposed' = [round |-> rounds, prop |-> position']
          <5>1. proposed'.round = rounds /\ proposed'.prop = position'
            BY <4>3
          <5> QED
            BY <3>1, <5>1
        <4> QED
          BY <2>4, <4>2, <4>3, Zenon
      <3>3. StanceMatchesPhase' /\ ProposingOnOurLedger'
        BY <1>0, <1>1, <1>2, <1>3, <2>3, <2>4, <2>7, Zenon
        DEF taken, Control, StanceMatchesPhase, ProposingOnOurLedger, env
      <3>4. openParent' = openParent
        BY <1>1 DEF env
      <3> QED
        BY <1>0, <1>1, <1>2, <2>3, <2>7, <3>2, <3>3, <3>4, Zenon DEF taken, Control
    <2> QED
      BY <1>4, <2>4, <2>9, <2>10, Joined, Zenon
  <1> QED
    BY <1>5, <1>6, SMTT(30) DEF phaseEstablish

LEMMA StutterKeepsIInv == IInv /\ UNCHANGED vars => IInv'
  <1> SUFFICES ASSUME IInv, UNCHANGED vars PROVE IInv'
    OBVIOUS
  <1>0. Flags /\ TypeRest /\ Control /\ Data
    BY Split, SMTT(30)
  <1>1. UNCHANGED <<pc, frames, replay, phase, mode, prevLedgerID, previousLedger,
                    prevProposers, prevRoundTime, prevCloseTime, rawCloseTimesSelf, openStart,
                    state, position, disputes, compares, roundStart, currPeerPositions,
                    deadNodes, acquired, recentPeerPositions, proposed, clock, openParent,
                    netLedger, msgs, switches, rounds>>
    BY DEF vars, control, round, result, peers, env
  <1>2. Data'
    BY <1>0, <1>1, DataFrame, Zenon
  <1>3. TypeRest'
    BY <1>0, <1>1, ZenonT(60) DEF TypeRest
  <1>4. Control'
    BY <1>0, <1>1, Zenon DEF taken, Control, StanceMatchesPhase, ProposingOnOurLedger
  <1>5. Flags'
    <2>1. firstRound' = firstRound
      BY Zenon DEF vars, round
    <2> QED
      BY <1>0, <2>1, Zenon DEF Flags
  <1> QED
    BY <1>2, <1>3, <1>4, <1>5, Joined

LEMMA NextKeepsIInv == IInv /\ [Next]_vars => IInv'
  <1> SUFFICES ASSUME IInv, [Next]_vars PROVE IInv'
    OBVIOUS
  <1>1. CASE startRound
    BY <1>1, StartRoundOK
  <1>2. ASSUME NEW p \in Peer, PeerProposal(p) PROVE IInv'
    BY <1>2, PeerProposalStep
  <1>3. ASSUME NEW s \in PeerSets, gotTxSet(s) PROVE IInv'
    BY <1>3, GotTxSetStep
  <1>4. ASSUME NEW p \in Peer, playbackProposals(p) PROVE IInv'
    BY <1>4, PlaybackStep
  <1>5. CASE RoundStarted
    BY <1>5, RoundStartedStep
  <1>6. CASE timerEntry
    BY <1>6, TimerEntryStep
  <1>7. CASE SwitchLedger
    BY <1>7, SwitchLedgerStep
  <1>8. CASE RunPhase
    BY <1>8, PhaseOpenStep, PhaseEstablishStep DEF RunPhase
  <1>9. CASE simulate
    BY <1>9, SimulateStep
  <1>10. CASE Tick
    BY <1>10, TickStep
  <1>11. CASE NetworkSwitches
    BY <1>11, NetworkStep
  <1>12. CASE UNCHANGED vars
    BY <1>12, StutterKeepsIInv
  <1> QED
    BY <1>1, <1>2, <1>3, <1>4, <1>5, <1>6, <1>7, <1>8, <1>9, <1>10, <1>11, <1>12 DEF Next

\* The engine keeps its inductive invariant.
THEOREM Invariance == Spec => []IInv
  BY InitOK, NextKeepsIInv, PTL DEF Spec

\* Every variable keeps its type; recentPeerPositions_ never outgrows its limit.
THEOREM TypeCorrect == Spec => []TypeOK
  <1>1. IInv => TypeOK
    BY DEF IInv
  <1> QED
    BY Invariance, <1>1, PTL

\* createDisputes and updateDisputes leave no difference with a peer undisputed.
THEOREM DisputesAreComplete == Spec => []DisputesComplete
  <1>1. IInv => DisputesComplete
    BY DEF IInv, Disputed, DisputesOK, DisputesComplete
  <1> QED
    BY Invariance, <1>1, PTL

\* Each dispute counts the votes of the peers in the round, as they are now:
\* setVote and unVote are called wherever a position changes or goes.
THEOREM VotesAreFaithful == Spec => []VotesFaithful
  <1>1. ASSUME IInv PROVE VotesFaithful
    <2>1. CASE taken
      BY <1>1, <2>1, Zenon DEF IInv, Disputed, DisputesOK, VotesOn, VotesFaithful
    <2>2. CASE ~taken
      BY <1>1, <2>2, Zenon DEF IInv, Disputed, Nothing, VotesFaithful
    <2> QED
      BY <2>1, <2>2
  <1> QED
    BY Invariance, <1>1, PTL

\* updateOurPositions keeps our set and our votes on disputes in step.
THEOREM PositionFollowsVotes == Spec => []PositionMatchesVotes
  <1>1. IInv => PositionMatchesVotes
    BY Zenon DEF IInv, Disputed, DisputesOK, PositionMatchesVotes
  <1> QED
    BY Invariance, <1>1, PTL

\* result_ is there when, and only when, the phase needs it.
THEOREM StanceFollowsPhase == Spec => []StanceMatchesPhase
  <1>1. IInv => StanceMatchesPhase
    BY Zenon DEF IInv, Control
  <1> QED
    BY Invariance, <1>1, PTL

\* Proposals for another prior ledger, and of peers that bowed out, never count.
THEOREM PeersShareOurLedger == Spec => []PeersOnOurLedger
  <1>1. IInv => PeersOnOurLedger
    BY SMTT(30) DEF IInv
  <1> QED
    BY Invariance, <1>1, PTL

\* handleWrongLedger leaves no wrong prior ledger unmarked.
THEOREM WrongLedgerIsKnown == Spec => []WrongLedgerKnown
  <1>1. IInv => WrongLedgerKnown
    BY Zenon DEF IInv, Control, WrongLedgerKnown
  <1> QED
    BY Invariance, <1>1, PTL

\* A proposer proposes successors of the network's ledger only.
THEOREM ProposesOnOurLedger == Spec => []ProposingOnOurLedger
  <1>1. IInv => ProposingOnOurLedger
    BY DEF IInv, Control
  <1> QED
    BY Invariance, <1>1, PTL
=============================================================================
