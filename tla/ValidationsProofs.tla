-------------------------- MODULE ValidationsProofs --------------------------
(***************************************************************************)
(* For any number of validators and ledgers and any timing: a validator is *)
(* not counted for two ledgers of one sequence until the enforcer lets it, *)
(* is trusted as it is listed, and the trie counts its newest validation.  *)
(***************************************************************************)
EXTENDS Validations, FiniteSetTheorems, TLAPS

StoredValidation ==
    [ledger : ID \cup {Genesis}, sign : Nat, seen : Nat, trusted : BOOLEAN]
Stores == [ID -> [when : Int, vals : [Node -> StoredValidation]]]
Enforcer == [seq : Nat, when : Nat]

\* The part of the state the enforcers decide on.  A validation is added at
\* the time it was seen.
EnforcerTypes ==
    /\ now \in Nat
    /\ \/ arriving = <<>>
       \/ \E n \in Node, l \in ID, sign \in Nat, tr \in BOOLEAN :
             arriving = <<n, [ledger |-> l, sign |-> sign, seen |-> now, trusted |-> tr]>>
    /\ seqEnforcers_ \in [Node -> Enforcer]
    /\ byLedger_ \in Stores

\* A sequence s that passed at time t is still refused by the enforcer e, or
\* is old enough to be allowed again.
Covers(e, s, t) == /\ t <= e.when /\ e.when <= now
                   /\ s <= e.seq \/ now > t + SET_EXPIRES

\* Every stored validation is covered by its signer's enforcer.
StoresCovered ==
    \A n \in Node, a \in ID :
       LET v == byLedger_[a].vals[n]
       IN v # NoValidation => Covers(seqEnforcers_[n], seq(a), v.seen)

SeqInv == EnforcerTypes /\ StoresCovered /\ OneLedgerPerSeq

-----------------------------------------------------------------------------
\* What an enforcer covers it goes on covering, whatever it is asked and
\* however late it gets.
LEMMA StillCovers ==
    ASSUME NEW e \in Enforcer, NEW s \in Nat, NEW t \in Nat, NEW r \in Nat,
           now \in Nat, Covers(e, s, t)
    PROVE  /\ Enforced(e, r) \in Enforcer
           /\ Covers(Enforced(e, r), s, t)
           /\ Passes(e, r) => /\ Covers(Enforced(e, r), r, now)
                              /\ s < r \/ now > t + SET_EXPIRES
  <1>1. SET_EXPIRES \in Nat
    BY ValidationsAssumption
  <1> QED
    BY <1>1 DEF Enforcer, Covers, Enforced, Passes, Held

\* Marking a validation changes nothing else of it.
LEMMA TrustingKeeps ==
    ASSUME NEW n, NEW v \in StoredValidation
    PROVE  /\ Trusting(n, v) \in StoredValidation
           /\ Trusting(n, v).seen = v.seen
           /\ v = NoValidation => Trusting(n, v) = NoValidation
  <1> DEFINE b == v # NoValidation /\ (n \in changes.added \/ (v.trusted /\ n \notin changes.removed))
  <1>1. b \in BOOLEAN /\ Trusting(n, v) = Marked(v, b)
    BY Zenon DEF Trusting
  <1>2. v = NoValidation => b = FALSE
    OBVIOUS
  <1> HIDE DEF b
  <1>3. Marked(v, b) \in StoredValidation /\ Marked(v, b).seen = v.seen
    BY <1>1 DEF Marked, StoredValidation
  <1>4. Marked(NoValidation, FALSE) = NoValidation
    BY DEF Marked, NoValidation
  <1> QED
    BY <1>1, <1>2, <1>3, <1>4, Zenon

\* What a step may do to the stores: keep validations or drop them, and mark
\* them anew.
StoresKept ==
    \A n \in Node, a \in ID :
       LET v == byLedger_[a].vals[n]
           w == byLedger_'[a].vals[n]
       IN w # NoValidation => v # NoValidation /\ w.seen = v.seen

LEMMA TrustChangedStores ==
    ASSUME byLedger_ \in Stores,
           byLedger_' = [l \in ID |-> StoresRetrusted(byLedger_[l].when, byLedger_[l].vals)]
    PROVE  byLedger_' \in Stores /\ StoresKept
  <1> DEFINE F(l) == [n \in Node |-> Trusting(n, byLedger_[l].vals[n])]
  <1>1. byLedger_' = [l \in ID |-> [when |-> byLedger_[l].when, vals |-> F(l)]]
    BY DEF StoresRetrusted
  <1>2. ASSUME NEW l \in ID
        PROVE  byLedger_[l].vals \in [Node -> StoredValidation] /\ byLedger_[l].when \in Int
    BY DEF Stores
  <1>3. ASSUME NEW l \in ID, NEW n \in Node
        PROVE  /\ F(l)[n] = Trusting(n, byLedger_[l].vals[n])
               /\ byLedger_[l].vals[n] \in StoredValidation
    BY <1>2
  <1>4. ASSUME NEW l \in ID
        PROVE  F(l) \in [Node -> StoredValidation]
    BY <1>2, TrustingKeeps
  <1> HIDE DEF F
  <1>5. byLedger_' \in Stores
    BY <1>1, <1>2, <1>4 DEF Stores
  <1>6. ASSUME NEW l \in ID, NEW n \in Node
        PROVE  byLedger_'[l].vals[n] = Trusting(n, byLedger_[l].vals[n])
    BY <1>1, <1>3
  <1>7. StoresKept
    <2> SUFFICES ASSUME NEW n \in Node, NEW a \in ID
                 PROVE  byLedger_'[a].vals[n] # NoValidation =>
                           /\ byLedger_[a].vals[n] # NoValidation
                           /\ byLedger_'[a].vals[n].seen = byLedger_[a].vals[n].seen
      BY DEF StoresKept
    <2> DEFINE v == byLedger_[a].vals[n]
    <2>1. v \in StoredValidation /\ byLedger_'[a].vals[n] = Trusting(n, v)
      BY <1>3, <1>6
    <2> HIDE DEF v
    <2>2. Trusting(n, v) # NoValidation => v # NoValidation /\ Trusting(n, v).seen = v.seen
      BY <2>1, TrustingKeeps, Zenon
    <2> QED
      BY <2>1, <2>2 DEF v
  <1> QED
    BY <1>5, <1>7

LEMMA ExpireStores ==
    ASSUME byLedger_ \in Stores, now \in Nat,
           byLedger_' = [l \in ID |-> Expired(l)]
    PROVE  byLedger_' \in Stores /\ StoresKept
  <1>1. ASSUME NEW l \in ID
        PROVE  \/ byLedger_'[l] = [when |-> 0, vals |-> Nobody]
               \/ \E t \in Int : byLedger_'[l] = [when |-> t, vals |-> byLedger_[l].vals]
    BY DEF Expired, Stores
  <1>2. Nobody \in [Node -> StoredValidation] /\ \A n \in Node : Nobody[n] = NoValidation
    BY DEF Nobody, NoValidation, StoredValidation
  <1>3. byLedger_' \in Stores
    BY <1>1, <1>2 DEF Stores
  <1>4. StoresKept
    BY <1>1, <1>2 DEF StoresKept, Stores
  <1> QED
    BY <1>3, <1>4

\* A step that adds nothing to the stores and lets no enforcer forget
\* preserves the invariant.
LEMMA KeptIsEnough ==
    ASSUME SeqInv, EnforcerTypes', StoresKept, seqEnforcers_' = seqEnforcers_,
           now' \in {now, now + 1}
    PROVE  SeqInv'
  <1>1. ASSUME NEW n \in Node, NEW a \in ID, byLedger_'[a].vals[n] # NoValidation
        PROVE  /\ byLedger_[a].vals[n] # NoValidation
               /\ byLedger_'[a].vals[n].seen = byLedger_[a].vals[n].seen
               /\ byLedger_[a].vals[n].seen \in Nat
    <2>1. byLedger_[a].vals[n] \in StoredValidation
      BY DEF SeqInv, EnforcerTypes, Stores
    <2>2. /\ byLedger_[a].vals[n] # NoValidation
          /\ byLedger_'[a].vals[n].seen = byLedger_[a].vals[n].seen
      BY <1>1 DEF StoresKept
    <2>3. byLedger_[a].vals[n].seen \in Nat
      BY <2>1 DEF StoredValidation
    <2> QED
      BY <2>2, <2>3
  <1>2. StoresCovered'
    <2> SUFFICES ASSUME NEW n \in Node, NEW a \in ID, byLedger_'[a].vals[n] # NoValidation
                 PROVE  Covers(seqEnforcers_[n], seq(a), byLedger_[a].vals[n].seen)'
      BY <1>1 DEF StoresCovered, Covers
    <2>1. Covers(seqEnforcers_[n], seq(a), byLedger_[a].vals[n].seen)
      BY <1>1 DEF SeqInv, StoresCovered
    <2>2. seqEnforcers_[n] \in Enforcer /\ SET_EXPIRES \in Nat /\ now \in Nat
      BY ValidationsAssumption DEF SeqInv, EnforcerTypes
    <2> QED
      BY <1>1, <2>1, <2>2 DEF Covers, Enforcer
  <1>3. OneLedgerPerSeq'
    BY <1>1 DEF SeqInv, OneLedgerPerSeq
  <1> QED
    BY <1>2, <1>3 DEF SeqInv

LEMMA SeqType == \A l \in ID : seq(l) \in Nat
  BY LedgerAssumption DEF seq, ID, Genesis

\* Storing a validation puts it in one place.
LEMMA AddStores ==
    ASSUME byLedger_ \in Stores, now \in Nat,
           NEW n \in Node, NEW v \in StoredValidation, v.ledger \in ID,
           byLedger_' = [byLedger_ EXCEPT ![v.ledger] = Stored(@, n, v)]
    PROVE  /\ byLedger_' \in Stores
           /\ \A m \in Node, a \in ID :
                 byLedger_'[a].vals[m] =
                    IF m = n /\ a = v.ledger THEN v ELSE byLedger_[a].vals[m]
  <1> DEFINE at == byLedger_[v.ledger]
  <1>1. at.vals \in [Node -> StoredValidation] /\ at.when \in Int
    BY DEF Stores
  <1>2. /\ Stored(at, n, v) \in [when : Int, vals : [Node -> StoredValidation]]
        /\ Stored(at, n, v).vals = [at.vals EXCEPT ![n] = v]
    BY <1>1 DEF Stored
  <1>3. byLedger_'[v.ledger] = Stored(at, n, v)
    BY DEF Stores
  <1>4. \A a \in ID \ {v.ledger} : byLedger_'[a] = byLedger_[a]
    BY DEF Stores
  <1>5. byLedger_' \in Stores
    BY <1>2 DEF Stores
  <1>6. \A m \in Node : byLedger_'[v.ledger].vals[m] = IF m = n THEN v ELSE at.vals[m]
    BY <1>1, <1>2, <1>3
  <1> QED
    BY <1>4, <1>5, <1>6

\* The steps that touch neither the stores nor an enforcer, nor time.
Aside == UNCHANGED <<now, seqEnforcers_, byLedger_>>

LEMMA TypesAside ==
    ASSUME EnforcerTypes, Aside,
           \/ arriving' = arriving
           \/ arriving' = <<>>
           \/ \E n \in Node, l \in ID, sign \in SignTimes : handleNewValidation(n, l, sign)
    PROVE  EnforcerTypes'
  <1>1. SignTimes \subseteq Nat
    BY ValidationsAssumption
  <1>2. UNCHANGED <<now, seqEnforcers_, byLedger_>>
    BY DEF Aside
  <1>3. CASE arriving' \in {arriving, <<>>}
    BY <1>2, <1>3 DEF EnforcerTypes
  <1>4. ASSUME NEW n \in Node, NEW l \in ID, NEW sign \in SignTimes,
               handleNewValidation(n, l, sign)
        PROVE  EnforcerTypes'
    <2>1. sign \in Nat /\ (n \in trusted) \in BOOLEAN
      BY <1>1
    <2>2. arriving' = <<n, [ledger |-> l, sign |-> sign, seen |-> now, trusted |-> n \in trusted]>>
      BY <1>4 DEF handleNewValidation
    <2>3. \E m \in Node, k \in ID, t \in Nat, tr \in BOOLEAN :
             arriving' = <<m, [ledger |-> k, sign |-> t, seen |-> now', trusted |-> tr]>>
      BY <1>2, <2>1, <2>2, Zenon
    <2> QED
      BY <1>2, <2>3, Zenon DEF EnforcerTypes
  <1> QED
    BY <1>3, <1>4

-----------------------------------------------------------------------------
LEMMA StoresUnchanged == byLedger_' = byLedger_ => StoresKept
  BY DEF StoresKept

LEMMA EnforcedType ==
    ASSUME NEW e \in Enforcer, NEW r \in Nat, now \in Nat
    PROVE  Enforced(e, r) \in Enforcer
  BY DEF Enforcer, Enforced, Held

LEMMA AsideStep ==
    ASSUME SeqInv, Aside,
           \/ arriving' = arriving
           \/ \E n \in Node, l \in ID, sign \in SignTimes : handleNewValidation(n, l, sign)
    PROVE  SeqInv'
  <1>1. EnforcerTypes'
    BY TypesAside DEF SeqInv
  <1>2. StoresKept /\ seqEnforcers_' = seqEnforcers_ /\ now' \in {now, now + 1}
    BY StoresUnchanged DEF Aside
  <1> QED
    BY <1>1, <1>2, KeptIsEnough

LEMMA TickStep == ASSUME SeqInv, Tick PROVE SeqInv'
  <1>1. /\ now' = now + 1 /\ arriving = <<>> /\ arriving' = arriving
        /\ UNCHANGED <<seqEnforcers_, byLedger_>>
    BY DEF Tick
  <1>2. EnforcerTypes'
    BY <1>1 DEF SeqInv, EnforcerTypes
  <1> QED
    BY <1>1, <1>2, KeptIsEnough, StoresUnchanged

LEMMA TypesStores ==
    ASSUME EnforcerTypes, byLedger_' \in Stores,
           UNCHANGED <<now, arriving, seqEnforcers_>>
    PROVE  EnforcerTypes'
  BY DEF EnforcerTypes

LEMMA StoresStep ==
    ASSUME SeqInv,
           \/ expire
           \/ \E l \in ID : byLedger(l)
           \/ \E order, nodes : trustChanged(order, nodes)
    PROVE  SeqInv'
  <1>0. byLedger_ \in Stores /\ now \in Nat /\ EnforcerTypes
    BY DEF SeqInv, EnforcerTypes
  <1>1. UNCHANGED <<now, arriving, seqEnforcers_>>
    BY Zenon DEF expire, byLedger, trustChanged
  <1>2. byLedger_' \in Stores /\ StoresKept
    <2>1. CASE expire
      BY <1>0, <2>1, ExpireStores DEF expire
    <2>2. ASSUME NEW l \in ID, byLedger(l)
          PROVE  byLedger_' \in Stores /\ StoresKept
      <3>1. byLedger_' = [byLedger_ EXCEPT ![l] = [when |-> now, vals |-> byLedger_[l].vals]]
        BY <2>2 DEF byLedger
      <3>2. byLedger_' \in Stores
        BY <1>0, <3>1 DEF Stores
      <3>3. \A a \in ID : byLedger_'[a].vals = byLedger_[a].vals
        BY <1>0, <3>1 DEF Stores
      <3> QED
        BY <3>2, <3>3 DEF StoresKept
    <2>3. ASSUME NEW order, NEW nodes, trustChanged(order, nodes)
          PROVE  byLedger_' \in Stores /\ StoresKept
      BY <1>0, <2>3, TrustChangedStores, Zenon DEF trustChanged
    <2> QED
      BY <2>1, <2>2, <2>3
  <1>3. EnforcerTypes'
    BY <1>0, <1>1, <1>2, TypesStores
  <1> QED
    BY <1>1, <1>2, <1>3, KeptIsEnough

\* The one step that stores a validation: its signer's enforcer has let its
\* sequence pass, so nothing stored stands in its way.
LEMMA AddStep == ASSUME SeqInv, NEW order, add(order) PROVE SeqInv'
  <1> DEFINE n == arriving[1]
             v == arriving[2]
             e == seqEnforcers_[n]
  <1>0. /\ EnforcerTypes /\ byLedger_ \in Stores /\ now \in Nat /\ SET_EXPIRES \in Nat
        /\ seqEnforcers_ \in [Node -> Enforcer]
    BY ValidationsAssumption DEF SeqInv, EnforcerTypes
  <1>1. arriving # <<>> /\ arriving' = <<>> /\ UNCHANGED <<now>>
    BY DEF add
  <1>2. /\ n \in Node /\ v \in StoredValidation /\ v.ledger \in ID /\ v.seen = now
        /\ v # NoValidation
    <2>1. PICK m \in Node, l \in ID, sign \in Nat, tr \in BOOLEAN :
             arriving = <<m, [ledger |-> l, sign |-> sign, seen |-> now, trusted |-> tr]>>
      BY <1>0, <1>1 DEF EnforcerTypes
    <2>2. n = m /\ v = [ledger |-> l, sign |-> sign, seen |-> now, trusted |-> tr]
      BY <2>1
    <2>3. l # Genesis
      BY LedgerAssumption DEF ID
    <2> HIDE DEF n, v
    <2>4. v \in StoredValidation /\ v.ledger = l /\ v.seen = now
      BY <1>0, <2>2 DEF StoredValidation
    <2>5. NoValidation.ledger = Genesis
      BY DEF NoValidation
    <2> QED
      BY <2>2, <2>3, <2>4, <2>5
  <1>3. \/ UNCHANGED <<seqEnforcers_, byLedger_>>
        \/ /\ seqEnforcers_' = [seqEnforcers_ EXCEPT ![n] = Enforced(@, seq(v.ledger))]
           /\ \/ ~Passes(e, seq(v.ledger)) /\ byLedger_' = byLedger_
              \/ /\ Passes(e, seq(v.ledger))
                 /\ byLedger_' = [byLedger_ EXCEPT ![v.ledger] = Stored(@, n, v)]
    BY DEF add, Accept
  <1>4. e \in Enforcer /\ seq(v.ledger) \in Nat
    BY <1>0, <1>2, SeqType
  <1> HIDE DEF n, v, e
  <1>5. CASE UNCHANGED <<seqEnforcers_, byLedger_>>
    <2>1. EnforcerTypes'
      BY <1>0, <1>1, <1>5, TypesAside DEF Aside
    <2> QED
      BY <1>1, <1>5, <2>1, KeptIsEnough, StoresUnchanged
  <1>6. CASE seqEnforcers_' = [seqEnforcers_ EXCEPT ![n] = Enforced(@, seq(v.ledger))]
    <2>1. /\ seqEnforcers_' \in [Node -> Enforcer]
          /\ seqEnforcers_'[n] = Enforced(e, seq(v.ledger))
          /\ \A m \in Node \ {n} : seqEnforcers_'[m] = seqEnforcers_[m]
      BY <1>0, <1>2, <1>4, <1>6, EnforcedType, SMTT(30) DEF e
    <2>2. ASSUME NEW m \in Node, NEW a \in ID, byLedger_[a].vals[m] # NoValidation
          PROVE  /\ byLedger_[a].vals[m].seen \in Nat
                 /\ Covers(seqEnforcers_[m], seq(a), byLedger_[a].vals[m].seen)
                 /\ Covers(seqEnforcers_'[m], seq(a), byLedger_[a].vals[m].seen)
                 /\ m = n /\ Passes(e, seq(v.ledger)) =>
                       seq(a) < seq(v.ledger) \/ now > byLedger_[a].vals[m].seen + SET_EXPIRES
      <3>1. byLedger_[a].vals[m] \in StoredValidation /\ seq(a) \in Nat
        BY <1>0, SeqType DEF Stores
      <3>2. byLedger_[a].vals[m].seen \in Nat
        BY <3>1 DEF StoredValidation
      <3>3. Covers(seqEnforcers_[m], seq(a), byLedger_[a].vals[m].seen)
        BY <2>2 DEF SeqInv, StoresCovered
      <3>4. CASE m = n
        BY <1>0, <1>4, <2>1, <3>1, <3>2, <3>3, <3>4, StillCovers, Zenon DEF e
      <3>5. CASE m # n
        BY <2>1, <3>2, <3>3, <3>5
      <3> QED
        BY <3>4, <3>5
    <2>3. CASE ~Passes(e, seq(v.ledger)) /\ byLedger_' = byLedger_
      <3>1. EnforcerTypes'
        BY <1>0, <1>1, <2>1, <2>3 DEF EnforcerTypes
      <3>2. StoresCovered'
        BY <1>1, <2>2, <2>3 DEF StoresCovered, Covers
      <3>3. OneLedgerPerSeq'
        BY <2>3 DEF SeqInv, OneLedgerPerSeq
      <3> QED
        BY <3>1, <3>2, <3>3 DEF SeqInv
    <2>4. CASE /\ Passes(e, seq(v.ledger))
               /\ byLedger_' = [byLedger_ EXCEPT ![v.ledger] = Stored(@, n, v)]
      <3>1. /\ byLedger_' \in Stores
            /\ \A m \in Node, a \in ID :
                  byLedger_'[a].vals[m] =
                     IF m = n /\ a = v.ledger THEN v ELSE byLedger_[a].vals[m]
        BY <1>0, <1>2, <2>4, AddStores, ZenonT(30)
      <3>2. EnforcerTypes'
        BY <1>0, <1>1, <2>1, <3>1 DEF EnforcerTypes
      <3>3. Covers(seqEnforcers_'[n], seq(v.ledger), now)
        BY <1>0, <1>4, <2>1, <2>4 DEF Covers, Enforced, Enforcer
      <3>4. StoresCovered'
        <4> SUFFICES ASSUME NEW m \in Node, NEW a \in ID, byLedger_'[a].vals[m] # NoValidation
                     PROVE  Covers(seqEnforcers_'[m], seq(a), byLedger_'[a].vals[m].seen)
          BY <1>1 DEF StoresCovered, Covers
        <4>1. CASE m = n /\ a = v.ledger
          BY <1>2, <3>1, <3>3, <4>1
        <4>2. CASE ~(m = n /\ a = v.ledger)
          BY <2>2, <3>1, <4>2
        <4> QED
          BY <4>1, <4>2
      <3>5. OneLedgerPerSeq'
        <4> SUFFICES ASSUME NEW m \in Node, NEW a \in ID, NEW b \in ID, a # b, seq(a) = seq(b),
                            byLedger_'[a].vals[m] # NoValidation,
                            byLedger_'[b].vals[m] # NoValidation,
                            byLedger_'[a].vals[m].seen <= byLedger_'[b].vals[m].seen
                     PROVE  byLedger_'[b].vals[m].seen > byLedger_'[a].vals[m].seen + SET_EXPIRES
          BY DEF OneLedgerPerSeq
        <4>1. CASE m = n /\ b = v.ledger
          <5>1. byLedger_'[b].vals[m] = v /\ byLedger_'[a].vals[m] = byLedger_[a].vals[m]
            BY <3>1, <4>1, Zenon
          <5>2. now > byLedger_[a].vals[m].seen + SET_EXPIRES
            BY <1>4, <2>2, <2>4, <4>1, <5>1
          <5> QED
            BY <1>2, <5>1, <5>2
        <4>2. CASE m = n /\ a = v.ledger
          <5>1. byLedger_'[a].vals[m] = v /\ byLedger_'[b].vals[m] = byLedger_[b].vals[m]
            BY <3>1, <4>2, SMTT(30)
          <5>2. now > byLedger_[b].vals[m].seen + SET_EXPIRES /\ byLedger_[b].vals[m].seen \in Nat
            <6>1. byLedger_[b].vals[m] # NoValidation /\ ~(seq(b) < seq(v.ledger))
              BY <1>4, <4>2, <5>1
            <6> QED
              BY <2>2, <2>4, <4>2, <6>1, Zenon
          <5>3. byLedger_[b].vals[m].seen < now
            BY <1>0, <5>2
          <5> QED
            BY <1>0, <1>2, <5>1, <5>2, <5>3
        <4>3. CASE ~(m = n /\ v.ledger \in {a, b})
          <5>1. /\ byLedger_'[a].vals[m] = byLedger_[a].vals[m]
                /\ byLedger_'[b].vals[m] = byLedger_[b].vals[m]
            BY <3>1, <4>3, Zenon
          <5> QED
            BY <5>1 DEF SeqInv, OneLedgerPerSeq
        <4> QED
          BY <4>1, <4>2, <4>3
      <3> QED
        BY <3>2, <3>4, <3>5 DEF SeqInv
    <2> QED
      BY <1>3, <1>4, <1>6, <2>3, <2>4, <1>5
  <1> QED
    BY <1>3, <1>5, <1>6

LEMMA InitSeqInv == Init => SeqInv
  <1> SUFFICES ASSUME Init PROVE SeqInv
    OBVIOUS
  <1>1. Nobody \in [Node -> StoredValidation] /\ \A n \in Node : Nobody[n] = NoValidation
    BY DEF Nobody, NoValidation, StoredValidation
  <1>2. byLedger_ \in Stores /\ \A n \in Node, a \in ID : byLedger_[a].vals[n] = NoValidation
    BY <1>1 DEF Init, Stores
  <1>3. EnforcerTypes
    BY <1>2 DEF Init, EnforcerTypes, Enforcer, NoEnforcer
  <1> QED
    BY <1>2, <1>3 DEF SeqInv, StoresCovered, OneLedgerPerSeq

LEMMA NextSeqInv == SeqInv /\ [Next]_vars => SeqInv'
  <1> SUFFICES ASSUME SeqInv, [Next]_vars PROVE SeqInv'
    OBVIOUS
  <1>1. CASE UNCHANGED vars
    BY <1>1, AsideStep DEF vars, Aside
  <1>2. CASE Tick
    BY <1>2, TickStep
  <1>3. ASSUME NEW l \in ID, LedgerAcquired(l) PROVE SeqInv'
    BY <1>3, AsideStep DEF LedgerAcquired, Aside
  <1>4. ASSUME NEW l \in ID, byLedger(l) PROVE SeqInv'
    BY <1>4, StoresStep
  <1>5. ASSUME NEW new \in SUBSET Node, updateTrusted(new) PROVE SeqInv'
    BY <1>5, AsideStep DEF updateTrusted, Aside
  <1>6. ASSUME NEW order, add(order) PROVE SeqInv'
    BY <1>6, AddStep
  <1>7. ASSUME NEW order, NEW nodes, trustChanged(order, nodes) PROVE SeqInv'
    BY <1>7, StoresStep
  <1>8. CASE TrieQuery
    BY <1>8, AsideStep DEF TrieQuery, withTrie, Aside
  <1>9. ASSUME NEW n \in Node, NEW l \in ID, NEW sign \in SignTimes,
               handleNewValidation(n, l, sign)
        PROVE  SeqInv'
    <2>1. Aside
      BY <1>9 DEF handleNewValidation, Aside
    <2> QED
      BY <1>9, <2>1, AsideStep
  <1>10. ASSUME NEW s \in Keep, setSeqToKeep(s) PROVE SeqInv'
    BY <1>10, AsideStep DEF setSeqToKeep, Aside
  <1>11. CASE current
    BY <1>11, AsideStep DEF current, Aside
  <1>12. CASE expire
    BY <1>12, StoresStep
  <1> QED
    BY <1>1, <1>2, <1>3, <1>4, <1>5, <1>6, <1>7, <1>8, <1>9, <1>10, <1>11, <1>12, Zenon
    DEF Next

\* For any validators, ledgers, timing and trust changes: two validations of one
\* validator for different ledgers of one sequence, stored for
\* numTrustedForLedger to count, were seen more than SET_EXPIRES apart.
THEOREM StoredOncePerSeq == Spec => []OneLedgerPerSeq
  <1>1. SeqInv => OneLedgerPerSeq
    BY DEF SeqInv
  <1> QED
    BY <1>1, InitSeqInv, NextSeqInv, PTL DEF Spec

-----------------------------------------------------------------------------
(* The marks of trust.  Between updateTrusted and trustChanged the stored     *)
(* validations are marked as before the change, but for those of a validator  *)
(* whose validation crossed it.                                               *)
MarkedFor(v, n, list) == v # NoValidation => (v.trusted <=> n \in list)

ChangeIsReal == changes.added \subseteq trusted /\ changes.removed \cap trusted = {}

MarksInv ==
    /\ ChangeIsReal
    /\ \A n \in Node \ crossed : MarkedFor(current_[n], n, Before)
    /\ \A n \in Node \ crossed, l \in ID : MarkedFor(byLedger_[l].vals[n], n, Before)

LEMMA SettledBefore == changes = NoChange => Before = trusted
  BY DEF Before, NoChange

\* The marks trustChanged makes are those of the new list.
LEMMA TrustingMarks ==
    ASSUME NEW n \in Node, NEW v \in StoredValidation, ChangeIsReal, MarkedFor(v, n, Before)
    PROVE  MarkedFor(Trusting(n, v), n, trusted)
  <1>1. CASE v = NoValidation
    BY <1>1, TrustingKeeps DEF MarkedFor
  <1>2. CASE v # NoValidation
    <2>1. Trusting(n, v).trusted <=> (n \in changes.added \/ (v.trusted /\ n \notin changes.removed))
      <3> DEFINE b == n \in changes.added \/ (v.trusted /\ n \notin changes.removed)
      <3>1. Trusting(n, v).trusted = (v # NoValidation /\ b)
        BY Zenon DEF Trusting, Marked
      <3> QED
        BY <1>2, <3>1, Zenon
    <2>2. v.trusted <=> n \in Before
      BY <1>2 DEF MarkedFor
    <2> QED
      BY <2>1, <2>2, Zenon DEF MarkedFor, ChangeIsReal, Before
  <1> QED
    BY <1>1, <1>2

\* Steps that change no list keep the marks of what they keep.
LEMMA MarksKept ==
    ASSUME MarksInv, UNCHANGED <<trusted, changes, crossed>>,
           \A n \in Node : current_'[n] \in {current_[n], NoValidation},
           \A n \in Node, l \in ID : byLedger_'[l].vals[n] \in {byLedger_[l].vals[n], NoValidation}
    PROVE  MarksInv'
  <1>1. Before' = Before /\ ChangeIsReal'
    BY DEF MarksInv, Before, ChangeIsReal
  <1>2. \A n \in Node \ crossed : MarkedFor(current_'[n], n, Before')
    BY <1>1, Zenon DEF MarksInv, MarkedFor
  <1>3. \A n \in Node \ crossed, l \in ID : MarkedFor(byLedger_'[l].vals[n], n, Before')
    BY <1>1, Zenon DEF MarksInv, MarkedFor
  <1> QED
    BY <1>1, <1>2, <1>3, Zenon DEF MarksInv, MarkedFor

CurrentTypes == current_ \in [Node -> StoredValidation]

LEMMA NoValidationStored == NoValidation \in StoredValidation
  BY DEF NoValidation, StoredValidation

\* The steps of the trie flush current_ and leave the rest.
LEMMA FreshMarks ==
    ASSUME MarksInv, CurrentTypes, current_' = Fresh,
           UNCHANGED <<trusted, changes, crossed, byLedger_>>
    PROVE  MarksInv' /\ CurrentTypes'
  <1>1. \A n \in Node : current_'[n] \in {current_[n], NoValidation}
    BY DEF Fresh
  <1>2. CurrentTypes'
    BY NoValidationStored DEF CurrentTypes, Fresh
  <1> QED
    BY <1>1, <1>2, MarksKept

LEMMA AsideMarks ==
    ASSUME MarksInv, CurrentTypes, UNCHANGED <<trusted, changes, crossed, current_>>,
           \A n \in Node, l \in ID : byLedger_'[l].vals[n] \in {byLedger_[l].vals[n], NoValidation}
    PROVE  MarksInv' /\ CurrentTypes'
  <1>1. CurrentTypes'
    BY Zenon DEF CurrentTypes
  <1> QED
    BY <1>1, MarksKept

LEMMA StoresMarks ==
    ASSUME SeqInv, MarksInv, CurrentTypes, expire \/ \E l \in ID : byLedger(l)
    PROVE  MarksInv' /\ CurrentTypes'
  <1>0. byLedger_ \in Stores
    BY DEF SeqInv, EnforcerTypes
  <1>1. UNCHANGED <<trusted, changes, crossed, current_>>
    BY DEF expire, byLedger
  <1>2. ASSUME expire, NEW n \in Node, NEW a \in ID
        PROVE  byLedger_'[a].vals[n] \in {byLedger_[a].vals[n], NoValidation}
    <2>1. byLedger_'[a].vals = Nobody \/ byLedger_'[a].vals = byLedger_[a].vals
      BY <1>2 DEF expire, Expired
    <2>2. Nobody[n] = NoValidation
      BY SMTT(30) DEF Nobody
    <2> QED
      BY <2>1, <2>2, SMTT(30)
  <1>3. ASSUME NEW l \in ID, byLedger(l), NEW n \in Node, NEW a \in ID
        PROVE  byLedger_'[a].vals[n] \in {byLedger_[a].vals[n], NoValidation}
    BY <1>0, <1>3 DEF byLedger, Stores
  <1> QED
    BY <1>1, <1>2, <1>3, AsideMarks

LEMMA ListMarks ==
    ASSUME MarksInv, CurrentTypes, NEW new \in SUBSET Node, updateTrusted(new)
    PROVE  MarksInv' /\ CurrentTypes'
  <1>1. /\ changes = NoChange
        /\ trusted' = new /\ UNCHANGED <<current_, byLedger_, crossed>>
        /\ changes'.added = new \ trusted /\ changes'.removed = trusted \ new
    BY DEF updateTrusted
  <1>2. Before' = trusted /\ Before = trusted
    BY <1>1, SettledBefore DEF Before
  <1>3. ChangeIsReal' /\ CurrentTypes'
    BY <1>1 DEF ChangeIsReal, CurrentTypes
  <1> QED
    BY <1>1, <1>2, <1>3, Zenon DEF MarksInv, MarkedFor

LEMMA TrustChangedMarks ==
    ASSUME SeqInv, MarksInv, CurrentTypes, NEW order, NEW nodes, trustChanged(order, nodes)
    PROVE  MarksInv' /\ CurrentTypes'
  <1>0. byLedger_ \in Stores
    BY DEF SeqInv, EnforcerTypes
  <1>1. /\ changes # NoChange /\ changes' = NoChange /\ UNCHANGED <<trusted, crossed>>
        /\ current_' = [n \in Node |-> Trusting(n, current_[n])]
        /\ byLedger_' = [l \in ID |-> StoresRetrusted(byLedger_[l].when, byLedger_[l].vals)]
    BY Zenon DEF trustChanged
  <1>3. Before' = trusted /\ ChangeIsReal'
    BY <1>1 DEF Before, ChangeIsReal, NoChange
  <1>4. CurrentTypes'
    BY <1>1, TrustingKeeps DEF CurrentTypes
  <1>5. ASSUME NEW n \in Node \ crossed PROVE MarkedFor(current_'[n], n, trusted)
    <2>1. current_[n] \in StoredValidation /\ current_'[n] = Trusting(n, current_[n])
      BY <1>1 DEF CurrentTypes
    <2>2. MarkedFor(current_[n], n, Before) /\ ChangeIsReal
      BY Zenon DEF MarksInv
    <2>3. MarkedFor(Trusting(n, current_[n]), n, trusted)
      BY <2>1, <2>2, TrustingMarks
    <2> QED
      BY <2>1, <2>3, Zenon
  <1>6. ASSUME NEW n \in Node \ crossed, NEW l \in ID
        PROVE  MarkedFor(byLedger_'[l].vals[n], n, trusted)
    <2>1. /\ byLedger_[l].vals[n] \in StoredValidation
          /\ byLedger_'[l].vals = [m \in Node |-> Trusting(m, byLedger_[l].vals[m])]
      BY <1>0, <1>1 DEF Stores, StoresRetrusted
    <2>2. MarkedFor(byLedger_[l].vals[n], n, Before) /\ ChangeIsReal
      BY Zenon DEF MarksInv
    <2>3. MarkedFor(Trusting(n, byLedger_[l].vals[n]), n, trusted)
      BY <2>1, <2>2, TrustingMarks
    <2>4. byLedger_'[l].vals[n] = Trusting(n, byLedger_[l].vals[n])
      BY <2>1, Zenon
    <2> QED
      BY <2>3, <2>4, Zenon
  <1> QED
    BY <1>1, <1>3, <1>4, <1>5, <1>6, Zenon DEF MarksInv, MarkedFor

LEMMA AddMarks ==
    ASSUME SeqInv, MarksInv, CurrentTypes, NEW order, add(order)
    PROVE  MarksInv' /\ CurrentTypes'
  <1> DEFINE n == arriving[1]
             v == arriving[2]
  <1>0. EnforcerTypes /\ byLedger_ \in Stores /\ now \in Nat
    BY DEF SeqInv, EnforcerTypes
  <1>1. arriving # <<>> /\ UNCHANGED <<now, trusted, changes>>
    BY DEF add
  <1>2. n \in Node /\ v \in StoredValidation /\ v.ledger \in ID
    <2>1. PICK m \in Node, l \in ID, sign \in Nat, tr \in BOOLEAN :
             arriving = <<m, [ledger |-> l, sign |-> sign, seen |-> now, trusted |-> tr]>>
      BY <1>0, <1>1 DEF EnforcerTypes
    <2>2. n = m /\ v = [ledger |-> l, sign |-> sign, seen |-> now, trusted |-> tr]
      BY <2>1
    <2> HIDE DEF n, v
    <2> QED
      BY <1>0, <2>2 DEF StoredValidation
  <1>3. Before' = Before /\ ChangeIsReal'
    BY <1>1 DEF MarksInv, Before, ChangeIsReal
  <1>4. \/ UNCHANGED <<byLedger_, current_, crossed>>
        \/ /\ byLedger_' = [byLedger_ EXCEPT ![v.ledger] = Stored(@, n, v)]
           /\ current_' = [current_ EXCEPT ![n] = v] \/ current_' = current_
           /\ crossed' = IF Crosses(n, v) THEN crossed \cup {n} ELSE crossed
    BY DEF add, Accept
  <1> HIDE DEF n, v
  <1>5. CASE UNCHANGED <<byLedger_, current_, crossed>>
    BY <1>1, <1>5, AsideMarks
  <1>6. CASE /\ byLedger_' = [byLedger_ EXCEPT ![v.ledger] = Stored(@, n, v)]
             /\ current_' = [current_ EXCEPT ![n] = v] \/ current_' = current_
             /\ crossed' = IF Crosses(n, v) THEN crossed \cup {n} ELSE crossed
    <2>1. CurrentTypes' /\ \A m \in Node : current_'[m] = current_[m] \/ (m = n /\ current_'[m] = v)
      BY <1>2, <1>6 DEF CurrentTypes
    <2>2. \A m \in Node, a \in ID :
             \/ byLedger_'[a].vals[m] = byLedger_[a].vals[m]
             \/ m = n /\ byLedger_'[a].vals[m] = v
      <3>1. byLedger_' = [byLedger_ EXCEPT ![v.ledger] = Stored(@, n, v)]
        BY <1>6
      <3>2. \A m \in Node, a \in ID :
               byLedger_'[a].vals[m] =
                  IF m = n /\ a = v.ledger THEN v ELSE byLedger_[a].vals[m]
        BY <1>0, <1>2, <3>1, AddStores, ZenonT(30)
      <3> QED
        BY <3>2, Zenon
    <2>3. crossed \subseteq crossed' /\ (n \notin crossed' => MarkedFor(v, n, Before))
      <3>1. v.trusted \in BOOLEAN
        BY <1>2 DEF StoredValidation
      <3> QED
        BY <1>6, <3>1, Zenon DEF Crosses, MarkedFor
    <2>4. ASSUME NEW m \in Node \ crossed' PROVE MarkedFor(current_'[m], m, Before)
      <3>1. MarkedFor(current_[m], m, Before)
        BY <2>3, Zenon DEF MarksInv
      <3> QED
        BY <2>1, <2>3, <3>1, Zenon
    <2>5. ASSUME NEW m \in Node \ crossed', NEW a \in ID
          PROVE  MarkedFor(byLedger_'[a].vals[m], m, Before)
      <3>1. MarkedFor(byLedger_[a].vals[m], m, Before)
        BY <2>3, Zenon DEF MarksInv
      <3> QED
        BY <2>2, <2>3, <3>1, Zenon
    <2> QED
      BY <1>3, <2>1, <2>4, <2>5, Zenon DEF MarksInv, MarkedFor
  <1> QED
    BY <1>4, <1>5, <1>6

LEMMA NextMarks ==
    SeqInv /\ MarksInv /\ CurrentTypes /\ [Next]_vars => MarksInv' /\ CurrentTypes'
  <1> SUFFICES ASSUME SeqInv, MarksInv, CurrentTypes, [Next]_vars
               PROVE  MarksInv' /\ CurrentTypes'
    OBVIOUS
  <1>1. CASE UNCHANGED <<trusted, changes, crossed, current_, byLedger_>>
    BY <1>1, AsideMarks
  <1>2. CASE current_' = Fresh /\ UNCHANGED <<trusted, changes, crossed, byLedger_>>
    BY <1>2, FreshMarks
  <1>3. CASE expire \/ \E l \in ID : byLedger(l)
    BY <1>3, StoresMarks
  <1>4. CASE \E new \in SUBSET Node : updateTrusted(new)
    BY <1>4, ListMarks, Zenon
  <1>5. CASE \E order, nodes : trustChanged(order, nodes)
    BY <1>5, TrustChangedMarks
  <1>6. CASE \E n \in Node, l \in ID, sign \in SignTimes : handleNewValidation(n, l, sign)
    BY <1>1, <1>6 DEF handleNewValidation
  <1>7. CASE \E order : add(order)
    BY <1>7, AddMarks
  <1>8. CASE UNCHANGED vars
    BY <1>1, <1>8 DEF vars
  <1>9. CASE Tick \/ (\E l \in ID : LedgerAcquired(l))
             \/ \E s \in Keep : setSeqToKeep(s)
    BY <1>1, <1>9 DEF Tick, LedgerAcquired, setSeqToKeep
  <1>10. CASE TrieQuery \/ current
    BY <1>2, <1>10 DEF TrieQuery, withTrie, current
  <1> QED
    BY <1>3, <1>4, <1>5, <1>6, <1>7, <1>8, <1>9, <1>10, Zenon DEF Next

LEMMA InitMarks == Init => MarksInv /\ CurrentTypes
  <1> SUFFICES ASSUME Init PROVE MarksInv /\ CurrentTypes
    OBVIOUS
  <1>1. /\ \A n \in Node : current_[n] = NoValidation
        /\ \A n \in Node, l \in ID : byLedger_[l].vals[n] = NoValidation
        /\ CurrentTypes
    BY NoValidationStored, SMTT(30) DEF Init, Nobody, CurrentTypes
  <1>2. ChangeIsReal
    BY DEF Init, NoChange, ChangeIsReal
  <1> QED
    BY <1>1, <1>2, Zenon DEF MarksInv, MarkedFor

\* However validations are handled while beginConsensus changes the trust, once
\* trustChanged has run every stored validation is marked as its signer is
\* listed, unless the signer is one whose validation crossed a change of its
\* trust; for any number of validators, ledgers and trust changes.
THEOREM MarkedAsListed == Spec => []TrustAgrees
  <1>1. Init => MarksInv /\ CurrentTypes
    BY InitMarks
  <1>2. MarksInv => TrustAgrees
    <2> SUFFICES ASSUME MarksInv, changes = NoChange, NEW n \in Node \ crossed,
                        NEW v \in {current_[n]} \cup {byLedger_[l].vals[n] : l \in ID}
                 PROVE  MarkedFor(v, n, trusted)
      BY Zenon DEF TrustAgrees, MarkedFor
    <2>1. Before = trusted
      BY SettledBefore
    <2>2. v = current_[n] \/ \E l \in ID : v = byLedger_[l].vals[n]
      OBVIOUS
    <2> QED
      BY <2>1, <2>2, Zenon DEF MarksInv
  <1>3. SeqInv /\ MarksInv /\ CurrentTypes /\ [Next]_vars => MarksInv' /\ CurrentTypes'
    BY NextMarks, Zenon
  <1> QED
    BY <1>1, <1>2, <1>3, InitSeqInv, NextSeqInv, PTL DEF Spec

-----------------------------------------------------------------------------
(* Loops.  The folds of the model are recursive functions on sets; what they *)
(* compute is shown by induction, which the least number principle gives.    *)

\* A set of numbers has a least one.
LEMMA Least ==
    ASSUME NEW T, T \subseteq Nat, T # {}
    PROVE  \E x \in T : \A y \in T : ~(y < x)
  <1>1. PICK x \in T : \A y \in T : ~(<<y, x>> \in OpToRel(<, Nat))
    BY NatLessThanWellFounded, WFMin, Zenon
  <1>2. \A y \in T : <<y, x>> \in Nat \X Nat
    OBVIOUS
  <1>3. \A y \in T : y < x => <<y, x>> \in OpToRel(<, Nat)
    BY <1>2 DEF OpToRel
  <1> QED
    BY <1>1, <1>3, Zenon

\* Induction over the numbers.
LEMMA Induct ==
    ASSUME NEW T, 0 \in T, \A k \in Nat : k \in T => k + 1 \in T
    PROVE  \A k \in Nat : k \in T
  <1> SUFFICES ASSUME NEW j \in Nat, j \notin T PROVE FALSE
    OBVIOUS
  <1> DEFINE Out == {k \in Nat : k \notin T}
  <1>1. PICK k \in Out : \A y \in Out : ~(y < k)
    BY Least, Zenon
  <1>2. k - 1 \in Nat /\ k - 1 < k
    BY <1>1
  <1>3. k - 1 \in T
    BY <1>1, <1>2
  <1> QED
    BY <1>1, <1>2, <1>3

\* A subset of a finite set loses one for each of its members taken out.
LEMMA OneLess ==
    ASSUME NEW S, IsFiniteSet(S), NEW s \in SUBSET S, NEW x \in s
    PROVE  /\ s \ {x} \in SUBSET S
           /\ Cardinality(s) \in Nat /\ Cardinality(s \ {x}) = Cardinality(s) - 1
  <1>1. IsFiniteSet(s)
    BY FS_Subset
  <1> QED
    BY <1>1, FS_RemoveElement, FS_CardinalityType

\* A loop over S, taken from its end: c[s] is the last of s.
Picks(c, S) == \A s \in SUBSET S : s # {} => c[s] \in s

Loops(f, F, c, base, S) ==
    \A s \in SUBSET S : f[s] = IF s = {} THEN base ELSE F[<<c[s], f[s \ {c[s]}]>>]

\* What holds of the empty set, and of a set when it holds without the member
\* the loop takes last, holds of them all.
LEMMA LoopInduction ==
    ASSUME NEW S, IsFiniteSet(S), NEW c, Picks(c, S),
           NEW Done, {} \in Done,
           \A s \in SUBSET S : s # {} /\ s \ {c[s]} \in Done => s \in Done
    PROVE  S \in Done
  <1> USE DEF Picks
  <1> DEFINE Upto == {k \in Nat : \A s \in SUBSET S : Cardinality(s) = k => s \in Done}
  <1>1. 0 \in Upto
    <2>1. ASSUME NEW s \in SUBSET S, Cardinality(s) = 0 PROVE s = {}
      <3>1. IsFiniteSet(s)
        BY FS_Subset
      <3> QED
        BY <2>1, <3>1, FS_EmptySet
    <2> QED
      BY <2>1
  <1>2. ASSUME NEW k \in Nat, k \in Upto PROVE k + 1 \in Upto
    <2> SUFFICES ASSUME NEW s \in SUBSET S, Cardinality(s) = k + 1 PROVE s \in Done
      OBVIOUS
    <2>1. s # {}
      BY FS_EmptySet
    <2>2. /\ s \ {c[s]} \in SUBSET S /\ Cardinality(s \ {c[s]}) = k
      BY <2>1, OneLess
    <2> QED
      BY <1>2, <2>1, <2>2
  <1>3. \A k \in Nat : k \in Upto
    <2> HIDE DEF Upto
    <2> QED
      BY <1>1, <1>2, Induct
  <1>4. Cardinality(S) \in Nat
    BY FS_CardinalityType
  <1> QED
    BY <1>3, <1>4

\* The recursion of a loop over S that takes c[s] last has a solution.
LEMMA LoopDefined ==
    ASSUME NEW S, IsFiniteSet(S), NEW c, Picks(c, S),
           NEW X, NEW base \in X, NEW F \in [S \X X -> X]
    PROVE  \E f \in [SUBSET S -> X] : Loops(f, F, c, base, S)
  <1> USE DEF Picks
  <1> DEFINE Rec(f, s) == f[s] = IF s = {} THEN base ELSE F[<<c[s], f[s \ {c[s]}]>>]
             Upto == {k \in Nat : \E f \in [SUBSET S -> X] :
                         \A s \in SUBSET S : Cardinality(s) <= k => Rec(f, s)}
  <1>1. 0 \in Upto
    <2>1. ASSUME NEW s \in SUBSET S, Cardinality(s) <= 0 PROVE s = {}
      <3>1. IsFiniteSet(s)
        BY FS_Subset
      <3>2. Cardinality(s) = 0
        BY <2>1, <3>1, FS_CardinalityType
      <3> QED
        BY <3>1, <3>2, FS_EmptySet
    <2>2. [s \in SUBSET S |-> base] \in [SUBSET S -> X]
      OBVIOUS
    <2>3. \A s \in SUBSET S : Cardinality(s) <= 0 => Rec([u \in SUBSET S |-> base], s)
      BY <2>1
    <2> QED
      BY <2>2, <2>3, Zenon
  <1>2. ASSUME NEW k \in Nat, k \in Upto PROVE k + 1 \in Upto
    <2>1. PICK f \in [SUBSET S -> X] : \A s \in SUBSET S : Cardinality(s) <= k => Rec(f, s)
      BY <1>2, Zenon
    <2> DEFINE g == [s \in SUBSET S |-> IF s = {} THEN base ELSE F[<<c[s], f[s \ {c[s]}]>>]]
    <2>2. g \in [SUBSET S -> X]
      <3>1. ASSUME NEW s \in SUBSET S, s # {} PROVE F[<<c[s], f[s \ {c[s]}]>>] \in X
        <4>1. c[s] \in S /\ s \ {c[s]} \in SUBSET S
          BY <3>1
        <4>2. f[s \ {c[s]}] \in X
          BY <4>1
        <4> QED
          BY <4>1, <4>2
      <3> QED
        BY <3>1
    <2>3. ASSUME NEW s \in SUBSET S, Cardinality(s) <= k PROVE g[s] = f[s]
      BY <2>1, <2>3
    <2>4. ASSUME NEW s \in SUBSET S, Cardinality(s) <= k + 1 PROVE Rec(g, s)
      <3>1. CASE s = {}
        BY <3>1, Zenon
      <3>2. CASE s # {}
        <4>1. c[s] \in s
          BY <3>2
        <4>2. /\ s \ {c[s]} \in SUBSET S /\ Cardinality(s) \in Nat
              /\ Cardinality(s \ {c[s]}) = Cardinality(s) - 1
          BY <4>1, OneLess, Zenon
        <4>3. Cardinality(s \ {c[s]}) <= k
          BY <2>4, <4>2
        <4>4. g[s \ {c[s]}] = f[s \ {c[s]}]
          BY <2>3, <4>2, <4>3, Zenon
        <4> QED
          BY <3>2, <4>4
      <3> QED
        BY <3>1, <3>2, Zenon
    <2> HIDE DEF g, Rec
    <2> QED
      BY <2>2, <2>4
  <1>3. \A k \in Nat : k \in Upto
    <2> HIDE DEF Upto
    <2> QED
      BY <1>1, <1>2, Induct, Zenon
  <1>4. /\ Cardinality(S) \in Nat
        /\ \A s \in SUBSET S : Cardinality(s) <= Cardinality(S)
    BY FS_CardinalityType, FS_Subset
  <1>5. PICK f \in [SUBSET S -> X] :
            \A s \in SUBSET S : Cardinality(s) <= Cardinality(S) => Rec(f, s)
    BY <1>3, <1>4, Zenon
  <1>6. \A s \in SUBSET S : Rec(f, s)
    <2> HIDE DEF Rec
    <2> QED
      BY <1>4, <1>5
  <1>7. Loops(f, F, c, base, S)
    BY <1>6, Zenon DEF Loops
  <1> QED
    BY <1>7

-----------------------------------------------------------------------------
(* The trie as a value.                                                      *)

TrieType == [support : [ID -> Nat], lastLedger : [Node -> ID \cup {Genesis}],
             acquiring : [ID -> SUBSET Node]]

\* The validators whose last ledger is l.
Backers(last, l) == {n \in Node : last[n] = l}

Tries == {t \in TrieType : \A l \in ID : t.support[l] = Cardinality(Backers(t.lastLedger, l))}

\* A validator that turns from one ledger to another.
LEMMA BackersMove ==
    ASSUME NEW last \in [Node -> ID \cup {Genesis}], NEW n \in Node, NEW l \in ID \cup {Genesis},
           NEW a \in ID
    PROVE  /\ Cardinality(Backers(last, a)) \in Nat
           /\ last[n] = a => Cardinality(Backers(last, a)) >= 1
           /\ Cardinality(Backers([last EXCEPT ![n] = l], a))
                = Cardinality(Backers(last, a)) - (IF last[n] = a THEN 1 ELSE 0)
                                                + (IF l = a THEN 1 ELSE 0)
  <1> DEFINE B == Backers(last, a)
             C == Backers([last EXCEPT ![n] = l], a)
             others == B \ {n}
  <1>1. IsFiniteSet(B) /\ IsFiniteSet(others)
    <2>1. IsFiniteSet(Node) /\ B \subseteq Node /\ others \subseteq Node
      BY ValidationsAssumption DEF Backers
    <2> QED
      BY <2>1, FS_Subset
  <1>2. Cardinality(B) \in Nat /\ Cardinality(others) \in Nat
    BY <1>1, FS_CardinalityType
  <1>3. Cardinality(others) = Cardinality(B) - (IF last[n] = a THEN 1 ELSE 0)
    <2>1. n \in B <=> last[n] = a
      BY DEF Backers
    <2>2. n \notin B => others = B
      OBVIOUS
    <2>3. n \in B => Cardinality(others) = Cardinality(B) - 1
      BY <1>1, FS_RemoveElement
    <2> HIDE DEF B, others
    <2> QED
      BY <1>2, <2>1, <2>2, <2>3
  <1>4. Cardinality(C) = Cardinality(others) + (IF l = a THEN 1 ELSE 0)
    <2>1. l = a => C = others \cup {n}
      BY DEF Backers
    <2>2. l # a => C = others
      BY DEF Backers
    <2>3. n \notin others
      OBVIOUS
    <2>4. Cardinality(others \cup {n}) = Cardinality(others) + 1
      BY <1>1, <2>3, FS_AddElement, Zenon
    <2> HIDE DEF C, others
    <2>5. CASE l = a
      BY <2>1, <2>4, <2>5
    <2>6. CASE l # a
      BY <1>2, <2>2, <2>6
    <2> QED
      BY <2>5, <2>6
  <1> HIDE DEF B, C, others
  <1>5. /\ Cardinality(B) \in Nat
        /\ last[n] = a => Cardinality(B) >= 1
        /\ Cardinality(C) = Cardinality(B) - (IF last[n] = a THEN 1 ELSE 0) + (IF l = a THEN 1 ELSE 0)
    BY <1>2, <1>3, <1>4
  <1> QED
    BY <1>5 DEF B, C

LEMMA GenesisIsNone == Genesis \notin ID
BY LedgerAssumption

\* The parts of a trie.
LEMMA TrieParts ==
    ASSUME NEW t \in TrieType
    PROVE  /\ t.support \in [ID -> Nat] /\ t.lastLedger \in [Node -> ID \cup {Genesis}]
           /\ t.acquiring \in [ID -> SUBSET Node]
           /\ t = [support |-> t.support, lastLedger |-> t.lastLedger, acquiring |-> t.acquiring]
BY DEF TrieType

\* updateTrie(node, ledger) moves one validator's support.
LEMMA SupportOnlyMoves ==
    ASSUME NEW t \in Tries, NEW n \in Node, NEW l \in ID
    PROVE  /\ SupportOnly(t, n, l) \in Tries
           /\ SupportOnly(t, n, l).acquiring = t.acquiring
           /\ SupportOnly(t, n, l).lastLedger = [t.lastLedger EXCEPT ![n] = l]
  <1> DEFINE old == t.lastLedger[n]
             without == IF old = Genesis THEN t.support ELSE RemoveFrom(t.support, old, 1)
             sup == InsertInto(without, l, 1)
             last == [t.lastLedger EXCEPT ![n] = l]
  <1>1. /\ t.support \in [ID -> Nat] /\ t.lastLedger \in [Node -> ID \cup {Genesis}]
        /\ t.acquiring \in [ID -> SUBSET Node] /\ t \in TrieType
    BY TrieParts DEF Tries
  <1>2. SupportOnly(t, n, l) = [support |-> sup, lastLedger |-> last, acquiring |-> t.acquiring]
    <2>1. SupportOnly(t, n, l) = [t EXCEPT !.support = sup, !.lastLedger = last]
      BY <1>1 DEF SupportOnly, TrieType
    <2> HIDE DEF sup, last
    <2> QED
      BY <1>1, <2>1, Zenon DEF TrieType
  <1>3. old \in ID \cup {Genesis} /\ last \in [Node -> ID \cup {Genesis}]
    BY <1>1
  <1>4. \A a \in ID : t.support[a] = Cardinality(Backers(t.lastLedger, a))
    BY Zenon DEF Tries
  <1>5. /\ without \in [ID -> Nat]
        /\ \A a \in ID : without[a] = t.support[a] - (IF old = a THEN 1 ELSE 0)
    <2>1. CASE old = Genesis
      BY <1>1, <2>1, GenesisIsNone
    <2>2. CASE old \in ID
      <3>1. t.support[old] \in Nat /\ t.support[old] >= 1
        BY <1>1, <1>4, <2>2, BackersMove
      <3>2. without = [t.support EXCEPT ![old] = @ - 1]
        BY <1>1, <2>2, <3>1, GenesisIsNone DEF RemoveFrom, Smaller
      <3> HIDE DEF without, old
      <3> QED
        BY <1>1, <2>2, <3>1, <3>2
    <2> QED
      BY <1>3, <2>1, <2>2
  <1>6. /\ sup \in [ID -> Nat]
        /\ \A a \in ID : sup[a] = without[a] + (IF l = a THEN 1 ELSE 0)
    <2> HIDE DEF without
    <2> QED
      BY <1>5 DEF InsertInto
  <1>7. ASSUME NEW a \in ID PROVE sup[a] = Cardinality(Backers(last, a))
    <2>1. t.support[a] = Cardinality(Backers(t.lastLedger, a))
      BY <1>4, Zenon
    <2>2. /\ Cardinality(Backers(t.lastLedger, a)) \in Nat
          /\ Cardinality(Backers(last, a))
                = Cardinality(Backers(t.lastLedger, a)) - (IF old = a THEN 1 ELSE 0)
                                                + (IF l = a THEN 1 ELSE 0)
      BY <1>1, BackersMove
    <2> HIDE DEF sup, last, without, old
    <2> QED
      BY <1>5, <1>6, <2>1, <2>2
  <1> HIDE DEF sup, last
  <1>8. SupportOnly(t, n, l) \in TrieType
    BY <1>1, <1>2, <1>3, <1>6 DEF TrieType
  <1>9. SupportOnly(t, n, l) \in Tries
    BY <1>2, <1>7, <1>8 DEF Tries
  <1> QED
    BY <1>2, <1>9 DEF last

\* removeTrie takes a validator out of acquiring_, and its support away when it
\* is for that ledger.
LEMMA RemoveTrieMoves ==
    ASSUME NEW t \in Tries, NEW n \in Node, NEW l \in ID
    PROVE  /\ removeTrie(t, n, l) \in Tries
           /\ removeTrie(t, n, l).acquiring = [t.acquiring EXCEPT ![l] = @ \ {n}]
           /\ removeTrie(t, n, l).lastLedger
                = IF t.lastLedger[n] = l THEN [t.lastLedger EXCEPT ![n] = Genesis] ELSE t.lastLedger
  <1> DEFINE acq == [t.acquiring EXCEPT ![l] = @ \ {n}]
             last == [t.lastLedger EXCEPT ![n] = Genesis]
             sup == [t.support EXCEPT ![l] = @ - 1]
  <1>1. /\ t.support \in [ID -> Nat] /\ t.lastLedger \in [Node -> ID \cup {Genesis}]
        /\ t.acquiring \in [ID -> SUBSET Node] /\ t \in TrieType
    BY TrieParts DEF Tries
  <1>2. \A a \in ID : t.support[a] = Cardinality(Backers(t.lastLedger, a))
    BY DEF Tries
  <1>3. acq \in [ID -> SUBSET Node]
    BY <1>1
  <1>4. StopAcquiring(t, n, l) = [support |-> t.support, lastLedger |-> t.lastLedger, acquiring |-> acq]
    <2>1. StopAcquiring(t, n, l) = [t EXCEPT !.acquiring = acq]
      BY <1>1, Zenon DEF StopAcquiring, TrieType
    <2> HIDE DEF acq
    <2> QED
      BY <1>1, <2>1 DEF TrieType
  <1> HIDE DEF acq
  <1>5. CASE t.lastLedger[n] # l
    <2>1. removeTrie(t, n, l) = [support |-> t.support, lastLedger |-> t.lastLedger, acquiring |-> acq]
      BY <1>4, <1>5, Zenon DEF removeTrie
    <2>2. removeTrie(t, n, l) \in Tries
      BY <1>1, <1>2, <1>3, <2>1 DEF Tries, TrieType
    <2> QED
      BY <1>5, <2>1, <2>2 DEF acq
  <1>6. CASE t.lastLedger[n] = l
    <2>1. t.support[l] \in Nat /\ t.support[l] >= 1
      BY <1>1, <1>2, <1>6, BackersMove
    <2>2. sup = RemoveFrom(t.support, l, 1)
      BY <1>1, <2>1 DEF RemoveFrom, Smaller
    <2>3. removeTrie(t, n, l)
             = [StopAcquiring(t, n, l) EXCEPT !.support = RemoveFrom(@, l, 1), !.lastLedger[n] = Genesis]
      BY <1>6 DEF removeTrie
    <2>4. removeTrie(t, n, l) = [support |-> sup, lastLedger |-> last, acquiring |-> acq]
      <3> DEFINE st == StopAcquiring(t, n, l)
      <3>1. st.support = t.support /\ st.lastLedger = t.lastLedger
        BY <1>4
      <3>2. removeTrie(t, n, l) = [st EXCEPT !.support = sup, !.lastLedger = last]
        BY <1>4, <2>2, <2>3, <3>1, Zenon
      <3>3. st \in TrieType /\ st.acquiring = acq
        BY <1>1, <1>3, <1>4 DEF TrieType
      <3> HIDE DEF sup, last, st
      <3> QED
        BY <3>2, <3>3, Zenon DEF TrieType
    <2>5. sup \in [ID -> Nat] /\ last \in [Node -> ID \cup {Genesis}]
      BY <1>1, <2>1
    <2>6. ASSUME NEW a \in ID PROVE sup[a] = Cardinality(Backers(last, a))
      <3>1. t.support[a] = Cardinality(Backers(t.lastLedger, a)) /\ t.support[a] \in Nat
        BY <1>1, <1>2, Zenon
      <3>2. Cardinality(Backers(last, a)) = t.support[a] - (IF l = a THEN 1 ELSE 0)
        <4>1. Genesis # a
          BY GenesisIsNone, Zenon
        <4>2. Cardinality(Backers(last, a))
                = Cardinality(Backers(t.lastLedger, a)) - (IF t.lastLedger[n] = a THEN 1 ELSE 0)
                                                        + (IF Genesis = a THEN 1 ELSE 0)
          BY <1>1, BackersMove
        <4> HIDE DEF last
        <4> QED
          BY <1>6, <3>1, <4>1, <4>2
      <3>3. sup[a] = t.support[a] - (IF l = a THEN 1 ELSE 0)
        BY <1>1, <2>1
      <3> HIDE DEF sup, last
      <3> QED
        BY <3>2, <3>3
    <2> HIDE DEF sup, last
    <2>7. removeTrie(t, n, l) \in TrieType
      BY <1>3, <2>4, <2>5 DEF TrieType
    <2>8. removeTrie(t, n, l) \in Tries
      BY <2>4, <2>6, <2>7 DEF Tries
    <2> QED
      BY <1>6, <2>4, <2>8 DEF acq, last
  <1> QED
    BY <1>5, <1>6, Zenon

\* When a ledger arrives, whoever waited for it supports it and waits no more.
LEMMA ArriveMoves ==
    ASSUME NEW t \in Tries, NEW l \in ID
    PROVE  /\ Arrive(t, l) \in Tries
           /\ Arrive(t, l).acquiring = [t.acquiring EXCEPT ![l] = {}]
           /\ Arrive(t, l).lastLedger
                = [n \in Node |-> IF n \in t.acquiring[l] THEN l ELSE t.lastLedger[n]]
  <1> DEFINE S == t.acquiring[l]
             some == [s \in SUBSET S |-> CHOOSE x \in s : TRUE]
             F == [p \in S \X Tries |-> SupportOnly(p[2], p[1], l)]
             all == FoldSet(LAMBDA n, r : SupportOnly(r, n, l), t, S)
             moved(s) == [n \in Node |-> IF n \in s THEN l ELSE t.lastLedger[n]]
  <1>1. /\ t.lastLedger \in [Node -> ID \cup {Genesis}]
        /\ t.acquiring \in [ID -> SUBSET Node] /\ t \in TrieType
    BY TrieParts DEF Tries
  <1>2. S \subseteq Node /\ IsFiniteSet(S)
    BY <1>1, ValidationsAssumption, FS_Subset
  <1> HIDE DEF S
  <1>3. Picks(some, S)
    BY DEF Picks
  <1>4. F \in [S \X Tries -> Tries]
    BY <1>2, SupportOnlyMoves, Zenon
  <1>5. \E f : f = [s \in SUBSET S |-> IF s = {} THEN t
                      ELSE SupportOnly(f[s \ {CHOOSE x \in s : TRUE}], CHOOSE x \in s : TRUE, l)]
    <2>0. \E f \in [SUBSET S -> Tries] : Loops(f, F, some, t, S)
      <3> HIDE DEF some, F
      <3> QED
        BY <1>2, <1>3, <1>4, LoopDefined, Zenon
    <2>1. PICK f \in [SUBSET S -> Tries] : \A s \in SUBSET S :
              f[s] = IF s = {} THEN t ELSE F[<<some[s], f[s \ {some[s]}]>>]
      <3> HIDE DEF some, F
      <3> QED
        BY <2>0, Zenon DEF Loops
    <2>2. ASSUME NEW s \in SUBSET S, s # {}
          PROVE  f[s] = SupportOnly(f[s \ {CHOOSE x \in s : TRUE}], CHOOSE x \in s : TRUE, l)
      <3>1. some[s] \in S /\ s \ {some[s]} \in SUBSET S
        BY <1>3, <2>2 DEF Picks
      <3>2. f[s \ {some[s]}] \in Tries
        BY <3>1
      <3>3. F[<<some[s], f[s \ {some[s]}]>>] = SupportOnly(f[s \ {some[s]}], some[s], l)
        <4> HIDE DEF some
        <4>1. <<some[s], f[s \ {some[s]}]>> \in S \X Tries
          BY <3>1, <3>2
        <4> QED
          BY <4>1
      <3>4. some[s] = CHOOSE x \in s : TRUE
        OBVIOUS
      <3> HIDE DEF F, some
      <3> QED
        BY <2>1, <2>2, <3>3, <3>4, Zenon
    <2>3. f[{}] = t
      BY <2>1, Zenon
    <2>4. f = [s \in SUBSET S |-> IF s = {} THEN t
                      ELSE SupportOnly(f[s \ {CHOOSE x \in s : TRUE}], CHOOSE x \in s : TRUE, l)]
      BY <2>2, <2>3, Zenon
    <2> QED
      BY <2>4, Zenon
  <1> DEFINE g == CHOOSE f : f = [s \in SUBSET S |-> IF s = {} THEN t
                      ELSE SupportOnly(f[s \ {CHOOSE x \in s : TRUE}], CHOOSE x \in s : TRUE, l)]
  <1>6. g = [s \in SUBSET S |-> IF s = {} THEN t
                      ELSE SupportOnly(g[s \ {CHOOSE x \in s : TRUE}], CHOOSE x \in s : TRUE, l)]
    BY <1>5, Zenon
  <1>7. all = g[S]
    BY DEF FoldSet, MapThenFoldSet
  <1> HIDE DEF g
  <1> DEFINE Done == {s \in SUBSET S : /\ g[s] \in Tries /\ g[s].acquiring = t.acquiring
                                       /\ g[s].lastLedger = moved(s)}
  <1>8. {} \in Done
    <2>1. g[{}] = t
      BY <1>6
    <2>2. moved({}) = t.lastLedger
      BY <1>1
    <2> QED
      BY <2>1, <2>2
  <1>9. ASSUME NEW s \in SUBSET S, s # {}, s \ {some[s]} \in Done PROVE s \in Done
    <2> DEFINE n == some[s]
               r == g[s \ {some[s]}]
    <2>1. n \in s /\ n \in Node
      BY <1>2, <1>3, <1>9 DEF Picks
    <2>2. r \in Tries /\ r.acquiring = t.acquiring /\ r.lastLedger = moved(s \ {n})
      BY <1>9
    <2>3. g[s] = SupportOnly(r, n, l)
      BY <1>6, <1>9, Zenon
    <2> HIDE DEF n, r
    <2>4. /\ g[s] \in Tries /\ g[s].acquiring = t.acquiring
          /\ g[s].lastLedger = [moved(s \ {n}) EXCEPT ![n] = l]
      BY <2>1, <2>2, <2>3, SupportOnlyMoves
    <2>5. [moved(s \ {n}) EXCEPT ![n] = l] = moved(s)
      BY <2>1, Zenon
    <2> QED
      BY <2>4, <2>5
  <1>10. S \in Done
    <2> HIDE DEF Done, some
    <2> QED
      BY <1>2, <1>3, <1>8, <1>9, LoopInduction
  <1>11. all \in Tries /\ all.acquiring = t.acquiring /\ all.lastLedger = moved(S)
    BY <1>7, <1>10, Zenon
  <1>12. Arrive(t, l) = [all EXCEPT !.acquiring[l] = {}]
    BY DEF Arrive, S
  <1> HIDE DEF all, moved
  <1>13. Arrive(t, l) = [support |-> all.support, lastLedger |-> moved(S),
                         acquiring |-> [t.acquiring EXCEPT ![l] = {}]]
    BY <1>11, <1>12, Zenon DEF Tries, TrieType
  <1>14. Arrive(t, l) \in Tries
    BY <1>1, <1>11, <1>13 DEF Tries, TrieType
  <1> QED
    BY <1>13, <1>14 DEF moved, S

\* The largest of the positions that are left.
LEMMA MaxPicks ==
    ASSUME NEW k \in Nat, NEW s \in SUBSET (1..k), s # {}
    PROVE  Max(s) \in s
  <1> DEFINE T == {j \in Nat : \E x \in s : j = k - x}
  <1>1. T # {}
    <2>1. PICK x \in s : TRUE
      BY Zenon
    <2>2. k - x \in T
      BY <2>1
    <2> QED
      BY <2>2, Zenon
  <1>2. PICK j \in T : \A y \in T : ~(y < j)
    <2>1. T \subseteq Nat
      OBVIOUS
    <2> HIDE DEF T
    <2> QED
      BY <1>1, <2>1, Least, Zenon
  <1>3. PICK x \in s : j = k - x
    BY <1>2
  <1>4. ASSUME NEW y \in s PROVE x >= y
    <2>1. k - y \in T
      BY <1>4
    <2>2. ~(k - y < k - x)
      BY <1>2, <1>3, <2>1
    <2> QED
      BY <1>3, <2>2
  <1>5. \E z \in s : \A y \in s : z >= y
    BY <1>4
  <1> QED
    BY <1>5, Zenon DEF Max

\* Validations as they may be current.
Currents == {cur \in [Node -> StoredValidation] :
                \A n \in Node : cur[n] = NoValidation \/ cur[n].ledger \in ID}

\* What the trie and acquiring_ say of a validator whose validation is cur[n],
\* unless one crossed a change of its trust.
Follows(t, cur, n) ==
    n \notin crossed =>
        /\ cur[n].trusted => t.lastLedger[n] = cur[n].ledger \/ n \in t.acquiring[cur[n].ledger]
        /\ \A l \in ID : n \in t.acquiring[l] => cur[n].trusted /\ cur[n].ledger = l

Tracks(cur) == {t \in Tries : \A n \in Node : /\ t.lastLedger[n] \in ledgers \cup {Genesis}
                                              /\ Follows(t, cur, n)}

\* A trusted validation is for a ledger.
LEMMA CurrentOf ==
    ASSUME NEW cur \in Currents, NEW n \in Node
    PROVE  /\ cur[n] \in StoredValidation /\ cur[n].trusted \in BOOLEAN
           /\ cur[n].trusted => cur[n].ledger \in ID
  <1>1. cur[n] \in StoredValidation /\ (cur[n] = NoValidation \/ cur[n].ledger \in ID)
    BY DEF Currents
  <1>2. NoValidation.trusted = FALSE
    BY DEF NoValidation
  <1> QED
    BY <1>1, <1>2 DEF StoredValidation

\* A ledger that arrives is one its validators wait for.
LEMMA ArriveTracks ==
    ASSUME ledgers \subseteq ID, NEW cur \in Currents, NEW t \in Tracks(cur), NEW l \in ledgers
    PROVE  Arrive(t, l) \in Tracks(cur)
  <1> DEFINE r == Arrive(t, l)
  <1>1. t \in Tries /\ l \in ID /\ t.acquiring \in [ID -> SUBSET Node]
    BY TrieParts, Zenon DEF Tracks, Tries
  <1>2. /\ r \in Tries /\ r.acquiring = [t.acquiring EXCEPT ![l] = {}]
        /\ r.lastLedger = [n \in Node |-> IF n \in t.acquiring[l] THEN l ELSE t.lastLedger[n]]
    BY <1>1, ArriveMoves, Zenon
  <1> HIDE DEF r
  <1>3. ASSUME NEW n \in Node
        PROVE  r.lastLedger[n] \in ledgers \cup {Genesis} /\ Follows(r, cur, n)
    <2>1. t.lastLedger[n] \in ledgers \cup {Genesis} /\ Follows(t, cur, n)
      BY DEF Tracks
    <2>2. r.lastLedger[n] = IF n \in t.acquiring[l] THEN l ELSE t.lastLedger[n]
      BY <1>2, Zenon
    <2>3. \A a \in ID : r.acquiring[a] = IF a = l THEN {} ELSE t.acquiring[a]
      BY <1>1, <1>2
    <2>4. cur[n].trusted => cur[n].ledger \in ID
      BY CurrentOf, Zenon
    <2>5. Follows(r, cur, n)
      BY <1>1, <2>1, <2>2, <2>3, <2>4, Zenon DEF Follows
    <2> QED
      BY <2>1, <2>2, <2>5
  <1> QED
    BY <1>2, <1>3 DEF Tracks, r

\* checkAcquired, whatever the order.
LEMMA CheckTracks ==
    ASSUME ledgers \subseteq ID, NEW cur \in Currents, NEW t \in Tracks(cur),
           NEW k \in Nat, NEW order \in [1..k -> ledgers]
    PROVE  checkAcquired(t, order) \in Tracks(cur)
  <1> DEFINE S == 1..k
             X == Tracks(cur)
             last == [s \in SUBSET S |-> Max(s)]
             F == [p \in S \X X |-> Arrive(p[2], order[p[1]])]
  <1>1. IsFiniteSet(S)
    BY FS_Interval
  <1>2. Picks(last, S)
    BY MaxPicks, Zenon DEF Picks
  <1>3. F \in [S \X X -> X]
    <2>1. ASSUME NEW i \in S, NEW r \in X PROVE Arrive(r, order[i]) \in X
      <3>1. order[i] \in ledgers
        OBVIOUS
      <3> HIDE DEF S
      <3> QED
        BY <3>1, ArriveTracks
    <2> HIDE DEF S, X
    <2> QED
      BY <2>1
  <1> HIDE DEF X
  <1>4. \E f : f = [s \in SUBSET S |-> IF s = {} THEN t
                      ELSE Arrive(f[s \ {Max(s)}], order[Max(s)])]
    <2> HIDE DEF S
    <2>0. \E f \in [SUBSET S -> X] : Loops(f, F, last, t, S)
      <3>1. t \in X
        BY DEF X
      <3> HIDE DEF last, F
      <3> QED
        BY <1>1, <1>2, <1>3, <3>1, LoopDefined, Zenon
    <2>1. PICK f \in [SUBSET S -> X] : \A s \in SUBSET S :
              f[s] = IF s = {} THEN t ELSE F[<<last[s], f[s \ {last[s]}]>>]
      <3> HIDE DEF last, F
      <3> QED
        BY <2>0, Zenon DEF Loops
    <2>2. ASSUME NEW s \in SUBSET S, s # {} PROVE f[s] = Arrive(f[s \ {Max(s)}], order[Max(s)])
      <3>1. last[s] \in S /\ s \ {last[s]} \in SUBSET S
        BY <1>2, <2>2, Zenon DEF Picks
      <3>2. f[s \ {last[s]}] \in X
        BY <3>1
      <3>3. F[<<last[s], f[s \ {last[s]}]>>] = Arrive(f[s \ {last[s]}], order[last[s]])
        <4> HIDE DEF last
        <4>1. <<last[s], f[s \ {last[s]}]>> \in S \X X
          BY <3>1, <3>2
        <4> QED
          BY <4>1
      <3>4. last[s] = Max(s)
        OBVIOUS
      <3> HIDE DEF F, last
      <3> QED
        BY <2>1, <2>2, <3>3, <3>4
    <2>3. f[{}] = t
      BY <2>1, Zenon
    <2>4. f = [s \in SUBSET S |-> IF s = {} THEN t ELSE Arrive(f[s \ {Max(s)}], order[Max(s)])]
      BY <2>2, <2>3, Zenon
    <2> QED
      BY <2>4, Zenon
  <1> DEFINE g == CHOOSE f : f = [s \in SUBSET S |-> IF s = {} THEN t
                      ELSE Arrive(f[s \ {Max(s)}], order[Max(s)])]
  <1>5. g = [s \in SUBSET S |-> IF s = {} THEN t ELSE Arrive(g[s \ {Max(s)}], order[Max(s)])]
    BY <1>4, Zenon
  <1>6. checkAcquired(t, order) = g[S]
    <2>1. DOMAIN order = S
      OBVIOUS
    <2> HIDE DEF S
    <2> QED
      BY <2>1, Zenon DEF checkAcquired, InOrder, MapThenFoldSet
  <1> HIDE DEF g, S
  <1> DEFINE Done == {s \in SUBSET S : g[s] \in X}
  <1>7. {} \in Done
    BY <1>5 DEF X
  <1>8. ASSUME NEW s \in SUBSET S, s # {}, s \ {last[s]} \in Done PROVE s \in Done
    <2>1. last[s] = Max(s) /\ Max(s) \in S
      BY <1>2, <1>8, Zenon DEF Picks
    <2>2. g[s] = Arrive(g[s \ {Max(s)}], order[Max(s)])
      BY <1>5, <1>8, Zenon
    <2>3. order[Max(s)] \in ledgers
      BY <2>1, Zenon DEF S
    <2>4. g[s] \in X
      BY <1>8, <2>1, <2>2, <2>3, ArriveTracks, Zenon DEF X
    <2> QED
      BY <2>4
  <1>9. S \in Done
    <2> HIDE DEF Done, last
    <2> QED
      BY <1>1, <1>2, <1>7, <1>8, LoopInduction
  <1> QED
    BY <1>6, <1>9 DEF X
\* A step that concerns one validator: its validation is now u.
LEMMA OneTracks ==
    ASSUME NEW cur \in Currents, NEW t \in Tracks(cur), NEW n \in Node, NEW u, NEW r \in Tries,
           \A m \in Node \ {n} : /\ r.lastLedger[m] = t.lastLedger[m]
                                 /\ \A l \in ID : m \in r.acquiring[l] <=> m \in t.acquiring[l],
           r.lastLedger[n] \in ledgers \cup {Genesis},
           n \notin crossed =>
              /\ u.trusted => r.lastLedger[n] = u.ledger \/ n \in r.acquiring[u.ledger]
              /\ \A l \in ID : n \in r.acquiring[l] => u.trusted /\ u.ledger = l
    PROVE  r \in Tracks([cur EXCEPT ![n] = u])
  <1> DEFINE new == [cur EXCEPT ![n] = u]
  <1>0. new[n] = u /\ \A m \in Node \ {n} : new[m] = cur[m]
    BY DEF Currents
  <1> HIDE DEF new
  <1>1. r.lastLedger[n] \in ledgers \cup {Genesis} /\ Follows(r, new, n)
    BY <1>0, Zenon DEF Follows
  <1>2. ASSUME NEW m \in Node \ {n}
        PROVE  r.lastLedger[m] \in ledgers \cup {Genesis} /\ Follows(r, new, m)
    <2>1. t.lastLedger[m] \in ledgers \cup {Genesis} /\ Follows(t, cur, m)
      BY Zenon DEF Tracks
    <2>2. cur[m].trusted => cur[m].ledger \in ID
      BY CurrentOf, Zenon
    <2>3. new[m] = cur[m]
      BY <1>0, Zenon
    <2>4. r.lastLedger[m] = t.lastLedger[m] /\ \A l \in ID : m \in r.acquiring[l] <=> m \in t.acquiring[l]
      BY Zenon
    <2>5. Follows(r, new, m)
      BY <2>1, <2>2, <2>3, <2>4, Zenon DEF Follows
    <2> QED
      BY <2>1, <2>4, <2>5, Zenon
  <1> QED
    BY <1>1, <1>2, Zenon DEF Tracks, new

\* The parts of Tracks for one validator.
LEMMA TracksParts ==
    ASSUME NEW cur, NEW t \in Tracks(cur)
    PROVE  /\ t \in Tries /\ t \in TrieType /\ t.support \in [ID -> Nat]
           /\ t.lastLedger \in [Node -> ID \cup {Genesis}] /\ t.acquiring \in [ID -> SUBSET Node]
           /\ \A n \in Node : t.lastLedger[n] \in ledgers \cup {Genesis} /\ Follows(t, cur, n)
BY TrieParts DEF Tracks, Tries

\* A trie in which only acquiring_ changed.
LEMMA AcquiringOnly ==
    ASSUME NEW t \in Tries, NEW acq \in [ID -> SUBSET Node]
    PROVE  /\ [t EXCEPT !.acquiring = acq] \in Tries
           /\ [t EXCEPT !.acquiring = acq].acquiring = acq
           /\ [t EXCEPT !.acquiring = acq].lastLedger = t.lastLedger
BY TrieParts DEF Tries, TrieType

\* A validator that stops waiting for the ledger it validated before.
LEMMA StopTracks ==
    ASSUME NEW cur \in Currents, NEW t \in Tracks(cur), NEW n \in Node, cur[n].ledger \in ID
    PROVE  StopAcquiring(t, n, cur[n].ledger) \in Tracks([cur EXCEPT ![n] = NoValidation])
  <1> DEFINE l == cur[n].ledger
             acq == [t.acquiring EXCEPT ![l] = @ \ {n}]
             r == StopAcquiring(t, n, l)
  <1>1. /\ t \in Tries /\ t \in TrieType /\ t.acquiring \in [ID -> SUBSET Node]
        /\ t.lastLedger[n] \in ledgers \cup {Genesis} /\ Follows(t, cur, n)
    BY TracksParts
  <1>2. acq \in [ID -> SUBSET Node]
    BY <1>1
  <1>3. r = [t EXCEPT !.acquiring = acq]
    BY <1>1 DEF StopAcquiring, TrieType
  <1> HIDE DEF r
  <1>4. r \in Tries /\ r.acquiring = acq /\ r.lastLedger = t.lastLedger
    <2> HIDE DEF acq
    <2> QED
      BY <1>1, <1>2, <1>3, AcquiringOnly, Zenon
  <1>5. \A m \in Node \ {n} : /\ r.lastLedger[m] = t.lastLedger[m]
                              /\ \A a \in ID : m \in r.acquiring[a] <=> m \in t.acquiring[a]
    BY <1>1, <1>4, Zenon
  <1>6. n \notin crossed => \A a \in ID : n \notin r.acquiring[a]
    BY <1>1, <1>4 DEF Follows
  <1>7. NoValidation.trusted = FALSE
    BY DEF NoValidation
  <1>8. r \in Tracks([cur EXCEPT ![n] = NoValidation])
    BY <1>1, <1>4, <1>5, <1>6, <1>7, OneTracks, Zenon
  <1> QED
    BY <1>8, Zenon DEF r

\* updateTrie, past checkAcquired.
Counts(r, n, l) ==
    IF r.acquiring[l] = {} /\ l \in ledgers
    THEN SupportOnly(r, n, l) ELSE [r EXCEPT !.acquiring[l] = @ \cup {n}]

\* A new trusted validation, counted or waiting.
LEMMA CountsTracks ==
    ASSUME NEW cur \in Currents, NEW r \in Tracks(cur), NEW n \in Node, NEW u, u.trusted = TRUE,
           u.ledger \in ID, cur[n].trusted => cur[n].ledger = u.ledger
    PROVE  Counts(r, n, u.ledger) \in Tracks([cur EXCEPT ![n] = u])
  <1> DEFINE l == u.ledger
             q == Counts(r, n, l)
  <1>1. /\ r \in Tries /\ r \in TrieType /\ r.acquiring \in [ID -> SUBSET Node]
        /\ r.lastLedger \in [Node -> ID \cup {Genesis}]
        /\ r.lastLedger[n] \in ledgers \cup {Genesis} /\ Follows(r, cur, n)
    BY TracksParts, Zenon
  <1>2. n \notin crossed => \A a \in ID : n \in r.acquiring[a] => a = l
    BY <1>1 DEF Follows
  <1>3. CASE r.acquiring[l] = {} /\ l \in ledgers
    <2>1. q = SupportOnly(r, n, l)
      BY <1>3, Zenon DEF Counts
    <2> HIDE DEF q
    <2>2. /\ q \in Tries /\ q.acquiring = r.acquiring /\ q.lastLedger = [r.lastLedger EXCEPT ![n] = l]
      BY <1>1, <2>1, SupportOnlyMoves
    <2>3. /\ \A m \in Node \ {n} : /\ q.lastLedger[m] = r.lastLedger[m]
                                   /\ \A a \in ID : m \in q.acquiring[a] <=> m \in r.acquiring[a]
          /\ q.lastLedger[n] = l
      BY <1>1, <2>2, Zenon
    <2>4. n \notin crossed => \A a \in ID : n \in q.acquiring[a] => u.trusted /\ u.ledger = a
      BY <1>2, <2>2
    <2>5. q \in Tracks([cur EXCEPT ![n] = u])
      BY <1>3, <2>2, <2>3, <2>4, OneTracks, Zenon
    <2> QED
      BY <2>5 DEF q
  <1>4. CASE ~(r.acquiring[l] = {} /\ l \in ledgers)
    <2> DEFINE acq == [r.acquiring EXCEPT ![l] = @ \cup {n}]
    <2>1. q = [r EXCEPT !.acquiring = acq]
      BY <1>1, <1>4, Zenon DEF Counts, TrieType
    <2>2. acq \in [ID -> SUBSET Node]
      BY <1>1
    <2> HIDE DEF q
    <2>3. q \in Tries /\ q.acquiring = acq /\ q.lastLedger = r.lastLedger
      <3> HIDE DEF acq
      <3> QED
        BY <1>1, <2>1, <2>2, AcquiringOnly, Zenon
    <2>4. \A m \in Node \ {n} : /\ q.lastLedger[m] = r.lastLedger[m]
                                /\ \A a \in ID : m \in q.acquiring[a] <=> m \in r.acquiring[a]
      BY <1>1, <2>3
    <2>5. n \in q.acquiring[l] /\ (n \notin crossed => \A a \in ID : n \in q.acquiring[a] => a = l)
      BY <1>1, <1>2, <2>3
    <2>6. q \in Tracks([cur EXCEPT ![n] = u])
      BY <1>1, <2>3, <2>4, <2>5, OneTracks, Zenon
    <2> QED
      BY <2>6 DEF q
  <1> QED
    BY <1>3, <1>4, Zenon

\* updateTrie when the validator's validation becomes u, on the ledger of v.
LEMMA UpdateTracks ==
    ASSUME ledgers \subseteq ID, NEW cur \in Currents, NEW t \in Tracks(cur),
           NEW k \in Nat, NEW order \in [1..k -> ledgers], NEW n \in Node, NEW v, NEW u,
           u.trusted = TRUE, u.ledger = v.ledger, v.ledger \in ID, NEW prior,
           \/ prior = Genesis /\ (cur[n].trusted => cur[n].ledger = v.ledger)
           \/ prior \in ID /\ prior = cur[n].ledger
    PROVE  updateTrie(t, n, v, prior, order) \in Tracks([cur EXCEPT ![n] = u])
  <1>1. CASE prior = Genesis /\ (cur[n].trusted => cur[n].ledger = v.ledger)
    <2>1. checkAcquired(t, order) \in Tracks(cur)
      BY CheckTracks
    <2>2. updateTrie(t, n, v, prior, order) = Counts(checkAcquired(t, order), n, u.ledger)
      BY <1>1, Zenon DEF updateTrie, Counts
    <2> QED
      BY <1>1, <2>1, <2>2, CountsTracks, Zenon
  <1>2. CASE prior \in ID /\ prior = cur[n].ledger
    <2> DEFINE cleared == StopAcquiring(t, n, prior)
               none == [cur EXCEPT ![n] = NoValidation]
    <2>1. cleared \in Tracks(none)
      BY <1>2, StopTracks, Zenon
    <2>2. none \in Currents /\ none[n] = NoValidation
      <3>1. NoValidation \in StoredValidation
        BY NoValidationStored
      <3> QED
        BY <3>1 DEF Currents
    <2>3. [none EXCEPT ![n] = u] = [cur EXCEPT ![n] = u]
      BY Zenon DEF Currents
    <2>4. updateTrie(t, n, v, prior, order) = Counts(checkAcquired(cleared, order), n, u.ledger)
      <3>1. prior # Genesis
        BY <1>2, GenesisIsNone, Zenon
      <3> QED
        BY <3>1, Zenon DEF updateTrie, Counts
    <2> HIDE DEF cleared, none
    <2>5. checkAcquired(cleared, order) \in Tracks(none)
      BY <2>1, <2>2, CheckTracks, Zenon
    <2>6. none[n].trusted => none[n].ledger = u.ledger
      BY <2>2 DEF NoValidation
    <2>7. Counts(checkAcquired(cleared, order), n, u.ledger) \in Tracks([none EXCEPT ![n] = u])
      BY <2>2, <2>5, <2>6, CountsTracks, Zenon
    <2> QED
      BY <2>3, <2>4, <2>7, Zenon
  <1> QED
    BY <1>1, <1>2

\* removeTrie when the validator's validation is no longer one that counts.
LEMMA RemoveTracks ==
    ASSUME NEW cur \in Currents, NEW t \in Tracks(cur), NEW n \in Node, NEW u,
           u.trusted = FALSE, cur[n].ledger \in ID
    PROVE  removeTrie(t, n, cur[n].ledger) \in Tracks([cur EXCEPT ![n] = u])
  <1> DEFINE l == cur[n].ledger
             r == removeTrie(t, n, l)
  <1>1. /\ t \in Tries /\ t.acquiring \in [ID -> SUBSET Node]
        /\ t.lastLedger \in [Node -> ID \cup {Genesis}]
        /\ t.lastLedger[n] \in ledgers \cup {Genesis} /\ Follows(t, cur, n)
    BY TracksParts, Zenon
  <1>2. /\ r \in Tries /\ r.acquiring = [t.acquiring EXCEPT ![l] = @ \ {n}]
        /\ r.lastLedger = IF t.lastLedger[n] = l THEN [t.lastLedger EXCEPT ![n] = Genesis]
                          ELSE t.lastLedger
    BY <1>1, RemoveTrieMoves
  <1> HIDE DEF r
  <1>3. r.lastLedger[n] \in ledgers \cup {Genesis} /\ \A m \in Node \ {n} : r.lastLedger[m] = t.lastLedger[m]
    BY <1>1, <1>2, Zenon
  <1>4. \A m \in Node \ {n}, a \in ID : m \in r.acquiring[a] <=> m \in t.acquiring[a]
    BY <1>1, <1>2, Zenon
  <1>5. n \notin crossed => \A a \in ID : n \notin r.acquiring[a]
    BY <1>1, <1>2 DEF Follows
  <1>6. r \in Tracks([cur EXCEPT ![n] = u])
    BY <1>2, <1>3, <1>4, <1>5, OneTracks, Zenon
  <1> QED
    BY <1>6, Zenon DEF r
-----------------------------------------------------------------------------
(* The loops over validators.                                                *)

\* current_ without the validations of s.
Without(s) == [n \in Node |-> IF n \in s THEN NoValidation ELSE current_[n]]

\* A validation dropped is none.
LEMMA WithoutCurrent ==
    ASSUME current_ \in Currents, NEW s
    PROVE  Without(s) \in Currents
  <1>1. NoValidation \in StoredValidation
    BY NoValidationStored
  <1> QED
    BY <1>1 DEF Currents, Without

\* current() takes the stale ones out.
LEMMA FlushedTracks ==
    ASSUME current_ \in Currents, Trie \in Tracks(current_)
    PROVE  Flushed \in Tracks(Fresh)
  <1> DEFINE S == Stale
             some == [s \in SUBSET S |-> CHOOSE x \in s : TRUE]
             F == [p \in S \X Tries |-> removeTrie(p[2], p[1], current_[p[1]].ledger)]
  <1>0. Trie \in Tries
    BY TracksParts
  <1> DEFINE t == Trie
  <1> HIDE DEF t
  <1>1. S \subseteq Node /\ \A n \in S : current_[n].ledger \in ID
    BY DEF Stale, Currents
  <1>2. IsFiniteSet(S)
    BY <1>1, ValidationsAssumption, FS_Subset
  <1> HIDE DEF S
  <1>3. Picks(some, S)
    BY DEF Picks
  <1>4. F \in [S \X Tries -> Tries]
    <2>1. \A n \in S, r \in Tries : removeTrie(r, n, current_[n].ledger) \in Tries
      BY <1>1, RemoveTrieMoves, Zenon
    <2> QED
      BY <2>1
  <1>5. \E f : f = [s \in SUBSET S |-> IF s = {} THEN t
                      ELSE removeTrie(f[s \ {CHOOSE x \in s : TRUE}], CHOOSE x \in s : TRUE,
                                      current_[CHOOSE x \in s : TRUE].ledger)]
    <2>0. \E f \in [SUBSET S -> Tries] : Loops(f, F, some, t, S)
      <3>1. t \in Tries
        BY <1>0 DEF t
      <3> HIDE DEF some, F
      <3> QED
        BY <1>2, <1>3, <1>4, <3>1, LoopDefined, Zenon
    <2>1. PICK f \in [SUBSET S -> Tries] : \A s \in SUBSET S :
              f[s] = IF s = {} THEN t ELSE F[<<some[s], f[s \ {some[s]}]>>]
      <3> HIDE DEF some, F
      <3> QED
        BY <2>0, Zenon DEF Loops
    <2>2. ASSUME NEW s \in SUBSET S, s # {}
          PROVE  f[s] = removeTrie(f[s \ {CHOOSE x \in s : TRUE}], CHOOSE x \in s : TRUE,
                                   current_[CHOOSE x \in s : TRUE].ledger)
      <3>1. some[s] \in S /\ s \ {some[s]} \in SUBSET S
        BY <1>3, <2>2 DEF Picks
      <3>2. f[s \ {some[s]}] \in Tries
        BY <3>1, Zenon
      <3>3. F[<<some[s], f[s \ {some[s]}]>>]
               = removeTrie(f[s \ {some[s]}], some[s], current_[some[s]].ledger)
        <4> HIDE DEF some
        <4>1. <<some[s], f[s \ {some[s]}]>> \in S \X Tries
          BY <3>1, <3>2
        <4> QED
          BY <4>1
      <3>4. some[s] = CHOOSE x \in s : TRUE
        OBVIOUS
      <3> HIDE DEF F, some
      <3> QED
        BY <2>1, <2>2, <3>3, <3>4, Zenon
    <2>3. f[{}] = t
      BY <2>1, Zenon
    <2>4. f = [s \in SUBSET S |-> IF s = {} THEN t
                  ELSE removeTrie(f[s \ {CHOOSE x \in s : TRUE}], CHOOSE x \in s : TRUE,
                                  current_[CHOOSE x \in s : TRUE].ledger)]
      BY <2>2, <2>3, Zenon
    <2> QED
      BY <2>4, Zenon
  <1> DEFINE g == CHOOSE f : f = [s \in SUBSET S |-> IF s = {} THEN t
                      ELSE removeTrie(f[s \ {CHOOSE x \in s : TRUE}], CHOOSE x \in s : TRUE,
                                      current_[CHOOSE x \in s : TRUE].ledger)]
  <1>6. g = [s \in SUBSET S |-> IF s = {} THEN t
                      ELSE removeTrie(g[s \ {CHOOSE x \in s : TRUE}], CHOOSE x \in s : TRUE,
                                      current_[CHOOSE x \in s : TRUE].ledger)]
    BY <1>5, Zenon
  <1>7. Flushed = g[S]
    BY Zenon DEF Flushed, FoldSet, MapThenFoldSet, S, t
  <1> HIDE DEF g
  <1> DEFINE Done == {s \in SUBSET S : g[s] \in Tracks(Without(s))}
  <1>8. {} \in Done
    <2>1. g[{}] = Trie
      BY <1>6 DEF t
    <2>2. Without({}) = current_
      BY DEF Without, Currents
    <2> QED
      BY <2>1, <2>2
  <1>9. ASSUME NEW s \in SUBSET S, s # {}, s \ {some[s]} \in Done PROVE s \in Done
    <2> DEFINE n == some[s]
               r == g[s \ {some[s]}]
               cur == Without(s \ {n})
    <2>1. n \in s /\ n \in Node /\ current_[n].ledger \in ID
      BY <1>1, <1>3, <1>9, Zenon DEF Picks
    <2>2. r \in Tracks(cur) /\ cur \in Currents
      BY <1>9, WithoutCurrent, Zenon
    <2>3. g[s] = removeTrie(r, n, current_[n].ledger)
      BY <1>6, <1>9
    <2> HIDE DEF n, r
    <2>4. cur[n] = current_[n] /\ [cur EXCEPT ![n] = NoValidation] = Without(s)
      BY <2>1, Zenon DEF Without
    <2> HIDE DEF cur
    <2>5. NoValidation.trusted = FALSE
      BY DEF NoValidation
    <2>6. removeTrie(r, n, cur[n].ledger) \in Tracks([cur EXCEPT ![n] = NoValidation])
      BY <2>1, <2>2, <2>4, <2>5, RemoveTracks, Zenon
    <2> QED
      BY <2>3, <2>4, <2>6, Zenon
  <1>10. S \in Done
    <2> HIDE DEF Done, some
    <2> QED
      BY <1>2, <1>3, <1>8, <1>9, LoopInduction
  <1>11. Fresh = Without(S)
    BY Zenon DEF Fresh, Without, S
  <1> QED
    BY <1>7, <1>10, <1>11, Zenon

\* current_ with the validations of s marked by trustChanged.
Retrusted(s) == [n \in Node |-> IF n \in s THEN Trusting(n, current_[n]) ELSE current_[n]]

\* Marking a validation leaves its ledger.
LEMMA TrustingLedger ==
    ASSUME NEW n, NEW v \in StoredValidation
    PROVE  /\ Trusting(n, v).ledger = v.ledger
           /\ v # NoValidation /\ n \in changes.added => Trusting(n, v).trusted = TRUE
           /\ n \notin changes.added /\ n \in changes.removed => Trusting(n, v).trusted = FALSE
BY DEF Trusting, Marked

\* Marked validations are validations.
LEMMA RetrustedCurrent ==
    ASSUME current_ \in Currents, NEW s
    PROVE  Retrusted(s) \in Currents
  <1>1. ASSUME NEW n \in Node
        PROVE  /\ Retrusted(s)[n] \in StoredValidation
               /\ Retrusted(s)[n] = NoValidation \/ Retrusted(s)[n].ledger \in ID
    <2>1. current_[n] \in StoredValidation /\ (current_[n] = NoValidation \/ current_[n].ledger \in ID)
      BY DEF Currents
    <2>2. /\ Trusting(n, current_[n]) \in StoredValidation
          /\ current_[n] = NoValidation => Trusting(n, current_[n]) = NoValidation
          /\ Trusting(n, current_[n]).ledger = current_[n].ledger
      BY <2>1, TrustingKeeps, TrustingLedger, Zenon
    <2>3. Retrusted(s)[n] = IF n \in s THEN Trusting(n, current_[n]) ELSE current_[n]
      BY DEF Retrusted
    <2> QED
      BY <2>1, <2>2, <2>3
  <1>2. Retrusted(s) = [n \in Node |-> Retrusted(s)[n]]
    BY Zenon DEF Retrusted
  <1> QED
    BY <1>1, <1>2, Zenon DEF Currents

\* What trustChanged does for one validator.
Visit(t, n, order) ==
    IF n \in changes.added THEN updateTrie(t, n, current_[n], Genesis, order)
    ELSE removeTrie(t, n, current_[n].ledger)

\* trustChanged at one validator.
LEMMA VisitTracks ==
    ASSUME ledgers \subseteq ID, current_ \in Currents, NEW D, NEW t \in Tracks(Retrusted(D)),
           NEW k \in Nat, NEW order \in [1..k -> ledgers],
           NEW n \in Node, n \in changes.added \cup changes.removed, current_[n] # NoValidation
    PROVE  Visit(t, n, order) \in Tracks(Retrusted(D \cup {n}))
  <1> DEFINE cur == Retrusted(D)
             v == current_[n]
             u == Trusting(n, v)
  <1>1. v \in StoredValidation /\ v.ledger \in ID
    BY DEF Currents
  <1>2. u.ledger = v.ledger /\ (n \in changes.added => u.trusted = TRUE)
        /\ (n \notin changes.added => u.trusted = FALSE)
    BY <1>1, TrustingLedger, Zenon
  <1>3. cur \in Currents
    BY RetrustedCurrent, Zenon
  <1>4. cur[n].ledger = v.ledger
    BY <1>2, Zenon DEF Retrusted
  <1>5. [cur EXCEPT ![n] = u] = Retrusted(D \cup {n})
    BY Zenon DEF Retrusted
  <1> HIDE DEF cur, v, u
  <1>6. CASE n \in changes.added
    <2>1. updateTrie(t, n, v, Genesis, order) \in Tracks([cur EXCEPT ![n] = u])
      <3>1. t \in Tracks(cur)
        BY DEF cur
      <3> QED
        BY <1>1, <1>2, <1>3, <1>4, <1>6, <3>1, UpdateTracks, Zenon
    <2> QED
      BY <1>5, <1>6, <2>1 DEF Visit, v
  <1>7. CASE n \notin changes.added
    <2>1. removeTrie(t, n, cur[n].ledger) \in Tracks([cur EXCEPT ![n] = u])
      <3>1. t \in Tracks(cur)
        BY DEF cur
      <3> QED
        BY <1>1, <1>2, <1>3, <1>4, <1>7, <3>1, RemoveTracks, Zenon
    <2> QED
      BY <1>4, <1>5, <1>7, <2>1, Zenon DEF Visit, v
  <1> QED
    BY <1>6, <1>7, Zenon
Visited(order, nodes) == InOrder(LAMBDA t, n : Visit(t, n, order), Trie, nodes)

\* trustChanged after any number of them.
LEMMA VisitedTracks ==
    ASSUME ledgers \subseteq ID, current_ \in Currents, Trie \in Tracks(current_),
           NEW k \in Nat, NEW order \in [1..k -> ledgers],
           NEW j \in Nat, NEW nodes \in [1..j -> Node],
           \A i \in 1..j : /\ nodes[i] \in changes.added \cup changes.removed
                           /\ current_[nodes[i]] # NoValidation
    PROVE  Visited(order, nodes) \in Tracks(Retrusted({nodes[i] : i \in 1..j}))
  <1> DEFINE S == 1..j
             X == UNION {Tracks(Retrusted(D)) : D \in SUBSET Node}
             last == [s \in SUBSET S |-> Max(s)]
             F == [p \in S \X X |-> Visit(p[2], nodes[p[1]], order)]
             t == Trie
             seen(s) == {nodes[i] : i \in s}
  <1>1. IsFiniteSet(S)
    BY FS_Interval
  <1>2. Picks(last, S)
    BY MaxPicks, Zenon DEF Picks
  <1>3. ASSUME NEW i \in S, NEW D, NEW r \in Tracks(Retrusted(D))
        PROVE  Visit(r, nodes[i], order) \in Tracks(Retrusted(D \cup {nodes[i]}))
    <2>1. nodes[i] \in Node /\ nodes[i] \in changes.added \cup changes.removed
          /\ current_[nodes[i]] # NoValidation
      OBVIOUS
    <2> HIDE DEF S
    <2> QED
      BY <1>3, <2>1, VisitTracks, Zenon
  <1>4. t \in Tracks(Retrusted({}))
    <2>1. Retrusted({}) = current_
      BY DEF Retrusted, Currents
    <2> QED
      BY <2>1
  <1> HIDE DEF t
  <1>5. t \in X
    BY <1>4, Zenon
  <1>6. F \in [S \X X -> X]
    <2>1. ASSUME NEW i \in S, NEW r \in X PROVE Visit(r, nodes[i], order) \in X
      <3>1. PICK D \in SUBSET Node : r \in Tracks(Retrusted(D))
        BY <2>1, Zenon
      <3>2. Visit(r, nodes[i], order) \in Tracks(Retrusted(D \cup {nodes[i]}))
        BY <1>3, <3>1, Zenon
      <3>3. D \cup {nodes[i]} \in SUBSET Node
        OBVIOUS
      <3> QED
        BY <3>2, <3>3
    <2> HIDE DEF S, X
    <2> QED
      BY <2>1
  <1> HIDE DEF X
  <1>7. \E f : f = [s \in SUBSET S |-> IF s = {} THEN t
                      ELSE Visit(f[s \ {Max(s)}], nodes[Max(s)], order)]
    <2> HIDE DEF S
    <2>0. \E f \in [SUBSET S -> X] : Loops(f, F, last, t, S)
      <3> HIDE DEF last, F
      <3> QED
        BY <1>1, <1>2, <1>5, <1>6, LoopDefined, Zenon
    <2>1. PICK f \in [SUBSET S -> X] : \A s \in SUBSET S :
              f[s] = IF s = {} THEN t ELSE F[<<last[s], f[s \ {last[s]}]>>]
      <3> HIDE DEF last, F
      <3> QED
        BY <2>0, Zenon DEF Loops
    <2>2. ASSUME NEW s \in SUBSET S, s # {}
          PROVE  f[s] = Visit(f[s \ {Max(s)}], nodes[Max(s)], order)
      <3>1. last[s] \in S /\ s \ {last[s]} \in SUBSET S
        BY <1>2, <2>2, Zenon DEF Picks
      <3>2. f[s \ {last[s]}] \in X
        BY <3>1, Zenon
      <3>3. F[<<last[s], f[s \ {last[s]}]>>] = Visit(f[s \ {last[s]}], nodes[last[s]], order)
        <4> HIDE DEF last
        <4>1. <<last[s], f[s \ {last[s]}]>> \in S \X X
          BY <3>1, <3>2
        <4> QED
          BY <4>1, Zenon
      <3>4. last[s] = Max(s)
        BY Zenon
      <3> HIDE DEF F, last
      <3> QED
        BY <2>1, <2>2, <3>3, <3>4, Zenon
    <2>3. f[{}] = t
      BY <2>1, Zenon
    <2>4. f = [s \in SUBSET S |-> IF s = {} THEN t
                  ELSE Visit(f[s \ {Max(s)}], nodes[Max(s)], order)]
      BY <2>2, <2>3, Zenon
    <2> QED
      BY <2>4, Zenon
  <1> DEFINE g == CHOOSE f : f = [s \in SUBSET S |-> IF s = {} THEN t
                      ELSE Visit(f[s \ {Max(s)}], nodes[Max(s)], order)]
  <1>8. g = [s \in SUBSET S |-> IF s = {} THEN t
                ELSE Visit(g[s \ {Max(s)}], nodes[Max(s)], order)]
    BY <1>7, Zenon
  <1>9. Visited(order, nodes) = g[S]
    <2>1. DOMAIN nodes = S
      OBVIOUS
    <2> HIDE DEF S
    <2> QED
      BY <2>1, Zenon DEF Visited, InOrder, MapThenFoldSet, t
  <1> HIDE DEF g, S
  <1> DEFINE Done == {s \in SUBSET S : g[s] \in Tracks(Retrusted(seen(s)))}
  <1>10. {} \in Done
    <2>1. seen({}) = {}
      BY Zenon
    <2>2. g[{}] = t
      BY <1>8
    <2> HIDE DEF seen
    <2> QED
      BY <1>4, <2>1, <2>2, Zenon
  <1>11. ASSUME NEW s \in SUBSET S, s # {}, s \ {last[s]} \in Done PROVE s \in Done
    <2>1. last[s] = Max(s) /\ Max(s) \in s
      BY <1>2, <1>11, Zenon DEF Picks
    <2>2. g[s] = Visit(g[s \ {Max(s)}], nodes[Max(s)], order)
      BY <1>8, <1>11, Zenon
    <2>3. seen(s) = seen(s \ {Max(s)}) \cup {nodes[Max(s)]}
      BY <2>1, Zenon
    <2> HIDE DEF seen
    <2>4. g[s \ {Max(s)}] \in Tracks(Retrusted(seen(s \ {Max(s)})))
      BY <1>11, <2>1
    <2>5. g[s] \in Tracks(Retrusted(seen(s \ {Max(s)}) \cup {nodes[Max(s)]}))
      BY <1>3, <2>1, <2>2, <2>4, Zenon
    <2> QED
      BY <2>3, <2>5, Zenon
  <1>12. S \in Done
    <2> HIDE DEF Done, last
    <2> QED
      BY <1>1, <1>2, <1>10, <1>11, LoopInduction
  <1> QED
    BY <1>9, <1>12, Zenon DEF S

\* The fold of trustChanged is that of Visit.
LEMMA TrustChangedVisits ==
    ASSUME NEW order, NEW nodes, trustChanged(order, nodes)
    PROVE  Becomes(Visited(order, nodes))
BY Zenon DEF trustChanged, Visited, InOrder, MapThenFoldSet, Visit

\* Validators outside the change keep their mark.
LEMMA TrustingSame ==
    ASSUME NEW n, NEW v \in StoredValidation, v # NoValidation,
           n \notin changes.added, n \notin changes.removed
    PROVE  Trusting(n, v) = v
  <1>1. Trusting(n, v) = Marked(v, v.trusted)
    <2>1. (v # NoValidation /\ (n \in changes.added \/ (v.trusted /\ n \notin changes.removed))) = v.trusted
      BY DEF StoredValidation
    <2> QED
      BY <2>1, Zenon DEF Trusting
  <1> QED
    BY <1>1 DEF Marked, StoredValidation

TypedChanges == changes.added \subseteq Node /\ changes.removed \subseteq Node

-----------------------------------------------------------------------------
(* The trie, lastLedger_ and acquiring_ through every action.                *)

TrieInv == ledgers \subseteq ID /\ current_ \in Currents /\ Trie \in Tracks(current_)

\* The state after a step, from its trie as a value.
LEMMA Becoming ==
    ASSUME UNCHANGED ledgers, crossed \subseteq crossed', NEW r, r \in Tracks(current_'), Becomes(r)
    PROVE  (Trie \in Tracks(current_))'
  <1>1. r \in TrieType
    BY DEF Tracks, Tries
  <1>2. Trie' = r
    BY <1>1, Zenon DEF Trie, Becomes, TrieType
  <1>3. \A n \in Node : r.lastLedger[n] \in ledgers' \cup {Genesis} /\ Follows(Trie, current_, n)'
    <2>1. \A n \in Node : r.lastLedger[n] \in ledgers \cup {Genesis} /\ Follows(r, current_', n)
      BY TracksParts, Zenon
    <2> QED
      BY <1>2, <2>1, Zenon DEF Follows
  <1>4. r \in Tries
    BY DEF Tracks
  <1> QED
    BY <1>2, <1>3, <1>4, Zenon DEF Tracks, Tries, TrieType, Backers

\* Steps that leave the trie and the current validations alone.
LEMMA TrieAside ==
    ASSUME TrieInv, UNCHANGED <<ledgers, current_, trieVars>>, crossed \subseteq crossed'
    PROVE  TrieInv'
  <1>1. Becomes(Trie)
    BY DEF Becomes, Trie, trieVars
  <1>2. Trie \in Tracks(current_')
    BY DEF TrieInv
  <1>3. (Trie \in Tracks(current_))'
    BY <1>1, <1>2, Becoming, Zenon
  <1>4. (ledgers \subseteq ID)' /\ (current_ \in Currents)'
    BY DEF TrieInv, Currents
  <1> QED
    BY <1>3, <1>4, Zenon DEF TrieInv

\* One more ledger that can be found.
LEMMA TrieAcquired ==
    ASSUME TrieInv, NEW l \in ID, LedgerAcquired(l)
    PROVE  TrieInv'
  <1>1. /\ ledgers' = ledgers \cup {l} /\ current_' = current_ /\ Trie' = Trie
        /\ crossed' = crossed
    BY Zenon DEF LedgerAcquired, Trie, trieVars
  <1>2. /\ Trie \in Tries
        /\ \A n \in Node : Trie.lastLedger[n] \in ledgers \cup {Genesis} /\ Follows(Trie, current_, n)
    BY TracksParts, Zenon DEF TrieInv
  <1>3. \A n \in Node : Trie.lastLedger[n] \in ledgers' \cup {Genesis} /\ Follows(Trie, current_, n)
    BY <1>1, <1>2
  <1>4. (Trie \in Tracks(current_))'
    BY <1>1, <1>2, <1>3, Zenon DEF Tracks, Follows
  <1>5. (ledgers \subseteq ID)' /\ (current_ \in Currents)'
    BY <1>1 DEF TrieInv, Currents
  <1> QED
    BY <1>4, <1>5, Zenon DEF TrieInv

\* A loop over some of the ledgers, or some of the validators.
LEMMA OrderOf ==
    ASSUME NEW S, IsFiniteSet(S), NEW keys \in SUBSET S, NEW order \in Orders(keys)
    PROVE  /\ Cardinality(keys) \in Nat /\ order \in [1..Cardinality(keys) -> S]
           /\ {order[i] : i \in 1..Cardinality(keys)} = keys
  <1>1. IsFiniteSet(keys)
    BY FS_Subset
  <1>2. Cardinality(keys) \in Nat
    BY <1>1, FS_CardinalityType
  <1>3. /\ order \in [1..Cardinality(keys) -> keys]
        /\ \A x \in keys : \E i \in 1..Cardinality(keys) : order[i] = x
    BY Zenon DEF Orders, Bijection, Injection, Surjection
  <1> QED
    BY <1>2, <1>3, Zenon

\* checkAcquired visits ledgers that can be found.
LEMMA AcquireOrder ==
    ASSUME TrieInv, NEW order \in AcquireOrders
    PROVE  \E k \in Nat : order \in [1..k -> ledgers]
  <1> DEFINE keys == {l \in ledgers : acquiring_[l] # {}}
  <1>1. IsFiniteSet(ledgers)
    BY LedgerAssumption, FS_Subset, Zenon DEF TrieInv
  <1>2. keys \in SUBSET ledgers /\ order \in Orders(keys)
    BY DEF AcquireOrders
  <1> HIDE DEF keys
  <1> QED
    BY <1>1, <1>2, OrderOf

\* The queries, which drop stale validations first.
LEMMA TrieFlushed ==
    ASSUME TrieInv, current \/ TrieQuery
    PROVE  TrieInv'
  <1>1. current_' = Fresh /\ ledgers' = ledgers /\ crossed' = crossed
    BY DEF current, TrieQuery, withTrie
  <1>2. Fresh \in Currents
    <2>1. Fresh = Without(Stale)
      BY DEF Fresh, Without
    <2> QED
      BY <2>1, WithoutCurrent DEF TrieInv
  <1>3. Flushed \in Tracks(Fresh)
    BY FlushedTracks DEF TrieInv
  <1>4. ASSUME current PROVE (Trie \in Tracks(current_))'
    <2>1. Becomes(Flushed)
      BY <1>4 DEF current
    <2> QED
      BY <1>1, <1>3, <2>1, Becoming
  <1>5. ASSUME TrieQuery PROVE (Trie \in Tracks(current_))'
    <2>1. PICK order \in AcquireOrders : withTrie(order)
      BY <1>5 DEF TrieQuery
    <2>2. Becomes(checkAcquired(Flushed, order))
      BY <2>1 DEF withTrie
    <2>3. PICK k \in Nat : order \in [1..k -> ledgers]
      BY AcquireOrder
    <2>4. checkAcquired(Flushed, order) \in Tracks(Fresh)
      BY <1>2, <1>3, <2>3, CheckTracks DEF TrieInv
    <2> QED
      BY <1>1, <2>2, <2>4, Becoming
  <1>6. (ledgers \subseteq ID)' /\ (current_ \in Currents)'
    BY <1>1, <1>2 DEF TrieInv, Currents
  <1> QED
    BY <1>4, <1>5, <1>6, Zenon DEF TrieInv

\* trustChanged, as a whole.
LEMMA TrieTrustChanged ==
    ASSUME TrieInv, TypedChanges, NEW order \in AcquireOrders,
           NEW nodes \in Orders({n \in changes.added \cup changes.removed : current_[n] # NoValidation}),
           trustChanged(order, nodes)
    PROVE  TrieInv'
  <1> DEFINE keys == {n \in changes.added \cup changes.removed : current_[n] # NoValidation}
             j == Cardinality(keys)
  <1>1. /\ current_' = [n \in Node |-> Trusting(n, current_[n])] /\ ledgers' = ledgers
        /\ crossed' = crossed
    BY Zenon DEF trustChanged
  <1>2. keys \in SUBSET Node
    BY Zenon DEF TypedChanges
  <1>3. /\ j \in Nat /\ nodes \in [1..j -> Node] /\ {nodes[i] : i \in 1..j} = keys
    <2> HIDE DEF keys
    <2>1. nodes \in Orders(keys)
      BY DEF keys
    <2> QED
      BY <1>2, <2>1, ValidationsAssumption, OrderOf
  <1>4. \A i \in 1..j : /\ nodes[i] \in changes.added \cup changes.removed
                        /\ current_[nodes[i]] # NoValidation
    <2>1. \A i \in 1..j : nodes[i] \in keys
      BY <1>3, Zenon
    <2> HIDE DEF j
    <2> QED
      BY <2>1
  <1> HIDE DEF j
  <1>5. PICK k \in Nat : order \in [1..k -> ledgers]
    BY AcquireOrder
  <1>6. Visited(order, nodes) \in Tracks(Retrusted(keys))
    <2>0. ledgers \subseteq ID /\ current_ \in Currents /\ Trie \in Tracks(current_)
      BY Zenon DEF TrieInv
    <2>1. Visited(order, nodes) \in Tracks(Retrusted({nodes[i] : i \in 1..j}))
      BY <1>3, <1>4, <1>5, <2>0, VisitedTracks
    <2> HIDE DEF keys
    <2> QED
      BY <1>3, <2>1, Zenon
  <1>7. ASSUME NEW n \in Node PROVE Retrusted(keys)[n] = Trusting(n, current_[n])
    <2>1. current_[n] \in StoredValidation
      BY Zenon DEF TrieInv, Currents
    <2>2. CASE n \in keys
      BY <2>2, Zenon DEF Retrusted
    <2>3. CASE current_[n] = NoValidation
      <3>1. Trusting(n, current_[n]) = current_[n]
        BY <2>1, <2>3, TrustingKeeps, Zenon
      <3> QED
        BY <3>1, Zenon DEF Retrusted
    <2>4. CASE n \notin changes.added \cup changes.removed /\ current_[n] # NoValidation
      <3>1. Trusting(n, current_[n]) = current_[n]
        BY <2>1, <2>4, TrustingSame, Zenon
      <3> QED
        BY <2>4, <3>1, Zenon DEF Retrusted
    <2> QED
      BY <2>2, <2>3, <2>4, Zenon
  <1> HIDE DEF keys
  <1>8. current_' = Retrusted(keys)
    <2>1. Retrusted(keys) = [n \in Node |-> Retrusted(keys)[n]]
      BY DEF Retrusted
    <2> QED
      BY <1>1, <1>7, <2>1, Zenon
  <1>9. (Trie \in Tracks(current_))'
    BY <1>1, <1>6, <1>8, TrustChangedVisits, Becoming, Zenon
  <1>10. Retrusted(keys) \in Currents
    BY RetrustedCurrent, Zenon DEF TrieInv
  <1>11. (ledgers \subseteq ID)' /\ (current_ \in Currents)'
    BY <1>1, <1>8, <1>10, Zenon DEF TrieInv, Currents
  <1> QED
    BY <1>9, <1>11, Zenon DEF TrieInv

\* A validation that crossed a change and does not count.
LEMMA CrossingTracks ==
    ASSUME TrieInv, UNCHANGED <<ledgers, trieVars>>, NEW n \in Node, NEW v,
           current_' = [current_ EXCEPT ![n] = v], crossed' = crossed \cup {n}
    PROVE  (Trie \in Tracks(current_))'
  <1>1. /\ Trie \in Tries
        /\ \A m \in Node : Trie.lastLedger[m] \in ledgers \cup {Genesis} /\ Follows(Trie, current_, m)
    BY TracksParts, Zenon DEF TrieInv
  <1>2. Trie' = Trie
    BY Zenon DEF Trie, trieVars
  <1>3. \A m \in Node \ {n} : current_'[m] = current_[m]
    BY DEF TrieInv, Currents
  <1>4. ASSUME NEW m \in Node PROVE Follows(Trie, current_, m)'
    <2>1. CASE m = n
      BY <2>1 DEF Follows
    <2>2. CASE m # n
      <3>1. current_'[m] = current_[m] /\ (m \in crossed' <=> m \in crossed)
        BY <1>3, <2>2
      <3> QED
        BY <1>1, <1>2, <3>1, Zenon DEF Follows
    <2> QED
      BY <2>1, <2>2
  <1> QED
    BY <1>1, <1>2, <1>4, Zenon DEF Tracks, Tries, TrieType, Backers

\* add: the validation is ignored, or replaces the one before.
LEMMA TrieAdd ==
    ASSUME TrieInv, SeqInv, MarksInv, NEW order \in AcquireOrders, add(order)
    PROVE  TrieInv'
  <1> DEFINE n == arriving[1]
             v == arriving[2]
             old == current_[n]
             newer == old = NoValidation \/ v.sign > old.sign
  <1>0. /\ ledgers \subseteq ID /\ current_ \in Currents /\ Trie \in Tracks(current_)
        /\ ledgers' = ledgers
    BY Zenon DEF TrieInv, add
  <1>1. n \in Node /\ v \in StoredValidation /\ v.ledger \in ID
    <2>0. EnforcerTypes /\ now \in Nat /\ arriving # <<>>
      BY Zenon DEF SeqInv, EnforcerTypes, add
    <2>1. PICK m \in Node, l \in ID, sign \in Nat, tr \in BOOLEAN :
             arriving = <<m, [ledger |-> l, sign |-> sign, seen |-> now, trusted |-> tr]>>
      BY <2>0, Zenon DEF EnforcerTypes
    <2>2. n = m /\ v = [ledger |-> l, sign |-> sign, seen |-> now, trusted |-> tr]
      BY <2>1
    <2> HIDE DEF n, v
    <2> QED
      BY <2>0, <2>2, Zenon DEF StoredValidation
  <1>2. \/ UNCHANGED <<current_, trieVars, crossed>>
        \/ Accept(n, v, order)
    BY Zenon DEF add
  <1>3. Accept(n, v, order) =>
           /\ current_' = IF newer THEN [current_ EXCEPT ![n] = v] ELSE current_
           /\ Becomes(IF newer /\ v.trusted
                      THEN updateTrie(Trie, n, v, old.ledger, order) ELSE Trie)
           /\ crossed \subseteq crossed'
           /\ Crosses(n, v) => crossed' = crossed \cup {n}
    BY Zenon DEF Accept
  <1>4. PICK k \in Nat : order \in [1..k -> ledgers]
    BY AcquireOrder
  <1>5. ASSUME ~Crosses(n, v), n \notin crossed, old.trusted PROVE v.trusted
    <2>1. old # NoValidation
      BY <1>5 DEF NoValidation
    <2>2. MarkedFor(old, n, Before)
      BY <1>1, <1>5, Zenon DEF MarksInv
    <2>3. v.trusted = (n \in Before)
      BY <1>5 DEF Crosses
    <2> QED
      BY <1>5, <2>1, <2>2, <2>3, Zenon DEF MarkedFor
  <1>6. /\ old \in StoredValidation /\ (old = NoValidation \/ old.ledger \in ID)
        /\ [current_ EXCEPT ![n] = v] \in Currents
    BY <1>0, <1>1, Zenon DEF Currents
  <1> HIDE DEF n, v, old
  <1>7. CASE UNCHANGED <<current_, trieVars, crossed>>
    BY <1>0, <1>7, TrieAside, Zenon
  <1>8. CASE Accept(n, v, order) /\ ~newer
    <2>1. current_' = current_ /\ Becomes(Trie) /\ crossed \subseteq crossed'
      BY <1>3, <1>8, Zenon
    <2>2. UNCHANGED trieVars
      BY <2>1 DEF Becomes, Trie, trieVars
    <2> QED
      BY <1>0, <2>1, <2>2, TrieAside, Zenon
  <1>9. CASE Accept(n, v, order) /\ newer
    <2>1. /\ current_' = [current_ EXCEPT ![n] = v] /\ crossed \subseteq crossed'
          /\ Crosses(n, v) => crossed' = crossed \cup {n}
      BY <1>3, <1>9, Zenon
    <2>2. (ledgers \subseteq ID)' /\ (current_ \in Currents)'
      BY <1>0, <1>6, <2>1 DEF Currents
    <2>3. ASSUME v.trusted PROVE (Trie \in Tracks(current_))'
      <3>1. Becomes(updateTrie(Trie, n, v, old.ledger, order))
        BY <1>3, <1>9, <2>3, Zenon
      <3>2. v.trusted = TRUE
        BY <1>1, <2>3, Zenon DEF StoredValidation
      <3>3. \/ old.ledger = Genesis /\ (current_[n].trusted => current_[n].ledger = v.ledger)
            \/ old.ledger \in ID /\ old.ledger = current_[n].ledger
        BY <1>6 DEF old, NoValidation
      <3>4. updateTrie(Trie, n, v, old.ledger, order) \in Tracks([current_ EXCEPT ![n] = v])
        BY <1>0, <1>1, <1>4, <3>2, <3>3, UpdateTracks, Zenon
      <3> QED
        BY <1>0, <2>1, <3>1, <3>4, Becoming, Zenon
    <2>4. ASSUME ~v.trusted, Crosses(n, v) PROVE (Trie \in Tracks(current_))'
      <3>1. UNCHANGED trieVars
        BY <1>3, <1>9, <2>4, Zenon DEF Becomes, Trie, trieVars
      <3> QED
        BY <1>0, <1>1, <2>1, <2>4, <3>1, CrossingTracks, Zenon
    <2>5. ASSUME ~v.trusted, ~Crosses(n, v) PROVE (Trie \in Tracks(current_))'
      <3>1. Becomes(Trie)
        BY <1>3, <1>9, <2>5, Zenon
      <3>2. /\ Trie \in Tries
            /\ Trie.lastLedger[n] \in ledgers \cup {Genesis} /\ Follows(Trie, current_, n)
        BY <1>0, <1>1, TracksParts
      <3>3. n \notin crossed => \A l \in ID : n \notin Trie.acquiring[l]
        BY <1>5, <2>5, <3>2, Zenon DEF Follows, old
      <3>4. Trie \in Tracks([current_ EXCEPT ![n] = v])
        <4> DEFINE t == Trie
        <4>1. t \in Tracks(current_) /\ t \in Tries /\ t.lastLedger[n] \in ledgers \cup {Genesis}
              /\ (n \notin crossed => \A l \in ID : n \notin t.acquiring[l])
          BY <1>0, <3>2, <3>3
        <4> HIDE DEF t
        <4>2. t \in Tracks([current_ EXCEPT ![n] = v])
          BY <1>0, <1>1, <2>5, <4>1, OneTracks, Zenon
        <4> QED
          BY <4>2, Zenon DEF t
      <3> QED
        BY <1>0, <2>1, <3>1, <3>4, Becoming, Zenon
    <2> QED
      BY <2>2, <2>3, <2>4, <2>5, Zenon DEF TrieInv
  <1> QED
    BY <1>2, <1>7, <1>8, <1>9, Zenon

\* The lists of validators hold validators.
LEMMA ChangesKept == TypedChanges /\ trusted \subseteq Node /\ [Next]_vars
                       => TypedChanges' /\ (trusted \subseteq Node)'
  <1> SUFFICES ASSUME TypedChanges, trusted \subseteq Node, [Next]_vars
               PROVE  TypedChanges' /\ trusted' \subseteq Node
    OBVIOUS
  <1>1. CASE UNCHANGED <<changes, trusted>>
    BY <1>1, Zenon DEF TypedChanges
  <1>2. CASE UNCHANGED vars
    BY <1>1, <1>2, Zenon DEF vars
  <1>3. CASE Tick \/ (\E l \in ID : LedgerAcquired(l) \/ byLedger(l)) \/ current \/ expire
             \/ TrieQuery
    <2>1. Tick \/ expire => UNCHANGED <<changes, trusted>>
      BY DEF Tick, expire
    <2>2. current \/ TrieQuery => UNCHANGED <<changes, trusted>>
      BY Zenon DEF current, TrieQuery, withTrie
    <2>3. (\E l \in ID : LedgerAcquired(l) \/ byLedger(l)) => UNCHANGED <<changes, trusted>>
      BY Zenon DEF LedgerAcquired, byLedger
    <2> QED
      BY <1>1, <1>3, <2>1, <2>2, <2>3, Zenon
  <1>4. CASE \E new \in SUBSET Node : updateTrusted(new)
    BY <1>4 DEF updateTrusted, TypedChanges
  <1>5. CASE \E order : add(order)
    BY <1>1, <1>5, Zenon DEF add
  <1>6. CASE \E order, nodes : trustChanged(order, nodes)
    <2>1. changes' = NoChange /\ trusted' = trusted
      BY <1>6, Zenon DEF trustChanged
    <2> QED
      BY <2>1 DEF TypedChanges, NoChange
  <1>7. CASE \/ \E n \in Node, l \in ID, sign \in SignTimes : handleNewValidation(n, l, sign)
             \/ \E s \in Keep : setSeqToKeep(s)
    BY <1>1, <1>7 DEF handleNewValidation, setSeqToKeep
  <1> QED
    BY <1>2, <1>3, <1>4, <1>5, <1>6, <1>7, Zenon DEF Next

\* Every step.
LEMMA TrieStep ==
    ASSUME TrieInv, SeqInv, MarksInv, TypedChanges, [Next]_vars
    PROVE  TrieInv'
  <1>1. CASE UNCHANGED <<ledgers, current_, trieVars, crossed>>
    BY <1>1, TrieAside
  <1>2. CASE UNCHANGED vars
    BY <1>1, <1>2, Zenon DEF vars
  <1>3. CASE Tick \/ (\E l \in ID : byLedger(l)) \/ expire \/ \E s \in Keep : setSeqToKeep(s)
    BY <1>1, <1>3, Zenon DEF Tick, byLedger, expire, setSeqToKeep
  <1>4. CASE \/ \E new \in SUBSET Node : updateTrusted(new)
             \/ \E n \in Node, l \in ID, sign \in SignTimes : handleNewValidation(n, l, sign)
    BY <1>1, <1>4 DEF updateTrusted, handleNewValidation
  <1>5. CASE \E l \in ID : LedgerAcquired(l)
    BY <1>5, TrieAcquired
  <1>6. CASE current \/ TrieQuery
    BY <1>6, TrieFlushed
  <1>7. CASE \E order \in AcquireOrders : add(order)
    BY <1>7, TrieAdd, Zenon
  <1>8. CASE \E order \in AcquireOrders :
                \E nodes \in Orders({n \in changes.added \cup changes.removed :
                                        current_[n] # NoValidation}) :
                   trustChanged(order, nodes)
    BY <1>8, TrieTrustChanged, Zenon
  <1> QED
    BY <1>2, <1>3, <1>4, <1>5, <1>6, <1>7, <1>8, Zenon DEF Next

\* An empty trie counts nobody.
LEMMA InitTrie == Init => TrieInv /\ TypedChanges /\ trusted \subseteq Node
  <1> SUFFICES ASSUME Init PROVE TrieInv /\ TypedChanges /\ trusted \subseteq Node
    BY Zenon
  <1>1. /\ current_ = [n \in Node |-> NoValidation] /\ ledgers = {} /\ changes = NoChange
        /\ trusted = UNL
        /\ support = [l \in ID |-> 0] /\ lastLedger_ = [n \in Node |-> Genesis]
        /\ acquiring_ = [l \in ID |-> {}]
    BY Zenon DEF Init, Nobody, NoSupport
  <1>2. TypedChanges /\ trusted \subseteq Node
    BY <1>1, ValidationsAssumption DEF TypedChanges, NoChange
  <1>3. current_ \in Currents
    BY <1>1, NoValidationStored DEF Currents
  <1>4. /\ Trie.support = support /\ Trie.lastLedger = lastLedger_ /\ Trie.acquiring = acquiring_
        /\ Trie \in TrieType
    BY <1>1, Zenon DEF Trie, TrieType
  <1>5. ASSUME NEW l \in ID PROVE Trie.support[l] = Cardinality(Backers(Trie.lastLedger, l))
    <2>1. Backers(lastLedger_, l) = {}
      BY <1>1, GenesisIsNone DEF Backers
    <2>2. support[l] = 0
      BY <1>1, Zenon
    <2> QED
      BY <1>4, <2>1, <2>2, FS_EmptySet, Zenon
  <1>6. ASSUME NEW n \in Node
        PROVE  Trie.lastLedger[n] \in ledgers \cup {Genesis} /\ Follows(Trie, current_, n)
    <2>1. current_[n].trusted = FALSE /\ \A l \in ID : Trie.acquiring[l] = {}
      BY <1>1, <1>4, Zenon DEF NoValidation
    <2>2. Trie.lastLedger[n] = Genesis
      BY <1>1, <1>4, Zenon
    <2> QED
      BY <2>1, <2>2, Zenon DEF Follows
  <1>7. Trie \in Tracks(current_)
    BY <1>4, <1>5, <1>6 DEF Tracks, Tries
  <1> QED
    BY <1>1, <1>2, <1>3, <1>7, Zenon DEF TrieInv

\* What the invariant says in the terms of the model's properties.
LEMMA TrieInvGives ==
    ASSUME TrieInv
    PROVE  TrieAccounts /\ NewestCounted /\ WaitsForNewest
  <1>1. /\ Trie.support = support /\ Trie.lastLedger = lastLedger_ /\ Trie.acquiring = acquiring_
    BY Zenon DEF Trie
  <1>2. /\ \A l \in ID : Trie.support[l] = Cardinality(Backers(Trie.lastLedger, l))
        /\ \A n \in Node : Trie.lastLedger[n] \in ledgers \cup {Genesis} /\ Follows(Trie, current_, n)
    BY DEF TrieInv, Tracks, Tries
  <1>3. TrieAccounts
    BY <1>1, <1>2, Zenon DEF TrieAccounts, Backers
  <1>4. NewestCounted /\ WaitsForNewest
    BY <1>1, <1>2 DEF NewestCounted, WaitsForNewest, Follows
  <1> QED
    BY <1>3, <1>4, Zenon

\* The trie's invariant with those of the other proofs that its steps need.
TrieTogether ==
    /\ TrieInv /\ SeqInv /\ TypedChanges /\ trusted \subseteq Node
    /\ MarksInv /\ CurrentTypes

\* Every state of the behaviour has them.
LEMMA AlwaysTogether == Spec => []TrieTogether
  <1>1. Init => TrieTogether
    BY InitTrie, InitSeqInv, InitMarks DEF TrieTogether
  <1>2. TrieTogether /\ [Next]_vars => TrieTogether'
    <2> SUFFICES ASSUME TrieTogether, [Next]_vars PROVE TrieTogether'
      OBVIOUS
    <2>1. TrieInv'
      BY TrieStep, Zenon DEF TrieTogether
    <2>2. SeqInv' /\ TypedChanges' /\ (trusted \subseteq Node)'
      BY NextSeqInv, ChangesKept DEF TrieTogether
    <2>3. MarksInv' /\ CurrentTypes'
      BY NextMarks, Zenon DEF TrieTogether
    <2> QED
      BY <2>1, <2>2, <2>3, Zenon DEF TrieTogether
  <1> QED
    BY <1>1, <1>2, PTL DEF Spec

\* lastLedger_ and trie_ agree, whatever the order in which the loops over
\* acquiring_ and over the changed validators run, and even when a validation
\* is handled while the trust changes: the trie counts for each ledger exactly
\* the validators whose last ledger it is, and only acquired ledgers.
THEOREM TrieIsAccounted == Spec => []TrieAccounts
  <1>1. TrieTogether => TrieAccounts
    BY TrieInvGives DEF TrieTogether
  <1> QED
    BY <1>1, AlwaysTogether, PTL

\* Whatever is handled while the trust changes, updateTrie, checkAcquired,
\* removeTrie and trustChanged together leave nobody out of the count whose
\* validations did not cross a change of its trust: the newest validation of
\* each such trusted validator is what the trie counts for it, or its ledger
\* is being acquired in its name.
THEOREM NewestIsCounted == Spec => []NewestCounted
  <1>1. TrieTogether => NewestCounted
    BY TrieInvGives, Zenon DEF TrieTogether
  <1> QED
    BY <1>1, AlwaysTogether, PTL

\* Such a validator waits in acquiring_ for the ledger of its newest validation
\* and for no other: no arrival of an older ledger can move its support back.
THEOREM NewestIsAwaited == Spec => []WaitsForNewest
  <1>1. TrieTogether => WaitsForNewest
    BY TrieInvGives, Zenon DEF TrieTogether
  <1> QED
    BY <1>1, AlwaysTogether, PTL

=============================================================================
