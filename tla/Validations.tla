---------------------------- MODULE Validations ----------------------------
(* Validations.h with its adaptor RCLValidations: the validations this node  *)
(* has received, and the trie that ranks the ledgers they support.  The trie *)
(* is what LedgerTrie is shown to implement: a count for each ledger.        *)
EXTENDS LedgerSupport, SeqEnforcer

CONSTANTS Node,             \* the listed validators
          UNL,              \* the validators trusted at the start
          CURRENT_WALL, CURRENT_LOCAL, CURRENT_EARLY, \* ValidationParms
          SignTimes,        \* the times validations are signed at
          Keep,             \* the arguments of setSeqToKeep
          MaxClock,         \* bound on the clock
          MaxEvents         \* bound on validations received and lists changed

VARIABLES ledgers,          \* what LedgerMaster::getLedgerByHash can find
          trusted,          \* ValidatorList's trusted keys
          changes,          \* TrustChanges on the way to trustChanged
          arriving,         \* the validation handleNewValidation has looked up
          current_, seqEnforcers_, byLedger_, toKeep_,
          lastLedger_, acquiring_,
          events,           \* how many of them there were
          crossed           \* history: whose validations Crosses was true of

NoSeq == -1
NoChange == [added |-> {}, removed |-> {}]
NoValidation == [ledger |-> Genesis, sign |-> 0, seen |-> 0, trusted |-> FALSE]
Nobody == [n \in Node |-> NoValidation]
Validation == [ledger : ID, sign : SignTimes, seen : 1..MaxClock, trusted : BOOLEAN]

ASSUME ValidationsAssumption ==
    /\ UNL \subseteq Node /\ IsFiniteSet(Node)
    /\ CURRENT_WALL \in Nat /\ CURRENT_LOCAL \in Nat \ {0}
    /\ CURRENT_EARLY \in Nat /\ SET_EXPIRES \in Nat
    /\ SignTimes \subseteq Nat /\ Keep \subseteq Nat
    /\ MaxClock \in Nat \ {0} /\ MaxEvents \in Nat

trieVars == <<support, lastLedger_, acquiring_>>
vars == <<now, ledgers, trusted, changes, arriving, current_, seqEnforcers_,
          byLedger_, toKeep_, trieVars, events, crossed>>

-----------------------------------------------------------------------------
isCurrent(v) ==
    /\ v.sign > now - CURRENT_EARLY
    /\ v.sign < now + CURRENT_WALL
    /\ v.seen = 0 \/ v.seen < now + CURRENT_LOCAL

-----------------------------------------------------------------------------
(* The trie, with lastLedger_ and acquiring_, as one value: a method that    *)
(* holds the mutex changes them several times.                               *)
Trie == [support |-> support, lastLedger |-> lastLedger_, acquiring |-> acquiring_]

Becomes(t) == /\ support' = t.support
              /\ lastLedger_' = t.lastLedger
              /\ acquiring_' = t.acquiring

StopAcquiring(t, n, l) == [t EXCEPT !.acquiring[l] = @ \ {n}]

removeTrie(t, n, l) ==
    LET stopped == StopAcquiring(t, n, l)
    IN IF t.lastLedger[n] = l
       THEN [stopped EXCEPT !.support = RemoveFrom(@, l, 1), !.lastLedger[n] = Genesis]
       ELSE stopped

\* Mutant: the ledger it supported before stays in the trie.
SupportAlso(t, n, l) ==
    [t EXCEPT !.support = InsertInto(@, l, 1), !.lastLedger[n] = l]

\* updateTrie with a ledger.
SupportOnly(t, n, l) ==
    LET old == t.lastLedger[n]
    IN [t EXCEPT !.support =
                     InsertInto(IF old = Genesis THEN @ ELSE RemoveFrom(@, old, 1), l, 1),
                 !.lastLedger[n] = l]

\* A loop over a hash map visits its keys in any order.
Orders(keys) == Bijection(1..Cardinality(keys), keys)

InOrder(visit(_, _), t, order) ==
    MapThenFoldSet(LAMBDA k, s : visit(s, k), t, LAMBDA i : order[i], Max, DOMAIN order)

AcquireOrders == Orders({l \in ledgers : acquiring_[l] # {}})

\* A ledger that was acquired: whoever waits for it supports it.
Arrive(t, l) ==
    [FoldSet(LAMBDA n, r : SupportOnly(r, n, l), t, t.acquiring[l]) EXCEPT !.acquiring[l] = {}]

checkAcquired(t, order) == InOrder(Arrive, t, order)

\* Mutant: a validator goes on waiting for the ledger it validated before.
KeepPrior(t, n, v, prior, order) ==
    LET checked == checkAcquired(t, order)
    IN IF v.ledger \in ledgers
       THEN SupportOnly(checked, n, v.ledger)
       ELSE [checked EXCEPT !.acquiring[v.ledger] = @ \cup {n}]

\* updateTrie with a validation; prior is Genesis for boost::none.
updateTrie(t, n, v, prior, order) ==
    LET cleared == IF prior = Genesis THEN t ELSE StopAcquiring(t, n, prior)
        checked == checkAcquired(cleared, order)
    IN IF checked.acquiring[v.ledger] = {} /\ v.ledger \in ledgers
       THEN SupportOnly(checked, n, v.ledger)
       ELSE [checked EXCEPT !.acquiring[v.ledger] = @ \cup {n}]

Stale == {n \in Node : current_[n] # NoValidation /\ ~isCurrent(current_[n])}

\* current(): flush what is stale.
Flushed == FoldSet(LAMBDA n, t : removeTrie(t, n, current_[n].ledger), Trie, Stale)
Fresh == [n \in Node |-> IF n \in Stale THEN NoValidation ELSE current_[n]]

-----------------------------------------------------------------------------
Init ==
    /\ now = 1 /\ ledgers = {} /\ trusted = UNL
    /\ changes = NoChange /\ arriving = <<>>
    /\ current_ = Nobody
    /\ seqEnforcers_ = [n \in Node |-> NoEnforcer]
    /\ byLedger_ = [l \in ID |-> [when |-> 0, vals |-> Nobody]]
    /\ toKeep_ = NoSeq
    /\ support = NoSupport
    /\ lastLedger_ = [n \in Node |-> Genesis]
    /\ acquiring_ = [l \in ID |-> {}]
    /\ events = 0 /\ crossed = {}

Tick ==
    /\ now < MaxClock /\ arriving = <<>> /\ now' = now + 1
    /\ UNCHANGED <<ledgers, trusted, changes, arriving, current_, seqEnforcers_,
                   byLedger_, toKeep_, trieVars, events, crossed>>

\* InboundLedgers completes a ledger.
LedgerAcquired(l) ==
    /\ l \notin ledgers /\ ledgers' = ledgers \cup {l}
    /\ UNCHANGED <<now, trusted, changes, arriving, current_, seqEnforcers_,
                   byLedger_, toKeep_, trieVars, events, crossed>>

\* ValidatorList::updateTrusted: what beginConsensus will hand to trustChanged.
updateTrusted(new) ==
    /\ events < MaxEvents /\ events' = events + 1
    /\ changes = NoChange /\ new # trusted
    /\ trusted' = new
    /\ changes' = [added |-> new \ trusted, removed |-> trusted \ new]
    /\ UNCHANGED <<now, ledgers, arriving, current_, seqEnforcers_, byLedger_,
                   toKeep_, trieVars, crossed>>

Marked(v, t) == [ledger |-> v.ledger, sign |-> v.sign, seen |-> v.seen, trusted |-> t]

\* setTrusted and setUntrusted, on what is there.
Trusting(n, v) ==
    Marked(v, /\ v # NoValidation
              /\ n \in changes.added \/ (v.trusted /\ n \notin changes.removed))

\* Mutant: the validations stored by ledger keep the trust they came with.
StoresAsTheyWere(when, vals) == [when |-> when, vals |-> vals]

StoresRetrusted(when, vals) ==
    [when |-> when, vals |-> [n \in Node |-> Trusting(n, vals[n])]]

trustChanged(order, nodes) ==
    LET visit(t, n) == IF n \in changes.added
                       THEN updateTrie(t, n, current_[n], Genesis, order)
                       ELSE removeTrie(t, n, current_[n].ledger)
    IN /\ changes # NoChange
       /\ changes' = NoChange
       /\ current_' = [n \in Node |-> Trusting(n, current_[n])]
       /\ byLedger_' = [l \in ID |-> StoresRetrusted(byLedger_[l].when, byLedger_[l].vals)]
       /\ Becomes(InOrder(visit, Trie, nodes))
       /\ UNCHANGED <<now, ledgers, trusted, arriving, seqEnforcers_, toKeep_, events, crossed>>

-----------------------------------------------------------------------------
\* handleNewValidation up to the call of add: the signer's trust is looked up.
handleNewValidation(n, l, sign) ==
    /\ events < MaxEvents /\ events' = events + 1
    /\ arriving = <<>>
    /\ arriving' = <<n, [ledger |-> l, sign |-> sign, seen |-> now, trusted |-> n \in trusted]>>
    /\ UNCHANGED <<now, ledgers, trusted, changes, current_, seqEnforcers_,
                   byLedger_, toKeep_, trieVars, crossed>>

\* operator[] of an aged map stamps what it creates, and only that.
Stored(s, n, v) ==
    [when |-> IF s.vals = Nobody THEN now ELSE s.when, vals |-> [s.vals EXCEPT ![n] = v]]

\* Whom the stored validations are marked for: trustChanged may be due.
Before == (trusted \ changes.added) \cup changes.removed

\* add takes a validation that is marked otherwise: its signer's trust was
\* looked up before a change that is done by now, or after one that is not.
Crosses(n, v) == v.trusted # (n \in Before)

\* add, past the test of the enforcer.
Accept(n, v, order) ==
    LET old == current_[n]
        newer == old = NoValidation \/ v.sign > old.sign
    IN /\ byLedger_' = [byLedger_ EXCEPT ![v.ledger] = Stored(@, n, v)]
       /\ current_' = IF newer THEN [current_ EXCEPT ![n] = v] ELSE current_
       /\ Becomes(IF newer /\ v.trusted
                  THEN updateTrie(Trie, n, v, old.ledger, order) ELSE Trie)
       /\ crossed' = IF Crosses(n, v) THEN crossed \cup {n} ELSE crossed

add(order) ==
    /\ arriving # <<>>
    /\ arriving' = <<>>
    /\ LET n == arriving[1]
           v == arriving[2]
       IN \/ /\ ~isCurrent(v)
             /\ UNCHANGED <<seqEnforcers_, byLedger_, current_, trieVars, crossed>>
          \/ /\ isCurrent(v)
             /\ seqEnforcers_' = [seqEnforcers_ EXCEPT ![n] = Enforced(@, seq(v.ledger))]
             /\ IF Passes(seqEnforcers_[n], seq(v.ledger))
                THEN Accept(n, v, order)
                ELSE UNCHANGED <<byLedger_, current_, trieVars, crossed>>
    /\ UNCHANGED <<now, ledgers, trusted, changes, toKeep_, events>>

\* getPreferred, getPreferredLCL, and getNodesAfter of the ledger itself.
withTrie(order) ==
    /\ current_' = Fresh
    /\ Becomes(checkAcquired(Flushed, order))
    /\ UNCHANGED <<now, ledgers, trusted, changes, arriving, seqEnforcers_,
                   byLedger_, toKeep_, events, crossed>>

\* currentTrusted, getCurrentNodeIDs and laggards.
current ==
    /\ current_' = Fresh
    /\ Becomes(Flushed)
    /\ UNCHANGED <<now, ledgers, trusted, changes, arriving, seqEnforcers_,
                   byLedger_, toKeep_, events, crossed>>

\* numTrustedForLedger, getTrustedForLedger and fees.
byLedger(l) ==
    /\ byLedger_[l].vals # Nobody
    /\ byLedger_' = [byLedger_ EXCEPT ![l] = [when |-> now, vals |-> @.vals]]
    /\ UNCHANGED <<now, ledgers, trusted, changes, arriving, current_,
                   seqEnforcers_, toKeep_, trieVars, events, crossed>>

setSeqToKeep(s) ==
    /\ toKeep_' = s
    /\ UNCHANGED <<now, ledgers, trusted, changes, arriving, current_,
                   seqEnforcers_, byLedger_, trieVars, events, crossed>>

\* What is kept is touched first, and cannot then be old.
Expired(l) ==
    LET kept == toKeep_ # NoSeq /\ seq(l) >= toKeep_
        when == IF kept /\ byLedger_[l].vals # Nobody THEN now ELSE byLedger_[l].when
    IN IF when <= now - SET_EXPIRES THEN [when |-> 0, vals |-> Nobody]
       ELSE [when |-> when, vals |-> byLedger_[l].vals]

expire ==
    /\ byLedger_' = [l \in ID |-> Expired(l)]
    /\ UNCHANGED <<now, ledgers, trusted, changes, arriving, current_,
                   seqEnforcers_, toKeep_, trieVars, events, crossed>>

TrieQuery == \E order \in AcquireOrders : withTrie(order)

Next ==
    \/ Tick
    \/ \E l \in ID : LedgerAcquired(l) \/ byLedger(l)
    \/ \E new \in SUBSET Node : updateTrusted(new)
    \/ \E order \in AcquireOrders :
          \/ add(order)
          \/ \E nodes \in Orders({n \in changes.added \cup changes.removed :
                                        current_[n] # NoValidation}) :
                trustChanged(order, nodes)
    \/ TrieQuery
    \/ \E n \in Node, l \in ID, sign \in SignTimes : handleNewValidation(n, l, sign)
    \/ \E s \in Keep : setSeqToKeep(s)
    \/ current
    \/ expire

Spec == Init /\ [][Next]_vars

-----------------------------------------------------------------------------
\* Type invariant of the containers and of the trie's counts.
TypeOK ==
    /\ now \in 1..MaxClock /\ ledgers \subseteq ID /\ trusted \subseteq Node
    /\ changes \in [added : SUBSET Node, removed : SUBSET Node]
    /\ arriving = <<>> \/ (arriving[1] \in Node /\ arriving[2] \in Validation)
    /\ current_ \in [Node -> Validation \cup {NoValidation}]
    /\ seqEnforcers_ \in [Node -> [seq : Nat, when : 0..MaxClock]]
    /\ byLedger_ \in [ID -> [when : 0..MaxClock,
                             vals : [Node -> Validation \cup {NoValidation}]]]
    /\ toKeep_ \in Keep \cup {NoSeq}
    /\ support \in [ID -> Nat]
    /\ lastLedger_ \in [Node -> ID \cup {Genesis}]
    /\ acquiring_ \in [ID -> SUBSET Node]
    /\ events \in 0..MaxEvents /\ crossed \subseteq Node

\* lastLedger_ and trie_ are two accounts of one thing, kept in step by
\* updateTrie, checkAcquired and removeTrie: the trie counts for each ledger
\* exactly the validators whose last ledger it is, and only for ledgers
\* that were acquired.
TrieAccounts ==
    /\ \A l \in ID : support[l] = Cardinality({n \in Node : lastLedger_[n] = l})
    /\ \A n \in Node : lastLedger_[n] \in ledgers \cup {Genesis}

(* No lock covers the look-up of a signer's trust and add, nor updateTrusted  *)
(* and trustChanged.  The three properties below name the validators that can *)
(* suffer from it, those in crossed, and say that nothing else goes wrong.    *)

\* The current validation of a trusted validator, unless one of its
\* validations crossed a change of its trust, is what the trie counts for it,
\* or it waits for its ledger: an older one that was being acquired, and
\* arrives late, does not take its place.
NewestCounted ==
    \A n \in Node \ crossed :
       LET v == current_[n]
       IN v.trusted => lastLedger_[n] = v.ledger \/ n \in acquiring_[v.ledger]

\* acquiring_ lists such a validator under its current validation's ledger
\* only, and only while it is trusted: nothing else is fetched in its name.
WaitsForNewest ==
    \A n \in Node \ crossed, l \in ID :
       n \in acquiring_[l] => current_[n].trusted /\ current_[n].ledger = l

\* Once trustChanged has run, every stored validation that may be counted,
\* by current_ or by numTrustedForLedger, is marked as its signer is listed,
\* unless one of the signer's validations crossed a change of its trust.
TrustAgrees ==
    changes = NoChange =>
       \A n \in Node \ crossed :
          \A v \in {current_[n]} \cup {byLedger_[l].vals[n] : l \in ID} :
             v # NoValidation => (v.trusted <=> n \in trusted)

\* Two validations of one validator for different ledgers with one sequence
\* are only ever both stored by ledger when the enforcer let the first expire.
OneLedgerPerSeq ==
    \A n \in Node, a, b \in ID :
       LET v == byLedger_[a].vals[n]
           w == byLedger_[b].vals[n]
       IN a # b /\ seq(a) = seq(b) /\ v # NoValidation /\ w # NoValidation /\ v.seen <= w.seen
             => w.seen > v.seen + SET_EXPIRES

-----------------------------------------------------------------------------
(* What a comment says, and the code does not always do.                     *)

\* trustChanged: "ensure only currently trusted nodes' validations are used".
\* Once it has run, the trie counts trusted validators only, even leaving
\* aside those whose validations crossed a change of their trust.
OnlyTrusted ==
    changes = NoChange =>
       \A n \in Node \ crossed : lastLedger_[n] # Genesis => n \in trusted
=============================================================================
