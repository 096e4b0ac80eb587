----------------------------- MODULE RoundProofs -----------------------------
(***************************************************************************)
(* The two parts of a round that stand on their own.  DisputedTx: the      *)
(* tally of a disputed transaction and the avalanche, for any number of    *)
(* peers and any sequence of calls.  LedgerChain: what every chain of      *)
(* accepted rounds satisfies, whatever close times the rounds agree on and *)
(* however long the chain is.                                              *)
(***************************************************************************)
EXTENDS DisputedTx, LedgerChain, Counting, FiniteSetTheorems, TLAPS

\* The subsets of a finite set count: what Consensus assumes of its peers and
\* LedgerMaster of its validators follows from their being finitely many.
LEMMA CountsWhenFinite ==
    ASSUME NEW S, IsFiniteSet(S)
    PROVE  SubsetsCount(S)
<1>1. \A a \in SUBSET S : IsFiniteSet(a) /\ Cardinality(a) \in Nat
  BY FS_Subset, FS_CardinalityType, Zenon
<1>2. \A a \in SUBSET S : Cardinality(a) = 0 <=> a = {}
  BY <1>1, FS_EmptySet, Zenon
<1>3. \A a, b \in SUBSET S : a \subseteq b => Cardinality(a) <= Cardinality(b)
  BY <1>1, FS_Subset, Zenon
<1>4. ASSUME NEW a \in SUBSET S, NEW b \in SUBSET S, a \cap b = {}
      PROVE  Cardinality(a \cup b) = Cardinality(a) + Cardinality(b)
  <2>1. Cardinality(a \cup b) = Cardinality(a) + Cardinality(b) - Cardinality({})
    BY <1>1, <1>4, FS_Union
  <2>2. Cardinality({}) = 0
    BY FS_EmptySet
  <2> QED
    BY <1>1, <2>1, <2>2
<1> QED
  BY <1>1, <1>2, <1>3, <1>4, Zenon DEF SubsetsCount

(* The votes on a transaction. *)

\* Adding to a set of votes, and taking from it, moves its count by one.
LEMMA CountAdd ==
    ASSUME NEW S, IsFiniteSet(S), NEW x, x \notin S
    PROVE  Cardinality(S \cup {x}) = Cardinality(S) + 1
BY FS_AddElement

LEMMA CountRemove ==
    ASSUME NEW S, IsFiniteSet(S), NEW x \in S
    PROVE  /\ Cardinality(S \ {x}) = Cardinality(S) - 1
           /\ Cardinality(S) - 1 \in Nat
<1>1. Cardinality(S \ {x}) = Cardinality(S) - 1
  BY FS_RemoveElement
<1>2. IsFiniteSet(S \ {x})
  BY FS_RemoveElement
<1> QED
  BY <1>1, <1>2, FS_CardinalityType

\* The voters for either side are finitely many.
LEMMA VotersFinite ==
    ASSUME DOMAIN votes \subseteq Peer, NEW v
    PROVE  IsFiniteSet(Voters(v)) /\ Cardinality(Voters(v)) \in Nat
<1>1. Voters(v) \subseteq Peer
  BY DEF Voters
<1> QED
  BY <1>1, PeerAssumption, FS_Subset, FS_CardinalityType

----------------------------------------------------------------------------
\* What decides: the types together with the counts.
Tally == TypeOK /\ TallyMatchesVotes

LEMMA SetVoteKeepsTally ==
    ASSUME Tally, NEW p \in Peer, NEW b \in BOOLEAN, setVote(p, b)
    PROVE  Tally'
<1> USE DEF Tally, TypeOK
<1>1. /\ DOMAIN votes' = DOMAIN votes \cup {p}
      /\ votes' \in [DOMAIN votes' -> BOOLEAN]
      /\ \A q \in DOMAIN votes' : votes'[q] = IF q = p THEN b ELSE votes[q]
  BY DEF setVote
<1>2. /\ Voters(b)' = Voters(b) \cup {p}
      /\ Voters(~b)' = Voters(~b) \ {p}
  BY <1>1 DEF Voters
<1>3. /\ IsFiniteSet(Voters(TRUE)) /\ Cardinality(Voters(TRUE)) \in Nat
      /\ IsFiniteSet(Voters(FALSE)) /\ Cardinality(Voters(FALSE)) \in Nat
  BY VotersFinite, Zenon
<1>types. /\ ourVote' \in BOOLEAN /\ percentTime' \in PercentTimes
      /\ proposing' \in BOOLEAN /\ gaveUp' \in BOOLEAN
  BY Zenon DEF setVote
<1>finite. /\ IsFiniteSet(Voters(TRUE)') /\ Cardinality(Voters(TRUE)') \in Nat
      /\ IsFiniteSet(Voters(FALSE)') /\ Cardinality(Voters(FALSE)') \in Nat
  <2>1. Voters(TRUE)' \subseteq Peer /\ Voters(FALSE)' \subseteq Peer
    BY <1>1 DEF Voters
  <2> QED
    BY <2>1, PeerAssumption, FS_Subset, FS_CardinalityType, Zenon
<1> HIDE DEF Tally, TypeOK
<1>counts. yays = Cardinality(Voters(TRUE)) /\ nays = Cardinality(Voters(FALSE))
  BY DEF Tally, TallyMatchesVotes
<1> SUFFICES /\ yays' = Cardinality(Voters(TRUE)')
             /\ nays' = Cardinality(Voters(FALSE)')
  <2>1. TypeOK'
    BY <1>types, <1>1, <1>finite, Zenon DEF TypeOK, Tally
  <2> QED
    BY <2>1 DEF Tally, TallyMatchesVotes
<1>4. CASE p \notin DOMAIN votes
  <2>1. p \notin Voters(TRUE) /\ p \notin Voters(FALSE)
    BY <1>4 DEF Voters
  <2>2. CASE b = TRUE
    <3>1. Voters(TRUE)' = Voters(TRUE) \cup {p} /\ Voters(FALSE)' = Voters(FALSE)
      BY <1>2, <2>1, <2>2, Zenon
    <3>2. yays' = yays + 1 /\ nays' = nays
      BY <1>4, <2>2, Zenon DEF setVote
    <3>3. Cardinality(Voters(TRUE)') = Cardinality(Voters(TRUE)) + 1
      BY <3>1, <2>1, <1>3, CountAdd, Zenon
    <3> QED
      BY <3>1, <3>2, <3>3, <1>counts, Zenon
  <2>3. CASE b = FALSE
    <3>1. Voters(FALSE)' = Voters(FALSE) \cup {p} /\ Voters(TRUE)' = Voters(TRUE)
      BY <1>2, <2>1, <2>3, Zenon
    <3>2. nays' = nays + 1 /\ yays' = yays
      BY <1>4, <2>3 DEF setVote
    <3>3. Cardinality(Voters(FALSE)') = Cardinality(Voters(FALSE)) + 1
      BY <3>1, <2>1, <1>3, CountAdd, Zenon
    <3> QED
      BY <3>1, <3>2, <3>3, <1>counts, Zenon
  <2> QED
    BY <2>2, <2>3, Zenon
<1>5. CASE p \in DOMAIN votes /\ votes[p] = b
  <2>1. Voters(TRUE)' = Voters(TRUE) /\ Voters(FALSE)' = Voters(FALSE)
    BY <1>1, <1>5 DEF Voters
  <2>2. yays' = yays /\ nays' = nays
    BY <1>5 DEF setVote
  <2> QED
    BY <2>1, <2>2, <1>counts, Zenon
<1>6. CASE p \in DOMAIN votes /\ votes[p] # b
  <2>1. p \in Voters(~b) /\ p \notin Voters(b)
    BY <1>6 DEF Voters, Tally, TypeOK
  <2>2. CASE b = TRUE
    <3>1. /\ Voters(TRUE)' = Voters(TRUE) \cup {p}
          /\ Voters(FALSE)' = Voters(FALSE) \ {p}
          /\ p \in Voters(FALSE) /\ p \notin Voters(TRUE)
      BY <1>2, <2>1, <2>2, Zenon
    <3>2. yays' = yays + 1 /\ nays' = nays - 1
      BY <1>6, <2>2, Zenon DEF setVote
    <3>3. /\ Cardinality(Voters(TRUE)') = Cardinality(Voters(TRUE)) + 1
          /\ Cardinality(Voters(FALSE)') = Cardinality(Voters(FALSE)) - 1
          /\ Cardinality(Voters(FALSE)) - 1 \in Nat
      BY <3>1, <1>3, CountAdd, CountRemove, Zenon
    <3> QED
      BY <3>2, <3>3, <1>counts, Zenon
  <2>3. CASE b = FALSE
    <3>1. /\ Voters(FALSE)' = Voters(FALSE) \cup {p}
          /\ Voters(TRUE)' = Voters(TRUE) \ {p}
          /\ p \in Voters(TRUE) /\ p \notin Voters(FALSE)
      BY <1>2, <2>1, <2>3, Zenon
    <3>2. nays' = nays + 1 /\ yays' = yays - 1
      BY <1>6, <2>3 DEF setVote
    <3>3. /\ Cardinality(Voters(FALSE)') = Cardinality(Voters(FALSE)) + 1
          /\ Cardinality(Voters(TRUE)') = Cardinality(Voters(TRUE)) - 1
          /\ Cardinality(Voters(TRUE)) - 1 \in Nat
      BY <3>1, <1>3, CountAdd, CountRemove, Zenon
    <3> QED
      BY <3>2, <3>3, <1>counts, Zenon
  <2> QED
    BY <2>2, <2>3, Zenon
<1> QED
  BY <1>4, <1>5, <1>6, Zenon

LEMMA UnVoteKeepsTally ==
    ASSUME Tally, NEW p \in Peer, unVote(p)
    PROVE  Tally'
<1>1. /\ p \in DOMAIN votes
      /\ DOMAIN votes \subseteq Peer
      /\ votes \in [DOMAIN votes -> BOOLEAN]
      /\ DOMAIN votes' = DOMAIN votes \ {p}
      /\ votes' \in [DOMAIN votes' -> BOOLEAN]
      /\ \A q \in DOMAIN votes' : votes'[q] = votes[q]
  BY DEF Tally, TypeOK, unVote
<1>2. /\ IsFiniteSet(Voters(TRUE)) /\ Cardinality(Voters(TRUE)) \in Nat
      /\ IsFiniteSet(Voters(FALSE)) /\ Cardinality(Voters(FALSE)) \in Nat
  BY <1>1, VotersFinite, Zenon
<1>3. /\ yays = Cardinality(Voters(TRUE)) /\ nays = Cardinality(Voters(FALSE))
      /\ yays \in Nat /\ nays \in Nat
  BY Zenon DEF Tally, TypeOK, TallyMatchesVotes
<1>types. /\ ourVote' \in BOOLEAN /\ percentTime' \in PercentTimes
          /\ proposing' \in BOOLEAN /\ gaveUp' \in BOOLEAN
  BY Zenon DEF unVote, Tally, TypeOK
<1> SUFFICES /\ yays' = Cardinality(Voters(TRUE)') /\ yays' \in Nat
             /\ nays' = Cardinality(Voters(FALSE)') /\ nays' \in Nat
  <2>1. TypeOK'
    BY <1>types, <1>1, Zenon DEF TypeOK
  <2> QED
    BY <2>1 DEF Tally, TallyMatchesVotes
<1>4. CASE votes[p] = TRUE
  <2>1. /\ p \in Voters(TRUE)
        /\ Voters(TRUE)' = Voters(TRUE) \ {p}
        /\ Voters(FALSE)' = Voters(FALSE)
    BY <1>1, <1>4 DEF Voters
  <2>2. yays' = yays - 1 /\ nays' = nays
    BY <1>4 DEF unVote
  <2>3. /\ Cardinality(Voters(TRUE)') = Cardinality(Voters(TRUE)) - 1
        /\ Cardinality(Voters(TRUE)) - 1 \in Nat
    BY <1>2, <2>1, CountRemove, ZenonT(30)
  <2>4. Cardinality(Voters(FALSE)') = Cardinality(Voters(FALSE))
    BY <2>1, Zenon
  <2> QED
    <3>1. yays' = Cardinality(Voters(TRUE)')
      BY <1>2, <1>3, <2>2, <2>3, <2>4, Zenon
    <3>2. nays' = Cardinality(Voters(FALSE)')
      BY <1>2, <1>3, <2>2, <2>3, <2>4, Zenon
    <3>3. yays' \in Nat /\ nays' \in Nat
      BY <1>2, <1>3, <2>2, <2>3, <2>4, Zenon
    <3> QED
      BY <3>1, <3>2, <3>3, Zenon
<1>5. CASE votes[p] = FALSE
  <2>1. /\ p \in Voters(FALSE)
        /\ Voters(FALSE)' = Voters(FALSE) \ {p}
        /\ Voters(TRUE)' = Voters(TRUE)
    BY <1>1, <1>5 DEF Voters
  <2>2. nays' = nays - 1 /\ yays' = yays
    BY <1>5 DEF unVote
  <2>3. /\ Cardinality(Voters(FALSE)') = Cardinality(Voters(FALSE)) - 1
        /\ Cardinality(Voters(FALSE)) - 1 \in Nat
    BY <1>2, <2>1, CountRemove, ZenonT(30)
  <2>4. Cardinality(Voters(TRUE)') = Cardinality(Voters(TRUE))
    BY <2>1, Zenon
  <2> QED
    <3>1. yays' = Cardinality(Voters(TRUE)')
      BY <1>2, <1>3, <2>2, <2>3, <2>4, Zenon
    <3>2. nays' = Cardinality(Voters(FALSE)')
      BY <1>2, <1>3, <2>2, <2>3, <2>4, Zenon
    <3>3. yays' \in Nat /\ nays' \in Nat
      BY <1>2, <1>3, <2>2, <2>3, <2>4, Zenon
    <3> QED
      BY <3>1, <3>2, <3>3, Zenon
<1> QED
  BY <1>1, <1>4, <1>5, Zenon

\* The avalanche only rises.
LEMMA NeededWeightRises ==
    ASSUME NEW t \in Nat, NEW u \in Nat, t <= u
    PROVE  /\ neededWeight(t) \in Nat
           /\ neededWeight(t) <= neededWeight(u)
BY DEF neededWeight, avINIT_CONSENSUS_PCT, avMID_CONSENSUS_TIME, avMID_CONSENSUS_PCT,
       avLATE_CONSENSUS_TIME, avLATE_CONSENSUS_PCT, avSTUCK_CONSENSUS_TIME,
       avSTUCK_CONSENSUS_PCT

\* NextVote is a vote.
LEMMA NextVoteType ==
    ASSUME NEW y \in Nat, NEW n \in Nat, NEW b \in BOOLEAN,
           NEW t \in Nat, NEW prop \in BOOLEAN
    PROVE  NextVote(y, n, b, t, prop) \in BOOLEAN
<1> DEFINE w == (y * 100 + (IF b THEN 100 ELSE 0)) \div (n + y + 1)
<1>1. (w > neededWeight(t)) \in BOOLEAN
  OBVIOUS
<1>2. (y > n) \in BOOLEAN
  OBVIOUS
<1> QED
  BY <1>1, <1>2, ZenonT(30) DEF NextVote

\* Every step keeps the counters equal to the counts.
LEMMA StepKeepsTally ==
    ASSUME Tally, [Next]_vars
    PROVE  Tally'
<1>1. ASSUME NEW p \in Peer, NEW v \in BOOLEAN, setVote(p, v) PROVE Tally'
  BY <1>1, SetVoteKeepsTally
<1>2. ASSUME NEW p \in Peer, unVote(p) PROVE Tally'
  BY <1>2, UnVoteKeepsTally
<1>3. CASE updateVote
  <2>1. ourVote' \in BOOLEAN
    BY <1>3, NextVoteType, PercentAssumption DEF updateVote, Tally, TypeOK
  <2>2. gaveUp' \in BOOLEAN
    BY <1>3 DEF updateVote, Tally, TypeOK
  <2> QED
    BY <1>3, <2>1, <2>2 DEF updateVote, Tally, TypeOK, TallyMatchesVotes, Voters
<1>4. CASE Progress
  BY <1>4 DEF Progress, Tally, TypeOK, TallyMatchesVotes, Voters
<1>5. CASE LeaveConsensus
  BY <1>5, Zenon DEF LeaveConsensus, Tally, TypeOK, TallyMatchesVotes, Voters
<1>6. CASE UNCHANGED vars
  BY <1>6 DEF vars, Tally, TypeOK, TallyMatchesVotes, Voters
<1> QED
  BY <1>1, <1>2, <1>3, <1>4, <1>5, <1>6 DEF Next

\* The counters are the counts of the votes held, for any set of peers.
THEOREM TallyCorrect == Spec => [](TypeOK /\ TallyMatchesVotes)
<1>1. Init => Tally
  <2> SUFFICES ASSUME Init PROVE Tally
    OBVIOUS
  <2>1. DOMAIN votes = {} /\ votes \in [DOMAIN votes -> BOOLEAN]
    BY DEF Init
  <2>2. Voters(TRUE) = {} /\ Voters(FALSE) = {}
    BY <2>1 DEF Voters
  <2> QED
    BY <2>1, <2>2, FS_EmptySet, PercentAssumption, Zenon DEF Init, Tally, TypeOK, TallyMatchesVotes
<1>2. Tally /\ [Next]_vars => Tally'
  BY StepKeepsTally
<1> QED
  BY <1>1, <1>2, PTL DEF Spec, Tally

----------------------------------------------------------------------------
\* We only adopt a vote that the counters, and so some peer, support.
THEOREM FollowsPeers == Spec => FollowsSomePeer
<1>1. ASSUME Tally, [Next]_vars, ourVote' # ourVote
      PROVE  Voters(ourVote') # {}
  <2>1. updateVote
    BY <1>1, Zenon DEF Next, vars, setVote, unVote, Progress, LeaveConsensus
  <2>2. ourVote \in BOOLEAN /\ yays \in Nat /\ nays \in Nat
    BY <1>1 DEF Tally, TypeOK
  <2>3. ourVote' = NextVote(yays, nays, ourVote, percentTime, proposing)
    BY <2>1 DEF updateVote
  <2>4. ~(ourVote /\ nays = 0) /\ ~(~ourVote /\ yays = 0)
    BY <1>1, <2>3, Zenon DEF NextVote
  <2>5. ourVote' \in BOOLEAN
    BY <1>1, StepKeepsTally DEF Tally, TypeOK
  <2>6. CASE ourVote = TRUE
    <3>1. ourVote' = FALSE /\ Cardinality(Voters(FALSE)) # 0
      BY <1>1, <2>2, <2>4, <2>5, <2>6, Zenon DEF Tally, TallyMatchesVotes
    <3> QED
      BY <3>1, FS_EmptySet, Zenon
  <2>7. CASE ourVote = FALSE
    <3>1. ourVote' = TRUE /\ Cardinality(Voters(TRUE)) # 0
      BY <1>1, <2>2, <2>4, <2>5, <2>7, Zenon DEF Tally, TallyMatchesVotes
    <3> QED
      BY <3>1, FS_EmptySet, Zenon
  <2> QED
    BY <2>2, <2>6, <2>7, ZenonT(30)
<1>2. Tally /\ [Next]_vars => [ourVote' # ourVote => Voters(ourVote') # {}]_vars
  BY <1>1
<1>3. Spec => []Tally
  BY TallyCorrect, PTL DEF Tally
<1> QED
  BY <1>2, <1>3, PTL DEF Spec, FollowsSomePeer

\* Support without our own vote is no larger than with it.
LEMMA OwnWeight ==
    ASSUME NEW y \in Nat, NEW n \in Nat
    PROVE  (y * 100 + 0) \div (n + y + 1) <= (y * 100 + 100) \div (n + y + 1)
<1> DEFINE m == n + y + 1
           a == y * 100
           q == (a + 100) \div m
           p == a \div m
<1>1. m \in Nat /\ m > 0 /\ a \in Nat
  OBVIOUS
<1>2. q \in Int /\ p \in Int
  BY <1>1
<1> HIDE DEF m, a
<1>3. a + 100 < m * (q + 1)
  BY <1>1
<1>4. m * p <= a
  BY <1>1
<1>5. m * p < m * (q + 1)
  BY <1>1, <1>2, <1>3, <1>4
<1>6. p < q + 1
  BY <1>1, <1>2, <1>5
<1> QED
  BY <1>2, <1>6 DEF m, a

\* A vote given up at t is not taken up again at u, with the same tally.
LEMMA GivenUpStays ==
    ASSUME NEW y \in Nat, NEW n \in Nat, NEW prop \in BOOLEAN,
           NEW t \in Nat, NEW u \in Nat, t <= u,
           ~NextVote(y, n, TRUE, t, prop)
    PROVE  ~NextVote(y, n, FALSE, u, prop)
<1> DEFINE with == (y * 100 + 100) \div (n + y + 1)
           without == (y * 100 + 0) \div (n + y + 1)
<1>1. with \in Int /\ without \in Int /\ without <= with
  BY OwnWeight
<1>2. neededWeight(t) \in Nat /\ neededWeight(u) \in Nat /\ neededWeight(t) <= neededWeight(u)
  BY NeededWeightRises
<1>3. CASE prop
  <2>1. ~(with > neededWeight(t))
    BY <1>3 DEF NextVote
  <2>2. ~(without > neededWeight(u))
    BY <1>1, <1>2, <2>1
  <2> QED
    BY <1>3, <2>2 DEF NextVote
<1>4. CASE ~prop
  BY <1>4 DEF NextVote
<1> QED
  BY <1>3, <1>4, Zenon

\* The inductive form of AvalancheSettles: a vote given up stays given up at
\* every later time.
Settled ==
    gaveUp => /\ ~ourVote
              /\ \A t \in PercentTimes :
                    t >= percentTime => ~NextVote(yays, nays, FALSE, t, proposing)

\* A transaction we gave up is not taken back until some peer changes its vote.
THEOREM AvalancheTerminates == Spec => []AvalancheSettles
<1>1. Init => Settled
  BY DEF Init, Settled
<1>2. ASSUME Tally, Settled, [Next]_vars PROVE Settled'
  <2>1. CASE UNCHANGED <<yays, nays, ourVote, percentTime, proposing, gaveUp>>
    BY <1>2, <2>1, Zenon DEF Settled
  <2>2. CASE gaveUp' = FALSE
    BY <2>2 DEF Settled
  <2>3. CASE updateVote
    <3> SUFFICES ASSUME gaveUp' PROVE Settled'
      BY Zenon DEF Settled
    <3>1. /\ yays' = yays /\ nays' = nays /\ percentTime' = percentTime
          /\ proposing' = proposing
          /\ ourVote' = NextVote(yays, nays, ourVote, percentTime, proposing)
      BY <2>3 DEF updateVote
    <3>2. /\ yays \in Nat /\ nays \in Nat /\ proposing \in BOOLEAN /\ ourVote \in BOOLEAN
          /\ percentTime \in Nat /\ percentTime \in PercentTimes /\ PercentTimes \subseteq Nat
      BY <1>2, PercentAssumption DEF Tally, TypeOK
    <3>3. CASE gaveUp
      <4>1. /\ ourVote = FALSE
            /\ \A t \in PercentTimes :
                  t >= percentTime => ~NextVote(yays, nays, FALSE, t, proposing)
        BY <1>2, <3>2, <3>3, Zenon DEF Settled
      <4>2. ourVote' = NextVote(yays, nays, FALSE, percentTime, proposing)
        BY <3>1, <4>1, Zenon
      <4>3. percentTime >= percentTime
        BY <3>2
      <4>4. ~ourVote'
        BY <3>2, <4>1, <4>2, <4>3, Zenon
      <4> QED
        BY <3>1, <4>1, <4>4, Zenon DEF Settled
    <3>4. CASE ~gaveUp
      <4>1. ourVote = TRUE /\ ~ourVote'
        BY <2>3, <3>2, <3>4, Zenon DEF updateVote
      <4>2. ~NextVote(yays, nays, TRUE, percentTime, proposing)
        BY <3>1, <4>1, Zenon
      <4>3. \A t \in PercentTimes :
                t >= percentTime => ~NextVote(yays, nays, FALSE, t, proposing)
        BY <3>2, <4>2, GivenUpStays, Zenon
      <4> QED
        BY <3>1, <4>1, <4>3, Zenon DEF Settled
    <3> QED
      BY <3>3, <3>4
  <2>4. CASE Progress
    <3>1. /\ percentTime \in Nat /\ percentTime' \in Nat /\ percentTime' > percentTime
          /\ PercentTimes \subseteq Nat
          /\ yays' = yays /\ nays' = nays /\ proposing' = proposing
          /\ ourVote' = ourVote /\ gaveUp' = gaveUp
      BY <1>2, <2>4, PercentAssumption DEF Progress, Tally, TypeOK
    <3>2. \A t \in PercentTimes : t >= percentTime' => t >= percentTime
      BY <3>1
    <3> QED
      BY <1>2, <3>1, <3>2, Zenon DEF Settled
  <2>5. ASSUME NEW p \in Peer, NEW v \in BOOLEAN, setVote(p, v) PROVE Settled'
    BY <2>1, <2>2, <2>5, Zenon DEF setVote
  <2>6. ASSUME NEW p \in Peer, unVote(p) PROVE Settled'
    BY <2>2, <2>6, Zenon DEF unVote
  <2>7. CASE LeaveConsensus
    BY <2>2, <2>7, Zenon DEF LeaveConsensus
  <2>8. CASE UNCHANGED vars
    BY <2>1, <2>8 DEF vars
  <2> QED
    BY <1>2, <2>3, <2>4, <2>5, <2>6, <2>7, <2>8 DEF Next
<1>3. Settled => AvalancheSettles
  BY DEF Settled, AvalancheSettles
<1>4. Spec => []Tally
  BY TallyCorrect, PTL DEF Tally
<1> QED
  BY <1>1, <1>2, <1>3, <1>4, PTL DEF Spec

-----------------------------------------------------------------------------
(* The rounding of close times, for all times. *)

\* The table of LedgerTiming.h, bin by bin.
LEMMA Table ==
    /\ Bins = {1, 2, 3, 4, 5, 6}
    /\ Resolutions = {10, 20, 30, 60, 90, 120}
    /\ \A b \in Bins : BinOf(ledgerPossibleTimeResolutions[b]) = b
    /\ \A r \in Resolutions :
          BinOf(r) \in Bins /\ ledgerPossibleTimeResolutions[BinOf(r)] = r
<1>1. Len(ledgerPossibleTimeResolutions) = 6
  BY DEF ledgerPossibleTimeResolutions
<1>2. Bins = {1, 2, 3, 4, 5, 6}
  BY <1>1 DEF Bins
<1>3. Resolutions = {10, 20, 30, 60, 90, 120}
  BY <1>2 DEF Resolutions, ledgerPossibleTimeResolutions
<1>4. \A a, b \in Bins : ledgerPossibleTimeResolutions[a] = ledgerPossibleTimeResolutions[b] => a = b
  BY <1>2 DEF ledgerPossibleTimeResolutions
<1>5. \A b \in Bins : BinOf(ledgerPossibleTimeResolutions[b]) = b
  BY <1>4 DEF BinOf
<1>6. \A r \in Resolutions :
          BinOf(r) \in Bins /\ ledgerPossibleTimeResolutions[BinOf(r)] = r
  BY <1>5 DEF Resolutions
<1> QED
  BY <1>2, <1>3, <1>5, <1>6

\* getNextLedgerTimeResolution stays within the table, so the assertion that
\* its argument is a valid bin holds along the whole chain.
LEMMA NextResolutionIsBin ==
    ASSUME NEW r \in Resolutions, NEW agree \in BOOLEAN, NEW n \in Nat
    PROVE  getNextLedgerTimeResolution(r, agree, n) \in Resolutions
<1> DEFINE bin == BinOf(r)
<1>1. bin \in Bins
  BY Table
<1>2. bin # 1 => bin - 1 \in Bins
  BY <1>1, Table
<1>3. \A b \in Bins : ledgerPossibleTimeResolutions[b] \in Resolutions
  BY DEF Resolutions
<1> QED
  BY <1>1, <1>2, <1>3 DEF getNextLedgerTimeResolution

\* Rounding a non-zero time: a multiple, no further than half a bin away, and
\* a fixed point of rounding.
LEMMA Rounding ==
    ASSUME NEW t \in Nat, t # 0, NEW r \in Resolutions
    PROVE  /\ roundCloseTime(t, r) \in Nat
           /\ roundCloseTime(t, r) % r = 0
           /\ 2 * (roundCloseTime(t, r) - t) <= r
           /\ 2 * (t - roundCloseTime(t, r)) < r
           /\ roundCloseTime(roundCloseTime(t, r), r) = roundCloseTime(t, r)
<1> DEFINE h == r \div 2
           s == t + h
           q == roundCloseTime(t, r)
<1>1. r \in {10, 20, 30, 60, 90, 120}
  BY Table
<1>2. q = s - (s % r)
  BY DEF roundCloseTime
<1>3. h \in Nat /\ 2 * h = r
  BY <1>1
<1>4. s % r \in 0 .. r - 1 /\ s % r <= s
  BY <1>1, <1>3
<1>5. q \in Nat /\ 2 * (q - t) <= r /\ 2 * (t - q) < r
  BY <1>1, <1>2, <1>3, <1>4
<1>6. q % r = 0
  BY <1>1, <1>2, <1>3
<1>7. q # 0 => (q + h) % r = h
  BY <1>1, <1>3, <1>5, <1>6
<1>8. q # 0 => roundCloseTime(q, r) = q
  BY <1>7, <1>5, <1>3 DEF roundCloseTime
<1>9. q = 0 => roundCloseTime(q, r) = q
  BY DEF roundCloseTime
<1> QED
  BY <1>5, <1>6, <1>8, <1>9

\* effCloseTime is after the prior close, and a multiple of the resolution
\* unless it had to be pushed after it.
LEMMA EffectiveTime ==
    ASSUME NEW t \in Nat, t # 0, NEW r \in Resolutions, NEW prior \in Nat
    PROVE  /\ effCloseTime(t, r, prior) \in Nat
           /\ effCloseTime(t, r, prior) > prior
           /\ \/ effCloseTime(t, r, prior) % r = 0
              \/ effCloseTime(t, r, prior) = prior + 1
BY Rounding DEF effCloseTime

-----------------------------------------------------------------------------
(* The chain. *)

\* One accepted round, from any state of the right type.
LEMMA Accept ==
    ASSUME ChainTypeOK, doAccept
    PROVE  /\ ChainTypeOK'
           /\ closeTime' > closeTime
           /\ closeAgree' => \/ closeTime' % resolution' = 0
                             \/ closeTime' = closeTime + 1
<1> USE DEF ChainTypeOK
<1>1. seq' \in Nat \ {0}
  BY DEF doAccept
<1>2. closeResolution \in Resolutions /\ resolution' = closeResolution
  BY NextResolutionIsBin DEF doAccept, closeResolution
<1>3. CASE AcceptWithoutCloseTime
  <2>1. closeTime' \in Nat /\ closeTime' > closeTime /\ closeTime' = closeTime + 1
    BY <1>3 DEF AcceptWithoutCloseTime
  <2>2. closeAgree' \in BOOLEAN
    BY <1>3, Zenon DEF AcceptWithoutCloseTime
  <2> QED
    BY <1>1, <1>2, <2>1, <2>2
<1>4. ASSUME NEW t \in Nat, AcceptCloseTime(t)
      PROVE  /\ closeTime' \in Nat /\ closeAgree' \in BOOLEAN
             /\ closeTime' > closeTime
             /\ \/ closeTime' % resolution' = 0
                \/ closeTime' = closeTime + 1
  <2>1. t # 0
    BY <1>4 DEF AcceptCloseTime
  <2> QED
    BY <1>2, <1>4, <2>1, EffectiveTime DEF AcceptCloseTime
<1> QED
  BY <1>1, <1>2, <1>3, <1>4 DEF doAccept

\* The types, and with them the assertion of getNextLedgerTimeResolution that
\* the resolution of a ledger is one of the table.
THEOREM ChainTypeCorrect == ChainSpec => []ChainTypeOK
<1>1. ChainInit => ChainTypeOK
  BY Table DEF ChainInit, ChainTypeOK, ledgerGenesisTimeResolution, ledgerPossibleTimeResolutions
<1>2. ChainTypeOK /\ [doAccept]_chain => ChainTypeOK'
  BY Accept DEF ChainTypeOK, chain
<1> QED
  BY <1>1, <1>2, PTL DEF ChainSpec

\* Every ledger closes after its parent, on every chain.
THEOREM ClosesAfterParent == ChainSpec => CloseTimesIncrease
<1>1. ChainTypeOK /\ [doAccept]_chain => [closeTime' > closeTime]_chain
  BY Accept
<1> QED
  BY <1>1, ChainTypeCorrect, PTL DEF ChainSpec, CloseTimesIncrease

\* An agreed close time is rounded to the resolution of its ledger.
THEOREM AgreementIsRounded == ChainSpec => AgreedTimeIsRounded
<1>1. ChainTypeOK /\ [doAccept]_chain
      => [closeAgree' => \/ closeTime' % resolution' = 0
                         \/ closeTime' = closeTime + 1]_chain
  BY Accept
<1> QED
  BY <1>1, ChainTypeCorrect, PTL DEF ChainSpec, AgreedTimeIsRounded

\* The engine may round its position and doAccept round it again.
THEOREM RoundsOnce == ChainSpec => []RoundingIsNearest
<1>1. ChainTypeOK => RoundingIsNearest
  <2> SUFFICES ASSUME ChainTypeOK, NEW t \in Nat \ {0}
               PROVE  LET r == roundCloseTime(t, closeResolution)
                      IN  /\ roundCloseTime(r, closeResolution) = r
                          /\ 2 * (r - t) <= closeResolution
                          /\ 2 * (t - r) < closeResolution
    BY DEF RoundingIsNearest
  <2>1. closeResolution \in Resolutions
    BY NextResolutionIsBin DEF ChainTypeOK, closeResolution
  <2> QED
    BY <2>1, Rounding
<1> QED
  BY <1>1, ChainTypeCorrect, PTL
=============================================================================
