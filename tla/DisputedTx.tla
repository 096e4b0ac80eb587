----------------------------- MODULE DisputedTx -----------------------------
(***************************************************************************)
(* One disputed transaction of a consensus round                           *)
(* (consensus/DisputedTx.h): the peers' votes, the two running counters    *)
(* the decision is made from, and our own vote, which the avalanche of     *)
(* rising thresholds drives.  The engine calls setVote and unVote as       *)
(* positions arrive and leave, and updateVote on every timer tick.         *)
(***************************************************************************)
EXTENDS ConsensusRules

CONSTANTS
    Peer,
    \* The values of convergePercent_ at which updateVote may be called.
    PercentTimes

ASSUME PeerAssumption == IsFiniteSet(Peer)
ASSUME PercentAssumption == 0 \in PercentTimes /\ PercentTimes \subseteq Nat

VARIABLES
    votes,        \* votes_: the peers that have voted, and what
    yays, nays,   \* the counters
    ourVote,
    percentTime,  \* how far the round is, only grows
    proposing,    \* whether the engine still proposes
    gaveUp        \* auxiliary: we turned to no, and no peer has voted since

vars == <<votes, yays, nays, ourVote, percentTime, proposing, gaveUp>>

Voters(v) == {p \in DOMAIN votes : votes[p] = v}

TypeOK ==
    /\ DOMAIN votes \subseteq Peer
    /\ votes \in [DOMAIN votes -> BOOLEAN]
    /\ yays \in Nat
    /\ nays \in Nat
    /\ ourVote \in BOOLEAN
    /\ percentTime \in PercentTimes
    /\ proposing \in BOOLEAN
    /\ gaveUp \in BOOLEAN

\* A dispute is created with our vote and without any of the peers'.
Init ==
    /\ votes = [p \in {} |-> FALSE]
    /\ yays = 0
    /\ nays = 0
    /\ ourVote \in BOOLEAN
    /\ percentTime = 0
    /\ proposing \in BOOLEAN
    /\ gaveUp = FALSE

\* A new vote, a vote changed to yes, a vote changed to no, or the same again.
setVote(p, votesYes) ==
    /\ votes' = [q \in DOMAIN votes \cup {p} |-> IF q = p THEN votesYes ELSE votes[q]]
    /\ \/ /\ p \notin DOMAIN votes
          /\ yays' = IF votesYes THEN yays + 1 ELSE yays
          /\ nays' = IF votesYes THEN nays ELSE nays + 1
          /\ gaveUp' = FALSE
       \/ /\ p \in DOMAIN votes
          /\ votesYes /\ ~votes[p]
          /\ nays' = nays - 1
          /\ yays' = yays + 1
          /\ gaveUp' = FALSE
       \/ /\ p \in DOMAIN votes
          /\ ~votesYes /\ votes[p]
          /\ nays' = nays + 1
          /\ yays' = yays - 1
          /\ gaveUp' = FALSE
       \/ /\ p \in DOMAIN votes
          /\ votesYes = votes[p]
          /\ UNCHANGED <<yays, nays, gaveUp>>
    /\ UNCHANGED <<ourVote, percentTime, proposing>>

\* A peer without a vote has none to remove.
unVote(p) ==
    /\ p \in DOMAIN votes
    /\ votes' = [q \in DOMAIN votes \ {p} |-> votes[q]]
    /\ yays' = IF votes[p] THEN yays - 1 ELSE yays
    /\ nays' = IF votes[p] THEN nays ELSE nays - 1
    /\ gaveUp' = FALSE
    /\ UNCHANGED <<ourVote, percentTime, proposing>>

updateVote ==
    /\ ourVote' = NextVote(yays, nays, ourVote, percentTime, proposing)
    /\ gaveUp' = (gaveUp \/ (ourVote /\ ~ourVote'))
    /\ UNCHANGED <<votes, yays, nays, percentTime, proposing>>

\* Time passes, and the engine may leave consensus, between the calls.
Progress ==
    /\ \E t \in PercentTimes : t > percentTime /\ percentTime' = t
    /\ UNCHANGED <<votes, yays, nays, ourVote, proposing, gaveUp>>

LeaveConsensus ==
    /\ proposing
    /\ proposing' = FALSE
    /\ gaveUp' = FALSE
    /\ UNCHANGED <<votes, yays, nays, ourVote, percentTime>>

Next ==
    \/ \E p \in Peer, v \in BOOLEAN : setVote(p, v)
    \/ \E p \in Peer : unVote(p)
    \/ updateVote
    \/ Progress
    \/ LeaveConsensus

Spec == Init /\ [][Next]_vars

----------------------------------------------------------------------------
\* The counters updateVote decides from are the counts of the votes held, over
\* any sequence of new, repeated, changed and withdrawn votes.
TallyMatchesVotes ==
    /\ yays = Cardinality(Voters(TRUE))
    /\ nays = Cardinality(Voters(FALSE))

\* We never adopt a vote that no peer casts: a transaction we and all peers
\* include stays in, one that nobody includes stays out.
FollowsSomePeer ==
    [][ourVote' # ourVote => Voters(ourVote') # {}]_vars

\* The avalanche settles: as long as no peer changes its vote, a transaction
\* we gave up is not taken back, however far the threshold has risen.
AvalancheSettles == gaveUp => ~ourVote
=============================================================================
