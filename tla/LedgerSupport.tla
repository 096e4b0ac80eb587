--------------------------- MODULE LedgerSupport ---------------------------
(* What the trie of validated ledgers promises: it counts, for each ledger,  *)
(* the validations that support exactly that ledger.                         *)
EXTENDS ValidatedLedger

CONSTANT MaxSupport  \* bound on the validations counted at a time

VARIABLE support     \* ledger -> number of validations

InsertInto(sup, l, count) == [sup EXCEPT ![l] = @ + count]

\* Never more than there is.
RemoveFrom(sup, l, count) == [sup EXCEPT ![l] = @ - Smaller(count, @)]

NoSupport == [l \in ID |-> 0]

SupportInit == support = NoSupport

SupportNext ==
    \E before \in {support}, after \in {support'}, l \in ID :
       \/ \E count \in 1..MaxSupport : after = InsertInto(before, l, count)
       \/ \E count \in 1..MaxSupport : after = RemoveFrom(before, l, count)

SupportSpec == SupportInit /\ [][SupportNext]_support

-----------------------------------------------------------------------------
Descendants == [l \in ID \cup {Genesis} |-> {d \in ID : IsAncestor(l, d)}]

\* The support of a ledger and of everything built on it.
Branch(sup, l) == SumFunctionOnSet(sup, {d \in Descendants[l] : sup[d] > 0})

\* Validators that may yet support any ledger with sequence s: their last
\* validation is older, or older than the largest we issued ourselves.
Uncommitted(sup, s, largestIssued) ==
    SumFunctionOnSet(sup, {l \in ID : sup[l] > 0 /\ seq(l) < Larger(s, largestIssued)})

\* The ledgers on l with the next sequence that somebody supports.
Candidates(sup, l) ==
    {c \in {[id |-> d, votes |-> Branch(sup, d)] :
               d \in {e \in Descendants[l] : seq(e) = seq(l) + 1}} : c.votes > 0}

\* The candidate c stays ahead of its rivals, by votes and then by id, even if
\* all the uncommitted go to one of them, or to a ledger not yet seen.
Certain(c, rivals, uncommitted) ==
    IF rivals = {} THEN c.votes > uncommitted
    ELSE \A r \in rivals :
            \/ c.votes > r.votes + uncommitted
            \/ c.votes = r.votes + uncommitted /\ c.id > r.id

\* The preferred ledger, one sequence at a time from l on: go on to the child
\* that is certain to stay ahead, as long as there is one.
Preferred(sup, largestIssued) ==
    LET Step[l \in ID \cup {Genesis}] ==
          LET u == Uncommitted(sup, seq(l) + 1, largestIssued)
              all == Candidates(sup, l)
              certain == {c \in all : Certain(c, all \ {c}, u)}
          IN IF certain = {} THEN l ELSE Step[(CHOOSE c \in certain : TRUE).id]
    IN Step[Genesis]
=============================================================================
