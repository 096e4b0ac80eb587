-------------------------- MODULE ValidatedLedger --------------------------
(* A ledger and its ancestry, as the trie of validated ledgers sees it:      *)
(* RCLValidatedLedger.  A ledger is the string of the ids of its ancestors,  *)
(* and it only knows the last Depth of them (256 in the skip list).          *)
EXTENDS Integers, Sequences, FiniteSetsExt

CONSTANTS History,  \* ledger id -> the ids from sequence 1 to the ledger itself
          Depth     \* how many ancestors' hashes a ledger carries

ID == DOMAIN History
\* The id of MakeGenesis, which is also operator[]'s answer "unknown": it is
\* smaller than every other id.
Genesis == 0

\* Ids are ordered, as the code breaks ties with them, and a ledger fixes
\* all of its ancestors: "any ledgers that agree on the id of a given sequence
\* number agree on ALL ancestors before that ledger".
ASSUME LedgerAssumption ==
    /\ IsFiniteSet(ID) /\ ID \subseteq Nat \ {Genesis}
    /\ \A l \in ID : /\ History[l] \in Seq(ID) \ {<<>>}
                     /\ History[l][Len(History[l])] = l
                     /\ \A s \in 1..Len(History[l]) :
                           History[History[l][s]] = SubSeq(History[l], 1, s)
    /\ Depth \in Nat

Larger(a, b) == IF a < b THEN b ELSE a
Smaller(a, b) == IF a < b THEN a ELSE b

seq(l) == IF l = Genesis THEN 0 ELSE Len(History[l])
Seqs == 0..Max({0} \cup {seq(l) : l \in ID})

\* The first sequence whose id the ledger knows: the hashes go back to
\* sequence 1 at most.
minSeq(l) == IF l = Genesis THEN 0 ELSE seq(l) - Smaller(Depth, seq(l) - 1)

\* operator[]
At(l, s) == IF s \in Larger(1, minSeq(l))..seq(l) THEN History[l][s] ELSE Genesis

\* What the hashes say beyond their depth, which no node can see.
IsAncestor(a, l) == \/ a = Genesis
                    \/ /\ l # Genesis /\ seq(a) <= seq(l)
                       /\ History[l][seq(a)] = a

\* The first sequence at which the two may differ.  Ledgers with no common
\* known sequence, or none that agrees, differ right after genesis.
mismatch(a, b) ==
    LET common == {s \in Larger(minSeq(a), minSeq(b))..Smaller(seq(a), seq(b)) :
                      At(a, s) = At(b, s)}
    IN IF common = {} THEN 1 ELSE Max(common) + 1
=============================================================================
