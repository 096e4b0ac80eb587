---------------------------- MODULE MCLedgerTrie ----------------------------
(* Three branches from one ledger, one of them longer and branching again.   *)
EXTENDS LedgerTrie

\*  1 - 4 - 2
\*   \   \- 6
\*    \- 5
\*     \- 3
Branching == [l \in 1..6 |->
    CASE l = 1 -> <<1>>
      [] l = 2 -> <<1, 4, 2>>
      [] l = 3 -> <<1, 3>>
      [] l = 4 -> <<1, 4>>
      [] l = 5 -> <<1, 5>>
      [] l = 6 -> <<1, 4, 6>>]

Sequences == {0, 3}
=============================================================================
