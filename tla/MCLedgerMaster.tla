--------------------------- MODULE MCLedgerMaster ---------------------------
(* The validators agree on a chain of four ledgers, 1, 2, 4 and 5; the node  *)
(* may build 3 instead of 4.  The validations of 2 are lost.                 *)
EXTENDS LedgerMaster, TLC

Forks == 1 :> <<1>> @@ 2 :> <<1, 2>> @@ 3 :> <<1, 2, 3>> @@ 4 :> <<1, 2, 4>>
         @@ 5 :> <<1, 2, 4, 5>>
Validators == Permutations(Validator \ {Self})
=============================================================================
