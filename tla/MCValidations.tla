--------------------------- MODULE MCValidations ---------------------------
(* Two validators and two rival ledgers: validations go stale, wait for      *)
(* their ledgers and outlive their enforcers while the trust changes.        *)
EXTENDS Validations, TLC

Forks == 1 :> <<1>> @@ 2 :> <<2>>
Validators == Permutations(Node)
=============================================================================
