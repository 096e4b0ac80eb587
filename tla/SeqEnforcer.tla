---------------------------- MODULE SeqEnforcer ----------------------------
(* SeqEnforcer of Validations.h: a validator's sequences must increase, until*)
(* the last one is old enough to be forgotten.                               *)
EXTENDS Naturals

CONSTANT SET_EXPIRES    \* validationSET_EXPIRES

VARIABLE now            \* the clocks, network and steady

\* What an enforcer holds when it decides, and whether s passes.
Held(e) == IF now > e.when + SET_EXPIRES THEN 0 ELSE e.seq

\* Mutant: a sequence may be repeated.
PassesAgain(e, s) == s >= Held(e)

Passes(e, s) == s > Held(e)
Enforced(e, s) == IF Passes(e, s) THEN [seq |-> s, when |-> now]
                  ELSE [seq |-> Held(e), when |-> e.when]

NoEnforcer == [seq |-> 0, when |-> 0]
=============================================================================
