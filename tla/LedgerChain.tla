----------------------------- MODULE LedgerChain -----------------------------
(***************************************************************************)
(* How the close time of a ledger, and the resolution it is rounded to,    *)
(* evolve along the chain a node builds: each step is one accepted round   *)
(* (RCLConsensus::Adaptor::doAccept, then Ledger::setAccepted), starting   *)
(* from the genesis ledger.                                                *)
(***************************************************************************)
EXTENDS LedgerTiming

VARIABLES
    seq,             \* sequence number of the last closed ledger
    closeTime,       \* its close time
    resolution,      \* its closeTimeResolution
    closeAgree       \* whether its close time was agreed on

chain == <<seq, closeTime, resolution, closeAgree>>

ChainTypeOK ==
    /\ seq \in Nat \ {0}
    /\ closeTime \in Nat
    /\ resolution \in Resolutions
    /\ closeAgree \in BOOLEAN

\* The genesis ledger has no close time.
ChainInit ==
    /\ seq = 1
    /\ closeTime = 0
    /\ resolution = ledgerGenesisTimeResolution
    /\ closeAgree = TRUE

\* The resolution the engine computes when it starts the next round.
closeResolution == getNextLedgerTimeResolution(resolution, closeAgree, seq + 1)

\* The round agreed to disagree: one second after the parent.
AcceptWithoutCloseTime ==
    /\ closeTime' = closeTime + 1
    /\ closeAgree' = FALSE

\* The round agreed on the non-zero close time t.
AcceptCloseTime(t) ==
    /\ t > 0
    /\ closeTime' = effCloseTime(t, closeResolution, closeTime)
    /\ closeAgree' = TRUE

\* The position carries any time, also one that is not after the parent's.
doAccept ==
    /\ \/ AcceptWithoutCloseTime
       \/ \E t \in Nat : AcceptCloseTime(t)
    /\ resolution' = closeResolution
    /\ seq' = seq + 1

ChainSpec == ChainInit /\ [][doAccept]_chain

----------------------------------------------------------------------------
\* Whatever close times the rounds agree on, a late, early or repeated one
\* included, a ledger closes strictly after its parent.
CloseTimesIncrease == [][closeTime' > closeTime]_chain

\* An agreed close time is a multiple of the resolution of its ledger, so that
\* nodes with slightly different clocks build the same ledger, unless that
\* multiple was not after the parent.
AgreedTimeIsRounded ==
    [][closeAgree' => \/ closeTime' % resolution' = 0
                      \/ closeTime' = closeTime + 1]_chain

\* Rounding twice changes nothing: the position already carries a rounded time
\* (Consensus::asCloseTime) when doAccept rounds it again.  And rounding never
\* moves a time by more than half a bin.
RoundingIsNearest ==
    \A t \in Nat \ {0} :
        LET r == roundCloseTime(t, closeResolution)
        IN  /\ roundCloseTime(r, closeResolution) = r
            /\ 2 * (r - t) <= closeResolution
            /\ 2 * (t - r) < closeResolution
=============================================================================
