---------------------------- MODULE LedgerTiming ----------------------------
(***************************************************************************)
(* The rounding of ledger close times (consensus/LedgerTiming.h).  Times   *)
(* are seconds of the network clock; 0 is the time_point{} that stands for *)
(* "no agreement".                                                         *)
(***************************************************************************)
EXTENDS Integers, Sequences

ledgerPossibleTimeResolutions == <<10, 20, 30, 60, 90, 120>>
ledgerGenesisTimeResolution == ledgerPossibleTimeResolutions[1]
increaseLedgerTimeResolutionEvery == 8
decreaseLedgerTimeResolutionEvery == 1

Bins == 1 .. Len(ledgerPossibleTimeResolutions)
Resolutions == {ledgerPossibleTimeResolutions[b] : b \in Bins}

BinOf(r) == CHOOSE b \in Bins : ledgerPossibleTimeResolutions[b] = r

\* A round that could not agree makes the next bin coarser, at the end of the
\* table it stays; every eighth ledger that agreed makes it finer.
getNextLedgerTimeResolution(previousResolution, previousAgree, ledgerSeq) ==
    IF previousResolution \notin Resolutions
    THEN previousResolution
    ELSE LET bin == BinOf(previousResolution) IN
         IF /\ ~previousAgree
            /\ ledgerSeq % decreaseLedgerTimeResolutionEvery = 0
            /\ bin + 1 \in Bins
         THEN ledgerPossibleTimeResolutions[bin + 1]
         ELSE IF /\ previousAgree
                 /\ ledgerSeq % increaseLedgerTimeResolutionEvery = 0
                 /\ bin # 1
         THEN ledgerPossibleTimeResolutions[bin - 1]
         ELSE previousResolution

\* To the nearest multiple, midway up.  The zero time is left alone.
roundCloseTime(t, closeResolution) ==
    IF t = 0 THEN t
    ELSE LET shifted == t + closeResolution \div 2
         IN  shifted - (shifted % closeResolution)

\* The rounded time, but after the prior close.
effCloseTime(t, closeResolution, priorCloseTime) ==
    IF t = 0 THEN t
    ELSE LET rounded == roundCloseTime(t, closeResolution)
         IN  IF rounded < priorCloseTime + 1 THEN priorCloseTime + 1 ELSE rounded
=============================================================================
