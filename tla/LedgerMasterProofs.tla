------------------------- MODULE LedgerMasterProofs -------------------------
(***************************************************************************)
(* Ledgers are published in order, only when they are backed, and up to    *)
(* the validated one; and no ledger is overlooked.  For every chain,       *)
(* quorum, gap and fetch size, and any number of validators, rounds and    *)
(* threads' steps.                                                         *)
(*                                                                         *)
(* The invariant speaks of the list the publishing thread has collected:   *)
(* it continues the published ledger without a hole, and nothing moves the *)
(* published ledger while the list waits.  What each of the later theorems *)
(* adds to it stands before their lemmas.                                  *)
(***************************************************************************)
EXTENDS LedgerMaster, TLAPS

Ledgers == ID \cup {Genesis}

AdvanceType ==
    [at : {"idle", "top", "find", "publish", "end"},
     val : Ledgers, seq : Nat, list : Seq(ID), acq : Nat]

RoundType ==
    [at : {"open", "closed", "built", "check", "count", "switch", "ended"},
     ledger : Ledgers]

\* The list continues the ledger p.
Continues(list, p) == \A i \in 1..Len(list) : seq(list[i]) = seq(p) + i

TypeInv ==
    /\ have \subseteq ID
    /\ round \in RoundType
    /\ mValidLedger \in Ledgers
    /\ mPubLedger \in Ledgers
    /\ advance \in AdvanceType

ListInv ==
    /\ mPubLedger = Genesis => mValidLedger = Genesis /\ advance = NoAdvance
    /\ advance.at \in {"idle", "top", "end"} => advance.list = <<>>
    /\ advance.at = "find" => Continues(advance.list, mPubLedger)
    /\ advance.at = "publish" =>
          /\ advance.list # <<>>
          /\ \/ advance.list = <<mPubLedger>>
             \/ Continues(advance.list, mPubLedger)

Inv == TypeInv /\ ListInv

\* Sequences are natural numbers: Genesis stands for none and has 0.
LEMMA SeqType == \A l \in Ledgers : seq(l) \in Nat /\ (l # Genesis => seq(l) > 0)
BY LedgerAssumption, SMTT(30) DEF Ledgers, seq, ID, Genesis

\* The thread as it starts.
LEMMA Started ==
    LET a == [NoAdvance EXCEPT !.at = "top"]
    IN  a \in AdvanceType /\ a.at = "top" /\ a.list = <<>>
<1>1. <<>> \in Seq(ID)
  OBVIOUS
<1>2. [NoAdvance EXCEPT !.at = "top"] =
         [at |-> "top", val |-> Genesis, seq |-> 0, list |-> <<>>, acq |-> 0]
  BY DEF NoAdvance
<1>3. [at |-> "top", val |-> Genesis, seq |-> 0, list |-> <<>>, acq |-> 0]
         \in AdvanceType
  BY <1>1 DEF AdvanceType, Ledgers
<1> QED
  BY <1>2, <1>3

\* Starting the thread, or leaving it to its work, keeps its list.
LEMMA TryAdvance ==
  ASSUME Inv, NEW valid, tryAdvance(valid)
  PROVE  /\ advance' \in AdvanceType
         /\ \/ advance' = advance
            \/ /\ advance.at = "idle" /\ valid # Genesis
               /\ advance'.at = "top" /\ advance'.list = <<>>
<1>1. CASE advance.at = "idle" /\ valid # Genesis
  BY <1>1, Started DEF tryAdvance
<1>2. CASE ~(advance.at = "idle" /\ valid # Genesis)
  BY <1>2 DEF Inv, TypeInv, tryAdvance
<1> QED
  BY <1>1, <1>2

\* A step that validates a ledger and starts the thread.
LEMMA SetValid ==
  ASSUME Inv, NEW l \in ID, setValidLedger(l), tryAdvance(l)
  PROVE  /\ ListInv'
         /\ mValidLedger' \in Ledgers /\ mPubLedger' \in Ledgers
         /\ advance' \in AdvanceType
         /\ mPubLedger # Genesis => mPubLedger' = mPubLedger
<1>1. l \in Ledgers /\ l # Genesis
  BY LedgerAssumption DEF Ledgers, Genesis
<1>2. /\ advance' \in AdvanceType
      /\ \/ advance' = advance
         \/ advance'.at = "top" /\ advance'.list = <<>>
  BY <1>1, TryAdvance
<1>3. mPubLedger' \in Ledgers /\ mPubLedger' # Genesis
  BY <1>1 DEF Inv, TypeInv, setValidLedger
<1>4. CASE mPubLedger = Genesis
  <2>1. advance.at = "idle" /\ advance.list = <<>>
    BY <1>4 DEF Inv, ListInv, NoAdvance
  <2>2. advance'.at \in {"idle", "top"} /\ advance'.list = <<>>
    BY <1>2, <2>1
  <2> QED
    BY <1>1, <1>2, <1>3, <1>4, <2>2 DEF ListInv, setValidLedger
<1>5. CASE mPubLedger # Genesis
  <2>1. mPubLedger' = mPubLedger
    BY <1>5 DEF setValidLedger
  <2>2. CASE advance' = advance
    BY <1>1, <1>2, <1>3, <2>1, <2>2 DEF Inv, ListInv, Continues, setValidLedger
  <2>3. CASE advance'.at = "top" /\ advance'.list = <<>>
    BY <1>1, <1>2, <1>3, <2>1, <2>3 DEF ListInv, setValidLedger
  <2> QED
    BY <1>1, <1>2, <2>1, <2>2, <2>3 DEF setValidLedger
<1> QED
  BY <1>4, <1>5

\* checkAccept(ledger).
LEMMA CheckAccept ==
  ASSUME Inv, NEW l \in Ledgers, checkAccept(l)
  PROVE  /\ ListInv'
         /\ mValidLedger' \in Ledgers /\ mPubLedger' \in Ledgers
         /\ advance' \in AdvanceType
         /\ mPubLedger # Genesis => mPubLedger' = mPubLedger
<1>1. CASE Accepts(l)
  <2>1. l \in ID
    BY <1>1, SeqType DEF Inv, TypeInv, Accepts, mValidLedgerSeq, Ledgers, seq
  <2> QED
    BY <1>1, <2>1, SetValid DEF checkAccept
<1>2. CASE ~Accepts(l)
  BY <1>2 DEF checkAccept, publishing, Inv, TypeInv, ListInv, Continues
<1> QED
  BY <1>1, <1>2

\* The steps that touch neither the thread nor what it reads of the lock's
\* state.
LEMMA OtherSteps ==
  ASSUME Inv,
         UNCHANGED <<mValidLedger, mPubLedger, advance>>,
         have' \subseteq ID, round' \in RoundType
  PROVE  Inv'
BY DEF Inv, TypeInv, ListInv, Continues

LEMMA InitInv == Init => Inv
<1> SUFFICES ASSUME Init PROVE Inv
  OBVIOUS
<1>1. /\ advance = [at |-> "idle", val |-> Genesis, seq |-> 0, list |-> <<>>, acq |-> 0]
      /\ <<>> \in Seq(ID)
  BY DEF Init, NoAdvance
<1>2. advance \in AdvanceType /\ advance.list = <<>> /\ advance.at = "idle"
  BY <1>1 DEF AdvanceType, Ledgers
<1>3. round = [at |-> "open", ledger |-> Genesis]
  BY DEF Init, Idle
<1>4. TypeInv
  <2>1. Loaded \in ID
    BY MasterAssumption
  <2>2. round \in RoundType
    BY <1>3 DEF Ledgers, RoundType
  <2> QED
    BY <1>2, <2>1, <2>2 DEF Init, startGenesisLedger, loadOldLedger, TypeInv, Ledgers
<1>5. ListInv
  BY <1>2 DEF Init, ListInv
<1> QED
  BY <1>4, <1>5 DEF Inv

\* What the thread does to its list: each step of the loop, on its own.
LEMMA TopInv == Inv /\ Top => Inv'
<1> SUFFICES ASSUME Inv, Top PROVE Inv'
  OBVIOUS
<1>1. /\ have' = have /\ round' = round /\ mValidLedger' = mValidLedger
      /\ advance \in AdvanceType /\ advance.list = <<>>
      /\ mPubLedger # Genesis
  BY DEF Inv, TypeInv, ListInv, Top, store, validated, consensus, NoAdvance
<1>2. CASE /\ mValidLedgerSeq > mPubLedgerSeq + MaxLedgerGap
           /\ mPubLedger' = mValidLedger
           /\ advance' = [advance EXCEPT !.at = "publish", !.list = <<mValidLedger>>]
  <2>1. mValidLedger \in ID
    BY <1>2, SeqType, MasterAssumption
       DEF Inv, TypeInv, mValidLedgerSeq, mPubLedgerSeq, Ledgers, seq
  <2>2. <<mValidLedger>> \in Seq(ID) /\ <<mValidLedger>> # <<>>
    BY <2>1
  <2>3. advance' \in AdvanceType /\ advance'.at = "publish" /\ advance'.list = <<mPubLedger'>>
    BY <1>1, <1>2, <2>2, Zenon DEF AdvanceType
  <2>4. mPubLedger' # Genesis
    BY <1>2, <2>1, LedgerAssumption DEF Genesis
  <2> QED
    BY <1>1, <1>2, <2>2, <2>3, <2>4 DEF Inv, TypeInv, ListInv
<1>3. CASE /\ advance' = [advance EXCEPT !.at = "end"]
           /\ UNCHANGED mPubLedger
  <2>1. advance' \in AdvanceType /\ advance'.at = "end" /\ advance'.list = <<>>
    BY <1>1, <1>3 DEF AdvanceType
  <2> QED
    BY <1>1, <1>3, <2>1 DEF Inv, TypeInv, ListInv
<1>4. CASE /\ advance' = [advance EXCEPT !.at = "find", !.val = mValidLedger,
                                         !.seq = mPubLedgerSeq + 1]
           /\ UNCHANGED mPubLedger
  <2>1. mPubLedgerSeq + 1 \in Nat
    BY SeqType DEF Inv, TypeInv, mPubLedgerSeq
  <2>2. advance' \in AdvanceType /\ advance'.at = "find" /\ advance'.list = <<>>
    BY <1>1, <1>4, <2>1, Zenon DEF AdvanceType, Inv, TypeInv
  <2>3. Continues(advance'.list, mPubLedger')
    BY <2>2 DEF Continues
  <2> QED
    BY <1>1, <1>4, <2>2, <2>3 DEF Inv, TypeInv, ListInv
<1> QED
  BY <1>2, <1>3, <1>4 DEF Top

\* One turn of the loop keeps the list in order.
Collected(l) == IF NextFound(l) THEN Append(advance.list, l) ELSE advance.list

LEMMA CollectedInOrder ==
  ASSUME Inv, advance.at = "find", NEW l
  PROVE  Collected(l) \in Seq(ID) /\ Continues(Collected(l), mPubLedger)
<1> DEFINE list == Collected(l)
<1>1. CASE NextFound(l)
  <2>1. l \in ID /\ seq(l) = seq(mPubLedger) + 1 + Len(advance.list)
    BY <1>1 DEF NextFound, pubSeq, mPubLedgerSeq, Inv, TypeInv
  <2>2. advance.list \in Seq(ID) /\ seq(mPubLedger) \in Nat
    BY SeqType DEF AdvanceType, Inv, TypeInv
  <2>3. list = Append(advance.list, l)
    BY <1>1 DEF Collected
  <2> HIDE DEF list
  <2>4. list \in Seq(ID) /\ Len(list) = Len(advance.list) + 1
    BY <2>1, <2>2, <2>3
  <2>5. ASSUME NEW i \in 1..Len(list) PROVE seq(list[i]) = seq(mPubLedger) + i
    <3>1. CASE i = Len(list)
      <4>1. list[i] = l
        BY <2>1, <2>2, <2>3, <2>4, <3>1
      <4>2. Len(advance.list) \in Nat
        BY <2>2
      <4> QED
        BY <2>1, <2>2, <2>4, <3>1, <4>1, <4>2, SMTT(30)
    <3>2. CASE i # Len(list)
      <4>1. i \in 1..Len(advance.list) /\ list[i] = advance.list[i]
        BY <2>2, <2>3, <2>4, <3>2
      <4> QED
        BY <4>1 DEF Inv, ListInv, Continues
    <3> QED
      BY <3>1, <3>2
  <2> QED
    BY <2>4, <2>5 DEF Continues, list
<1>2. CASE ~NextFound(l)
  BY <1>2 DEF Inv, TypeInv, ListInv, AdvanceType, Collected
<1> QED
  BY <1>1, <1>2

LEMMA FindInv == Inv /\ Find => Inv'
<1> SUFFICES ASSUME Inv, Find PROVE Inv'
  OBVIOUS
<1> DEFINE l == HashOfSeq(advance.seq)
           list == Collected(l)
<1>1. /\ have' = have /\ round' = round
      /\ mValidLedger' = mValidLedger /\ mPubLedger' = mPubLedger
      /\ advance \in AdvanceType /\ advance.at = "find"
      /\ Continues(advance.list, mPubLedger)
      /\ mPubLedger # Genesis
  BY DEF Inv, TypeInv, ListInv, Find, validated, consensus, NoAdvance
<1>2. list \in Seq(ID) /\ Continues(list, mPubLedger)
  BY <1>1, CollectedInOrder
<1> HIDE DEF list, l
<1>3. CASE advance.seq = seq(advance.val)
  <2>1. advance' = [at |-> IF list = <<>> THEN "end" ELSE "publish",
                    val |-> Genesis, seq |-> 0, list |-> list, acq |-> 0]
    BY <1>3, Zenon DEF Find, NoAdvance, Collected, list, l
  <2>2. /\ advance' \in AdvanceType /\ advance'.list = list
        /\ advance'.at = IF list = <<>> THEN "end" ELSE "publish"
    BY <1>2, <2>1 DEF AdvanceType, Ledgers
  <2> QED
    BY <1>1, <1>2, <2>2 DEF Inv, TypeInv, ListInv, Continues
<1>4. CASE advance.seq # seq(advance.val)
  <2> DEFINE acq == IF l \notin have THEN advance.acq + 1 ELSE advance.acq
  <2>1. advance' = [advance EXCEPT !.seq = advance.seq + 1, !.list = list, !.acq = acq]
    BY <1>4 DEF Find, Collected, list, l
  <2>2. acq \in Nat /\ advance.seq + 1 \in Nat
    BY <1>1 DEF AdvanceType
  <2> HIDE DEF acq
  <2>3. advance' \in AdvanceType /\ advance'.list = list /\ advance'.at = "find"
    BY <1>1, <1>2, <2>1, <2>2, Zenon DEF AdvanceType
  <2> QED
    BY <1>1, <1>2, <2>3 DEF Inv, TypeInv, ListInv, Continues
<1> QED
  BY <1>3, <1>4

\* A list is empty when its length is 0.
LEMMA EmptyList == \A s \in Seq(ID) : Len(s) = 0 <=> s = <<>>
OBVIOUS

LEMMA PublishInv == Inv /\ Publish => Inv'
<1> SUFFICES ASSUME Inv, Publish PROVE Inv'
  OBVIOUS
<1> DEFINE list == advance.list
<1>1. /\ round' = round /\ mValidLedger' = mValidLedger
      /\ advance \in AdvanceType
      /\ list # <<>>
      /\ list = <<mPubLedger>> \/ Continues(list, mPubLedger)
  BY DEF Inv, TypeInv, ListInv, Publish, validated, consensus
<1>2. list \in Seq(ID) /\ Len(list) \in Nat \ {0} /\ Head(list) \in ID
  BY <1>1 DEF AdvanceType
<1>3. Tail(list) \in Seq(ID) /\ Len(Tail(list)) = Len(list) - 1
  BY <1>1, <1>2
<1>4. mPubLedger' = Head(list) /\ have' = have \cup {Head(list)}
  BY DEF Publish
<1>5. mPubLedger' \in Ledgers /\ mPubLedger' # Genesis /\ have' \subseteq ID
  BY <1>2, <1>4, LedgerAssumption, Zenon DEF Ledgers, Genesis, Inv, TypeInv
<1>6. /\ advance' \in AdvanceType /\ advance'.list = Tail(list)
      /\ advance'.at = IF Len(list) = 1 THEN "end" ELSE "publish"
  BY <1>1, <1>3, Zenon DEF Publish, AdvanceType
<1>7. CASE Len(list) = 1
  <2>1. Tail(list) = <<>>
    <3>1. Len(Tail(list)) = 0
      BY <1>3, <1>7
    <3> QED
      BY <1>3, <3>1, EmptyList, Zenon
  <2> QED
    BY <1>1, <1>5, <1>6, <1>7, <2>1 DEF Inv, TypeInv, ListInv
<1>8. CASE Len(list) # 1
  <2>1. Continues(list, mPubLedger)
    <3>1. Len(<<mPubLedger>>) = 1
      OBVIOUS
    <3> QED
      BY <1>1, <1>8, <3>1, Zenon
  <2>2. seq(mPubLedger) \in Nat
    BY SeqType DEF Inv, TypeInv
  <2>3. seq(Head(list)) = seq(mPubLedger) + 1
    BY <1>2, <2>1 DEF Continues
  <2>4. ASSUME NEW i \in 1..Len(Tail(list))
        PROVE  seq(Tail(list)[i]) = seq(Head(list)) + i
    <3>1. i + 1 \in 1..Len(list) /\ Tail(list)[i] = list[i + 1]
      BY <1>2, <1>3
    <3>2. seq(list[i + 1]) = seq(mPubLedger) + (i + 1)
      BY <2>1, <3>1 DEF Continues
    <3> QED
      BY <2>2, <2>3, <3>1, <3>2
  <2>5. Continues(advance'.list, mPubLedger')
    BY <1>4, <1>6, <2>4 DEF Continues
  <2>6. Tail(list) # <<>>
    <3>1. Len(Tail(list)) # 0
      BY <1>2, <1>3, <1>8
    <3> QED
      BY <1>3, <3>1, EmptyList, Zenon
  <2> QED
    BY <1>1, <1>5, <1>6, <1>8, <2>5, <2>6 DEF Inv, TypeInv, ListInv
<1> QED
  BY <1>7, <1>8

LEMMA EndInv == Inv /\ EndLoop => Inv'
<1> SUFFICES ASSUME Inv, EndLoop PROVE Inv'
  OBVIOUS
<1>1. /\ have' = have /\ round' = round
      /\ mValidLedger' = mValidLedger /\ mPubLedger' = mPubLedger
      /\ mPubLedger # Genesis
      /\ advance' = NoAdvance \/ advance' = [NoAdvance EXCEPT !.at = "top"]
  BY DEF Inv, ListInv, EndLoop, store, validated, consensus, NoAdvance
<1>2. /\ NoAdvance.at = "idle" /\ NoAdvance.list = <<>>
      /\ NoAdvance \in AdvanceType
  <2>1. <<>> \in Seq(ID)
    OBVIOUS
  <2> QED
    BY <2>1 DEF NoAdvance, AdvanceType, Ledgers
<1>3. advance' \in AdvanceType /\ advance'.at \in {"idle", "top"} /\ advance'.list = <<>>
  BY <1>1, <1>2, Started, Zenon
<1> QED
  BY <1>1, <1>3 DEF Inv, TypeInv, ListInv

\* The steps under m_mutex that may validate a ledger.
LEMMA AcceptInv ==
  ASSUME Inv,
         NEW l \in Ledgers, checkAccept(l),
         have' \subseteq ID, round' \in RoundType
  PROVE  Inv'
BY CheckAccept DEF Inv, TypeInv

LEMMA DoneInv ==
  ASSUME Inv, NEW l \in ID, AcquisitionDone(l)
  PROVE  /\ Inv'
         /\ mPubLedger # Genesis => mPubLedger' = mPubLedger
<1>1. have' = have /\ round' = round
  BY DEF AcquisitionDone, consensus
<1>2. CASE Accepts(l)
  <2>1. setValidLedger(l) /\ tryAdvance(l)
    BY <1>2 DEF AcquisitionDone
  <2> QED
    BY <1>1, <2>1, SetValid DEF Inv, TypeInv
<1>3. CASE ~Accepts(l)
  <2>1. tryAdvance(mValidLedger) /\ UNCHANGED <<mValidLedger, mPubLedger>>
    BY <1>3 DEF AcquisitionDone
  <2>2. /\ advance' \in AdvanceType
        /\ \/ advance' = advance
           \/ /\ mValidLedger # Genesis
              /\ advance'.at = "top" /\ advance'.list = <<>>
    BY <2>1, TryAdvance, SMTT(30)
  <2> QED
    BY <1>1, <2>1, <2>2 DEF Inv, TypeInv, ListInv, Continues
<1> QED
  BY <1>2, <1>3

\* Every step keeps the invariant and the order of what is published.
InOrder ==
    mPubLedger # Genesis /\ mPubLedger' # mPubLedger =>
        \/ seq(mPubLedger') = mPubLedgerSeq + 1
        \/ /\ seq(mPubLedger') > mPubLedgerSeq + MaxLedgerGap
           /\ mPubLedger' = mValidLedger

LEMMA Step == Inv /\ [Next]_vars => Inv' /\ InOrder
<1> SUFFICES ASSUME Inv, [Next]_vars PROVE Inv' /\ InOrder
  OBVIOUS
<1> USE DEF validation, store, validated, publishing, consensus
<1>1. have \subseteq ID /\ round \in RoundType /\ round.ledger \in Ledgers
  BY DEF Inv, TypeInv, RoundType
<1>2. \A s \in {"open", "closed", "check", "count", "switch", "ended"} :
          [round EXCEPT !.at = s] \in RoundType
  BY <1>1 DEF RoundType
<1>3. [Idle EXCEPT !.at = "open"] \in RoundType
  BY DEF Idle, Ledgers, RoundType
<1>4. ASSUME NEW v \in Validator, NEW l \in Heard, handleNewValidation(v, l)
      PROVE  Inv' /\ InOrder
  BY <1>1, <1>4, OtherSteps DEF handleNewValidation, InOrder
<1>5. ASSUME NEW c \in Caller, Compare(c) PROVE Inv' /\ InOrder
  BY <1>1, <1>5, OtherSteps DEF Compare, InOrder
<1>6. ASSUME NEW c \in Caller, LookUp(c) PROVE Inv' /\ InOrder
  <2>1. have' = have /\ round' = round
    BY <1>6 DEF LookUp
  <2>2. CASE call[c].ledger \in have
    <3>1. call[c].ledger \in Ledgers /\ checkAccept(call[c].ledger)
      BY <1>1, <1>6, <2>2, SMTT(30) DEF LookUp, Ledgers
    <3> QED
      BY <1>1, <2>1, <3>1, AcceptInv, CheckAccept, SMTT(30) DEF InOrder
  <2>3. CASE call[c].ledger \notin have
    BY <1>1, <1>6, <2>1, <2>3, OtherSteps DEF LookUp, InOrder
  <2> QED
    BY <2>2, <2>3
<1>7. ASSUME NEW l \in ID, Acquired(l) PROVE Inv' /\ InOrder
  BY <1>1, <1>7, OtherSteps DEF Acquired, InOrder
<1>8. ASSUME NEW l \in ID, AcquisitionDone(l) PROVE Inv' /\ InOrder
  BY <1>8, DoneInv DEF InOrder
<1>9. CASE onClose
  BY <1>1, <1>2, <1>9, OtherSteps DEF onClose, InOrder
<1>10. ASSUME NEW l \in ID, startRound(l) PROVE Inv' /\ InOrder
  BY <1>1, <1>2, <1>10, OtherSteps, SMTT(30) DEF startRound, InOrder
<1>11. ASSUME NEW l \in ID, NEW validate \in BOOLEAN, doAccept(l, validate)
       PROVE  Inv' /\ InOrder
  <2>1. have' \subseteq ID /\ round' \in RoundType
    BY <1>1, <1>11 DEF doAccept, RoundType, Ledgers
  <2> QED
    BY <1>11, <2>1, OtherSteps, SMTT(30) DEF doAccept, InOrder
<1>12. CASE consensusBuilt
  BY <1>1, <1>2, <1>12, OtherSteps DEF consensusBuilt, InOrder
<1>13. CASE CheckBuilt
  <2>1. have' = have /\ round' \in RoundType /\ checkAccept(round.ledger)
    BY <1>2, <1>13 DEF CheckBuilt
  <2> QED
    BY <1>1, <2>1, AcceptInv, CheckAccept DEF InOrder
<1>14. CASE SavedUp
  BY <1>1, <1>2, <1>14, OtherSteps DEF SavedUp, InOrder
<1>15. CASE switchLCL
  <2>1. have' = have /\ round' \in RoundType /\ checkAccept(round.ledger)
    BY <1>2, <1>15 DEF switchLCL
  <2> QED
    BY <1>1, <2>1, AcceptInv, CheckAccept DEF InOrder
<1>16. CASE endConsensus
  BY <1>1, <1>3, <1>16, OtherSteps DEF endConsensus, InOrder
<1>17. ASSUME NEW l \in ID, Jump(l) PROVE Inv' /\ InOrder
  <2>1. have' = have /\ round' \in RoundType /\ checkAccept(l) /\ l \in Ledgers
    BY <1>3, <1>17 DEF Jump, Ledgers
  <2> QED
    BY <1>1, <2>1, AcceptInv, CheckAccept DEF InOrder
<1>18. CASE Top
  BY <1>18, TopInv DEF Top, InOrder, mValidLedgerSeq, mPubLedgerSeq
<1>19. CASE Find
  BY <1>19, FindInv DEF Find, InOrder
<1>20. CASE Publish
  <2>1. /\ advance \in AdvanceType /\ advance.list # <<>>
        /\ advance.list = <<mPubLedger>> \/ Continues(advance.list, mPubLedger)
        /\ mPubLedger' = Head(advance.list)
    BY <1>20 DEF Inv, TypeInv, ListInv, Publish
  <2>2. advance.list \in Seq(ID) /\ Len(advance.list) \in Nat \ {0}
    BY <2>1 DEF AdvanceType
  <2>3. CASE Continues(advance.list, mPubLedger)
    <3>1. 1 \in 1..Len(advance.list) /\ Head(advance.list) = advance.list[1]
      BY <2>2
    <3>2. seq(mPubLedger') = mPubLedgerSeq + 1
      BY <2>1, <2>3, <3>1 DEF Continues, mPubLedgerSeq
    <3> QED
      BY <1>20, <3>2, PublishInv DEF InOrder
  <2>4. CASE advance.list = <<mPubLedger>>
    <3>1. Head(<<mPubLedger>>) = mPubLedger
      OBVIOUS
    <3> QED
      BY <1>20, <2>1, <2>4, <3>1, PublishInv DEF InOrder
  <2> QED
    BY <2>1, <2>3, <2>4
<1>21. CASE EndLoop
  BY <1>21, EndInv, SMTT(30) DEF EndLoop, InOrder
<1>22. ASSUME NEW l \in ID, acquireLedger(l) PROVE Inv' /\ InOrder
  BY <1>1, <1>22, OtherSteps DEF acquireLedger, InOrder
<1>23. CASE UNCHANGED vars
  BY <1>1, <1>23, OtherSteps DEF vars, InOrder
<1>24. ASSUME NEW l \in ID, GiveUp(l) \/ sweep(l) PROVE Inv' /\ InOrder
  BY <1>1, <1>24, OtherSteps DEF GiveUp, sweep, InOrder
<1> QED
  BY SMTT(30), <1>4, <1>5, <1>6, <1>7, <1>8, <1>9, <1>10, <1>11, <1>12, <1>13, <1>14,
     <1>15, <1>16, <1>17, <1>18, <1>19, <1>20, <1>21, <1>22,
     <1>23, <1>24 DEF Next

(***************************************************************************)
(* doAdvance publishes ledgers in the order of their sequences, none twice *)
(* and none skipped unless the gap exceeds MAX_LEDGER_GAP, whatever chain  *)
(* the validators follow and however the other threads' steps fall between *)
(* its own.                                                                *)
(***************************************************************************)
THEOREM PublishesInOrder == Spec => PublishedInOrder
<1>1. Inv /\ [Next]_vars => Inv'
  BY Step
<1>2. Inv /\ [Next]_vars => [InOrder]_vars
  BY Step
<1> QED
  BY <1>1, <1>2, InitInv, PTL DEF Spec, PublishedInOrder, InOrder

-----------------------------------------------------------------------------

(***************************************************************************)
(* The thread never stops short.  While nothing has set mAdvanceWork since *)
(* the top of the loop, the validated ledger is the one the loop works on, *)
(* and the first ledger the loop did not find is still on its way.         *)
(***************************************************************************)
Awaited(v, s) == At(v, s) \in acquiring \cup done \cup lost

\* No acquisition is started while a failed one is listed: that ledger was
\* given up.
FailedInv == failed \subseteq lost /\ acquiring \cap failed = {}

NothingLeft ==
    \/ mPubLedgerSeq >= mValidLedgerSeq
    \/ pubSeq > mValidLedgerSeq
    \/ Awaited(mValidLedger, pubSeq)

\* What holds whatever the other threads asked for.
Finding ==
    /\ advance.val \in ID
    /\ advance.seq <= seq(advance.val)
    /\ advance.acq = 0 => pubSeq = advance.seq

\* What holds while they asked for nothing.
QuietInv ==
    /\ advance.at \in {"idle", "end", "publish"} => NothingLeft
    /\ advance.at = "publish" /\ advance.list = <<mPubLedger>> =>
           mPubLedgerSeq >= mValidLedgerSeq
    /\ advance.at = "find" =>
           /\ advance.val = mValidLedger
           /\ advance.acq # 0 =>
                 pubSeq < advance.seq /\ Awaited(mValidLedger, pubSeq)

ResumeInv ==
    /\ advance.at = "top" => advance.acq = 0
    /\ advance.at = "idle" /\ mAdvanceWork => mValidLedger = Genesis
    /\ advance.at = "find" => Finding
    /\ ~mAdvanceWork => QuietInv

\* The numbers the loop counts with.
LEMMA Numbers ==
  ASSUME Inv
  PROVE  /\ mPubLedgerSeq \in Nat /\ mValidLedgerSeq \in Nat
         /\ pubSeq \in Nat /\ advance.seq \in Nat /\ advance.acq \in Nat
         /\ seq(advance.val) \in Nat
         /\ advance.list \in Seq(ID) /\ Len(advance.list) \in Nat
         /\ pubSeq = mPubLedgerSeq + 1 + Len(advance.list)
<1>1. advance.list \in Seq(ID) /\ advance.seq \in Nat /\ advance.acq \in Nat
  BY DEF Inv, TypeInv, AdvanceType
<1>2. Len(advance.list) \in Nat
  BY <1>1
<1>3. mPubLedgerSeq \in Nat /\ mValidLedgerSeq \in Nat /\ seq(advance.val) \in Nat
  BY SeqType DEF Inv, TypeInv, AdvanceType, mPubLedgerSeq, mValidLedgerSeq
<1>4. pubSeq = mPubLedgerSeq + 1 + Len(advance.list)
  BY DEF pubSeq
<1>5. mPubLedgerSeq + 1 + Len(advance.list) \in Nat
  <2>1. \A m, n \in Nat : m + 1 + n \in Nat
    OBVIOUS
  <2> QED
    BY <1>2, <1>3, <2>1, Zenon
<1> QED
  BY <1>1, <1>2, <1>3, <1>4, <1>5, Zenon

\* The ledger of a sequence, where it is known, has that sequence.
LEMMA SeqOfAt ==
  ASSUME NEW v \in ID, NEW s \in Nat, At(v, s) \in ID
  PROVE  seq(At(v, s)) = s
<1>1. At(v, s) # Genesis
  BY LedgerAssumption DEF Genesis
<1>2. History[v] \in Seq(ID) \ {<<>>} /\ Len(History[v]) \in Nat
  BY LedgerAssumption, SMTT(30) DEF ID
<1>3. s \in 1..Len(History[v]) /\ At(v, s) = History[v][s]
  <2>1. v # Genesis
    BY LedgerAssumption DEF Genesis
  <2>2. seq(v) = Len(History[v])
    BY <2>1, SMTT(30) DEF seq
  <2>3. s \in Larger(1, minSeq(v))..seq(v) /\ At(v, s) = History[v][s]
    BY <1>1, SMTT(30) DEF At
  <2>4. Smaller(Depth, seq(v) - 1) \in Int
    BY <1>2, <2>2, LedgerAssumption DEF Smaller
  <2>5. Larger(1, minSeq(v)) >= 1
    BY <1>2, <2>1, <2>2, <2>4, SMTT(30) DEF Larger, minSeq
  <2>6. Larger(1, minSeq(v)) \in Int
    BY <1>2, <2>1, <2>2, <2>4, SMTT(30) DEF Larger, minSeq
  <2> QED
    BY <1>2, <2>2, <2>3, <2>5, <2>6, SMTT(30)
<1>4. History[History[v][s]] = SubSeq(History[v], 1, s)
  BY <1>3, LedgerAssumption
<1>5. Len(SubSeq(History[v], 1, s)) = s
  BY <1>2, <1>3
<1> QED
  BY <1>1, <1>3, <1>4, <1>5 DEF seq

\* Steps that leave the thread and what it was asked alone, while what is on
\* its way stays on its way.
LEMMA OtherResumes ==
  ASSUME ResumeInv,
         UNCHANGED <<mValidLedger, mPubLedger, advance, mAdvanceWork>>,
         acquiring \cup done \cup lost \subseteq acquiring' \cup done' \cup lost'
  PROVE  ResumeInv'
<1>2. /\ mPubLedgerSeq' = mPubLedgerSeq /\ mValidLedgerSeq' = mValidLedgerSeq
      /\ pubSeq' = pubSeq
  BY DEF mPubLedgerSeq, mValidLedgerSeq, pubSeq
<1>3. NothingLeft => NothingLeft'
  BY <1>2 DEF NothingLeft, Awaited
<1>4. Finding => Finding'
  BY <1>2 DEF Finding
<1>5. QuietInv => QuietInv'
  BY <1>2, <1>3 DEF QuietInv, Awaited
<1> QED
  BY <1>4, <1>5 DEF ResumeInv

\* Steps that ask the thread for more, tryAdvance.
LEMMA AskedResumes ==
  ASSUME Inv, ResumeInv, mAdvanceWork', mPubLedger # Genesis => mPubLedger' = mPubLedger,
         \/ advance' = advance /\ (advance.at = "idle" => mValidLedger' = Genesis)
         \/ advance' = [NoAdvance EXCEPT !.at = "top"]
  PROVE  ResumeInv'
<1>1. CASE advance' = advance /\ (advance.at = "idle" => mValidLedger' = Genesis)
  <2>1. CASE advance.at = "find"
    <3>1. mPubLedger' = mPubLedger
      BY <2>1 DEF Inv, ListInv, NoAdvance
    <3>2. Finding'
      BY <1>1, <2>1, <3>1 DEF ResumeInv, Finding, pubSeq, mPubLedgerSeq
    <3> QED
      BY <1>1, <2>1, <3>2, SMTT(30) DEF ResumeInv
  <2>2. CASE advance.at # "find"
    BY <1>1, <2>2 DEF ResumeInv
  <2> QED
    BY <2>1, <2>2
<1>2. CASE advance' = [NoAdvance EXCEPT !.at = "top"]
  <2>1. advance'.at = "top" /\ advance'.acq = 0
    BY <1>2 DEF NoAdvance
  <2> QED
    BY <2>1 DEF ResumeInv
<1> QED
  BY <1>1, <1>2

LEMMA InitResumes == Init => FailedInv /\ ResumeInv
<1> SUFFICES ASSUME Init PROVE ResumeInv
  BY DEF Init, FailedInv
<1>1. advance.at = "idle" /\ ~mAdvanceWork
  BY DEF Init, NoAdvance
<1>2. mPubLedgerSeq = mValidLedgerSeq /\ mValidLedgerSeq \in Nat
  BY InitInv, Numbers DEF Init, mPubLedgerSeq, mValidLedgerSeq
<1>3. NothingLeft
  BY <1>2 DEF NothingLeft
<1> QED
  BY <1>1, <1>3 DEF ResumeInv, QuietInv

LEMMA TopResumes == Inv /\ ResumeInv /\ Top => ResumeInv'
<1> SUFFICES ASSUME Inv, ResumeInv, Top PROVE ResumeInv'
  OBVIOUS
<1>1. /\ mValidLedger' = mValidLedger /\ ~mAdvanceWork'
      /\ advance \in AdvanceType /\ advance.list = <<>> /\ advance.acq = 0
  BY DEF Inv, TypeInv, ListInv, ResumeInv, Top, validated
<1>2. mValidLedgerSeq' = mValidLedgerSeq
  BY <1>1, SMTT(30) DEF mValidLedgerSeq
<1>3. CASE /\ mPubLedger' = mValidLedger
           /\ advance' = [advance EXCEPT !.at = "publish", !.list = <<mValidLedger>>]
  <2>1. advance'.at = "publish"
    BY <1>1, <1>3 DEF AdvanceType
  <2>2. mPubLedgerSeq' >= mValidLedgerSeq'
    BY <1>1, <1>3, Numbers DEF mPubLedgerSeq, mValidLedgerSeq
  <2>3. NothingLeft'
    BY <2>2, SMTT(30) DEF NothingLeft
  <2> QED
    BY <1>1, <2>1, <2>2, <2>3 DEF ResumeInv, QuietInv
<1>4. CASE /\ mValidLedgerSeq <= mPubLedgerSeq
           /\ advance' = [advance EXCEPT !.at = "end"]
           /\ UNCHANGED mPubLedger
  <2>1. advance'.at = "end"
    BY <1>1, <1>4 DEF AdvanceType
  <2>2. mPubLedgerSeq' >= mValidLedgerSeq'
    BY <1>2, <1>4, Numbers, SMTT(30) DEF mPubLedgerSeq
  <2>3. NothingLeft'
    BY <2>2 DEF NothingLeft
  <2> QED
    BY <1>1, <2>1, <2>3 DEF ResumeInv, QuietInv
<1>5. CASE /\ mValidLedgerSeq \in mPubLedgerSeq + 1 .. mPubLedgerSeq + MaxLedgerGap
           /\ advance' = [advance EXCEPT !.at = "find", !.val = mValidLedger,
                                         !.seq = mPubLedgerSeq + 1]
           /\ UNCHANGED mPubLedger
  <2>1. /\ advance'.at = "find" /\ advance'.val = mValidLedger
        /\ advance'.seq = mPubLedgerSeq + 1
        /\ advance'.acq = 0 /\ advance'.list = <<>>
    BY <1>1, <1>5 DEF AdvanceType
  <2>2. mValidLedgerSeq >= mPubLedgerSeq + 1 /\ mValidLedgerSeq > 0
    BY <1>5, Numbers
  <2>3. mValidLedger \in ID
    BY <2>2 DEF Inv, TypeInv, Ledgers, mValidLedgerSeq, seq
  <2>4. Len(advance'.list) = 0
    BY <2>1
  <2>5. pubSeq' = advance'.seq
    BY <1>5, <2>1, <2>4, Numbers DEF pubSeq, mPubLedgerSeq
  <2>6. Finding'
    BY <2>1, <2>2, <2>3, <2>5 DEF Finding, mValidLedgerSeq
  <2> QED
    BY <1>1, <2>1, <2>6 DEF ResumeInv, QuietInv
<1> QED
  BY <1>3, <1>4, <1>5 DEF Top

LEMMA FindResumes == Inv /\ FailedInv /\ ResumeInv /\ Find => ResumeInv'
<1> SUFFICES ASSUME Inv, FailedInv, ResumeInv, Find PROVE ResumeInv'
  OBVIOUS
<1> DEFINE l == HashOfSeq(advance.seq)
           list == Collected(l)
           acq == IF l \notin have THEN advance.acq + 1 ELSE advance.acq
           end == mPubLedgerSeq + 1 + Len(list)
<1>1. /\ mValidLedger' = mValidLedger /\ mPubLedger' = mPubLedger
      /\ mAdvanceWork' = mAdvanceWork /\ done' = done /\ lost' = lost
      /\ acquiring \subseteq acquiring'
      /\ l \notin have /\ advance.acq = 0 => l \in acquiring' \cup lost'
      /\ advance.at = "find" /\ Finding
      /\ advance \in AdvanceType
  BY MasterAssumption DEF Inv, TypeInv, FailedInv, ResumeInv, Find, acquire, validated
<1>2. /\ mPubLedgerSeq' = mPubLedgerSeq /\ mValidLedgerSeq' = mValidLedgerSeq
  BY <1>1 DEF mPubLedgerSeq, mValidLedgerSeq
\* What the turn does to the end of the list.
<1>3. ASSUME l \in have, advance.acq = 0 PROVE end = advance.seq + 1
  <2>1. l \in ID /\ l = At(advance.val, advance.seq)
    BY <1>3 DEF Inv, TypeInv, HashOfSeq
  <2>2. seq(l) = advance.seq
    BY <1>1, <2>1, Numbers, SeqOfAt DEF Finding
  <2>3. NextFound(l)
    BY <1>1, <1>3, <2>2 DEF NextFound, Finding
  <2>4. Len(list) = Len(advance.list) + 1
    BY <2>1, <2>3, Numbers DEF Collected
  <2> QED
    BY <1>1, <1>3, <2>4, Numbers DEF Finding
<1>4. ASSUME l \notin have PROVE list = advance.list
  BY <1>4 DEF NextFound, Collected
<1>5. ASSUME ~mAdvanceWork, l \notin have \/ advance.acq # 0
      PROVE  /\ end = pubSeq /\ end <= advance.seq
             /\ At(mValidLedger, end) \in acquiring' \cup done' \cup lost'
  <2>1. advance.val = mValidLedger
    BY <1>1, <1>5 DEF ResumeInv, QuietInv
  <2>2. CASE advance.acq = 0
    <3>1. list = advance.list /\ pubSeq = advance.seq /\ l \in acquiring' \cup lost'
      BY <1>1, <1>4, <1>5, <2>2 DEF Finding
    <3>2. end = advance.seq
      BY <3>1, Numbers
    <3> QED
      BY <1>1, <2>1, <3>1, <3>2, Numbers DEF Awaited, HashOfSeq
  <2>3. CASE advance.acq # 0
    <3>1. pubSeq < advance.seq /\ Awaited(mValidLedger, pubSeq)
      BY <1>1, <1>5, <2>3 DEF ResumeInv, QuietInv
    <3>2. ~NextFound(l)
      <4> SUFFICES ASSUME NextFound(l) PROVE FALSE
        OBVIOUS
      <4>1. l \in ID /\ l = At(advance.val, advance.seq) /\ seq(l) = pubSeq
        BY DEF Inv, TypeInv, HashOfSeq, NextFound
      <4>2. seq(l) = advance.seq
        BY <1>1, <4>1, Numbers, SeqOfAt DEF Finding
      <4> QED
        BY <3>1, <4>1, <4>2, Numbers
    <3>3. end = pubSeq
      BY <3>2, Numbers DEF Collected
    <3> QED
      BY <1>1, <3>1, <3>3, Numbers DEF Awaited
  <2> QED
    BY <2>2, <2>3
<1>6. acq \in Nat /\ (acq = 0 <=> l \in have /\ advance.acq = 0)
  BY Numbers, SMTT(30)
<1>7. CASE advance.seq = seq(advance.val)
  <2>1. /\ advance'.list = list
        /\ advance'.at \in {"end", "publish"}
    BY <1>7 DEF Find, NoAdvance, Collected
  <2>2. pubSeq' = end
    BY <1>2, <2>1 DEF pubSeq
  <2> HIDE DEF l, list, acq, end
  <2>3. ASSUME ~mAdvanceWork PROVE NothingLeft'
    <3>1. advance.val = mValidLedger
      BY <1>1, <2>3 DEF ResumeInv, QuietInv
    <3>2. CASE l \in have /\ advance.acq = 0
      <4>1. end > mValidLedgerSeq
        BY <1>3, <1>7, <3>1, <3>2, Numbers DEF mValidLedgerSeq
      <4> QED
        BY <1>2, <2>2, <4>1 DEF NothingLeft
    <3>3. CASE l \notin have \/ advance.acq # 0
      BY <1>1, <1>5, <2>2, <2>3, <3>3 DEF NothingLeft, Awaited
    <3> QED
      BY <3>2, <3>3
  <2>4. advance'.list # <<mPubLedger'>>
    <3>1. CASE list = <<>>
      BY <2>1, <3>1
    <3>2. CASE list # <<>>
      <4> SUFFICES ASSUME list = <<mPubLedger>> PROVE FALSE
        BY <1>1, <2>1
      <4>1. list[1] = mPubLedger /\ 1 \in 1..Len(list)
        OBVIOUS
      <4>2. seq(mPubLedger) = seq(mPubLedger) + 1
        BY <1>1, <4>1, CollectedInOrder DEF list, Continues
      <4> QED
        BY <4>2, Numbers DEF mPubLedgerSeq
    <3> QED
      BY <3>1, <3>2
  <2> QED
    BY <1>1, <2>1, <2>3, <2>4 DEF ResumeInv, QuietInv
<1>8. CASE advance.seq # seq(advance.val)
  <2>1. advance' = [advance EXCEPT !.seq = advance.seq + 1, !.list = list, !.acq = acq]
    BY <1>8 DEF Find, Collected
  <2>2. /\ advance'.list = list /\ advance'.at = "find" /\ advance'.acq = acq
        /\ advance'.seq = advance.seq + 1 /\ advance'.val = advance.val
    BY <1>1, <2>1 DEF AdvanceType
  <2>3. pubSeq' = end
    BY <1>2, <2>2 DEF pubSeq
  <2> HIDE DEF l, list, acq, end
  <2>4. advance'.seq <= seq(advance'.val)
    BY <1>1, <1>8, <2>2, Numbers DEF Finding
  <2>5. Finding'
    BY <1>1, <1>3, <1>6, <2>2, <2>3, <2>4 DEF Finding
  <2>6. ASSUME ~mAdvanceWork PROVE QuietInv'
    <3>1. advance'.val = mValidLedger'
      BY <1>1, <2>2, <2>6 DEF ResumeInv, QuietInv
    <3>2. ASSUME acq # 0 PROVE pubSeq' < advance'.seq /\ Awaited(mValidLedger, pubSeq)'
      <4>1. /\ end = pubSeq /\ end <= advance.seq
            /\ At(mValidLedger, end) \in acquiring' \cup done' \cup lost'
        BY <1>5, <1>6, <2>6, <3>2
      <4>2. pubSeq' < advance'.seq
        BY <2>2, <2>3, <4>1, Numbers
      <4> QED
        BY <1>1, <2>3, <4>1, <4>2 DEF Awaited
    <3> QED
      BY <2>2, <3>1, <3>2 DEF QuietInv
  <2> QED
    BY <1>1, <2>2, <2>5, <2>6 DEF ResumeInv
<1> QED
  BY <1>7, <1>8

LEMMA PublishResumesInv == Inv /\ ResumeInv /\ Publish => ResumeInv'
<1> SUFFICES ASSUME Inv, ResumeInv, Publish PROVE ResumeInv'
  OBVIOUS
<1> DEFINE list == advance.list
<1>1. /\ mValidLedger' = mValidLedger /\ mAdvanceWork' = mAdvanceWork
      /\ acquiring' = acquiring /\ done' = done /\ lost' = lost
      /\ advance \in AdvanceType /\ advance.at = "publish"
      /\ mPubLedger' = Head(list) /\ list # <<>>
      /\ list = <<mPubLedger>> \/ Continues(list, mPubLedger)
  BY DEF Inv, TypeInv, ListInv, Publish, validated
<1>2. /\ list \in Seq(ID) /\ Len(list) \in Nat \ {0} /\ Head(list) = list[1]
      /\ Len(Tail(list)) = Len(list) - 1
  BY <1>1 DEF AdvanceType
<1>3. /\ advance'.list = Tail(list) /\ advance'.at \in {"end", "publish"}
  BY <1>1 DEF Publish, AdvanceType
<1>4. mValidLedgerSeq' = mValidLedgerSeq
  BY <1>1 DEF mValidLedgerSeq
<1>5. CASE list = <<mPubLedger>>
  <2>1. Head(list) = mPubLedger /\ Len(list) = 1
    BY <1>5
  <2>2. mPubLedger' = mPubLedger /\ advance'.at = "end"
    BY <1>1, <2>1 DEF Publish, AdvanceType
  <2>3. ASSUME ~mAdvanceWork PROVE NothingLeft'
    <3>1. mPubLedgerSeq >= mValidLedgerSeq
      BY <1>1, <1>5, <2>3, SMTT(30) DEF ResumeInv, QuietInv
    <3> QED
      BY <1>4, <2>2, <3>1 DEF NothingLeft, mPubLedgerSeq
  <2> QED
    BY <1>1, <2>2, <2>3 DEF ResumeInv, QuietInv
<1>6. CASE Continues(list, mPubLedger)
  <2>1. mPubLedgerSeq' = mPubLedgerSeq + 1
    BY <1>1, <1>2, <1>6 DEF Continues, mPubLedgerSeq
  <2>2. pubSeq' = mPubLedgerSeq' + 1 + (Len(list) - 1)
    BY <1>2, <1>3 DEF pubSeq
  <2>3. pubSeq' = pubSeq
    BY <1>2, <2>1, <2>2, Numbers, SMTT(20)
  <2>4. ASSUME ~mAdvanceWork PROVE NothingLeft'
    <3>1. NothingLeft
      BY <1>1, <2>4 DEF ResumeInv, QuietInv
    <3>2. CASE mPubLedgerSeq >= mValidLedgerSeq
      BY <1>4, <2>1, <3>2, Numbers DEF NothingLeft
    <3>3. CASE pubSeq > mValidLedgerSeq
      BY <1>4, <2>3, <3>3 DEF NothingLeft
    <3>4. CASE Awaited(mValidLedger, pubSeq)
      BY <1>1, <2>3, <3>4 DEF NothingLeft, Awaited
    <3> QED
      BY <3>1, <3>2, <3>3, <3>4 DEF NothingLeft
  <2>5. advance'.list # <<mPubLedger'>>
    <3> SUFFICES ASSUME advance'.list = <<mPubLedger'>> PROVE FALSE
      OBVIOUS
    <3>1. Tail(list) = <<Head(list)>>
      BY <1>1, <1>3, Zenon
    <3>2. Len(<<Head(list)>>) = 1 /\ <<Head(list)>>[1] = Head(list)
      OBVIOUS
    <3>3. Len(Tail(list)) = 1 /\ Tail(list)[1] = list[1]
      BY <1>2, <3>1, <3>2, Zenon
    <3>4. Len(list) = 2
      BY <1>2, <3>3
    <3>5. Tail(list)[1] = list[2]
      BY <1>2, <3>4
    <3>6. seq(list[1]) = seq(mPubLedger) + 1 /\ seq(list[2]) = seq(mPubLedger) + 2
      BY <1>6, <3>4 DEF Continues
    <3> QED
      BY <3>3, <3>5, <3>6, Numbers DEF mPubLedgerSeq
  <2> QED
    BY <1>1, <1>3, <2>4, <2>5 DEF ResumeInv, QuietInv
<1> QED
  BY <1>1, <1>5, <1>6

LEMMA EndResumes == Inv /\ ResumeInv /\ EndLoop => ResumeInv'
<1> SUFFICES ASSUME Inv, ResumeInv, EndLoop PROVE ResumeInv'
  OBVIOUS
<1>1. PICK progress \in BOOLEAN :
         /\ advance' = IF progress \/ mAdvanceWork
                       THEN [NoAdvance EXCEPT !.at = "top"] ELSE NoAdvance
         /\ mAdvanceWork' = (progress \/ mAdvanceWork)
  BY DEF EndLoop
<1>2. /\ mValidLedger' = mValidLedger /\ mPubLedger' = mPubLedger
      /\ acquiring' = acquiring /\ done' = done /\ lost' = lost
      /\ advance.at = "end" /\ advance.list = <<>>
  BY DEF EndLoop, Inv, ListInv, store, validated
<1>3. CASE progress \/ mAdvanceWork
  <2>1. advance'.at = "top" /\ advance'.acq = 0 /\ mAdvanceWork'
    BY <1>1, <1>3, Zenon DEF NoAdvance
  <2> QED
    BY <2>1 DEF ResumeInv
<1>4. CASE ~(progress \/ mAdvanceWork)
  <2>1. advance'.at = "idle" /\ advance'.list = <<>> /\ ~mAdvanceWork'
    BY <1>1, <1>4 DEF NoAdvance
  <2>2. NothingLeft
    BY <1>2, <1>4 DEF ResumeInv, QuietInv
  <2>3. NothingLeft'
    BY <1>2, <2>1, <2>2 DEF NothingLeft, Awaited, pubSeq, mPubLedgerSeq, mValidLedgerSeq
  <2> QED
    BY <2>1, <2>3 DEF ResumeInv, QuietInv
<1> QED
  BY <1>3, <1>4

\* checkAccept(ledger) starts the thread, or leaves everything alone.
LEMMA AcceptResumes ==
  ASSUME Inv, ResumeInv, NEW l \in Ledgers, checkAccept(l),
         UNCHANGED <<acquiring, done, lost>>
  PROVE  ResumeInv'
<1>1. CASE Accepts(l)
  <2>1. l # Genesis
    BY <1>1, SeqType DEF Inv, TypeInv, Accepts, mValidLedgerSeq, Ledgers, seq
  <2>2. mAdvanceWork' /\ (mPubLedger # Genesis => mPubLedger' = mPubLedger)
    BY <1>1 DEF checkAccept, setValidLedger, tryAdvance
  <2>3. \/ advance' = advance /\ advance.at # "idle"
        \/ advance' = [NoAdvance EXCEPT !.at = "top"]
    BY <1>1, <2>1 DEF checkAccept, tryAdvance
  <2> QED
    BY <2>2, <2>3, AskedResumes
<1>2. CASE ~Accepts(l)
  BY <1>2, OtherResumes DEF checkAccept, publishing
<1> QED
  BY <1>1, <1>2

LEMMA DoneResumes ==
  ASSUME Inv, ResumeInv, NEW l \in ID, AcquisitionDone(l)
  PROVE  ResumeInv'
<1> DEFINE valid == IF Accepts(l) THEN l ELSE mValidLedger
<1>1. mAdvanceWork' /\ mValidLedger' = valid
  BY DEF AcquisitionDone, setValidLedger, tryAdvance
<1>2. mPubLedger # Genesis => mPubLedger' = mPubLedger
  BY DEF AcquisitionDone, setValidLedger
<1>3. \/ advance' = advance /\ (advance.at = "idle" => valid = Genesis)
      \/ advance' = [NoAdvance EXCEPT !.at = "top"]
  BY DEF AcquisitionDone, tryAdvance
<1> QED
  BY <1>1, <1>2, <1>3, AskedResumes

\* An acquisition starts, ends or is given up.
LEMMA FailedStep == FailedInv /\ [Next]_vars => FailedInv'
<1> SUFFICES ASSUME FailedInv, [Next]_vars PROVE FailedInv'
  OBVIOUS
<1> USE DEF store
<1>1. ASSUME NEW l, acquiring' \in {acquiring, acquire(l)}, UNCHANGED <<failed, lost>>
      PROVE  FailedInv'
  BY <1>1 DEF FailedInv, acquire
<1>2. ASSUME UNCHANGED <<acquiring, failed, lost>> PROVE FailedInv'
  BY <1>2 DEF FailedInv
<1>3. ASSUME NEW l \in ID, Acquired(l) \/ GiveUp(l) \/ sweep(l) PROVE FailedInv'
  BY <1>3 DEF Acquired, GiveUp, sweep, FailedInv
<1>4. ASSUME NEW c \in Caller, LookUp(c) PROVE FailedInv'
  BY <1>1, <1>4 DEF LookUp
<1>5. (\E l \in ID : acquireLedger(l)) \/ Find => FailedInv'
  BY <1>1 DEF acquireLedger, Find
<1>6. (\E l \in ID : AcquisitionDone(l) \/ startRound(l) \/ Jump(l)
                     \/ \E validate \in BOOLEAN : doAccept(l, validate)) => FailedInv'
  BY <1>2 DEF AcquisitionDone, startRound, Jump, doAccept
<1>7. (\E v \in Validator, l \in Heard : handleNewValidation(v, l)) => FailedInv'
  BY <1>2 DEF handleNewValidation
<1>8. (\E c \in Caller : Compare(c)) => FailedInv'
  BY <1>2, Zenon DEF Compare
<1>9. onClose \/ consensusBuilt \/ CheckBuilt \/ SavedUp \/ switchLCL \/ endConsensus
        => FailedInv'
  BY <1>2 DEF onClose, consensusBuilt, CheckBuilt, SavedUp, switchLCL, endConsensus
<1>10. Top \/ Publish \/ EndLoop \/ UNCHANGED vars => FailedInv'
  BY <1>2 DEF Top, Publish, EndLoop, vars
<1> QED
  BY <1>3, <1>4, <1>5, <1>6, <1>7, <1>8, <1>9, <1>10, Zenon DEF Next

LEMMA ResumeStep ==
  Inv /\ FailedInv /\ ResumeInv /\ [Next]_vars => FailedInv' /\ ResumeInv'
<1> SUFFICES ASSUME Inv, FailedInv, ResumeInv, [Next]_vars PROVE ResumeInv'
  BY FailedStep
<1> USE DEF validation, store, validated, publishing, consensus
<1>1. have \subseteq ID /\ round.ledger \in Ledgers
  BY DEF Inv, TypeInv, RoundType
<1>2. ASSUME NEW v \in Validator, NEW l \in Heard, handleNewValidation(v, l)
      PROVE  ResumeInv'
  BY <1>2, OtherResumes DEF handleNewValidation
<1>3. ASSUME NEW c \in Caller, Compare(c) PROVE ResumeInv'
  BY <1>3, OtherResumes DEF Compare
<1>4. ASSUME NEW c \in Caller, LookUp(c) PROVE ResumeInv'
  <2>1. CASE call[c].ledger \in have
    <3>1. call[c].ledger \in Ledgers /\ checkAccept(call[c].ledger)
      BY <1>1, <1>4, <2>1, SMTT(20) DEF LookUp, Ledgers
    <3>2. UNCHANGED <<acquiring, done, lost>>
      BY <1>4, <2>1, SMTT(20) DEF LookUp
    <3> QED
      BY <3>1, <3>2, AcceptResumes
  <2>2. CASE call[c].ledger \notin have
    <3>1. acquiring \subseteq acquiring'
      BY <1>4, <2>2 DEF LookUp, acquire
    <3>2. UNCHANGED <<mValidLedger, mPubLedger, advance, mAdvanceWork, done, lost>>
      BY <1>4, <2>2, Zenon DEF LookUp
    <3> QED
      BY <3>1, <3>2, OtherResumes
  <2> QED
    BY <2>1, <2>2
<1>5. ASSUME NEW l \in ID, Acquired(l) PROVE ResumeInv'
  <2>1. acquiring \cup done \cup lost \subseteq acquiring' \cup done' \cup lost'
    BY <1>5 DEF Acquired
  <2> QED
    BY <1>5, <2>1, OtherResumes DEF Acquired
<1>6. ASSUME NEW l \in ID, AcquisitionDone(l) PROVE ResumeInv'
  BY <1>6, DoneResumes
<1>7. CASE onClose
  BY <1>7, OtherResumes DEF onClose
<1>8. ASSUME NEW l \in ID, startRound(l) PROVE ResumeInv'
  BY <1>8, OtherResumes DEF startRound
<1>9. ASSUME NEW l \in ID, NEW validate \in BOOLEAN, doAccept(l, validate)
      PROVE  ResumeInv'
  BY <1>9, OtherResumes DEF doAccept
<1>10. CASE consensusBuilt
  BY <1>10, OtherResumes DEF consensusBuilt
<1>11. CASE CheckBuilt
  BY <1>1, <1>11, AcceptResumes DEF CheckBuilt
<1>12. CASE SavedUp
  BY <1>12, OtherResumes DEF SavedUp
<1>13. CASE switchLCL
  BY <1>1, <1>13, AcceptResumes DEF switchLCL
<1>14. CASE endConsensus
  BY <1>14, OtherResumes DEF endConsensus
<1>15. ASSUME NEW l \in ID, Jump(l) PROVE ResumeInv'
  BY <1>15, AcceptResumes DEF Jump, Ledgers
<1>16. CASE Top \/ Find \/ Publish \/ EndLoop
  BY <1>16, TopResumes, FindResumes, PublishResumesInv, EndResumes
<1>17. ASSUME NEW l \in ID, acquireLedger(l) PROVE ResumeInv'
  <2>1. acquiring \cup done \cup lost \subseteq acquiring' \cup done' \cup lost'
    BY <1>17 DEF acquireLedger, acquire
  <2> QED
    BY <1>17, <2>1, OtherResumes DEF acquireLedger
<1>18. CASE UNCHANGED vars
  BY <1>18, OtherResumes DEF vars
<1>19. ASSUME NEW l \in ID, GiveUp(l) \/ sweep(l) PROVE ResumeInv'
  <2>1. acquiring \cup done \cup lost \subseteq acquiring' \cup done' \cup lost'
    BY <1>19 DEF GiveUp, sweep
  <2> QED
    BY <1>19, <2>1, OtherResumes DEF GiveUp, sweep
<1> QED
  BY <1>2, <1>3, <1>4, <1>5, <1>6, <1>7, <1>8, <1>9, <1>10, <1>11, <1>12,
     <1>13, <1>14, <1>15, <1>16, <1>17, <1>18, <1>19 DEF Next

(***************************************************************************)
(* doAdvance loses no wake-up: it ends with a validated ledger unpublished *)
(* only when one of the ledgers still to publish is being acquired, and    *)
(* the end of that acquisition starts it again (tryAdvance), or when the   *)
(* acquisition of one of them was given up (onTimer, sweep).               *)
(***************************************************************************)
THEOREM NeverStopsShort == Spec => []PublishResumes
<1>1. Inv /\ ResumeInv => PublishResumes
  <2> SUFFICES ASSUME Inv, ResumeInv,
                      advance.at = "idle", mPubLedgerSeq < mValidLedgerSeq
               PROVE  \E s \in mPubLedgerSeq + 1 .. mValidLedgerSeq :
                          At(mValidLedger, s) \in acquiring \cup done \cup lost
    BY DEF PublishResumes
  <2>1. mPubLedgerSeq \in Nat /\ mValidLedgerSeq \in Nat
    BY Numbers
  <2>2. ~mAdvanceWork
    BY <2>1 DEF ResumeInv, mValidLedgerSeq, seq, Genesis
  <2>3. NothingLeft
    BY <2>2 DEF ResumeInv, QuietInv
  <2>4. pubSeq = mPubLedgerSeq + 1
    <3>1. advance.list = <<>>
      BY DEF Inv, ListInv
    <3>2. Len(advance.list) = 0
      BY <3>1
    <3> QED
      BY <2>1, <3>2, Numbers
  <2>5. Awaited(mValidLedger, mPubLedgerSeq + 1)
    BY <2>1, <2>3, <2>4 DEF NothingLeft
  <2> QED
    BY <2>1, <2>5 DEF Awaited
<1>2. Inv /\ FailedInv /\ ResumeInv /\ [Next]_vars => Inv' /\ FailedInv' /\ ResumeInv'
  BY Step, ResumeStep
<1> QED
  BY <1>1, <1>2, InitInv, InitResumes, PTL DEF Spec

-----------------------------------------------------------------------------

(***************************************************************************)
(* What is published is backed.  The validated ledger has a quorum, unless *)
(* the node loaded it, and then it was published when it was loaded; the   *)
(* ledgers the thread collects are ancestors of a validated one.  The      *)
(* validations of a validator are of different sequences (Newer).          *)
(***************************************************************************)
ReceivedInv ==
    /\ received \in [Validator -> SUBSET ID]
    /\ \A v \in Validator : \A k, l \in received[v] : seq(k) = seq(l) => k = l

Backed(p) == p \in {Genesis, Loaded} \/ \E l \in ID : Validated(l) /\ IsAncestor(p, l)

ValidBacked ==
    \/ mValidLedger = Genesis
    \/ Validated(mValidLedger)
    \/ mValidLedger = Loaded /\ mPubLedgerSeq >= seq(Loaded)

BackInv ==
    /\ ValidBacked
    /\ Backed(mPubLedger)
    /\ advance.at = "find" => Validated(advance.val)
    /\ \A i \in 1..Len(advance.list) : Backed(advance.list[i])

\* A validation is added to those received, with a call to check its ledger,
\* or they stay as they are.
Receives(v, l) ==
    /\ Newer(v, l)
    /\ received' = [received EXCEPT ![v] = @ \cup {l}]
    /\ call' = [call EXCEPT ![v] = [at |-> "check", ledger |-> l]]

LEMMA Receiving ==
  ASSUME [Next]_vars
  PROVE  \/ UNCHANGED received
         \/ \E v \in Validator, l \in ID : Receives(v, l)
<1> USE DEF validation
<1>1. ASSUME NEW v \in Validator, NEW l \in Heard, handleNewValidation(v, l)
      PROVE  l \in ID /\ Receives(v, l)
  BY <1>1, MasterAssumption, Zenon DEF handleNewValidation, Receives
<1>2. ASSUME NEW l \in ID, NEW validate \in BOOLEAN, doAccept(l, validate)
      PROVE  UNCHANGED received \/ (Self \in Validator /\ Receives(Self, l))
  BY <1>2, Zenon DEF doAccept, Receives
<1>3. (\E c \in Caller : Compare(c) \/ LookUp(c)) => UNCHANGED received
  BY Zenon DEF Compare, LookUp
<1>4. (\E l \in ID : Acquired(l) \/ AcquisitionDone(l) \/ startRound(l) \/ acquireLedger(l)
                     \/ Jump(l) \/ GiveUp(l) \/ sweep(l)) => UNCHANGED received
  BY DEF Acquired, AcquisitionDone, startRound, acquireLedger, Jump, GiveUp, sweep
<1>5. onClose \/ consensusBuilt \/ CheckBuilt \/ SavedUp \/ switchLCL \/ endConsensus
        => UNCHANGED received
  BY DEF onClose, consensusBuilt, CheckBuilt, SavedUp, switchLCL, endConsensus
<1>6. Top \/ Find \/ Publish \/ EndLoop => UNCHANGED received
  BY DEF Top, Find, Publish, EndLoop
<1>7. UNCHANGED vars => UNCHANGED received
  BY DEF vars
<1> QED
  BY <1>1, <1>2, <1>3, <1>4, <1>5, <1>6, <1>7, Zenon DEF Next

\* Validations are never forgotten, and a validator's are of different
\* sequences.
LEMMA ReceivedKept ==
  ASSUME ReceivedInv, [Next]_vars
  PROVE  ReceivedInv' /\ \A v \in Validator : received[v] \subseteq received'[v]
<1>1. CASE UNCHANGED received
  BY <1>1, Zenon DEF ReceivedInv
<1>2. ASSUME NEW v \in Validator, NEW l \in ID, Receives(v, l)
      PROVE  ReceivedInv' /\ \A w \in Validator : received[w] \subseteq received'[w]
  <2>1. received' \in [Validator -> SUBSET ID]
    BY <1>2 DEF ReceivedInv, Receives
  <2>2. /\ received'[v] = received[v] \cup {l}
        /\ \A w \in Validator : w # v => received'[w] = received[w]
    BY <1>2 DEF ReceivedInv, Receives
  <2>3. \A k \in received[v] : seq(k) < seq(l)
    BY <1>2 DEF Receives, Newer
  <2>4. \A k \in ID : seq(k) \in Nat
    BY SeqType DEF Ledgers
  <2>5. ASSUME NEW w \in Validator, NEW k \in received'[w], NEW m \in received'[w],
               seq(k) = seq(m)
        PROVE  k = m
    <3>1. CASE w # v
      BY <2>2, <2>5, <3>1, Zenon DEF ReceivedInv
    <3>2. CASE w = v
      <4>1. k \in ID /\ m \in ID /\ received[v] \subseteq ID
        BY <2>1 DEF ReceivedInv
      <4>2. CASE k \in received[v] /\ m \in received[v]
        BY <2>5, <4>2, Zenon DEF ReceivedInv
      <4>3. CASE k = l \/ m = l
        BY <2>2, <2>3, <2>4, <2>5, <3>2, <4>1, <4>3
      <4> QED
        BY <2>2, <3>2, <4>2, <4>3, Zenon
    <3> QED
      BY <3>1, <3>2
  <2>6. ReceivedInv'
    BY <2>1, <2>5, Zenon DEF ReceivedInv
  <2> QED
    BY <2>2, <2>6
<1> QED
  BY <1>1, <1>2, Receiving, Zenon

\* Sets of validators can be compared by their size.
LEMMA CountSubset ==
  ASSUME NEW a, NEW b, a \subseteq b, b \subseteq Validator
  PROVE  /\ Cardinality(a) \in Nat /\ Cardinality(b) \in Nat
         /\ Cardinality(a) <= Cardinality(b)
BY ValidatorsCounted, Zenon DEF SubsetsCount

\* A quorum once reached stays.
LEMMA ValidatedKept ==
  ASSUME ReceivedInv, [Next]_vars, NEW l, Validated(l)
  PROVE  Validated(l)'
<1>1. TrustedFor(l) \subseteq TrustedFor(l)'
  BY ReceivedKept, Zenon DEF TrustedFor
<1>2. TrustedFor(l)' \subseteq Validator
  BY DEF TrustedFor
<1>3. /\ Cardinality(TrustedFor(l)) \in Nat /\ Cardinality(TrustedFor(l)') \in Nat
      /\ Cardinality(TrustedFor(l)) <= Cardinality(TrustedFor(l)')
  BY <1>1, <1>2, CountSubset, Zenon
<1> QED
  BY <1>3, MasterAssumption DEF Validated

\* What the steps do to the validated and the published ledger.
LEMMA ThreadSteps ==
  ASSUME Inv, [Next]_vars
  PROVE  \/ UNCHANGED <<mValidLedger, mPubLedger, advance>>
         \/ \E l \in ID : /\ Validated(l) /\ seq(l) > mValidLedgerSeq
                          /\ setValidLedger(l) /\ tryAdvance(l)
         \/ UNCHANGED <<mValidLedger, mPubLedger>> /\ tryAdvance(mValidLedger)
         \/ Top \/ Find \/ Publish \/ EndLoop
<1> DEFINE Same == UNCHANGED <<mValidLedger, mPubLedger, advance>>
           Sets(l) == /\ Validated(l) /\ seq(l) > mValidLedgerSeq
                      /\ setValidLedger(l) /\ tryAdvance(l)
<1> USE DEF validated, publishing
<1>1. ASSUME NEW l \in Ledgers, checkAccept(l) PROVE Same \/ (l \in ID /\ Sets(l))
  <2>1. CASE Accepts(l)
    <3>1. l \in ID
      BY <2>1, SeqType DEF Inv, TypeInv, Accepts, mValidLedgerSeq, Ledgers, seq
    <3> QED
      BY <1>1, <2>1, <3>1, Zenon DEF checkAccept, Accepts
  <2>2. CASE ~Accepts(l)
    BY <1>1, <2>2 DEF checkAccept
  <2> QED
    BY <2>1, <2>2
<1>2. round.ledger \in Ledgers /\ have \subseteq ID
  BY DEF Inv, TypeInv, RoundType
<1> HIDE DEF Same, Sets
<1>3. ASSUME NEW c \in Caller, LookUp(c) PROVE Same \/ \E l \in ID : Sets(l)
  <2>1. CASE call[c].ledger \in have
    BY <1>1, <1>2, <1>3, <2>1 DEF LookUp, Ledgers
  <2>2. CASE call[c].ledger \notin have
    BY <1>3, <2>2, Zenon DEF LookUp, Same
  <2> QED
    BY <2>1, <2>2
<1>4. ASSUME NEW l \in ID, AcquisitionDone(l)
      PROVE  Sets(l) \/ (UNCHANGED <<mValidLedger, mPubLedger>> /\ tryAdvance(mValidLedger))
  BY <1>4, Zenon DEF AcquisitionDone, Accepts, Sets
<1>5. CheckBuilt \/ switchLCL => Same \/ \E l \in ID : Sets(l)
  BY <1>1, <1>2, Zenon DEF CheckBuilt, switchLCL
<1>6. ASSUME NEW l \in ID, Jump(l) PROVE Same \/ Sets(l)
  BY <1>1, <1>6 DEF Jump, Ledgers
<1>7. (\E l \in ID : Acquired(l) \/ startRound(l) \/ acquireLedger(l) \/ GiveUp(l) \/ sweep(l)
                     \/ \E validate \in BOOLEAN : doAccept(l, validate)) => Same
  BY DEF Acquired, startRound, acquireLedger, GiveUp, sweep, doAccept, Same
<1>8. (\E v \in Validator, l \in Heard : handleNewValidation(v, l)) => Same
  BY DEF handleNewValidation, Same
<1>9. (\E c \in Caller : Compare(c)) => Same
  BY Zenon DEF Compare, Same
<1>10. onClose \/ consensusBuilt \/ SavedUp \/ endConsensus \/ UNCHANGED vars => Same
  BY DEF onClose, consensusBuilt, SavedUp, endConsensus, vars, Same
<1> QED
  BY <1>3, <1>4, <1>5, <1>6, <1>7, <1>8, <1>9, <1>10, Zenon DEF Next, Same, Sets

\* The ledger of an earlier sequence, where it is known, is an ancestor; and
\* a ledger is its own.
LEMMA AncestorAt ==
  ASSUME NEW v \in ID, NEW s \in Nat, At(v, s) \in ID
  PROVE  IsAncestor(At(v, s), v)
<1>1. v # Genesis /\ At(v, s) # Genesis /\ seq(At(v, s)) = s
  BY LedgerAssumption, SeqOfAt DEF Genesis
<1>2. s \in Larger(1, minSeq(v))..seq(v) /\ At(v, s) = History[v][s]
  BY <1>1, Zenon DEF At
<1>3. seq(v) \in Nat
  BY SeqType DEF Ledgers
<1>4. s <= seq(v)
  BY <1>2, <1>3
<1> QED
  BY <1>1, <1>2, <1>4 DEF IsAncestor

LEMMA OwnAncestor == \A l \in ID : IsAncestor(l, l)
<1> SUFFICES ASSUME NEW l \in ID PROVE IsAncestor(l, l)
  OBVIOUS
<1>1. l # Genesis /\ History[l][Len(History[l])] = l
  BY LedgerAssumption DEF Genesis
<1>2. seq(l) = Len(History[l]) /\ seq(l) \in Nat
  BY <1>1, SeqType DEF Ledgers, seq
<1> QED
  BY <1>1, <1>2 DEF IsAncestor

\* The published ledger's sequence never falls.
LEMMA PublishedGrows == ASSUME Inv, [Next]_vars PROVE mPubLedgerSeq' >= mPubLedgerSeq
<1>1. mPubLedgerSeq \in Nat /\ mPubLedgerSeq' \in Nat
  BY Step, SeqType DEF Inv, TypeInv, mPubLedgerSeq
<1>2. CASE mPubLedger = Genesis
  BY <1>1, <1>2 DEF mPubLedgerSeq, seq
<1>3. CASE mPubLedger' = mPubLedger
  BY <1>1, <1>3 DEF mPubLedgerSeq
<1>4. CASE mPubLedger # Genesis /\ mPubLedger' # mPubLedger
  <2>1. seq(mPubLedger') = mPubLedgerSeq'
    BY DEF mPubLedgerSeq
  <2> QED
    BY <1>1, <1>4, <2>1, Step, MasterAssumption DEF InOrder
<1> QED
  BY <1>2, <1>3, <1>4

LEMMA BackedKept == ASSUME ReceivedInv, [Next]_vars, NEW p, Backed(p) PROVE Backed(p)'
BY ValidatedKept, Zenon DEF Backed

\* A ledger of a later sequence than the published one was not loaded.
LEMMA AheadValidated ==
  ASSUME Inv, BackInv, mValidLedgerSeq > mPubLedgerSeq
  PROVE  mValidLedger \in ID /\ Validated(mValidLedger) /\ Backed(mValidLedger)
<1>1. mPubLedgerSeq \in Nat /\ mValidLedgerSeq \in Nat
  BY Numbers
<1>2. mValidLedger # Genesis
  BY <1>1 DEF mValidLedgerSeq, seq
<1>3. mValidLedger \in ID
  BY <1>2 DEF Inv, TypeInv, Ledgers
<1>4. Validated(mValidLedger)
  BY <1>1, <1>2 DEF BackInv, ValidBacked, mValidLedgerSeq
<1> QED
  BY <1>3, <1>4, OwnAncestor DEF Backed

LEMMA BackStep == ASSUME Inv, ReceivedInv, BackInv, ResumeInv, [Next]_vars PROVE BackInv'
<1>1. (\A l : Validated(l) => Validated(l)') /\ (\A p : Backed(p) => Backed(p)')
  BY ValidatedKept, BackedKept, Zenon
<1>2. advance.list \in Seq(ID) /\ \A i \in 1..Len(advance.list) : Backed(advance.list[i])
  BY Numbers DEF BackInv
<1>3. ASSUME UNCHANGED mValidLedger PROVE ValidBacked'
  <2>1. CASE mValidLedger = Loaded /\ mPubLedgerSeq >= seq(Loaded)
    <3>1. mPubLedgerSeq \in Nat /\ mPubLedgerSeq' \in Nat /\ mPubLedgerSeq' >= mPubLedgerSeq
      BY Step, SeqType, PublishedGrows DEF Inv, TypeInv, mPubLedgerSeq
    <3>2. seq(Loaded) \in Nat
      BY SeqType, MasterAssumption DEF Ledgers
    <3> QED
      BY <1>3, <2>1, <3>1, <3>2 DEF ValidBacked
  <2>2. CASE mValidLedger = Genesis
    BY <1>3, <2>2 DEF ValidBacked
  <2>3. CASE Validated(mValidLedger)
    <3>1. Validated(mValidLedger)'
      BY <1>1, <1>3, <2>3, Zenon DEF Validated, TrustedFor
    <3> QED
      BY <3>1 DEF ValidBacked
  <2> QED
    BY <2>1, <2>2, <2>3 DEF BackInv, ValidBacked
\* What the thread has collected stays backed while it does not move.
<1>4. ASSUME advance' = advance \/ (advance'.at = "top" /\ advance'.list = <<>>)
      PROVE  /\ advance'.at = "find" => Validated(advance.val)'
             /\ \A i \in 1..Len(advance'.list) : Backed(advance.list[i])'
  <2>1. CASE advance' = advance
    <3>1. advance'.at = "find" => Validated(advance.val)'
      BY <1>1, <2>1, Zenon DEF BackInv, Validated, TrustedFor
    <3>2. ASSUME NEW i \in 1..Len(advance'.list) PROVE Backed(advance.list[i])'
      BY <1>1, <1>2, <2>1, <3>2, Zenon DEF Backed, Validated, TrustedFor
    <3> QED
      BY <3>1, <3>2
  <2>2. CASE advance'.at = "top" /\ advance'.list = <<>>
    BY <2>2
  <2> QED
    BY <1>4, <2>1, <2>2
<1>5. CASE UNCHANGED <<mValidLedger, mPubLedger, advance>>
  <2>1. Backed(mPubLedger)'
    BY <1>1, <1>5, Zenon DEF BackInv, Backed, Validated, TrustedFor
  <2> QED
    BY <1>3, <1>4, <1>5, <2>1 DEF BackInv
<1>6. CASE UNCHANGED <<mValidLedger, mPubLedger>> /\ tryAdvance(mValidLedger)
  <2>1. Backed(mPubLedger)'
    BY <1>1, <1>6, Zenon DEF BackInv, Backed, Validated, TrustedFor
  <2>2. advance' = advance \/ (advance'.at = "top" /\ advance'.list = <<>>)
    BY <1>6, TryAdvance, Zenon
  <2> QED
    BY <1>3, <1>4, <1>6, <2>1, <2>2 DEF BackInv
<1>7. ASSUME NEW l \in ID, Validated(l), setValidLedger(l), tryAdvance(l) PROVE BackInv'
  <2>1. Validated(l)' /\ mValidLedger' = l
    BY <1>1, <1>7 DEF setValidLedger
  <2>2. ValidBacked'
    BY <2>1 DEF ValidBacked, Validated, TrustedFor
  <2>3. advance' = advance \/ (advance'.at = "top" /\ advance'.list = <<>>)
    BY <1>7, TryAdvance, Zenon
  <2>4. Backed(mPubLedger)'
    <3>1. CASE mPubLedger' = mPubLedger
      BY <1>1, <3>1, Zenon DEF BackInv, Backed, Validated, TrustedFor
    <3>2. CASE mPubLedger' = l
      BY <2>1, <3>2, OwnAncestor DEF Backed
    <3> QED
      BY <1>7, <3>1, <3>2 DEF setValidLedger
  <2> QED
    BY <1>4, <2>2, <2>3, <2>4 DEF BackInv
<1>8. CASE Top
  <2>0. mPubLedgerSeq \in Nat /\ mValidLedgerSeq \in Nat /\ advance \in AdvanceType
        /\ advance.list = <<>> /\ MaxLedgerGap \in Nat /\ UNCHANGED <<mValidLedger, received>>
    BY <1>8, Numbers, MasterAssumption DEF Inv, TypeInv, ListInv, Top, validated, validation
  <2>1. CASE /\ mValidLedgerSeq > mPubLedgerSeq + MaxLedgerGap
             /\ mPubLedger' = mValidLedger
             /\ advance' = [advance EXCEPT !.at = "publish", !.list = <<mValidLedger>>]
    <3>1. Backed(mValidLedger)
      BY <2>0, <2>1, AheadValidated
    <3>2. Backed(mPubLedger)'
      BY <2>0, <2>1, <3>1, Zenon DEF Backed, Validated, TrustedFor
    <3>3. advance'.at = "publish" /\ advance'.list = <<mValidLedger>>
      BY <2>0, <2>1 DEF AdvanceType
    <3>4. ASSUME NEW i \in 1..Len(advance'.list) PROVE Backed(advance.list[i])'
      <4>1. advance'.list[i] = mPubLedger'
        BY <2>1, <3>3, <3>4
      <4> QED
        BY <3>2, <4>1 DEF Backed, Validated, TrustedFor
    <3> QED
      BY <1>3, <2>0, <3>2, <3>3, <3>4 DEF BackInv
  <2>2. CASE /\ advance' = [advance EXCEPT !.at = "end"]
             /\ UNCHANGED mPubLedger
    <3>1. advance'.at = "end" /\ advance'.list = <<>>
      BY <2>0, <2>2 DEF AdvanceType
    <3>2. Backed(mPubLedger)'
      BY <2>0, <2>2 DEF BackInv, Backed, Validated, TrustedFor
    <3> QED
      BY <1>3, <2>0, <3>1, <3>2 DEF BackInv
  <2>3. CASE /\ mValidLedgerSeq \in mPubLedgerSeq + 1 .. mPubLedgerSeq + MaxLedgerGap
             /\ advance' = [advance EXCEPT !.at = "find", !.val = mValidLedger,
                                           !.seq = mPubLedgerSeq + 1]
             /\ UNCHANGED mPubLedger
    <3>1. advance'.val = mValidLedger /\ advance'.list = <<>>
      BY <2>0, <2>3 DEF AdvanceType
    <3>2. Validated(mValidLedger)
      BY <2>0, <2>3, AheadValidated
    <3>3. Validated(advance.val)'
      BY <2>0, <3>1, <3>2 DEF Validated, TrustedFor
    <3>4. Backed(mPubLedger)'
      BY <2>0, <2>3, Zenon DEF BackInv, Backed, Validated, TrustedFor
    <3> QED
      BY <1>3, <2>0, <3>1, <3>3, <3>4 DEF BackInv
  <2> QED
    BY <1>8, <2>1, <2>2, <2>3 DEF Top
<1>9. CASE Find
  <2> DEFINE l == HashOfSeq(advance.seq)
             list == Collected(l)
  <2>0. UNCHANGED <<mValidLedger, mPubLedger, received>> /\ advance.at = "find" /\ Finding
        /\ advance \in AdvanceType
    BY <1>9 DEF Find, validated, validation, ResumeInv, Inv, TypeInv
  <2>1. NextFound(l) => Backed(l)
    <3> SUFFICES ASSUME NextFound(l) PROVE Backed(l)
      OBVIOUS
    <3>1. l \in ID /\ l = At(advance.val, advance.seq)
      BY DEF NextFound, Inv, TypeInv, HashOfSeq
    <3>2. advance.val \in ID /\ advance.seq \in Nat /\ Validated(advance.val)
      BY <2>0, Numbers DEF Finding, BackInv
    <3>3. IsAncestor(l, advance.val)
      BY <3>1, <3>2, AncestorAt
    <3> QED
      BY <3>2, <3>3 DEF Backed
  <2>2. list \in Seq(ID)
    BY <2>0, CollectedInOrder
  <2>3. ASSUME NEW i \in 1..Len(list) PROVE Backed(list[i])
    <3>1. CASE NextFound(l)
      <4>1. l \in ID /\ list = Append(advance.list, l)
        BY <3>1 DEF Collected, NextFound, Inv, TypeInv
      <4> HIDE DEF l, list
      <4>2. CASE i \in 1..Len(advance.list)
        <5>1. list[i] = advance.list[i]
          BY <1>2, <4>1, <4>2
        <5> QED
          BY <1>2, <4>2, <5>1
      <4>3. CASE i \notin 1..Len(advance.list)
        <5>1. list[i] = l
          BY <1>2, <2>3, <4>1, <4>3
        <5> QED
          BY <2>1, <3>1, <5>1
      <4> QED
        BY <4>2, <4>3
    <3>2. CASE ~NextFound(l)
      BY <1>2, <3>2 DEF Collected
    <3> QED
      BY <3>1, <3>2
  <2>4. advance'.list = list /\ (advance'.at = "find" => advance'.val = advance.val)
    <3>1. CASE advance.seq = seq(advance.val)
      BY <1>9, <3>1 DEF Find, NoAdvance, Collected
    <3>2. CASE advance.seq # seq(advance.val)
      BY <1>9, <2>0, <3>2 DEF Find, AdvanceType, Collected
    <3> QED
      BY <3>1, <3>2
  <2> HIDE DEF l, list
  <2>5. Backed(mPubLedger)'
    BY <2>0, Zenon DEF BackInv, Backed, Validated, TrustedFor
  <2>6. advance'.at = "find" => Validated(advance.val)'
    BY <2>0, <2>4, Zenon DEF BackInv, Validated, TrustedFor
  <2>7. ASSUME NEW i \in 1..Len(advance'.list) PROVE Backed(advance.list[i])'
    BY <2>0, <2>3, <2>4, <2>7, Zenon DEF Backed, Validated, TrustedFor
  <2> QED
    BY <1>3, <2>0, <2>5, <2>6, <2>7 DEF BackInv
<1>10. CASE Publish
  <2> DEFINE list == advance.list
  <2>0. /\ UNCHANGED <<mValidLedger, received>> /\ advance \in AdvanceType
        /\ list # <<>> /\ mPubLedger' = Head(list)
    BY <1>10 DEF Publish, validated, validation, Inv, TypeInv, ListInv
  <2>1. advance'.list = Tail(list) /\ advance'.at # "find"
    BY <1>10, <2>0 DEF Publish, AdvanceType
  <2>2. /\ Head(list) = list[1] /\ 1 \in 1..Len(list)
        /\ Len(Tail(list)) = Len(list) - 1 /\ Len(list) \in Nat
        /\ \A i \in 1..Len(list) - 1 : Tail(list)[i] = list[i + 1]
    BY <1>2, <2>0
  <2>3. Backed(mPubLedger)'
    BY <1>2, <2>0, <2>2, Zenon DEF Backed, Validated, TrustedFor
  <2>4. ASSUME NEW i \in 1..Len(advance'.list) PROVE Backed(advance.list[i])'
    <3>1. i \in 1..Len(list) - 1 /\ i + 1 \in 1..Len(list)
      BY <2>1, <2>2, <2>4
    <3>2. advance'.list[i] = list[i + 1]
      BY <2>1, <2>2, <3>1
    <3> QED
      BY <1>2, <2>0, <3>1, <3>2, Zenon DEF Backed, Validated, TrustedFor
  <2> QED
    BY <1>3, <2>0, <2>1, <2>3, <2>4 DEF BackInv
<1>11. CASE EndLoop
  <2>1. /\ UNCHANGED <<mValidLedger, mPubLedger, received>>
        /\ advance'.list = <<>> /\ advance'.at # "find"
    BY <1>11 DEF EndLoop, validated, validation, NoAdvance
  <2>2. Backed(mPubLedger)'
    BY <2>1, Zenon DEF BackInv, Backed, Validated, TrustedFor
  <2> QED
    BY <1>3, <2>1, <2>2 DEF BackInv
<1> QED
  BY <1>5, <1>6, <1>7, <1>8, <1>9, <1>10, <1>11, ThreadSteps, Zenon

LEMMA InitBacked == Init => ReceivedInv /\ BackInv
<1> SUFFICES ASSUME Init PROVE ReceivedInv /\ BackInv
  OBVIOUS
<1>1. ReceivedInv
  BY DEF Init, ReceivedInv
<1>2. advance.at = "idle" /\ advance.list = <<>> /\ mPubLedger = mValidLedger
      /\ mValidLedger \in {Genesis, Loaded}
  BY DEF Init, startGenesisLedger, loadOldLedger, NoAdvance
<1>3. seq(Loaded) \in Nat
  BY SeqType, MasterAssumption DEF Ledgers
<1> QED
  BY <1>1, <1>2, <1>3 DEF BackInv, ValidBacked, Backed, mPubLedgerSeq

(***************************************************************************)
(* Whatever is published was loaded, or is an ancestor of a ledger that a  *)
(* quorum of the trusted validators validated: findNewLedgersToPublish     *)
(* looks ledgers up without m_mutex, and no rival that was built or        *)
(* acquired meanwhile gets published for it.                               *)
(***************************************************************************)
THEOREM PublishedIsBacked == Spec => []PublishedBacked
<1> DEFINE All == Inv /\ FailedInv /\ ResumeInv /\ ReceivedInv /\ BackInv
<1>1. Init => All
  BY InitInv, InitResumes, InitBacked
<1>2. All /\ [Next]_vars => All'
  BY Step, ResumeStep, ReceivedKept, BackStep
<1>3. All => PublishedBacked
  BY Zenon DEF BackInv, Backed, PublishedBacked
<1> QED
  BY <1>1, <1>2, <1>3, PTL DEF Spec

-----------------------------------------------------------------------------

(***************************************************************************)
(* No ledger is left behind.  consensusBuilt takes one of the ledgers that *)
(* more than a quorum agree on; a quorum is a majority, so there is no     *)
(* other.  From then on every validation starts a call of its own, and     *)
(* nothing is being built whose sequence that call would ignore.           *)
(***************************************************************************)

\* calculateQuorum: at least 60% of the trusted validators, unless a lower
\* quorum, which the code calls unsafe, was given on the command line.
Majority == 2 * Quorum >= Cardinality(Validator)

CallInv ==
    /\ call \in [Caller -> [at : {"idle", "check", "look"}, ledger : Ledgers]]
    /\ \A c \in Caller : call[c].at # "idle" => call[c].ledger \in ID

BuiltInv == round.at \in {"check", "count", "switch"} => mBuildingLedgerSeq = 0

\* What is to be published is here, but for a validated ledger.
ListedInv ==
    \A i \in 1..Len(advance.list) :
        advance.list[i] \in have \/ seq(advance.list[i]) <= mValidLedgerSeq

WatchInv == CallInv /\ BuiltInv /\ ListedInv

LEMMA CallStep == ASSUME Inv, CallInv, [Next]_vars PROVE CallInv'
<1> USE DEF validation
<1> DEFINE Puts(c, x) == call' = [call EXCEPT ![c] = x]
           Fine(x) == /\ x \in [at : {"idle", "check", "look"}, ledger : Ledgers]
                      /\ x.at # "idle" => x.ledger \in ID
<1>1. ASSUME NEW c \in Caller, NEW x, Fine(x), Puts(c, x) PROVE CallInv'
  BY <1>1 DEF CallInv
<1>2. ASSUME UNCHANGED call PROVE CallInv'
  BY <1>2, Zenon DEF CallInv
<1>3. Fine(Idle)
  BY DEF Idle, Ledgers
<1>4. ASSUME NEW l \in ID PROVE Fine([at |-> "check", ledger |-> l])
  BY DEF Ledgers
<1>5. ASSUME NEW c \in Caller PROVE call[c].at = "check" => Fine([call[c] EXCEPT !.at = "look"])
  BY DEF CallInv
<1>6. Validator \subseteq Caller /\ Self \in Caller
  BY DEF Caller
<1> HIDE DEF Puts, Fine
<1>7. ASSUME NEW v \in Validator, NEW l \in ID, Receives(v, l) PROVE CallInv'
  BY <1>1, <1>4, <1>6, <1>7, Zenon DEF Receives, Puts
<1>8. ASSUME NEW v \in Validator, NEW l \in Heard, handleNewValidation(v, l) PROVE CallInv'
  <2>1. l \in ID /\ Receives(v, l)
    BY <1>8, MasterAssumption, Zenon DEF handleNewValidation, Receives
  <2> QED
    BY <1>7, <2>1
<1>9. ASSUME NEW c \in Caller, Compare(c) PROVE CallInv'
  <2>1. Puts(c, Idle) \/ (call[c].at = "check" /\ Puts(c, [call[c] EXCEPT !.at = "look"]))
    BY <1>9, Zenon DEF Compare, Puts
  <2> QED
    BY <1>1, <1>3, <1>5, <2>1, Zenon
<1>10. ASSUME NEW c \in Caller, LookUp(c) PROVE CallInv'
  <2>1. Puts(c, Idle)
    BY <1>10, Zenon DEF LookUp, Puts
  <2> QED
    BY <1>1, <1>3, <2>1, Zenon
<1>11. ASSUME NEW l \in ID, NEW validate \in BOOLEAN, doAccept(l, validate) PROVE CallInv'
  <2>1. UNCHANGED call \/ Puts(Self, [at |-> "check", ledger |-> l])
    BY <1>11, Zenon DEF doAccept, Puts
  <2> QED
    BY <1>1, <1>2, <1>4, <1>6, <2>1, Zenon
<1>12. CASE SavedUp
  <2>1. UNCHANGED call \/ \E l \in ID : Puts(Self, [at |-> "check", ledger |-> l])
    BY <1>12, Zenon DEF SavedUp, Puts
  <2> QED
    BY <1>1, <1>2, <1>4, <1>6, <2>1, Zenon
<1>13. (\E l \in ID : Acquired(l) \/ AcquisitionDone(l) \/ startRound(l) \/ acquireLedger(l)
                      \/ Jump(l) \/ GiveUp(l) \/ sweep(l)) => UNCHANGED call
  BY DEF Acquired, AcquisitionDone, startRound, acquireLedger, Jump, GiveUp, sweep
<1>14. onClose \/ consensusBuilt \/ CheckBuilt \/ switchLCL \/ endConsensus => UNCHANGED call
  BY DEF onClose, consensusBuilt, CheckBuilt, switchLCL, endConsensus
<1>15. Top \/ Find \/ Publish \/ EndLoop \/ UNCHANGED vars => UNCHANGED call
  BY DEF Top, Find, Publish, EndLoop, vars
<1> QED
  BY <1>2, <1>8, <1>9, <1>10, <1>11, <1>12, <1>13, <1>14, <1>15, Zenon DEF Next

\* The steps of the round: the only ones that move it.
LEMMA RoundSteps ==
  ASSUME [Next]_vars, round'.at \in {"check", "count", "switch"}, Inv
  PROVE  UNCHANGED <<round, mBuildingLedgerSeq>> \/ consensusBuilt \/ CheckBuilt \/ SavedUp
<1> USE DEF consensus
<1>0. round \in RoundType
  BY DEF Inv, TypeInv
<1>1. ~(onClose \/ switchLCL \/ endConsensus)
  BY <1>0 DEF onClose, switchLCL, endConsensus, Idle, RoundType
<1>2. ~\E l \in ID : startRound(l) \/ Jump(l) \/ \E validate \in BOOLEAN : doAccept(l, validate)
  BY <1>0 DEF startRound, Jump, doAccept, Idle, RoundType
<1>3. (\E v \in Validator, l \in Heard : handleNewValidation(v, l))
        => UNCHANGED <<round, mBuildingLedgerSeq>>
  BY DEF handleNewValidation
<1>4. (\E c \in Caller : Compare(c) \/ LookUp(c)) => UNCHANGED <<round, mBuildingLedgerSeq>>
  BY Zenon DEF Compare, LookUp
<1>5. (\E l \in ID : Acquired(l) \/ AcquisitionDone(l) \/ acquireLedger(l)
                     \/ GiveUp(l) \/ sweep(l))
        => UNCHANGED <<round, mBuildingLedgerSeq>>
  BY DEF Acquired, AcquisitionDone, acquireLedger, GiveUp, sweep
<1>6. Top \/ Find \/ Publish \/ EndLoop \/ UNCHANGED vars
        => UNCHANGED <<round, mBuildingLedgerSeq>>
  BY DEF Top, Find, Publish, EndLoop, vars
<1> QED
  BY <1>1, <1>2, <1>3, <1>4, <1>5, <1>6, Zenon DEF Next

LEMMA BuiltStep == ASSUME Inv, BuiltInv, [Next]_vars PROVE BuiltInv'
<1> SUFFICES ASSUME round'.at \in {"check", "count", "switch"} PROVE mBuildingLedgerSeq' = 0
  BY DEF BuiltInv
<1>1. CASE UNCHANGED <<round, mBuildingLedgerSeq>>
  BY <1>1 DEF BuiltInv
<1>2. CASE consensusBuilt
  BY <1>2 DEF consensusBuilt
<1>3. CASE CheckBuilt \/ SavedUp
  BY <1>3 DEF CheckBuilt, SavedUp, BuiltInv
<1> QED
  BY <1>1, <1>2, <1>3, RoundSteps, Zenon

\* The validated ledger's sequence never falls, and no ledger is given away.
LEMMA ValidGrows ==
  ASSUME Inv, [Next]_vars
  PROVE  mValidLedgerSeq \in Nat /\ mValidLedgerSeq' \in Nat /\ mValidLedgerSeq' >= mValidLedgerSeq
<1>1. mValidLedgerSeq \in Nat /\ mValidLedgerSeq' \in Nat
  BY Step, SeqType DEF Inv, TypeInv, mValidLedgerSeq
<1>2. UNCHANGED mValidLedger => mValidLedgerSeq' = mValidLedgerSeq
  BY DEF mValidLedgerSeq
<1>3. ASSUME NEW l \in ID, seq(l) > mValidLedgerSeq, setValidLedger(l)
      PROVE  mValidLedgerSeq' > mValidLedgerSeq
  BY <1>3 DEF setValidLedger, mValidLedgerSeq
<1>4. Top \/ Find \/ Publish \/ EndLoop => UNCHANGED mValidLedger
  BY DEF Top, Find, Publish, EndLoop, validated
<1>5. UNCHANGED mValidLedger \/ \E l \in ID : seq(l) > mValidLedgerSeq /\ setValidLedger(l)
  BY <1>4, ThreadSteps, Zenon
<1> QED
  BY <1>1, <1>2, <1>3, <1>5

LEMMA HaveGrows == ASSUME [Next]_vars PROVE have \subseteq have'
<1> USE DEF store
<1>1. (\E v \in Validator, l \in Heard : handleNewValidation(v, l)) => have \subseteq have'
  BY DEF handleNewValidation
<1>2. (\E c \in Caller : Compare(c) \/ LookUp(c)) => have \subseteq have'
  BY DEF Compare, LookUp
<1>3. (\E l \in ID : Acquired(l) \/ AcquisitionDone(l) \/ startRound(l) \/ acquireLedger(l)
                     \/ Jump(l) \/ GiveUp(l) \/ sweep(l)
                     \/ \E validate \in BOOLEAN : doAccept(l, validate))
        => have \subseteq have'
  BY DEF Acquired, AcquisitionDone, startRound, acquireLedger, Jump, GiveUp, sweep, doAccept
<1>4. onClose \/ consensusBuilt \/ CheckBuilt \/ SavedUp \/ switchLCL \/ endConsensus
        => have \subseteq have'
  BY DEF onClose, consensusBuilt, CheckBuilt, SavedUp, switchLCL, endConsensus
<1>5. Top \/ Find \/ Publish \/ EndLoop \/ UNCHANGED vars => have \subseteq have'
  BY DEF Top, Find, Publish, EndLoop, vars
<1> QED
  BY <1>1, <1>2, <1>3, <1>4, <1>5, Zenon DEF Next

LEMMA ListedStep == ASSUME Inv, ListedInv, [Next]_vars PROVE ListedInv'
<1> DEFINE Listed(l) == l \in have \/ seq(l) <= mValidLedgerSeq
           ListedNow(l) == l \in have' \/ seq(l) <= mValidLedgerSeq'
<1>1. advance.list \in Seq(ID) /\ \A i \in 1..Len(advance.list) : Listed(advance.list[i])
  BY Numbers DEF ListedInv
<1>2. \A l \in ID : Listed(l) => ListedNow(l)
  <2>1. \A l \in ID : seq(l) \in Nat
    BY SeqType DEF Ledgers
  <2> QED
    BY <2>1, HaveGrows, ValidGrows
<1> HIDE DEF Listed
<1>3. \A i \in 1..Len(advance.list) : advance.list[i] \in ID /\ ListedNow(advance.list[i])
  BY <1>1, <1>2
<1> HIDE DEF ListedNow
<1> SUFFICES ASSUME NEW i \in 1..Len(advance'.list) PROVE ListedNow(advance'.list[i])
  BY DEF ListedInv, ListedNow
<1>4. CASE advance' = advance
  BY <1>3, <1>4
<1>5. CASE advance'.list = <<>>
  BY <1>5
<1>6. CASE Top
  <2>1. advance \in AdvanceType /\ advance.list = <<>> /\ UNCHANGED mValidLedger
        /\ mValidLedgerSeq' \in Nat
    BY <1>6, ValidGrows DEF Top, Inv, TypeInv, ListInv, validated
  <2>2. advance'.list = <<>> \/ advance'.list = <<mValidLedger>>
    BY <1>6, <2>1, Zenon DEF Top, AdvanceType
  <2>3. CASE advance'.list = <<mValidLedger>>
    <3>1. advance'.list[i] = mValidLedger'
      BY <2>1, <2>3
    <3> QED
      BY <2>1, <3>1 DEF ListedNow, mValidLedgerSeq
  <2> QED
    BY <1>5, <2>2, <2>3
<1>7. CASE Find
  <2> DEFINE l == HashOfSeq(advance.seq)
             list == Collected(l)
  <2>1. advance'.list = list
    <3>1. CASE advance.seq = seq(advance.val)
      BY <1>7, <3>1 DEF Find, NoAdvance, Collected
    <3>2. CASE advance.seq # seq(advance.val)
      BY <1>7, <3>2 DEF Find, AdvanceType, Collected, Inv, TypeInv
    <3> QED
      BY <3>1, <3>2
  <2>2. CASE NextFound(l)
    <3>1. l \in have /\ l \in ID /\ list = Append(advance.list, l)
      BY <2>2 DEF Collected, NextFound, Inv, TypeInv
    <3>2. ListedNow(l)
      BY <3>1, HaveGrows DEF ListedNow
    <3> HIDE DEF l, list
    <3>3. CASE i \in 1..Len(advance.list)
      <4>1. advance'.list[i] = advance.list[i]
        BY <1>1, <2>1, <3>1, <3>3
      <4> QED
        BY <1>3, <3>3, <4>1
    <3>4. CASE i \notin 1..Len(advance.list)
      <4>1. advance'.list[i] = l
        BY <1>1, <2>1, <3>1, <3>4
      <4> QED
        BY <3>2, <4>1
    <3> QED
      BY <3>3, <3>4
  <2>3. CASE ~NextFound(l)
    BY <1>3, <2>1, <2>3 DEF Collected
  <2> QED
    BY <2>2, <2>3
<1>8. CASE Publish
  <2> DEFINE list == advance.list
  <2>1. list # <<>> /\ advance'.list = Tail(list)
    BY <1>8 DEF Publish, AdvanceType, Inv, TypeInv, ListInv
  <2>2. /\ Len(Tail(list)) = Len(list) - 1 /\ Len(list) \in Nat
        /\ \A k \in 1..Len(list) - 1 : Tail(list)[k] = list[k + 1]
    BY <1>1, <2>1
  <2>3. i \in 1..Len(list) - 1 /\ i + 1 \in 1..Len(list)
    BY <2>1, <2>2
  <2>4. advance'.list[i] = list[i + 1]
    BY <2>1, <2>2, <2>3
  <2> QED
    BY <1>3, <2>3, <2>4
<1>9. CASE EndLoop
  <2>1. advance'.list = <<>>
    BY <1>9 DEF EndLoop, NoAdvance
  <2> QED
    BY <1>5, <2>1
<1>10. ASSUME NEW valid, tryAdvance(valid) PROVE advance' = advance \/ advance'.list = <<>>
  BY <1>10, TryAdvance, Zenon
<1> QED
  BY <1>4, <1>5, <1>6, <1>7, <1>8, <1>9, <1>10, ThreadSteps, Zenon

\* The ledgers that more than a quorum's current validations agree on.
Agreed(l) == Cardinality(CurrentFor(l)) > Quorum

\* A validator's current validation is one, and two majorities share a
\* validator: there is at most one such ledger.
LEMMA OneAgreed ==
  ASSUME ReceivedInv, Majority, NEW k \in ID, NEW l \in ID, Agreed(k), Agreed(l)
  PROVE  k = l
<1> SUFFICES ASSUME k # l PROVE FALSE
  OBVIOUS
<1>1. \A m \in ID : seq(m) \in Nat
  BY SeqType DEF Ledgers
<1>2. CurrentFor(k) \cap CurrentFor(l) = {}
  <2> SUFFICES ASSUME NEW v \in Validator, IsLatest(v, k), IsLatest(v, l) PROVE FALSE
    BY DEF CurrentFor
  <2>1. k \in received[v] /\ l \in received[v] /\ seq(k) <= seq(l) /\ seq(l) <= seq(k)
    BY DEF IsLatest
  <2>2. seq(k) = seq(l)
    BY <1>1, <2>1
  <2> QED
    BY <2>1, <2>2, Zenon DEF ReceivedInv
<1>3. CurrentFor(k) \subseteq Validator /\ CurrentFor(l) \subseteq Validator
  BY DEF CurrentFor
<1> DEFINE both == CurrentFor(k) \cup CurrentFor(l)
<1>4. both \subseteq Validator
  BY <1>3
<1>5. /\ Cardinality(CurrentFor(k)) \in Nat /\ Cardinality(CurrentFor(l)) \in Nat
      /\ Cardinality(both) = Cardinality(CurrentFor(k)) + Cardinality(CurrentFor(l))
  BY <1>2, <1>3, ValidatorsCounted, Zenon DEF SubsetsCount
<1>6. /\ Cardinality(both) \in Nat /\ Cardinality(Validator) \in Nat
      /\ Cardinality(both) <= Cardinality(Validator)
  BY <1>4, CountSubset, Zenon
<1>7. Quorum \in Nat
  BY <1>6, MasterAssumption
<1> HIDE DEF both
<1> QED
  BY <1>5, <1>6, <1>7 DEF Agreed, Majority

\* What the current validations agree on has a quorum.
LEMMA AgreedValidated == ASSUME NEW l, Agreed(l) PROVE Validated(l)
<1>1. CurrentFor(l) \subseteq TrustedFor(l) /\ TrustedFor(l) \subseteq Validator
  BY DEF CurrentFor, TrustedFor, IsLatest
<1>2. /\ Cardinality(CurrentFor(l)) \in Nat /\ Cardinality(TrustedFor(l)) \in Nat
      /\ Cardinality(CurrentFor(l)) <= Cardinality(TrustedFor(l))
  BY <1>1, CountSubset, Zenon
<1> QED
  BY <1>2, MasterAssumption DEF Agreed, Validated

\* A ledger that was checked while a quorum agreed on it is validated.
LEMMA AgreedAccepted ==
  ASSUME Inv, NEW l \in ID, Agreed(l),
         checkAccept(l) \/ AcquisitionDone(l)
  PROVE  ~(seq(l) > mValidLedgerSeq')
<1>1. seq(l) \in Nat /\ mValidLedgerSeq \in Nat
  BY SeqType, Numbers DEF Ledgers
<1>2. CASE seq(l) > mValidLedgerSeq
  <2>1. Accepts(l)
    BY <1>1, <1>2, AgreedValidated DEF Accepts, canBeCurrent
  <2>2. mValidLedger' = l
    BY <2>1, Zenon DEF checkAccept, AcquisitionDone, setValidLedger
  <2> QED
    BY <1>1, <2>2 DEF mValidLedgerSeq
<1>3. CASE ~(seq(l) > mValidLedgerSeq)
  <2>1. ~Accepts(l)
    BY <1>3 DEF Accepts
  <2>2. mValidLedger' = mValidLedger
    BY <2>1, Zenon DEF checkAccept, AcquisitionDone
  <2> QED
    BY <1>3, <2>2 DEF mValidLedgerSeq
<1> QED
  BY <1>2, <1>3

\* A ledger is called for by someone.
Called(l) == \E c \in Caller : call[c].at # "idle" /\ call[c].ledger = l

\* Validations of other ledgers take none away from the calls, and none makes
\* a ledger agreed on without a call for it.
LEMMA AgreedBefore ==
  ASSUME ReceivedInv, CallInv, NEW v \in Validator, NEW k \in ID, Receives(v, k),
         NEW l \in ID, Agreed(l)', ~Called(l)'
  PROVE  l # k /\ Agreed(l)
<1>1. v \in Caller
  BY DEF Caller
<1>2. call'[v] = [at |-> "check", ledger |-> k]
  BY <1>1, Zenon DEF Receives, CallInv
<1>3. l # k
  BY <1>1, <1>2 DEF Called
<1>4. \A w \in Validator : /\ received[w] \subseteq received'[w]
                           /\ received'[w] \subseteq received[w] \cup {k}
  BY DEF Receives, ReceivedInv
<1>5. CurrentFor(l)' \subseteq CurrentFor(l)
  BY <1>3, <1>4 DEF CurrentFor, IsLatest
<1>6. CurrentFor(l) \subseteq Validator
  BY DEF CurrentFor
<1>7. /\ Cardinality(CurrentFor(l)') \in Nat /\ Cardinality(CurrentFor(l)) \in Nat
      /\ Cardinality(CurrentFor(l)') <= Cardinality(CurrentFor(l))
  BY <1>5, <1>6, CountSubset, Zenon
<1>8. Agreed(l)
  <2>1. Cardinality(CurrentFor(l)') > Quorum /\ Quorum \in Int
    BY MasterAssumption DEF Agreed
  <2> QED
    BY <1>7, <2>1 DEF Agreed
<1> QED
  BY <1>3, <1>8

LEMMA AgreedSame ==
  ASSUME UNCHANGED received, NEW l, Agreed(l)' PROVE Agreed(l)
BY DEF Agreed, CurrentFor, IsLatest

\* A ledger that nobody would check, and that is ahead, was so before the
\* step, or nobody agreed on it.
Left(l) == Agreed(l) /\ l \in have \ done /\ ~Called(l) /\ seq(l) > mValidLedgerSeq

LEMMA LeftBefore ==
  ASSUME Inv, ReceivedInv, WatchInv, [Next]_vars,
         round.at = "switch", round' = round, NEW l \in ID, Left(l)'
  PROVE  Left(l)
<1> USE DEF validation, store, validated, publishing, consensus
<1>1. seq(l) \in Nat /\ seq(l) # 0 /\ seq(l) > mValidLedgerSeq
  <2>1. seq(l) \in Nat /\ seq(l) # 0
    BY SeqType, LedgerAssumption DEF Ledgers, Genesis
  <2> QED
    BY <2>1, ValidGrows DEF Left
<1>2. call \in [Caller -> [at : {"idle", "check", "look"}, ledger : Ledgers]]
  BY DEF WatchInv, CallInv
<1>3. Agreed(l)' /\ l \in have' /\ l \notin done' /\ ~Called(l)' /\ seq(l) > mValidLedgerSeq'
  BY DEF Left
<1>4. ASSUME UNCHANGED <<received, call, have, done>> PROVE Left(l)
  BY <1>1, <1>3, <1>4, AgreedSame, Zenon DEF Left, Called
<1>5. ASSUME NEW v \in Validator, NEW k \in Heard, handleNewValidation(v, k) PROVE Left(l)
  <2>1. k \in ID /\ Receives(v, k) /\ UNCHANGED <<have, done>> /\ call[v].at = "idle"
    BY <1>5, MasterAssumption, Zenon DEF handleNewValidation, Receives
  <2>2. Agreed(l)
    BY <1>3, <2>1, AgreedBefore, Zenon DEF WatchInv
  <2>3. \A c \in Caller : call[c].at # "idle" => call'[c] = call[c]
    BY <1>2, <2>1, Zenon DEF Receives
  <2>4. ~Called(l)
    BY <1>3, <2>3, Zenon DEF Called
  <2> QED
    BY <1>1, <1>3, <2>1, <2>2, <2>4 DEF Left
<1>6. ASSUME NEW c \in Caller, Compare(c) PROVE Left(l)
  <2>1. UNCHANGED <<received, have, done, mValidLedger>> /\ call[c].at = "check"
        /\ \A d \in Caller : d # c => call'[d] = call[d]
    BY <1>2, <1>6 DEF Compare
  <2>2. call[c].ledger # l
    <3> SUFFICES ASSUME call[c].ledger = l PROVE FALSE
      OBVIOUS
    <3>1. mBuildingLedgerSeq = 0
      BY DEF WatchInv, BuiltInv
    <3>2. ~(seq(l) < mValidLedgerSeq) /\ ~Ignored(l)
      BY <1>1, <3>1, Numbers DEF Ignored
    <3>3. call' = [call EXCEPT ![c] = [@ EXCEPT !.at = "look"]]
      BY <1>6, <3>2, Zenon DEF Compare
    <3>4. call'[c].at = "look" /\ call'[c].ledger = l
      BY <1>2, <3>3
    <3> QED
      BY <1>3, <3>4 DEF Called
  <2>3. ~Called(l)
    BY <1>3, <2>1, <2>2, Zenon DEF Called
  <2> QED
    BY <1>1, <1>3, <2>1, <2>3, AgreedSame DEF Left
<1>7. ASSUME NEW c \in Caller, LookUp(c) PROVE Left(l)
  <2>1. UNCHANGED <<received, have, done>>
        /\ \A d \in Caller : d # c => call'[d] = call[d]
    BY <1>2, <1>7, Zenon DEF LookUp
  <2>2. Agreed(l)
    BY <1>3, <2>1, AgreedSame
  <2>3. call[c].ledger # l
    <3> SUFFICES ASSUME call[c].ledger = l PROVE FALSE
      OBVIOUS
    <3>1. checkAccept(l)
      BY <1>3, <1>7, <2>1 DEF LookUp
    <3> QED
      BY <1>3, <2>2, <3>1, AgreedAccepted, Zenon
  <2>4. ~Called(l)
    BY <1>3, <2>1, <2>3, Zenon DEF Called
  <2> QED
    BY <1>1, <1>3, <2>1, <2>2, <2>4 DEF Left
<1>8. ASSUME NEW k \in ID, Acquired(k) PROVE Left(l)
  <2>1. UNCHANGED <<received, call>> /\ have' = have \cup {k} /\ done' = done \cup {k}
    BY <1>8 DEF Acquired
  <2>2. l \in have /\ l \notin done
    BY <1>3, <2>1, Zenon
  <2> QED
    BY <1>1, <1>3, <2>1, <2>2, AgreedSame DEF Left, Called
<1>9. ASSUME NEW k \in ID, AcquisitionDone(k) PROVE Left(l)
  <2>1. UNCHANGED <<received, call, have>> /\ done' = done \ {k}
    BY <1>9 DEF AcquisitionDone
  <2>2. Agreed(l)
    BY <1>3, <2>1, AgreedSame
  <2>3. l # k
    BY <1>3, <1>9, <2>2, AgreedAccepted, Zenon
  <2> QED
    BY <1>1, <1>3, <2>1, <2>2, <2>3 DEF Left, Called
<1>10. CASE Publish
  <2>1. UNCHANGED <<received, call, done, mValidLedger>> /\ have' = have \cup {Head(advance.list)}
        /\ advance.list # <<>> /\ advance.list \in Seq(ID)
    BY <1>10, Numbers DEF Publish, Inv, ListInv
  <2>2. Head(advance.list) = advance.list[1] /\ 1 \in 1..Len(advance.list)
    BY <2>1
  <2>3. Head(advance.list) \in have \/ seq(Head(advance.list)) <= mValidLedgerSeq
    BY <2>2, Zenon DEF WatchInv, ListedInv
  <2>4. l \in have
    BY <1>1, <1>3, <2>1, <2>3, Numbers
  <2> QED
    BY <1>1, <1>3, <2>1, <2>4, AgreedSame DEF Left, Called
<1>11. CASE Top \/ Find \/ EndLoop \/ UNCHANGED vars
  BY <1>4, <1>11 DEF Top, Find, EndLoop, vars
<1>12. ~(onClose \/ consensusBuilt \/ CheckBuilt \/ SavedUp \/ endConsensus)
  BY DEF onClose, consensusBuilt, CheckBuilt, SavedUp, endConsensus
<1>13. ~switchLCL
  BY DEF switchLCL, Inv, TypeInv, RoundType
<1>14. ~\E k \in ID : startRound(k) \/ acquireLedger(k) \/ Jump(k)
                      \/ \E validate \in BOOLEAN : doAccept(k, validate)
  BY DEF startRound, acquireLedger, Jump, doAccept
<1>15. (\E k \in ID : GiveUp(k) \/ sweep(k)) => Left(l)
  BY <1>4 DEF GiveUp, sweep
<1> QED
  BY <1>5, <1>6, <1>7, <1>8, <1>9, <1>10, <1>11, <1>12, <1>13, <1>14, <1>15, Zenon DEF Next

LEMMA NoneLeft == NoneOverlooked <=> (BuiltUnvalidated => \A l \in ID : ~Left(l))
BY DEF NoneOverlooked, Overlooked, Left, Agreed, Called

LEMMA OverlookStep ==
  ASSUME Majority, Inv, ReceivedInv, WatchInv, NoneOverlooked, [Next]_vars
  PROVE  NoneOverlooked'
<1> SUFFICES ASSUME BuiltUnvalidated', NEW l \in ID, Left(l)' PROVE FALSE
  BY DEF NoneOverlooked, Overlooked, Left, Agreed, Called
<1>1. round'.at = "switch" /\ seq(round'.ledger) > mValidLedgerSeq'
  BY DEF BuiltUnvalidated
<1>2. round \in RoundType /\ seq(round.ledger) \in Nat
  BY SeqType DEF Inv, TypeInv, RoundType
<1>3. CASE UNCHANGED <<round, mBuildingLedgerSeq>>
  <2>1. BuiltUnvalidated
    BY <1>1, <1>2, <1>3, ValidGrows DEF BuiltUnvalidated
  <2>2. Left(l)
    BY <1>1, <1>3, LeftBefore
  <2> QED
    BY <2>1, <2>2, NoneLeft
<1>4. CASE consensusBuilt
  <2>1. round'.ledger = round.ledger /\ seq(round.ledger) <= mValidLedgerSeq
        /\ UNCHANGED mValidLedger
    BY <1>1, <1>2, <1>4 DEF consensusBuilt, RoundType, validated
  <2> QED
    BY <1>1, <1>2, <2>1, Numbers DEF mValidLedgerSeq
<1>5. CASE CheckBuilt
  <2>1. round'.ledger = round.ledger /\ seq(round.ledger) <= seq(mValidLedger')
    BY <1>1, <1>2, <1>5 DEF CheckBuilt, RoundType
  <2> QED
    BY <1>1, <1>2, <2>1, ValidGrows DEF mValidLedgerSeq
<1>6. CASE SavedUp
  <2> DEFINE saved == {k \in ID : Sufficient(k)}
  <2>0. UNCHANGED <<received, have, done, mValidLedger>>
    BY <1>6 DEF SavedUp, store, validated
  <2>1. Agreed(l) /\ seq(l) > mValidLedgerSeq
    BY <2>0, AgreedSame DEF Left, mValidLedgerSeq
  <2>2. l \in saved
    BY <2>1 DEF Sufficient, Agreed
  <2>3. PICK k \in saved : call' = [call EXCEPT ![Self] = [at |-> "check", ledger |-> k]]
    BY <1>6, <2>2 DEF SavedUp
  <2>4. k = l
    BY <2>1, OneAgreed DEF Sufficient, Agreed
  <2>5. Self \in Caller /\ call'[Self] = [at |-> "check", ledger |-> l]
    BY <2>3, <2>4 DEF WatchInv, CallInv, Caller
  <2>6. call'[Self].at # "idle" /\ call'[Self].ledger = l
    BY <2>5
  <2>7. Called(l)'
    BY <2>5, <2>6, Zenon DEF Called
  <2> QED
    BY <2>7, Zenon DEF Left
<1> QED
  BY <1>1, <1>3, <1>4, <1>5, <1>6, RoundSteps, Zenon

LEMMA InitWatched == Init => WatchInv /\ NoneOverlooked
<1> SUFFICES ASSUME Init PROVE WatchInv /\ NoneOverlooked
  OBVIOUS
<1>1. CallInv
  BY DEF Init, CallInv, Idle, Ledgers
<1>2. round.at = "open" /\ advance.list = <<>>
  BY DEF Init, Idle, NoAdvance
<1> QED
  BY <1>1, <1>2 DEF WatchInv, BuiltInv, ListedInv, NoneOverlooked, BuiltUnvalidated

(***************************************************************************)
(* When consensusBuilt returns without having validated the ledger that    *)
(* was built, it leaves no ledger behind that more than a quorum's current *)
(* validations agree on, however validations, acquisitions and the         *)
(* publishing thread's steps fall between its own.  A quorum is a          *)
(* majority: with the unsafe quorum of the command line two ledgers may    *)
(* each have more, and consensusBuilt takes the later one alone.           *)
(***************************************************************************)
THEOREM NoneIsOverlooked == Majority => (Spec => []NoneOverlooked)
<1> SUFFICES ASSUME Majority PROVE Spec => []NoneOverlooked
  OBVIOUS
<1> DEFINE All == Inv /\ ReceivedInv /\ WatchInv /\ NoneOverlooked
<1>1. Init => All
  BY InitInv, InitBacked, InitWatched, Zenon
<1>2. All /\ [Next]_vars => All'
  BY Step, ReceivedKept, CallStep, BuiltStep, ListedStep, OverlookStep DEF WatchInv
<1> QED
  BY <1>1, <1>2, PTL DEF Spec
=============================================================================
