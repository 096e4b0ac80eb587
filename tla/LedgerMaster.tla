---------------------------- MODULE LedgerMaster ----------------------------
(***************************************************************************)
(* How a node comes to its fully validated ledger and publishes it.        *)
(*                                                                         *)
(* Four kinds of threads meet in LedgerMaster: jobs that handle trusted    *)
(* validations, the job that accepts the result of a consensus round, jobs *)
(* that end the acquisition of a ledger, and the thread that publishes     *)
(* validated ledgers.  m_mutex is held in short stretches only: the checks *)
(* before a ledger is looked up read mValidLedgerSeq and mBuildingLedgerSeq *)
(* without it, and the publishing thread drops it while it works.          *)
(*                                                                         *)
(* Ledgers are those of ValidatedLedger; Genesis (0) stands for none.      *)
(***************************************************************************)
EXTENDS ValidatedLedger, Counting

CONSTANTS
    Validator,      \* the trusted validators
    Self,           \* the node's own validation key
    Quorum,         \* app_.validators().quorum()
    Loaded,         \* the ledger the node starts from
    MaxLedgerGap,   \* MAX_LEDGER_GAP
    FetchSize,      \* ledger_fetch_size_
    Heard,          \* the ledgers whose validations reach the node
    Validations,    \* bound on the validations of one validator
    Jobs,           \* bound on the validations handled at a time
    Failures,       \* bound on the ledgers whose acquisition was given up
    MaxRounds       \* bound on the ledgers closed

ASSUME MasterAssumption ==
    /\ IsFiniteSet(Validator)
    /\ Quorum \in 1..Cardinality(Validator)
    /\ Loaded \in ID
    /\ Heard \subseteq ID
    /\ {MaxLedgerGap, Validations, Jobs, MaxRounds} \subseteq Nat \ {0}
    /\ Failures \in Nat
    \* 100 ledgers, and a ledger carries the hashes of 256.
    /\ MaxLedgerGap <= Depth
    \* SizedItem::ledgerFetch: {2, 3, 4, 5, 8}
    /\ FetchSize \in Nat \ {0, 1}

\* What IsFiniteSet(Validator) implies: quorums can be counted.
ASSUME ValidatorsCounted == SubsetsCount(Validator)

VARIABLES
    received,            \* the trusted validations, by validator
    call,                \* checkAccept(hash, seq) in progress, by caller
    have,                \* mLedgerHistory
    acquiring,           \* InboundLedgers' acquisitions under way
    failed,              \* those that failed and are still listed there
    lost,                \* history: given up and not acquired since
    done,                \* the queued AcquisitionDone jobs
    mValidLedger,
    mLastValidLedger,
    mBuildingLedgerSeq,
    mPubLedger,
    mAdvanceWork,
    advance,             \* mAdvanceThread, and where the thread is
    round,               \* where the consensus round is
    prev,                \* the ledger the round builds on
    rounds               \* the ledgers closed so far

validation == <<received, call>>
store == <<have, acquiring, failed, lost, done>>
validated == <<mValidLedger, mLastValidLedger>>
publishing == <<mPubLedger, mAdvanceWork, advance>>
consensus == <<mBuildingLedgerSeq, round, prev, rounds>>
vars == <<validation, store, validated, publishing, consensus>>

Caller == Validator \cup {Self}
Idle == [at |-> "idle", ledger |-> Genesis]
\* The thread is not running.
NoAdvance == [at |-> "idle", val |-> Genesis, seq |-> 0, list |-> <<>>, acq |-> 0]

mValidLedgerSeq == seq(mValidLedger)
mPubLedgerSeq == seq(mPubLedger)

\* getTrustedForLedger: every validation counts, however old.
TrustedFor(l) == {v \in Validator : l \in received[v]}
\* currentTrusted: only the latest validation of a validator counts.
IsLatest(v, l) == l \in received[v] /\ \A k \in received[v] : seq(k) <= seq(l)
CurrentFor(l) == {v \in Validator : IsLatest(v, l)}

(***************************************************************************)
(* tryAdvance, in the middle of a stretch under m_mutex that leaves valid  *)
(* as the validated ledger.                                                *)
(***************************************************************************)
tryAdvance(valid) ==
    /\ mAdvanceWork' = TRUE
    /\ advance' = IF advance.at = "idle" /\ valid # Genesis
                  THEN [NoAdvance EXCEPT !.at = "top"] ELSE advance

canBeCurrent(l) == seq(l) >= mValidLedgerSeq

\* getNeededValidations
Validated(l) == Cardinality(TrustedFor(l)) >= Quorum

\* checkAccept(ledger)
Accepts(l) == canBeCurrent(l) /\ seq(l) > mValidLedgerSeq /\ Validated(l)
setValidLedger(l) ==
    /\ mValidLedger' = l
    /\ mPubLedger' = IF mPubLedger = Genesis THEN l ELSE mPubLedger
checkAccept(l) ==
    IF Accepts(l) THEN setValidLedger(l) /\ tryAdvance(l)
                  ELSE UNCHANGED <<mValidLedger, publishing>>

(***************************************************************************)
(* handleNewValidation for a peer's validation: Validations::add takes a   *)
(* validation only of a later sequence than the validator's last one.      *)
(***************************************************************************)
Newer(v, l) == \A k \in received[v] : seq(k) < seq(l)

handleNewValidation(v, l) ==
    /\ v # Self
    /\ call[v].at = "idle"
    /\ Cardinality({w \in Validator \ {Self} : call[w].at # "idle"}) < Jobs
    /\ Cardinality(received[v]) < Validations
    /\ Newer(v, l)
    /\ received' = [received EXCEPT ![v] = @ \cup {l}]
    /\ call' = [call EXCEPT ![v] = [at |-> "check", ledger |-> l]]
    /\ UNCHANGED <<store, validated, publishing, consensus>>

\* InboundLedgers::acquire: while an acquisition that failed is listed, no
\* other is started for its ledger.
acquire(l) == acquiring \cup ({l} \ failed)

(***************************************************************************)
(* checkAccept(hash, seq).  The comparisons, before the ledger is looked   *)
(* up.                                                                     *)
(***************************************************************************)
Ignored(l) == seq(l) \in {mValidLedgerSeq, mBuildingLedgerSeq}

Compare(c) ==
    LET l == call[c].ledger
        old == seq(l) < mValidLedgerSeq
    IN /\ call[c].at = "check"
       /\ call' = [call EXCEPT ![c] =
              IF old \/ Ignored(l) THEN Idle ELSE [@ EXCEPT !.at = "look"]]
       /\ mLastValidLedger' =
              IF ~old /\ Validated(l) /\ seq(l) > seq(mLastValidLedger)
              THEN l ELSE mLastValidLedger
       /\ UNCHANGED <<received, store, mValidLedger, publishing, consensus>>

\* getLedgerByHash, then InboundLedgers::acquire or checkAccept(ledger).
LookUp(c) ==
    LET l == call[c].ledger
    IN /\ call[c].at = "look"
       /\ call' = [call EXCEPT ![c] = Idle]
       /\ IF l \in have
          THEN /\ checkAccept(l)
               /\ UNCHANGED acquiring
          ELSE /\ acquiring' = acquire(l)
               /\ UNCHANGED <<mValidLedger, publishing>>
       /\ UNCHANGED <<received, have, failed, lost, done, mLastValidLedger, consensus>>

(***************************************************************************)
(* InboundLedger::done: the ledger is stored and a job dispatched, which   *)
(* checks it and wakes the publishing thread.                              *)
(***************************************************************************)
Acquired(l) ==
    /\ l \in acquiring
    /\ acquiring' = acquiring \ {l}
    /\ have' = have \cup {l}
    /\ done' = done \cup {l}
    /\ lost' = lost \ {l}
    /\ UNCHANGED <<failed, validation, validated, publishing, consensus>>

\* onTimer, after too many timeouts: the job that done() dispatches then
\* leaves a note for the acquisition of history and wakes nobody.
GiveUp(l) ==
    /\ l \in acquiring
    /\ Cardinality(lost \cup {l}) <= Failures
    /\ acquiring' = acquiring \ {l}
    /\ failed' = failed \cup {l}
    /\ lost' = lost \cup {l}
    /\ UNCHANGED <<have, done, validation, validated, publishing, consensus>>

\* InboundLedgers::sweep, and clearFailures: what nobody asked for lately is
\* forgotten, also when it was still under way.
sweep(l) ==
    /\ l \in acquiring \cup failed
    /\ Cardinality(lost \cup {l}) <= Failures
    /\ acquiring' = acquiring \ {l}
    /\ failed' = failed \ {l}
    /\ lost' = lost \cup {l}
    /\ UNCHANGED <<have, done, validation, validated, publishing, consensus>>

AcquisitionDone(l) ==
    /\ l \in done
    /\ done' = done \ {l}
    /\ IF Accepts(l) THEN setValidLedger(l) ELSE UNCHANGED <<mValidLedger, mPubLedger>>
    /\ tryAdvance(IF Accepts(l) THEN l ELSE mValidLedger)
    /\ UNCHANGED <<validation, have, acquiring, failed, lost, mLastValidLedger, consensus>>

(***************************************************************************)
(* The consensus round.  onClose says which sequence is being built, so    *)
(* that its validations start no acquisition.                              *)
(***************************************************************************)
onClose ==
    /\ round.at = "open"
    /\ rounds < MaxRounds /\ rounds' = rounds + 1
    /\ mBuildingLedgerSeq' = seq(prev) + 1
    /\ round' = [round EXCEPT !.at = "closed"]
    /\ UNCHANGED <<validation, store, validated, publishing, prev>>

\* handleWrongLedger: the round starts again on another ledger we have, and
\* mBuildingLedgerSeq keeps the sequence of the one given up.
startRound(l) ==
    /\ round.at \in {"open", "closed"} /\ rounds < MaxRounds
    /\ l \in have \ {prev}
    /\ prev' = l
    /\ round' = [round EXCEPT !.at = "open"]
    /\ UNCHANGED <<validation, store, validated, publishing, mBuildingLedgerSeq, rounds>>

\* acquireLedger: the ledger the validators prefer is not here, and the round
\* goes on without it.
acquireLedger(l) ==
    /\ round.at \in {"open", "closed"}
    /\ l \notin have
    /\ \E v \in Validator : l \in received[v]
    /\ acquiring' = acquire(l)
    /\ UNCHANGED <<validation, have, failed, lost, done, validated, publishing, consensus>>

\* areCompatible, of two ledgers and of a hash and a ledger.
Agree(a, b, s) == At(a, s) = Genesis \/ At(b, s) = Genesis \/ At(a, s) = At(b, s)
isCompatible(l) ==
    /\ mValidLedger # Genesis => Agree(mValidLedger, l, Smaller(mValidLedgerSeq, seq(l)))
    /\ mLastValidLedger # Genesis /\ seq(l) >= seq(mLastValidLedger) =>
           Agree(mLastValidLedger, l, seq(mLastValidLedger))

(***************************************************************************)
(* doAccept: buildLCL stores the ledger built, a child of the previous     *)
(* one; a validator that may validate it adds its own validation, whose    *)
(* checkAccept(hash, seq) runs in this job.                                *)
(***************************************************************************)
doAccept(l, validate) ==
    /\ round.at = "closed"
    /\ seq(l) = seq(prev) + 1 /\ At(l, seq(prev)) = prev
    /\ validate => Self \in Validator /\ isCompatible(l) /\ Newer(Self, l)
    /\ have' = have \cup {l}
    /\ IF validate
       THEN /\ received' = [received EXCEPT ![Self] = @ \cup {l}]
            /\ call' = [call EXCEPT ![Self] = [at |-> "check", ledger |-> l]]
       ELSE UNCHANGED validation
    /\ round' = [at |-> "built", ledger |-> l]
    /\ UNCHANGED <<acquiring, failed, lost, done, validated, publishing,
                   mBuildingLedgerSeq, prev, rounds>>

\* The job has not returned from checkAccept(hash, seq).
InCall == call[Self].at # "idle"

\* Mutant: nothing says that the building is over.
BuildingForgotten ==
    /\ round.at = "built" /\ ~InCall
    /\ round' = [round EXCEPT !.at =
           IF seq(round.ledger) <= mValidLedgerSeq THEN "switch" ELSE "check"]
    /\ UNCHANGED <<validation, store, validated, publishing, mBuildingLedgerSeq, prev, rounds>>

(***************************************************************************)
(* consensusBuilt: the building is over; an old ledger is not checked.     *)
(***************************************************************************)
consensusBuilt ==
    /\ round.at = "built" /\ ~InCall
    /\ mBuildingLedgerSeq' = 0
    /\ round' = [round EXCEPT !.at =
           IF seq(round.ledger) <= mValidLedgerSeq THEN "switch" ELSE "check"]
    /\ UNCHANGED <<validation, store, validated, publishing, prev, rounds>>

\* "See if this ledger can be the new fully-validated ledger"
CheckBuilt ==
    /\ round.at = "check"
    /\ checkAccept(round.ledger)
    /\ round' = [round EXCEPT !.at =
           IF seq(round.ledger) <= seq(mValidLedger') THEN "switch" ELSE "count"]
    /\ UNCHANGED <<validation, store, mLastValidLedger, mBuildingLedgerSeq, prev, rounds>>

(***************************************************************************)
(* "maybe we saved up validations for some other ledger that can be": the  *)
(* ledgers the current validations agree on, and the latest of them.       *)
(***************************************************************************)
Sufficient(l) == Cardinality(CurrentFor(l)) > Quorum /\ seq(l) > mValidLedgerSeq

SavedUp ==
    LET saved == {l \in ID : Sufficient(l)}
    IN /\ round.at = "count"
       /\ IF saved = {} THEN UNCHANGED call
          ELSE \E l \in saved :
                  /\ \A k \in saved : seq(k) <= seq(l)
                  /\ call' = [call EXCEPT ![Self] = [at |-> "check", ledger |-> l]]
       /\ round' = [round EXCEPT !.at = "switch"]
       /\ UNCHANGED <<received, store, validated, publishing, mBuildingLedgerSeq, prev, rounds>>

\* switchLCL, at the end of doAccept.
switchLCL ==
    /\ round.at = "switch" /\ ~InCall
    /\ checkAccept(round.ledger)
    /\ prev' = round.ledger
    /\ round' = [round EXCEPT !.at = "ended"]
    /\ UNCHANGED <<validation, store, mLastValidLedger, mBuildingLedgerSeq, rounds>>

(***************************************************************************)
(* endConsensus: the next round starts on the ledger built, unless         *)
(* checkLastClosedLedger jumps to the ledger the network is on; never to   *)
(* the parent of our own.                                                  *)
(***************************************************************************)
endConsensus ==
    /\ round.at = "ended"
    /\ round' = [Idle EXCEPT !.at = "open"]
    /\ UNCHANGED <<validation, store, validated, publishing, mBuildingLedgerSeq, prev, rounds>>

Jump(l) ==
    /\ round.at = "ended"
    /\ l \in have \ {prev, At(prev, seq(prev) - 1)}
    /\ canBeCurrent(l) /\ isCompatible(l)
    /\ checkAccept(l)
    /\ prev' = l
    /\ round' = [Idle EXCEPT !.at = "open"]
    /\ UNCHANGED <<validation, store, mLastValidLedger, mBuildingLedgerSeq, rounds>>

(***************************************************************************)
(* The publishing thread: doAdvance.  The top of its loop, under m_mutex,  *)
(* decides which ledgers to look for: findNewLedgersToPublish.             *)
(***************************************************************************)
Top ==
    /\ advance.at = "top"
    /\ mAdvanceWork' = FALSE
    /\ \/ \* "Gap in validated ledger stream"
          /\ mValidLedgerSeq > mPubLedgerSeq + MaxLedgerGap
          /\ mPubLedger' = mValidLedger
          /\ advance' = [advance EXCEPT !.at = "publish", !.list = <<mValidLedger>>]
       \/ /\ mValidLedgerSeq <= mPubLedgerSeq
          /\ advance' = [advance EXCEPT !.at = "end"]
          /\ UNCHANGED mPubLedger
       \/ /\ mValidLedgerSeq \in mPubLedgerSeq + 1 .. mPubLedgerSeq + MaxLedgerGap
          /\ advance' = [advance EXCEPT !.at = "find", !.val = mValidLedger,
                                        !.seq = mPubLedgerSeq + 1]
          /\ UNCHANGED mPubLedger
    /\ UNCHANGED <<validation, store, validated, consensus>>

\* The next sequence to publish, after the ledgers found.
pubSeq == mPubLedgerSeq + 1 + Len(advance.list)

\* Mutant: whatever ledger was found is published.
AnyFound(l) == l \in have

\* "Did we acquire the next ledger we need to publish?"
NextFound(l) == l \in have /\ seq(l) = pubSeq

\* Mutant: the ledger is looked up by its sequence.
AnyAt(s) == CHOOSE l \in ID : seq(l) = s /\ (l \in have \/ l = At(advance.val, s))

\* hashOfSeq(*valLedger, seq)
HashOfSeq(s) == At(advance.val, s)

(***************************************************************************)
(* One turn of its loop over the sequences, without m_mutex: a ledger we   *)
(* have continues the list, of the others a few are acquired.              *)
(***************************************************************************)
Find ==
    LET l == HashOfSeq(advance.seq)
        missing == l \notin have
        last == advance.seq = seq(advance.val)
    IN /\ advance.at = "find"
       /\ acquiring' = IF missing /\ advance.acq + 1 < FetchSize
                       THEN acquire(l) ELSE acquiring
       /\ LET list == IF NextFound(l) THEN Append(advance.list, l) ELSE advance.list
          IN advance' =
                IF last
                THEN [NoAdvance EXCEPT !.list = list,
                          !.at = IF list = <<>> THEN "end" ELSE "publish"]
                ELSE [advance EXCEPT !.seq = @ + 1, !.list = list,
                                     !.acq = IF missing THEN @ + 1 ELSE @]
       /\ UNCHANGED <<validation, have, failed, lost, done, validated, mPubLedger,
                      mAdvanceWork, consensus>>

\* setFullLedger and setPubLedger; m_mutex is dropped before and after.
Publish ==
    LET l == Head(advance.list)
    IN /\ advance.at = "publish"
       /\ have' = have \cup {l}
       /\ mPubLedger' = l
       /\ advance' = [advance EXCEPT !.list = Tail(@),
                          !.at = IF Len(advance.list) = 1 THEN "end" ELSE "publish"]
       /\ UNCHANGED <<validation, acquiring, failed, lost, done, validated,
                      mAdvanceWork, consensus>>

\* Mutant: the work is forgotten at the bottom of the loop, not at its top.
ForgetWork ==
    /\ advance.at = "end"
    /\ \E progress \in BOOLEAN :
          advance' = IF progress THEN [NoAdvance EXCEPT !.at = "top"] ELSE NoAdvance
    /\ mAdvanceWork' = FALSE
    /\ UNCHANGED <<validation, store, validated, mPubLedger, consensus>>

(***************************************************************************)
(* The bottom of the loop.  Fetching history and path finding, which are   *)
(* not modelled, say whether there was progress; advanceThread ends in the *)
(* same stretch under m_mutex that finds no more work.                     *)
(***************************************************************************)
EndLoop ==
    /\ advance.at = "end"
    /\ \E progress \in BOOLEAN :
          /\ advance' = IF progress \/ mAdvanceWork
                        THEN [NoAdvance EXCEPT !.at = "top"] ELSE NoAdvance
          /\ mAdvanceWork' = (progress \/ mAdvanceWork)
    /\ UNCHANGED <<validation, store, validated, mPubLedger, consensus>>

\* A node starts from a fresh ledger that is not validated, or loads one.
startGenesisLedger == mValidLedger = Genesis
loadOldLedger == mValidLedger = Loaded

Init ==
    /\ received = [v \in Validator |-> {}]
    /\ call = [c \in Caller |-> Idle]
    /\ have = {Loaded} /\ acquiring = {} /\ failed = {} /\ lost = {} /\ done = {}
    /\ startGenesisLedger \/ loadOldLedger
    /\ mPubLedger = mValidLedger
    /\ mLastValidLedger = Genesis
    /\ mAdvanceWork = FALSE /\ advance = NoAdvance
    /\ mBuildingLedgerSeq = 0
    /\ round = [Idle EXCEPT !.at = "open"] /\ prev = Loaded
    /\ rounds = 0

Next ==
    \/ \E v \in Validator, l \in Heard : handleNewValidation(v, l)
    \/ \E c \in Caller : Compare(c)
    \/ \E c \in Caller : LookUp(c)
    \/ \E l \in ID : Acquired(l)
    \/ \E l \in ID : AcquisitionDone(l)
    \/ \E l \in ID : GiveUp(l)
    \/ \E l \in ID : sweep(l)
    \/ onClose
    \/ \E l \in ID : startRound(l)
    \/ \E l \in ID : acquireLedger(l)
    \/ \E l \in ID, validate \in BOOLEAN : doAccept(l, validate)
    \/ consensusBuilt
    \/ CheckBuilt
    \/ SavedUp
    \/ switchLCL
    \/ endConsensus
    \/ \E l \in ID : Jump(l)
    \/ Top
    \/ Find
    \/ Publish
    \/ EndLoop

Spec == Init /\ [][Next]_vars

-----------------------------------------------------------------------------

(***************************************************************************)
(* A ledger nothing will check any more: it is ahead of the validated one, *)
(* we have it, and no call, job or consensus step is about to look at it.  *)
(***************************************************************************)
Overlooked(l) ==
    /\ l \in have \ done
    /\ seq(l) > mValidLedgerSeq
    /\ \A c \in Caller : call[c].at # "idle" => call[c].ledger # l

\* consensusBuilt has returned and the ledger it was told of is not validated.
BuiltUnvalidated == round.at = "switch" /\ seq(round.ledger) > mValidLedgerSeq

(***************************************************************************)
(* While a ledger is being built, validations of its sequence are only     *)
(* counted.  When consensusBuilt returns without having validated the      *)
(* ledger that was built, no other ledger that more than a quorum's        *)
(* current validations agree on is left behind, however the validations    *)
(* and the acquisitions fell between its steps.                            *)
(***************************************************************************)
NoneOverlooked ==
    BuiltUnvalidated =>
        \A l \in ID : Cardinality(CurrentFor(l)) > Quorum => ~Overlooked(l)

(***************************************************************************)
(* The same for a quorum: "Of the ledgers with sufficient validations,     *)
(* find the one with the highest sequence", where getNeededValidations is  *)
(* "how many validations are needed to fully validate a ledger".           *)
(***************************************************************************)
QuorumNotOverlooked ==
    BuiltUnvalidated =>
        \A l \in ID : Cardinality(CurrentFor(l)) >= Quorum => ~Overlooked(l)

(***************************************************************************)
(* What is published was loaded, or a quorum validated it or a ledger that *)
(* descends from it: the thread that publishes looks ledgers up without    *)
(* the lock while rivals of the same sequence are built and acquired.      *)
(***************************************************************************)
PublishedBacked ==
    mPubLedger \in {Genesis, Loaded}
        \/ \E l \in ID : Validated(l) /\ IsAncestor(mPubLedger, l)

(***************************************************************************)
(* Ledgers are published in the order of their sequences and none twice;   *)
(* sequences are skipped only when the gap to the validated ledger exceeds *)
(* MAX_LEDGER_GAP (findNewLedgersToPublish), and then all of them are.     *)
(***************************************************************************)
PublishedInOrder ==
    [][mPubLedger # Genesis /\ mPubLedger' # mPubLedger =>
          \/ seq(mPubLedger') = mPubLedgerSeq + 1
          \/ /\ seq(mPubLedger') > mPubLedgerSeq + MaxLedgerGap
             /\ mPubLedger' = mValidLedger]_vars

(***************************************************************************)
(* The thread stops short for nothing but a ledger: when it does not run   *)
(* and a validated ledger is not published, one of the ledgers still to    *)
(* publish is being acquired, or its job is queued and will start the      *)
(* thread again, or its acquisition was given up (onTimer, sweep), and     *)
(* then the next validated ledger starts the thread.  Whatever arrives     *)
(* while the thread works makes it look once more.                         *)
(***************************************************************************)
PublishResumes ==
    advance.at = "idle" /\ mPubLedgerSeq < mValidLedgerSeq =>
        \E s \in mPubLedgerSeq + 1 .. mValidLedgerSeq :
            At(mValidLedger, s) \in acquiring \cup done \cup lost
=============================================================================
