# A verification of bixd in TLA+

bixd is a server of a ledger that its validators agree on round by round.
This directory holds TLA+ models of the parts of it that decide which ledger
comes next, validate and publish it, run the server's jobs and stop them, and
rotate the node store; the TLC configurations that check them on small
instances; and proofs that TLAPS checks for all instances. The parts not
modelled are listed at the end. Paths are relative to `src/src/bixd`.

## The system

A *round* starts from a prior ledger. A node keeps its open ledger for a while,
closes it, and takes a *position*: a set of transactions and a close time.
Proposers send their positions to each other, argue about the transactions on
which they differ, and accept a ledger when enough of them hold the same
position. They build it, sign a *validation* for it, and start the next round
from it. A ledger with validations from a quorum of trusted validators is
final. A node that finds the network on another ledger switches to that one.

| Part | Code | State | Operations | Who calls it |
|---|---|---|---|---|
| Close times | `consensus/LedgerTiming.h` | close time, resolution of each ledger | next resolution, rounding, effective close time | engine, accept job |
| Disputes | `consensus/DisputedTx.h` | votes of the peers, two counters, our vote | setVote, unVote, updateVote | engine |
| Engine | `consensus/Consensus.h`, `.cpp` | phase, mode, prior ledger, our result, positions of the peers, sets | startRound, peerProposal, gotTxSet, timerEntry, simulate | heartbeat timer, peer messages, accept job |
| Trie | `consensus/LedgerTrie.h` | compressed tree of the validated ledgers | insert, remove, tipSupport, branchSupport, getPreferred | Validations |
| Validations | `consensus/Validations.h`, `app/consensus/RCLValidations.cpp` | newest validation of each validator, all by ledger, enforcers, trie, ledgers awaited | add, trustChanged, queries, expire | peer messages, engine, accept job, sweep |
| Adaptor | `app/consensus/RCLConsensus.cpp` | whether we validate, last close | doAccept, propose, validate | engine |
| Ledger master | `app/ledger/impl/LedgerMaster.cpp` | validated, published and building ledgers, ledgers at hand | checkAccept, consensusBuilt, switchLCL, tryAdvance, doAdvance | validation jobs, accept job, acquisitions |
| Network operations | `app/misc/NetworkOPs.cpp` | operating mode, the network's ledger | beginConsensus, endConsensus, checkLastClosedLedger | timers, jobs |
| Job queue | `core/impl/JobQueue.cpp`, `Workers.cpp`, `core/Coro.ipp`, `ClosureCounter.h` | jobs, limits, workers, suspended coroutines | addJob, postCoro, processTask, yield, resume | every part |
| Shutdown | `core/impl/Stoppable.cpp` | how far stopping has come | stop, stopped, onChildrenStopped | main thread |
| Online delete | `app/misc/SHAMapStoreImp.cpp`, `nodestore/impl/DatabaseRotatingImp.cpp` | writable and archive backend, state database | onLedgerClosed, run, rotateWithLock, fetchNodeObject, store | publishing thread, everyone who reads or builds ledgers |

The remaining parts (details of acquisition, open ledger and transaction queue,
votes on amendments, fees and the negative UNL, validator lists, overlay,
transactors and so on) are the components of `PROJECT.json`, each with the
reason why it stays out.

What makes this code hard to test:

- The engine's handlers run under one mutex, but any sequence of proposals,
  sets, timer ticks and changes of the network's ledger may reach it, and one
  handler may start the round over from inside a timer tick.
- Disputes, votes, our set and the counters are separate state that has to
  agree after each of these orders.
- Ledgers arrive long after the validations for them; meanwhile the validator
  may have validated another one, become stale, or lost and regained trust.
- Validations, acquisitions, the accept job and the publishing thread meet in
  `LedgerMaster`, which holds its lock for short stretches only.
- A stopping server waits for jobs, coroutines and workers that wait for each
  other.
- A rotation of the node store copies, saves, exchanges and deletes while
  ledgers are built and read, and may crash between any two of these.
- Thresholds are integer percentages, rounded times and half-open spans.

`PROJECT.json` lists these hazards at the lines where they bite, with the
properties that would catch them.

## The modules

| Module | Models | Uses |
|---|---|---|
| `LedgerTiming` | resolution table, rounding, effective close time, as operators | |
| `LedgerChain` | the chain of accepted ledgers' close times (`doAccept`) | `LedgerTiming` |
| `ConsensusRules` | thresholds and decisions without state: `shouldCloseLedger`, `checkConsensus`, `neededWeight`, `shouldPause`, `NextVote` | |
| `DisputedTx` | one dispute with its counters | `ConsensusRules` |
| `Consensus` | the engine | `ConsensusRules`, `LedgerTiming`, `Counting` |
| `ValidatedLedger` | ancestry of a ledger, as far as its skip list goes | |
| `LedgerSupport` | abstract: a count of validations for each ledger, and the preferred ledger by a walk over single ledgers | `ValidatedLedger` |
| `LedgerTrie` | the compressed trie; implements `LedgerSupport` | `ValidatedLedger`, `LedgerSupport` |
| `SeqEnforcer` | a validator's sequences must increase, until the last is forgotten | |
| `Validations` | the validations received and the trie they feed | `LedgerSupport`, `SeqEnforcer` |
| `LedgerMaster` | the node: validations, acquisitions, consensus rounds and the publishing thread around `LedgerMaster` | `ValidatedLedger`, `Counting` |
| `JobQueue` | job queue, workers, coroutines with path requests, and the way the server stops | |
| `SHAMapStore` | online delete: rotation thread, rotating database, state database, crash and restart | |
| `Counting` | what the proofs need of the sizes of the subsets of a finite set | |
| `RoundProofs` | theorems about `DisputedTx` and `LedgerChain`; finite sets have what `Counting` says | these two, `Counting` |
| `ConsensusProofs`, `ConsensusStepProofs` | theorems about `Consensus`: its states, and its steps | `Consensus` |
| `JobQueueProofs`, `JobQueueStopProofs` | theorems about `JobQueue`; the second needs the coroutines and the stages of a stop | `JobQueue` |
| `ValidationsProofs`, `LedgerMasterProofs`, `SHAMapStoreProofs` | theorems about the module they are named after | that module |
| `MC*` | constants and symmetry for TLC | the module checked |

The parts meet in these places. `Consensus` sees a dispute as two sets of
peers, and `DisputedTx` shows that the counters are their sizes. `Validations`
sees the trie as counts per ledger, and `LedgerTrie` is checked to implement
them. `LedgerMaster` sees a round of `Consensus` by what it does to the ledgers:
it closes, is started over on another ledger, builds one, ends. `JobQueue` and
`SHAMapStore` stand alone.

Definitions have the names of the code. An action is the whole of a method
under its mutex. A definition whose comment starts with *Mutant* is a
plausible mistake in the definition after it; no specification uses it. Each
property of a passing run is violated by one of the mutants listed in
`PROJECT.json`.

### LedgerTiming and LedgerChain

`getNextLedgerTimeResolution`, `roundCloseTime` and `effCloseTime` are
operators. `LedgerChain` applies them as `RCLConsensus::Adaptor::doAccept`
does: a round ends with an agreed close time, which is rounded and moved after
the parent's, or without one, when the close time is the parent's plus a
second. The chain has no bound and is proved about, not run.

### DisputedTx

`votes` is `votes_`, with `yays` and `nays` beside it; `ourVote` and the
percentage of the round's time that has passed complete the state. `setVote`,
`unVote` and `updateVote` follow the methods. Time only advances.

### Consensus

`startRound` and `timerEntry` call each other: `startRoundInternal` ends in a
timer tick, whose `checkLedger` may call `startRoundInternal` again. While they
run they ask the adaptor for the network's ledger, which may have changed. So a
handler takes several steps: `pc` says where it is, `frames` how many
activations of `timerEntry` are on the stack, and `replay` which remembered
proposals `playbackProposals` has still to process. `PeerProposal`, `gotTxSet`
and `simulate` are single steps. Between the steps of a handler only
`NetworkSwitches` is possible, as the mutex demands.

| State | Code |
|---|---|
| `phase`, `mode`, `prevLedgerID`, `previousLedger` | the members of the same name |
| `state` (with `"None"` for no result), `position`, `disputes`, `compares`, `roundStart` | `result_` and its fields |
| `currPeerPositions`, `recentPeerPositions`, `deadNodes`, `acquired` | the members of the same name |
| `proposed` | the last proposal given to the adaptor |
| `netLedger`, `openParent`, `clock` | what `getPrevLedger`, the open ledger and the clock say |

A transaction set is its own identifier. The answers of the adaptor that other
parts decide are nondeterministic: whether a ledger is at hand, how many peers
validated or finished, what `shouldPause` sees. Network time and steady time
are one clock. `shouldPause` compares floats and subtracts unsigned numbers;
the model multiplies out and subtracts integers, and its views have no quorum
above the number of validators. The histogram of raw peer close times and the
number of proposers in the result are only reported and are left out.

### ValidatedLedger, LedgerSupport and LedgerTrie

`History` gives each ledger id the ids of its ancestors and of itself, and
`Depth` how many ancestors a ledger knows, 256 in the code. `At` is
`operator[]`, and `mismatch` the first sequence at which two ledgers may
differ. Ids are ordered numbers because ties are broken by them.

`LedgerTrie` keeps the tree as nested nodes with a span, tip and branch support
and a sequence of children, whose order the code's partial sort depends on.
`insert` splits a node where the ledger leaves its span, `remove` merges or
erases nodes. `getPreferred` walks the spans as the code does. `LedgerSupport`
says what this amounts to: a bag of ledgers, and a walk from ledger to ledger
along children that can no longer be overtaken.

### Validations

| State | Code |
|---|---|
| `current_`, `byLedger_`, `seqEnforcers_`, `toKeep_`, `lastLedger_`, `acquiring_` | the members of the same name; times of the aged map are `when` |
| `support` | `trie_` |
| `arriving` | the validation whose signer's trust `handleNewValidation` has looked up |
| `trusted`, `changes` | the trusted keys of `ValidatorList`, and the `TrustChanges` that `beginConsensus` is about to hand over |
| `ledgers` | ledgers that can be found by hash |
| `crossed` | history: the validators with a validation that crossed a change of their trust |
| `events` | how many validations arrived and lists changed, up to `MaxEvents` |

`add` and `trustChanged` come one step after the look-up of the trust and the
change of the list, since no lock covers both, and the two sequences interleave
in any way. A validation *crosses* a change of trust (`Crosses`) when `add` takes
it with a mark that differs from those of the signer's stored validations: the
trust was looked up before a change that is done by now, or after one that
`trustChanged` has not yet applied. `NewestCounted`, `WaitsForNewest` and
`TrustAgrees` fail for such a signer ("Also met" below); they are stated for all
others, so that what they show is how far the damage goes. Hash maps are visited
in any order.

Left out: `bySequence_`, which only sorts rejected validations into kinds for a
log line; cookies and the full flag; `flush`, which nothing but tests calls;
what `getPreferred` does with the trie's preferred tip, and the peer counts of
`getPreferredLCL`.

### LedgerMaster

| State | Code |
|---|---|
| `mValidLedger`, `mLastValidLedger`, `mBuildingLedgerSeq`, `mPubLedger`, `mAdvanceWork` | the members of the same name |
| `advance` | `mAdvanceThread`, where `doAdvance` is, and the locals of `findNewLedgersToPublish` |
| `have`, `acquiring`, `failed`, `done` | `mLedgerHistory`; the acquisitions of `InboundLedgers` under way, and those listed there as failed; the jobs `InboundLedger::done` has queued |
| `lost` | history: the ledgers whose acquisition was given up or swept, and that were not acquired since |
| `received` | the trusted validations, by validator |
| `call` | the `checkAccept(hash, seq)` each thread is in, between its comparisons and its look-up |
| `round`, `prev` | where the accept job is, and the ledger the round builds on |

Four kinds of threads take steps: jobs that handle a validation, the accept job
(`doAccept` to `endConsensus`), jobs at the end of an acquisition, and the
publishing thread. A step is a stretch under `m_mutex`, or a read between two
of them. The reads of `Compare` are one step. The engine may start a round over
on another ledger at hand at any time (`startRound`) and asks for a ledger it
lacks (`acquireLedger`); such a ledger is one that some validator validated,
which leaves out the peers' closed ledgers that `getPreferredLCL` falls back on
and ancestors on which the support splits. A round started over leaves
`mBuildingLedgerSeq` at the sequence given up, as the code does.

An acquisition completes (`Acquired`), is given up by its timer (`GiveUp`), or is
forgotten (`sweep`, which also stands for `clearFailures`). While one that failed
is listed, `acquire` starts no other for its ledger. A failure wakes nobody: the
publishing thread looks again when the next ledger is validated or acquired.

Assumed or left out: the tests of `canBeCurrent` on close times pass; the list
of validators, the negative UNL and the quorum do not change; validations are
full; an acquisition does not find its ledger in the local store at once, nor
complete after it was swept, and when it fails is any time; no ledger replay, history, shards or path
finding, of which only whether they made progress is left; no mismatch in
`LedgerHistory`; no standalone mode, and no restart, after which a validator's
own `SeqEnforcer` would be empty.

### JobQueue

| State | Code |
|---|---|
| `jobSet`, `lastJob`, `processCount`, `nSuspend` | `m_jobSet`, `m_lastJob`, `m_processCount`, `nSuspend_` |
| `waiting`, `running`, `deferred` | the counters of `JobTypeData` |
| `semaphore`, `pauseCount`, `activeCount`, `allPaused` | the members of `Workers` |
| `closureCount`, `waitForClosures` | `ClosureCounter` |
| `stopper`, `stopEntered`, `childrenStopped`, `isStopping` | how far `RootStoppable::stop` and the destructors have come, and the flags of `Stoppable` |
| `at`, `job` | where each thread is, and its job |
| `coro`, `mutex_`, `request` | each coroutine, who holds its `mutex_`, its path request |

A coroutine runs `ripple_path_find`, the one handler that yields. It lists its
request and adds a job for it (`newPFWork`), yields, and is resumed by the
continuation that the job calls when the path is found. `m_mutex` of
`LedgerMaster`, which `newPFWork` holds and `updatePaths` needs, is
`PathLockFree`. A coroutine that returned may be called again (`overrun`): the
code asserts that it is not, and in a release build the call is undefined, so
the properties say nothing after it.

Left out: the start of the workers and changes of their number; the age of the
ledger, `isNeedNetworkLedger` and the limit of two on path-finding jobs, all of
which only delay a request; load events. When the children have stopped, their
threads are taken to be idle.

### SHAMapStore

| State | Code |
|---|---|
| `content`, `disk` | what each backend holds, and which have a directory |
| `saved` | the row of the state database (`SavedState`) |
| `writable`, `archive`, `doomed` | `writableBackend_`, `archiveBackend_`; backends with `setDeletePath` |
| `at`, `lastRotated`, `newLedger`, `rotating`, `visiting`, `newBackend`, `stop` | where `run` is, its locals, `newLedger_`, `stop_` |
| `writer`, `reader` | a ledger being built and flushed; a `fetchNodeObject` in progress |
| `trees`, `last`, `valid` | the state trees of the ledgers, the last built, the last validated |

A ledger is the set of the nodes of its state tree. A thread that stores or
fetches takes the backends it looked up with it, and a doomed backend closes
when nobody holds it. `Crash` keeps `content`, `disk` and `saved`, loses the
rest, and the next start goes through `dbPaths` and `makeNodeStore`.

Assumed or left out: what a backend has stored survives a crash; no store or
fetch spans two rotations (`NoStraggler`), which are a whole `online_delete`
interval apart; nodes of ledgers in memory are in the
tree node cache; the operator's `can_delete` has any value of `Advice` at each
check. SQL tables, `minimumOnline`, `rendezvous`, the full-below cache and
transaction maps, which a rotation does not copy, are not modelled.

## What TLC checks

Deadlock is checked in the runs of the trie, the disputes and the validations.
In the engine, the node, the job queue and the store the bounds, or the end of
the server, make a behaviour stop, so their configurations switch the check
off; that phases end and that stopping ends is checked as liveness instead.

| Run | Instance | Shows |
|---|---|---|
| `disputed_tx` | five peers, a time on both sides of each threshold | our vote changes only to one that some peer casts, and a transaction given up is not taken back while the votes stay |
| `consensus_vote` | two peers, two transactions, three messages, one round | every difference with a known set is disputed, votes are those of the peers' current positions, our set holds what we vote for, our proposals supersede each other, a set accepted as agreed has 80% of the participants and an accepted close time 75%, an accepted result is frozen |
| `consensus_switch` | two peers, two prior ledgers, two switches at any step, two rounds, two messages; also standalone rounds, started and simulated in any order | a result exists in the establish phase and not in the open phase; peers, mode and proposals are on one ledger; a leaving proposer says so; no way back before the next round |
| `consensus_live` | one peer, one switch and one message until the network goes quiet at 10 s of 40, pauses | open and establish phases end |
| `ledger_trie` | six ledgers on three branches, four validations at a time, skip lists that just cover the ancestry | the trie is compressed and its sums are right, support of ledgers and branches is exact, it implements `LedgerSupport`, it prefers what the walk over single ledgers prefers, and a validator that goes on to a descendant does not move the preference to another branch |
| `validations` | two validators, trusted at the start, two rival ledgers, four validations and changes of trust between them, interleaved in any way, two ticks, enforcers that expire | the trie counts the last ledgers; but for validators whose validations crossed a change of their trust, the newest validation is counted or awaited, nothing else is awaited, and marks agree with the list; rival validations for a sequence are both stored only if the first had expired |
| `node` | five ledgers on two branches, four validators with a quorum of two, two rounds, one validation handled at a time beside the accept job, the acquisitions, one of which fails, and the publishing thread | no ledger more than a quorum agrees on is overlooked after a round; what is published was validated; in order and without holes but for the gap rule; the thread stops short only for a ledger that is being acquired or was given up |
| `job_queue` | two workers, one client with a job, two coroutines, two types with a limit of one, stopping at any time | limits hold and nothing is deferred below them; a woken worker finds a job; the queue drains again and again; a queue that reports it stopped is quiet; stopping ends, unless a coroutine was stranded or called after its return |
| `online_delete` | two tree nodes, four ledgers, three rotations, one crash, one rotation given up, one reader of any node | the last ledger is stored; a fetch finds the nodes of the ledger that was the last when it began; after a crash the pair named in the state database is there and holds the validated ledger; a stop is heard |
| `untrusted_support` | one validator, two rival ledgers | violated, see below |
| `stop_hang` | two workers, one coroutine | violated, see below |
| `exact_quorum` | as `node` | violated, see below |

### Why the bounds are enough

Two peers make every pair of orders between proposals, sets and withdrawals.
Two transactions make a position gain one and lose one. Two
prior ledgers and two switches take the network away and back within one
handler. The clock of the engine moves in steps of 10 or 15 s, so each step
passes the short thresholds (2 s to close, 1.95 s to agree), and 30 to 40 s in
all pass the long ones (10 s for a pause, 15 s idle, 20 s of freshness). The
remembered proposals are bounded by 1 instead of 10; the proof is for any
bound. In the trie, a ledger with two children, one on the same level without
children, and four validations reach the splits in the middle and at the end
of a span, the merge with an only child and the erasure of a leaf. `Depth` is
2, so that the oldest ancestor is the last one known; past that depth the
support reported is not exact (see below). For validations, one signed
at the first tick is stale at the second, and may be signed for the second when
it arrives in the first; none is signed too far in the future. Four events are
enough for a validator that waits for one ledger, validates another while it
loses its trust, and regains it.

For the node, the chain 1, 2, 4, 5 with the rival 3 of 4 lets it build what the
others do not; validations of 2 are lost, so that a node that did not build
2 acquires it only to publish it, and its acquisition may fail; with a gap of two
and a fetch size of two the gap rule, the limit on acquisitions and holes in the
list all happen. More than a quorum needs three
validators besides ourselves. For the job queue, a limit of one makes jobs
deferred, and two coroutines let a path-finding job of the one pick up the
request of the other. For the store, the second rotation is the first one that
deletes a backend with ledgers in it, and a third can follow.

### Fairness

`Consensus` assumes that time passes and that the timer fires again and again
(`NetworkOPsImp::setHeartbeatTimer` rearms it on every heartbeat), and that a
handler that runs takes its steps. Time gets strong fairness, because it is not
enabled while a handler holds the mutex. Peers need not send anything; the
network switches and sends at will until `QuietClock` and then is quiet, as no
phase has to end while proposals keep changing. `JobQueue` assumes that the
operating system runs every thread, worker, client or the one that stops the
server, whenever it can take a step (weak fairness); nothing obliges a client to
add a job or the server to stop.

### Where the code and its comments differ

Three runs end in a violation, and `PROJECT.json` has a finding for each, with
the comment it quotes.

- `untrusted_support`: `trustChanged` takes a validator that is no longer
  trusted out of the trie by its *current* validation. If that one still waits
  for its ledger, the trie counts the validator for an earlier ledger, and goes
  on counting it.
- `stop_hang`: `updatePaths` stops without serving requests once the server is
  stopping, and a coroutine that has yielded for its path is never resumed; the
  stop waits for it for ever.
- `exact_quorum`: when a round ends, `consensusBuilt` looks for another ledger
  with *more* than the needed validations, where `checkAccept` needs that many.
  In the run the node has a ledger whose quorum is completed by a validation
  that arrives while its sequence is being built, and is therefore not looked
  up. `consensusBuilt`, called for another ledger, leaves it unvalidated.

Also met while modelling, without a run of their own:

- `RCLValidations.cpp:161` looks the trust of the signer up before `add`
  (line 187) takes the lock, while `NetworkOPs.cpp:1783-1791` changes the list
  and calls `trustChanged`. A validation that crosses the change may keep a mark
  that is not its signer's; the newest trusted validation may be neither counted
  nor awaited; and a ledger may be awaited in the name of a validator that is
  not trusted or has gone on. With `Node` in place of `Node \ crossed`, TLC finds
  each of `TrustAgrees`, `NewestCounted` and `WaitsForNewest` violated; as they
  stand, they say that no other validator is affected.
- `SHAMapStoreImp.cpp:382` says a rotation "will delete up to (not including)
  lastRotated", and `cfg/bixd-example.cfg:1602-1603` recommends a value "to
  delete old ledgers while maintaining at least 512". That holds of the SQL rows.
  In the node store a rotation copies the state of one ledger, the validated
  one. A node that the ledgers since `lastRotated` use and that one does not,
  stored before the previous rotation, goes with the archive, unless it was
  fetched or cached in between.
- `SHAMapStoreImp.cpp:366`: a ledger handed over during a rotation stays in
  `newLedger_` until the next one wakes the thread. A directory made for a
  rotation that is then given up stays until the next start.
- `SHAMapStoreImp.h:168-169` says of `getLastRotated` that all ledgers prior to
  it are eligible for deletion in the next rotation; `SHAMapStore.h:63-65` calls
  it the maximum ledger that has been deleted, or will be.
- `Coro.ipp:106`: a thread that finds paths and picked up the request of a
  second coroutine may resume it after it has returned, when its own request was
  refused because the server stops; the assertion is all that catches it.
- `LedgerMaster.cpp:1255`: `consensusBuilt` counts current validations, so a
  validator that has gone on to a later ledger no longer counts for this one,
  though `checkAccept` would count it.
- `LedgerMaster.cpp:1020`: after a round was started over on another ledger,
  validations of the sequence given up are still only counted, until the next
  ledger is built.
- `Validations.h:365` has the effect of `untrusted_support` also for a
  validation that goes stale while it waits.
- `Validations.h:159` compares the time a validation was seen with a time in
  the future, so a validation does not age by it, as lines 57-58 say it does.
- `Validations.h:812`: with an empty trie, `getPreferred` returns the ledger
  most waited for without asking whether it is an ancestor of the working one.
- `LedgerTrie.h:592`: past the 256 ancestors a ledger knows, a ledger can have
  two nodes, and `tipSupport` reports one.
- `Consensus.h:1031`: if the network returns to the ledger we have, the mode
  stays `wrongLedger` until the next round.
- `Consensus.h:893`: a simulated round is accepted with a result of `No`.

## What is proved

The theorems hold for every value of the constants that satisfies the named
assumptions: any finite set of peers or validators, any sets, ledgers and
times, any bound. The assumptions (`ConsensusAssumption`, `PeerAssumption`,
`PercentAssumption`, `PeersCounted`, `LedgerAssumption`, `ValidationsAssumption`,
`JobAssumption`, `MasterAssumption`, `ValidatorsCounted`, `StoreAssumption`) give
the constants their types, and a ledger's history the shape of a chain; the
values that stand for "none" are not among the real ones, and the store has two
backends. `PeersCounted` and `ValidatorsCounted` say of the sizes of the subsets
of a finite set what `CountsWhenFinite` in `RoundProofs` proves of every finite
set: the proofs that rest on them do without `FiniteSetTheorems`, with which in
scope the prover takes twice the time. TLC evaluates the assumptions in the runs
of their modules.

Of the properties the passing runs check, the proofs leave out those of the
trie, the liveness properties and `LeavesAloud`.

**Disputes and close times** (`RoundProofs`). The counters of a dispute are the
cardinalities of the sets of votes; the proof follows how one vote added,
changed or withdrawn changes the cardinality. That a transaction given up is not
taken back while the votes stay needs two facts: the needed weight never falls
as time advances (`NeededWeightRises`), and our own vote only adds to the weight
(`OwnWeight`). The table of resolutions is closed under the step to the next,
rounding moves a time by at most half a resolution and is idempotent, and the
effective time is after the prior one. From these lemmas: a ledger closes after
its parent, and an agreed time is a multiple of the resolution or directly
follows the parent's.

**Engine** (`ConsensusProofs`). None of the invariants is inductive alone. The
inductive invariant is

    IInv == TypeOK /\ Control /\ Disputed /\ PeersOnOurLedger

`Control` ties together where a handler is, the phase, the mode, the two prior
ledgers and what was proposed: for example, a prior ledger other than the
network's shows in the mode, or a switch is under way; and a proposer's last
proposal of the round is not newer than its position. `Disputed` says what
`createDisputes` relies on: it is skipped for sets compared before, with an
older position of ours, and still every difference with such a set is disputed,
since our position only changes on transactions under dispute. Each
action has a lemma that it keeps `IInv`, on lemmas on what `createDisputes`,
`updateDisputes`, `setVotes`, `unVotes` and `updateVotes` do to any disputes.
From `IInv`: `TypeOK`, `DisputesComplete`, `VotesFaithful`,
`PositionMatchesVotes`, `StanceMatchesPhase`, `PeersOnOurLedger`,
`WrongLedgerKnown` and `ProposingOnOurLedger`.

**Engine steps** (`ConsensusStepProofs`). With `IInv` as premise: proposals
supersede each other, a node off its ledger stays off until the next round,
and an accepted result does not change until then. `AcceptInv` adds what holds in
the accepted phase; the lemma `PercentExact` shows that an integer percentage
of at least 80 means a fraction of at least 80%, so the share holds for any
number of participants. That an accepted round was decided is proved for a node
with a network; a simulated round is not decided. `AcceptedCloseTime` follows
`updateOurPositions`: `haveCloseTimeConsensus` is decided from a histogram that
still holds our old position, so the proof compares the histogram with the
positions after ours has moved to the time that won.

`LeavesAloud` is no theorem for every `SeqLeave`: `changePosition` counts
`proposeSeq` up, and a position whose count has reached `seqLeave` looks as if it
had bowed out, so that `bowOut` announces nothing. The code has 2^32 - 1 for
`seqLeave`, which no round reaches. `LeavesAloudUnlessSpent` says exactly this: a
proposer that leaves announces it unless its count is spent.

**Validations** (`ValidationsProofs`). `OneLedgerPerSeq` needs the enforcer
tied to the stores: every stored validation's sequence is at most what its
signer's enforcer holds, or has expired (`StoresCovered`). `TrustAgrees` needs
what holds between `updateTrusted` and `trustChanged` (`MarksInv`): the marks of a
validator outside `crossed` agree with the list before the change (`Before`).
All of them are proved for every interleaving of the look-up of a signer's
trust, `add`, `updateTrusted` and `trustChanged`.

`TrieAccounts` is about every validator, `NewestCounted` and `WaitsForNewest` about
those outside `crossed`. `checkAcquired`, `trustChanged` and the queries that drop stale
validations loop over hash maps, in any order; the models fold over sets and
sequences. Their loops are proved about by induction from the least number
principle (`Least`, `Induct`), in the form of `LoopInduction`: what the start
satisfies and each round keeps holds of the result. `Tracks` is what every
round keeps, for the newest validations `cur`: the trie's counts are the numbers
of validators with that last ledger, a last ledger is one that was acquired,
and each validator outside `crossed` that `cur` has trusted is counted for its
ledger or awaits it, and awaits nothing else. Each operation on the trie (`updateTrie`, `removeTrie`, `Arrive`)
moves one validator and keeps `Tracks` for `cur` with the validator's entry
changed; `VisitTracks` does the same for `trustChanged`, and `CrossingTracks` for a
validation that crosses a change, after which nothing is claimed of its signer
but the trie's counts.

**Job queue** (`JobQueueProofs`, `JobQueueStopProofs`). `WithinLimits` is
inductive with the types of the counters: of a type's jobs, those that wait
without being deferred or run never exceed the limit, `queueJob` defers exactly
when they reach it, and `finishJob` revives a deferred job in the place of the
one that ends. For the others, `IInv` says what the threads' counters count.
Each token of the semaphore and each worker it has woken stands for a job let
through or for a request to pause, so a woken worker finds one; `closureCount`
counts the closures being added, queued or not yet destroyed; `processCount` the
workers with a job; `nSuspend` the coroutines started and not returned, less the
threads inside them. A step moves one thread, one job or one coroutine
(`Moves`), and the counting lemmas turn that into a change by one. `Coroutines`,
`PlainJobs` and `Private` say whose a coroutine is while it is created, posted
and resumed, and `Stages` what has become empty at each stage of a stop; from
these, `StoppedIsQuiet`. Once a coroutine was called after its return
(`Overrun`), nothing is claimed of `nSuspend` and of the coroutines.

**Node** (`LedgerMasterProofs`). `PublishedInOrder` needs what the publishing
thread carries over the stretches without the lock (`ListInv`): the list it
collected continues the published ledger without a hole, or holds only the
ledger that is already the published one, as `findNewLedgersToPublish` leaves it
at the start and after a gap; and nothing else moves the published ledger.
`PublishResumes` adds `ResumeInv`: while nothing has set `mAdvanceWork` since
the top of the loop, the validated ledger is the one the loop works on, and the
first ledger it did not find is being acquired, its job is queued, or it is in
`lost`. What `acquire` refuses is in `lost` too (`FailedInv`: a listed failure was
given up, and is not under way).
`PublishedBacked` adds `BackInv`: the validated ledger has a quorum, or was
loaded and published when it was; what the thread has collected are ancestors of
a validated ledger. These hold for every chain, quorum, gap and fetch size
and any number of validators, rounds and validations.

`NoneOverlooked` is proved for a quorum of at least half of the validators
(`Majority`). With that, no two ledgers can each have *more* than a quorum of
current validations, so the one ledger that `consensusBuilt` takes up is the
only one; afterwards each validation makes a call of its own, and `WatchInv`
says that nothing is being built for whose sake such a call would ignore it.
`ValidatorList::calculateQuorum` has a minimum of 60% of the validators
(`app/misc/impl/ValidatorList.cpp:1757`); the hypothesis leaves out the quorum
that can be given on the command line, which the code calls unsafe.

**Store** (`SHAMapStoreProofs`). The inductive invariant has the types, that
ledgers are built one after the other (`Chain`), and four parts. `Pair`: the two
backends in memory are on disk, different, and not about to be deleted. `Named`:
what the state database names at each place of the start and of a rotation.
`Stored`: all nodes of the ledgers in memory are in the pair, and from
`freshenCaches` on what it has still to visit is all that may be missing from
the writable backend, so that exchanging the archive loses nothing.
`Reading`: the backends a fetch has still to look up hold the node if the last
ledger had it when the fetch began. From these, all four safety properties, for
any number of nodes, backends, rotations and crashes.

### Only model-checked

- Liveness, with the fairness it needs: `ENABLED` is out of the provers' reach.
- What the trie computes, and that it implements `LedgerSupport`. `LedgerTrie`
  is recursive over nested nodes by `RECURSIVE` operators, in whose presence
  the SMT backend is not available.
- `LeavesAloud` as it stands, for the reason above.
- The three properties that runs violate.

## Not modelled

`PROJECT.json` lists every part with its reason. In short:

- Details of ledger acquisition (timers, retries, late data), manifests and
  validator lists, votes at flag ledgers, the open ledger, the transaction queue
  and the views are state machines of their own, within reach of TLC, and not
  done. They are the natural next modules: an acquisition that refines the one
  step of `LedgerMaster`; the map from signing to master keys under manifests in
  any order; the votes on amendments and the negative UNL over flag ledgers.
- Two or more whole nodes that exchange proposals and validations are beyond
  explicit states with the engine as detailed as here.
- The node store's backends, SQL and sockets are libraries and I/O.
- Payment paths and offers compute with wide mantissas; encodings and parsers
  have no state; cryptography and RPC replies are not about order or time.

Proofs that would come next: the trie, rewritten with recursive functions, for
which the induction of `ValidationsProofs` would serve.

## Running

    tlc -config MCValidations.cfg MCValidations
    tlapm ConsensusProofs.tla

Each run takes from a few seconds to two minutes. From nothing, the proofs of
`RoundProofs` take half a minute, those of the other modules from two to twelve
minutes each. A leaf that only Zenon proves, or that it proves faster, names it:
an SMT attempt that runs out of time leaves a solver behind that goes on taking
memory.
