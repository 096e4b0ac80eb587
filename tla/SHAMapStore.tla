----------------------------- MODULE SHAMapStore -----------------------------
(***************************************************************************)
(* Online deletion: the thread of SHAMapStoreImp that rotates the node     *)
(* store, the pair of backends it rotates (DatabaseRotatingImp), the state *)
(* database that names them on disk, and what a crash and a restart leave. *)
(*                                                                         *)
(* A ledger is the set of the nodes of its state tree.  Whoever builds the *)
(* next ledger stores the nodes its parent does not have; a reader fetches *)
(* single nodes; both hold on to the backends they looked up while the     *)
(* rotation goes on.                                                       *)
(***************************************************************************)
EXTENDS Integers

CONSTANTS
    Node,            \* the nodes of state trees, by their hash
    Backend,         \* bound: the directories a backend may live in
    NoBackend,       \* an empty path
    NoNode,          \* the reader fetches nothing
    DeleteInterval,  \* deleteInterval_
    Advice,          \* the values canDelete_ may have, set by the operator
    MaxSeq,          \* bound on the ledgers built
    MaxCrashes,      \* bound on the crashes
    MaxUnhealthy     \* bound on the rotations given up as unhealthy

ASSUME StoreAssumption ==
    /\ NoBackend \notin Backend /\ \E b, c \in Backend : b # c
    /\ NoNode \notin Node
    /\ DeleteInterval \in Nat \ {0}

VARIABLES
    content,      \* the nodes each backend holds
    disk,         \* the backends that have a directory
    saved,        \* the row of DbState: writable, archive, lastRotated
    trees,        \* the state trees of the ledgers to keep online, by sequence
    last,         \* the sequence of the last ledger built
    valid,        \* the sequence of the last validated ledger, saved
    writable,     \* writableBackend_
    archive,      \* archiveBackend_
    doomed,       \* the backends whose path is deleted when they close
    at,           \* where run() is; "down" and the start-up before it runs
    lastRotated,  \* the local of run()
    newLedger,    \* newLedger_: a sequence, 0 for none
    rotating,     \* validatedLedger in run(): its sequence and its tree
    visiting,     \* the nodes a visit has still to fetch
    newBackend,   \* newBackend in run()
    stop,         \* stop_
    writer,       \* the ledger being built: its tree, what is left to store
    reader,       \* a fetchNodeObject in progress
    crashes, unhealthy

disks == <<content, disk, saved>>
database == <<writable, archive, doomed>>
thread == <<at, lastRotated, rotating, visiting, newBackend>>
chain == <<trees, last, valid>>
faults == <<crashes, unhealthy>>
vars == <<disks, database, thread, chain, faults, newLedger, stop,
          writer, reader>>

(***************************************************************************)
(* The state tree of ledger l; before the first ledger there is nothing.   *)
(***************************************************************************)
Tree(l) == IF l = 0 THEN {} ELSE trees[l]

NoLedger == [seq |-> 0, tree |-> {}]

NoWriter == [tree |-> {}, left |-> {}, node |-> NoNode, into |-> NoBackend]

NoReader == [node |-> NoNode, at |-> "idle", w |-> NoBackend, a |-> NoBackend,
             since |-> {}]

Running == at \notin {"down", "paths", "open", "pair", "failed"}

(***************************************************************************)
(* rotateWithLock holds mutex_ from before it saves the new pair until the *)
(* pair has been exchanged: nobody looks the pair up in between.           *)
(***************************************************************************)
Unlocked == Running /\ at # "swap"

Held(b) ==
    \/ b = writer.into
    \/ reader.at # "idle" /\ b \in {reader.w, reader.a}

-----------------------------------------------------------------------------
(* The rotating database. *)

(***************************************************************************)
(* fetchNodeObject as the thread of run() calls it: it is the only one to  *)
(* rotate, so the pair stays the same for the length of its call.          *)
(***************************************************************************)
Fetched(n) ==
    IF n \notin content[writable] /\ n \in content[archive]
    THEN [content EXCEPT ![writable] = @ \cup {n}]
    ELSE content

(***************************************************************************)
(* fetchNodeObject of any other thread, a lookup at a time.                *)
(***************************************************************************)
fetchNodeObject(n) ==
    /\ Unlocked
    /\ reader.at = "idle"
    /\ reader' = [node |-> n, at |-> "writable", w |-> writable,
                  a |-> archive, since |-> Tree(last)]
    /\ UNCHANGED <<disks, database, thread, chain, faults,
                   newLedger, stop, writer>>

FetchWritable ==
    /\ reader.at = "writable"
    /\ reader' = IF reader.node \in content[reader.w] THEN NoReader
                 ELSE [reader EXCEPT !.at = "archive"]
    /\ UNCHANGED <<disks, database, thread, chain, faults,
                   newLedger, stop, writer>>

FetchArchive ==
    /\ reader.at = "archive"
    /\ reader' = [reader EXCEPT !.at =
                     IF reader.node \in content[reader.a]
                     THEN "found" ELSE "missing"]
    /\ UNCHANGED <<disks, database, thread, chain, faults,
                   newLedger, stop, writer>>

NotFound ==
    /\ reader.at = "missing"
    /\ reader' = NoReader
    /\ UNCHANGED <<disks, database, thread, chain, faults,
                   newLedger, stop, writer>>

RefreshWritable ==
    /\ reader.at = "found"
    /\ Unlocked
    /\ reader' = [reader EXCEPT !.at = "refresh", !.w = writable]
    /\ UNCHANGED <<disks, database, thread, chain, faults,
                   newLedger, stop, writer>>

StoreFetched ==
    /\ reader.at = "refresh"
    /\ content' = [content EXCEPT ![reader.w] = @ \cup {reader.node}]
    /\ reader' = NoReader
    /\ UNCHANGED <<disk, saved, database, thread, chain, faults,
                   newLedger, stop, writer>>

(***************************************************************************)
(* The next ledger is built on the last one: the nodes it shares with it   *)
(* are shared in memory, the others are new and are stored one by one.     *)
(***************************************************************************)
Build(tree) ==
    /\ Running
    /\ writer = NoWriter
    /\ last < MaxSeq
    /\ last <= valid
    /\ writer' = [NoWriter EXCEPT !.tree = tree, !.left = tree \ Tree(last)]
    /\ UNCHANGED <<disks, database, thread, chain, faults,
                   newLedger, stop, reader>>

store(n) ==
    /\ Unlocked
    /\ n \in writer.left
    /\ writer.into = NoBackend
    /\ writer' = [writer EXCEPT !.node = n, !.into = writable]
    /\ UNCHANGED <<disks, database, thread, chain, faults,
                   newLedger, stop, reader>>

StoreNode ==
    /\ writer.into # NoBackend
    /\ content' = [content EXCEPT ![writer.into] = @ \cup {writer.node}]
    /\ writer' = [writer EXCEPT !.left = @ \ {writer.node},
                                !.node = NoNode, !.into = NoBackend]
    /\ UNCHANGED <<disk, saved, database, thread, chain, faults,
                   newLedger, stop, reader>>

Built ==
    /\ writer.tree # {}
    /\ writer.left = {}
    /\ last' = last + 1
    /\ trees' = [l \in DOMAIN trees \cup {last + 1} |->
                    IF l = last + 1 THEN writer.tree ELSE trees[l]]
    /\ writer' = NoWriter
    /\ UNCHANGED <<disks, database, thread, valid, faults,
                   newLedger, stop, reader>>

-----------------------------------------------------------------------------
(* The thread of SHAMapStoreImp. *)

(***************************************************************************)
(* cond_.notify_one() wakes the thread only if it waits.                   *)
(***************************************************************************)
Notified == IF at = "waiting" THEN "woken" ELSE at

(***************************************************************************)
(* The ledger validates: it is saved, and handed to the thread.            *)
(***************************************************************************)
onLedgerClosed(l) ==
    /\ Running
    /\ l \in valid + 1 .. last
    /\ valid' = l
    /\ trees' = [k \in DOMAIN trees \ 1 .. l - DeleteInterval |-> trees[k]]
    /\ newLedger' = l
    /\ at' = Notified
    /\ UNCHANGED <<disks, database, lastRotated, rotating, visiting,
                   newBackend, last, faults, stop, writer, reader>>

onStop ==
    /\ Running
    /\ ~stop
    /\ stop' = TRUE
    /\ at' = Notified
    /\ UNCHANGED <<disks, database, lastRotated, rotating, visiting,
                   newBackend, chain, faults, newLedger, writer,
                   reader>>

\* Mutant: the stop is not looked at before waiting.
WaitAlways ==
    /\ at = "top"
    /\ at' = "waiting"
    /\ rotating' = NoLedger
    /\ UNCHANGED <<disks, database, lastRotated, visiting,
                   newBackend, chain, faults, newLedger, stop,
                   writer, reader>>

(***************************************************************************)
(* The top of the loop of run().                                           *)
(***************************************************************************)
Top ==
    /\ at = "top"
    /\ at' = IF stop THEN "stopped" ELSE "waiting"
    /\ rotating' = NoLedger
    /\ UNCHANGED <<disks, database, lastRotated, visiting,
                   newBackend, chain, faults, newLedger, stop,
                   writer, reader>>

(***************************************************************************)
(* cond_.wait(lock) has no predicate: it may return without a reason, and  *)
(* find a ledger that was handed over while the thread was at work.        *)
(***************************************************************************)
Spurious ==
    /\ at = "waiting"
    /\ newLedger # 0
    /\ at' = "woken"
    /\ UNCHANGED <<disks, database, lastRotated, rotating, visiting,
                   newBackend, chain, faults, newLedger, stop,
                   writer, reader>>

Woken ==
    /\ at = "woken"
    /\ rotating' = [seq |-> newLedger, tree |-> Tree(newLedger)]
    /\ newLedger' = 0
    /\ at' = IF newLedger = 0 THEN "top" ELSE "check"
    /\ UNCHANGED <<disks, database, lastRotated, visiting, newBackend, chain,
                   faults, stop, writer, reader>>

(***************************************************************************)
(* No operation on the database spans two rotations: rotations are whole   *)
(* delete intervals apart, a lookup and the store that follows are not.    *)
(***************************************************************************)
NoStraggler == doomed = {} /\ writer.into # archive

Check ==
    LET seq == rotating.seq
        first == IF lastRotated = 0 THEN seq ELSE lastRotated
    IN
    /\ at = "check"
    /\ lastRotated' = first
    /\ saved' = [saved EXCEPT !.lastRotated = first]
    /\ \E canDelete \in Advice :
          \/ /\ seq >= first + DeleteInterval
             /\ canDelete >= first - 1
             /\ NoStraggler
             /\ at' = "clear"
          \/ /\ ~(seq >= first + DeleteInterval /\ canDelete >= first - 1)
             /\ at' = "top"
    /\ UNCHANGED <<content, disk, database, rotating, visiting, newBackend,
                   chain, faults, newLedger, stop, writer, reader>>

(***************************************************************************)
(* clearPrior forgets the ledgers before lastRotated, in memory and in     *)
(* the SQL tables: not in the node store.                                  *)
(***************************************************************************)
clearPrior ==
    /\ at = "clear"
    /\ at' = "copy"
    /\ visiting' = rotating.tree
    /\ UNCHANGED <<disks, database, lastRotated, rotating, newBackend, chain,
                   faults, newLedger, stop, writer, reader>>

(***************************************************************************)
(* copyNode for a node of the validated ledger; freshenCache for a key of  *)
(* the caches.                                                             *)
(***************************************************************************)
copyNode(n) ==
    /\ at \in {"copy", "freshen"}
    /\ n \in visiting
    /\ content' = Fetched(n)
    /\ visiting' = visiting \ {n}
    /\ UNCHANGED <<disk, saved, database, at, lastRotated, rotating,
                   newBackend, chain, faults, newLedger, stop,
                   writer, reader>>

(***************************************************************************)
(* getKeys on the cache of tree nodes: a key stays as long as the node is  *)
(* in memory, so the nodes of the validated ledger, of the last one, and   *)
(* of the one being built as far as it is stored, are among them.          *)
(***************************************************************************)
InMemory == Tree(valid) \cup Tree(last) \cup (writer.tree \ writer.left)

\* Mutant: what is only in the caches is not brought to the writable backend.
FreshenNothing ==
    /\ at = "copy"
    /\ visiting = {}
    /\ at' = "freshen"
    /\ UNCHANGED <<disks, database, lastRotated, rotating, visiting,
                   newBackend, chain, faults, newLedger, stop,
                   writer, reader>>

freshenCaches ==
    /\ at = "copy"
    /\ visiting = {}
    /\ at' = "freshen"
    /\ \E others \in SUBSET (Node \ InMemory) :
          visiting' = InMemory \cup others
    /\ UNCHANGED <<disks, database, lastRotated, rotating, newBackend, chain,
                   faults, newLedger, stop, writer, reader>>

(***************************************************************************)
(* makeBackendRotating with an empty path makes a directory of its own.    *)
(***************************************************************************)
Unused == CHOOSE b \in Backend : b \notin disk

makeBackendRotating ==
    /\ at = "freshen"
    /\ visiting = {}
    /\ Backend \ disk # {}
    /\ newBackend' = Unused
    /\ disk' = disk \cup {Unused}
    /\ at' = "made"
    /\ UNCHANGED <<content, saved, database, lastRotated, rotating, visiting,
                   chain, faults, newLedger, stop, writer, reader>>

(***************************************************************************)
(* health() after every stage: stopping ends the thread, an unhealthy      *)
(* server gives this rotation up.                                          *)
(***************************************************************************)
health ==
    /\ at \in {"clear", "copy", "freshen", "made"}
    /\ newBackend' = NoBackend
    /\ visiting' = {}
    /\ \/ /\ stop
          /\ at' = "stopped"
          /\ UNCHANGED unhealthy
       \/ /\ ~stop
          /\ unhealthy < MaxUnhealthy
          /\ unhealthy' = unhealthy + 1
          /\ at' = "top"
    /\ UNCHANGED <<disks, database, lastRotated, rotating, chain, crashes, newLedger,
                   stop, writer, reader>>

\* Mutant: the archive that is about to be deleted is the one saved.
SaveOldArchive ==
    /\ at = "made"
    /\ ~stop
    /\ lastRotated' = rotating.seq
    /\ saved' = [writable |-> newBackend, archive |-> archive,
                 lastRotated |-> rotating.seq]
    /\ at' = "swap"
    /\ UNCHANGED <<content, disk, database, rotating, visiting, newBackend,
                   chain, faults, newLedger, stop, writer, reader>>

(***************************************************************************)
(* rotateWithLock: the new pair is saved, then taken over in memory.       *)
(***************************************************************************)
SaveRotated ==
    /\ at = "made"
    /\ ~stop
    /\ lastRotated' = rotating.seq
    /\ saved' = [writable |-> newBackend, archive |-> writable,
                 lastRotated |-> rotating.seq]
    /\ at' = "swap"
    /\ UNCHANGED <<content, disk, database, rotating, visiting, newBackend,
                   chain, faults, newLedger, stop, writer, reader>>

rotateWithLock ==
    /\ at = "swap"
    /\ doomed' = doomed \cup {archive}
    /\ archive' = writable
    /\ writable' = newBackend
    /\ newBackend' = NoBackend
    /\ at' = "top"
    /\ UNCHANGED <<disks, lastRotated, rotating, visiting, chain, faults, newLedger,
                   stop, writer, reader>>

\* Mutant: the directory goes while a reader still holds the backend.
CloseAtOnce(b) ==
    /\ b \in doomed
    /\ doomed' = doomed \ {b}
    /\ disk' = disk \ {b}
    /\ content' = [content EXCEPT ![b] = {}]
    /\ UNCHANGED <<saved, writable, archive, thread, chain, faults,
                   newLedger, stop, writer, reader>>

(***************************************************************************)
(* The last owner of a backend closes it, and its directory goes.          *)
(***************************************************************************)
close(b) ==
    /\ b \in doomed
    /\ ~Held(b)
    /\ doomed' = doomed \ {b}
    /\ disk' = disk \ {b}
    /\ content' = [content EXCEPT ![b] = {}]
    /\ UNCHANGED <<saved, writable, archive, thread, chain, faults,
                   newLedger, stop, writer, reader>>

-----------------------------------------------------------------------------
(* Crash and restart. *)

Forget ==
    /\ writable' = NoBackend
    /\ archive' = NoBackend
    /\ doomed' = {}
    /\ newLedger' = 0
    /\ rotating' = NoLedger
    /\ visiting' = {}
    /\ newBackend' = NoBackend
    /\ stop' = FALSE
    /\ writer' = NoWriter
    /\ reader' = NoReader

(***************************************************************************)
(* What the backends stored and what the state database committed is       *)
(* there after a crash; the rest of memory is not, nor the ledgers that    *)
(* were not yet validated and saved.                                       *)
(***************************************************************************)
Crash ==
    /\ at # "down"
    /\ at # "failed"
    /\ crashes < MaxCrashes
    /\ crashes' = crashes + 1
    /\ at' = "down"
    /\ Forget
    /\ lastRotated' = 0
    /\ last' = valid
    /\ trees' = [l \in DOMAIN trees \cap 0 .. valid |-> trees[l]]
    /\ UNCHANGED <<disks, valid, unhealthy>>

(***************************************************************************)
(* dbPaths removes every backend the state database does not name, and     *)
(* refuses to start without the ones it does name.                         *)
(***************************************************************************)
dbPaths ==
    LET named == {saved.writable, saved.archive} \ {NoBackend} IN
    /\ at = "down"
    /\ disk' = disk \cap named
    /\ content' = [b \in Backend |-> IF b \in named THEN content[b] ELSE {}]
    /\ at' = IF /\ named \subseteq disk
                /\ saved.writable = NoBackend <=> saved.archive = NoBackend
             THEN "paths" ELSE "failed"
    /\ UNCHANGED <<saved, database, lastRotated, rotating, visiting,
                   newBackend, chain, faults, newLedger, stop,
                   writer, reader>>

(***************************************************************************)
(* makeNodeStore opens the writable backend, then the archive; the first   *)
(* time it makes them, and saves their names at the end.                   *)
(***************************************************************************)
OpenWritable ==
    LET b == IF saved.writable = NoBackend THEN Unused ELSE saved.writable IN
    /\ at = "paths"
    /\ writable' = b
    /\ disk' = disk \cup {b}
    /\ at' = "open"
    /\ UNCHANGED <<content, saved, archive, doomed, lastRotated, rotating,
                   visiting, newBackend, chain, faults, newLedger,
                   stop, writer, reader>>

OpenArchive ==
    LET b == IF saved.archive = NoBackend THEN Unused ELSE saved.archive IN
    /\ at = "open"
    /\ archive' = b
    /\ disk' = disk \cup {b}
    /\ at' = "pair"
    /\ UNCHANGED <<content, saved, writable, doomed, lastRotated, rotating,
                   visiting, newBackend, chain, faults, newLedger,
                   stop, writer, reader>>

makeNodeStore ==
    /\ at = "pair"
    /\ saved' = [saved EXCEPT !.writable = writable, !.archive = archive]
    /\ lastRotated' = saved.lastRotated
    /\ at' = "top"
    /\ UNCHANGED <<content, disk, database, rotating, visiting, newBackend,
                   chain, faults, newLedger, stop, writer, reader>>

-----------------------------------------------------------------------------
Init ==
    /\ content = [b \in Backend |-> {}]
    /\ disk = {}
    /\ saved = [writable |-> NoBackend, archive |-> NoBackend,
                lastRotated |-> 0]
    /\ trees = [l \in {} |-> {}]
    /\ last = 0
    /\ valid = 0
    /\ writable = NoBackend
    /\ archive = NoBackend
    /\ doomed = {}
    /\ at = "down"
    /\ lastRotated = 0
    /\ newLedger = 0
    /\ rotating = NoLedger
    /\ visiting = {}
    /\ newBackend = NoBackend
    /\ stop = FALSE
    /\ writer = NoWriter
    /\ reader = NoReader
    /\ crashes = 0
    /\ unhealthy = 0

Thread ==
    \/ Top
    \/ Woken
    \/ Check
    \/ clearPrior
    \/ \E n \in Node : copyNode(n)
    \/ freshenCaches
    \/ makeBackendRotating
    \/ health
    \/ SaveRotated
    \/ rotateWithLock

Fetch ==
    \/ FetchWritable
    \/ FetchArchive
    \/ NotFound
    \/ RefreshWritable
    \/ StoreFetched

Start ==
    \/ dbPaths
    \/ OpenWritable
    \/ OpenArchive
    \/ makeNodeStore

Next ==
    \/ Start
    \/ Thread
    \/ Spurious
    \/ Fetch
    \/ StoreNode
    \/ Built
    \/ Crash
    \/ onStop
    \/ \E n \in Node : fetchNodeObject(n)
    \/ \E n \in Node : store(n)
    \/ \E tree \in SUBSET Node \ {{}} : Build(tree)
    \/ \E l \in 1 .. MaxSeq : onLedgerClosed(l)
    \/ \E b \in Backend : close(b)

Spec == Init /\ [][Next]_vars

-----------------------------------------------------------------------------
(***************************************************************************)
(* The last ledger built is in the node store, all of it, whatever the     *)
(* rotation has copied, exchanged and deleted so far: the nodes it shares  *)
(* with old ledgers are not lost with the archive they were stored in.     *)
(***************************************************************************)
LastLedgerStored ==
    Unlocked => Tree(last) \subseteq content[writable] \cup content[archive]

(***************************************************************************)
(* Whenever the process dies, dbPaths accepts what is on disk, and the     *)
(* pair of backends the state database names holds the last validated      *)
(* ledger: the server can restart from it.                                 *)
(***************************************************************************)
Restartable ==
    LET named == {saved.writable, saved.archive} IN
    /\ at # "failed"
    /\ \/ named = {NoBackend} /\ valid = 0
       \/ /\ named \subseteq disk
          /\ Tree(valid) \subseteq UNION {content[b] : b \in named}

(***************************************************************************)
(* fetchNodeObject finds every node of the ledger that was the last when   *)
(* it began, even when the backends it looked up are exchanged and deleted *)
(* between its two lookups.                                                *)
(***************************************************************************)
FetchFinds == reader.at = "missing" => reader.node \notin reader.since

(***************************************************************************)
(* onStop does not hang: nothing but onLedgerClosed and onStop wakes the   *)
(* thread, so it never goes to sleep when it has been told to stop, and    *)
(* its call of stopped() follows.                                          *)
(***************************************************************************)
StopHeard == stop => at # "waiting"
=============================================================================
