-------------------------- MODULE SHAMapStoreProofs --------------------------
(***************************************************************************)
(* The node store loses nothing that is needed, for any number of nodes,   *)
(* backends, rotations, crashes and rotations given up.                    *)
(*                                                                         *)
(* The argument: everything in memory (InMemory: the validated ledger, the *)
(* last one, and what is stored of the next one) is in the pair of         *)
(* backends; from the moment freshenCaches has listed the keys, what it    *)
(* has still to visit is all of it that may be missing from the writable   *)
(* backend; so when the archive is exchanged, nothing in memory depends on *)
(* it.  The state database names, at every step, a pair that is on disk    *)
(* and holds the validated ledger.                                         *)
(***************************************************************************)
EXTENDS SHAMapStore, TLAPS

Path == Backend \cup {NoBackend}

DiskTypes ==
    /\ content \in [Backend -> SUBSET Node]
    /\ disk \subseteq Backend
    /\ saved \in [writable : Path, archive : Path, lastRotated : Nat]
    /\ lastRotated \in Nat /\ newLedger \in Nat /\ rotating.seq \in Nat

WriterTypes ==
    /\ writer \in [tree : SUBSET Node, left : SUBSET Node,
                   node : Node \cup {NoNode}, into : Path]
    /\ writer.into # NoBackend => writer.node \in Node

ReaderTypes ==
    /\ reader \in [node : Node \cup {NoNode},
                   at : {"idle", "writable", "archive", "found", "missing", "refresh"},
                   w : Path, a : Path, since : SUBSET Node]
    /\ reader.at # "idle" =>
          reader.node \in Node /\ reader.w \in Backend /\ reader.a \in Backend

(***************************************************************************)
(* Ledgers are built one at a time, each after its parent has validated,   *)
(* and the trees of the last and of the validated one are kept.            *)
(***************************************************************************)
Chain ==
    /\ last \in Nat /\ valid \in Nat /\ valid <= last /\ last <= valid + 1
    /\ writer.tree # {} => last = valid
    /\ \A l \in {last, valid} : l # 0 => l \in DOMAIN trees /\ trees[l] \subseteq Node

Rotates == at \in {"clear", "copy", "freshen", "made", "swap"}

(***************************************************************************)
(* The pair in memory: two backends on disk that nobody is about to        *)
(* delete.  Before the thread runs nobody else does.                       *)
(***************************************************************************)
Pair ==
    /\ ~Running => /\ writer = NoWriter /\ reader = NoReader
                   /\ doomed = {} /\ last = valid
    /\ Running => /\ {writable, archive} \subseteq disk \ doomed
                  /\ writable # archive
                  /\ writer.into \in {NoBackend, writable, archive}
    /\ Rotates => writer.into # archive
    /\ at \in {"made", "swap"} => /\ newBackend \in disk \ doomed
                                  /\ newBackend \notin {writable, archive}
                                  /\ visiting = {}
    /\ doomed \subseteq disk

(***************************************************************************)
(* The pair the state database names, at every place of the start and of   *)
(* the rotation.                                                           *)
(***************************************************************************)
Unnamed == saved.writable = NoBackend /\ saved.archive = NoBackend

Named ==
    /\ at # "failed"
    /\ Unlocked => saved.writable = writable /\ saved.archive = archive
    /\ at = "swap" => saved.writable = newBackend /\ saved.archive = writable
    /\ ~Running => \/ Unnamed /\ valid = 0
                   \/ /\ {saved.writable, saved.archive} \subseteq disk
                      /\ saved.writable # saved.archive
    /\ at = "paths" /\ Unnamed => disk = {}
    /\ at \in {"open", "pair"} => /\ writable \in disk
                                  /\ ~Unnamed => writable = saved.writable
    /\ at = "open" /\ Unnamed => disk = {writable}
    /\ at = "pair" => /\ archive \in disk \ {writable}
                      /\ ~Unnamed => archive = saved.archive

(***************************************************************************)
(* Where the nodes in memory are.                                          *)
(***************************************************************************)
Stored ==
    /\ Running => InMemory \subseteq content[writable] \cup content[archive]
    /\ at \in {"freshen", "made", "swap"} => InMemory \ visiting \subseteq content[writable]
    /\ ~Running /\ ~Unnamed =>
          Tree(valid) \subseteq content[saved.writable] \cup content[saved.archive]

(***************************************************************************)
(* What a fetch has still to look up holds the node, if the last ledger    *)
(* had it when the fetch began.                                            *)
(***************************************************************************)
Reading ==
    reader.node \in reader.since =>
        /\ reader.at = "writable" => reader.node \in content[reader.w] \cup content[reader.a]
        /\ reader.at = "archive" => reader.node \in content[reader.a]
        /\ reader.at # "missing"

IInv ==
    DiskTypes /\ WriterTypes /\ ReaderTypes /\ Chain /\ Pair /\ Named /\ Stored /\ Reading

-----------------------------------------------------------------------------
(* The steps. *)

LEMMA UnusedIsFree ==
    ASSUME Backend \ disk # {}
    PROVE  Unused \in Backend \ disk
  BY DEF Unused

\* The directories the first start makes.
LEMMA FirstPair ==
    ASSUME IInv
    PROVE  /\ at = "paths" /\ saved.writable = NoBackend => Unused \in Backend \ disk
           /\ at = "open" /\ saved.archive = NoBackend => Unused \in Backend \ disk
  <1>1. /\ at = "paths" /\ saved.writable = NoBackend => disk = {}
        /\ at = "open" /\ saved.archive = NoBackend => disk = {writable}
    BY StoreAssumption DEF IInv, DiskTypes, Named, Unnamed, Running
  <1>2. \A b : Backend \ {b} # {}
    BY StoreAssumption
  <1> QED
    BY <1>1, <1>2, UnusedIsFree

\* Storing a node adds it to one backend.
LEMMA Storing ==
    ASSUME NEW f \in [Backend -> SUBSET Node], NEW b, NEW n \in Node
    PROVE  /\ [f EXCEPT ![b] = @ \cup {n}] \in [Backend -> SUBSET Node]
           /\ \A c \in Backend : f[c] \subseteq [f EXCEPT ![b] = @ \cup {n}][c]
  <1>1. [f EXCEPT ![b] = @ \cup {n}] \in [Backend -> SUBSET Node]
    BY Zenon
  <1>2. ASSUME NEW c \in Backend PROVE f[c] \subseteq [f EXCEPT ![b] = @ \cup {n}][c]
    BY <1>2, Zenon
  <1> QED
    BY <1>1, <1>2, Zenon

LEMMA DiskTypesKept == ASSUME IInv, Next PROVE DiskTypes'
  <1> USE DEF disks, database, thread, chain, faults
  <1>0. DiskTypes
    BY DEF IInv
  <1>1. ASSUME UNCHANGED <<disks, lastRotated, newLedger, rotating>> PROVE DiskTypes'
    BY <1>0, <1>1 DEF DiskTypes
  <1>2. CASE Fetch
    <2>1. CASE StoreFetched
      <3>1. reader.node \in Node
        BY <2>1 DEF IInv, ReaderTypes, StoreFetched
      <3>2. content' \in [Backend -> SUBSET Node]
        BY <1>0, <2>1, <3>1, Storing, Zenon DEF DiskTypes, StoreFetched
      <3> QED
        BY <1>0, <2>1, <3>2 DEF DiskTypes, StoreFetched
    <2> QED
      BY <1>1, <1>2, <2>1
         DEF Fetch, FetchWritable, FetchArchive, NotFound, RefreshWritable
  <1>3. CASE StoreNode
    <2>1. writer.node \in Node
      BY <1>3 DEF IInv, WriterTypes, StoreNode
    <2>2. content' \in [Backend -> SUBSET Node]
      BY <1>0, <1>3, <2>1, Storing, Zenon DEF DiskTypes, StoreNode
    <2> QED
      BY <1>0, <1>3, <2>2 DEF DiskTypes, StoreNode
  <1>4. CASE Built \/ onStop \/ Spurious
    BY <1>1, <1>4 DEF Built, onStop, Spurious
  <1>5. ASSUME NEW n \in Node, fetchNodeObject(n) \/ store(n) PROVE DiskTypes'
    BY <1>1, <1>5 DEF fetchNodeObject, store
  <1>6. ASSUME NEW tree, Build(tree) PROVE DiskTypes'
    BY <1>1, <1>6 DEF Build
  <1>7. ASSUME NEW l \in 1 .. MaxSeq, onLedgerClosed(l) PROVE DiskTypes'
    BY <1>0, <1>7 DEF DiskTypes, onLedgerClosed
  <1>8. ASSUME NEW b \in Backend, close(b) PROVE DiskTypes'
    BY <1>0, <1>8 DEF DiskTypes, close
  <1>9. CASE Crash
    BY <1>0, <1>9 DEF DiskTypes, Crash, Forget, NoLedger
  <1>10. CASE Start
    <2>1. CASE dbPaths
      BY <1>0, <2>1 DEF DiskTypes, dbPaths
    <2>2. CASE OpenWritable
      BY <1>0, <2>2, FirstPair DEF DiskTypes, OpenWritable, Path
    <2>3. CASE OpenArchive
      BY <1>0, <2>3, FirstPair DEF DiskTypes, OpenArchive, Path
    <2>4. CASE makeNodeStore
      <3>1. writable \in Path /\ archive \in Path
        BY <1>0, <2>4 DEF IInv, DiskTypes, Named, makeNodeStore, Path
      <3> QED
        BY <1>0, <2>4, <3>1, Zenon DEF DiskTypes, makeNodeStore
    <2> QED
      BY <1>10, <2>1, <2>2, <2>3, <2>4 DEF Start
  <1>11. CASE Thread
    <2>1. CASE Top \/ Woken
      BY <1>0, <2>1 DEF DiskTypes, Top, Woken, NoLedger
    <2>2. CASE Check
      BY <1>0, <2>2 DEF DiskTypes, Check
    <2>3. CASE clearPrior \/ freshenCaches \/ health \/ rotateWithLock
      BY <1>1, <2>3 DEF clearPrior, freshenCaches, health, rotateWithLock
    <2>4. ASSUME NEW n \in Node, copyNode(n) PROVE DiskTypes'
      BY <1>0, <2>4, Storing DEF DiskTypes, copyNode, Fetched
    <2>5. CASE makeBackendRotating
      BY <1>0, <2>5, UnusedIsFree DEF DiskTypes, makeBackendRotating
    <2>6. CASE SaveRotated
      <3>1. newBackend \in Path /\ writable \in Path
        BY <1>0, <2>6 DEF IInv, DiskTypes, Pair, Running, SaveRotated, Path
      <3> QED
        BY <1>0, <2>6, <3>1 DEF DiskTypes, SaveRotated
    <2> QED
      BY <1>11, <2>1, <2>2, <2>3, <2>4, <2>5, <2>6 DEF Thread
  <1> QED
    BY <1>2, <1>3, <1>4, <1>5, <1>6, <1>7, <1>8, <1>9, <1>10, <1>11 DEF Next

\* What the steps of each actor leave alone.
LEMMA ThreadLeaves ==
    ASSUME Thread \/ Start \/ Spurious \/ onStop \/ \E b \in Backend : close(b)
    PROVE  UNCHANGED <<writer, reader, chain>>
  <1> USE DEF disks, database, thread, chain, faults
  <1>1. CASE Top \/ Woken \/ Check \/ clearPrior \/ \E n \in Node : copyNode(n)
    BY <1>1 DEF Top, Woken, Check, clearPrior, copyNode
  <1>2. CASE freshenCaches \/ makeBackendRotating \/ health \/ SaveRotated \/ rotateWithLock
    BY <1>2 DEF freshenCaches, makeBackendRotating, health, SaveRotated, rotateWithLock
  <1>3. CASE Start
    BY <1>3 DEF Start, dbPaths, OpenWritable, OpenArchive, makeNodeStore
  <1>4. CASE Spurious \/ onStop \/ \E b \in Backend : close(b)
    BY <1>4 DEF Spurious, onStop, close
  <1> QED
    BY <1>1, <1>2, <1>3, <1>4 DEF Thread

LEMMA FetchLeaves ==
    ASSUME Fetch \/ \E n \in Node : fetchNodeObject(n)
    PROVE  UNCHANGED <<writer, disk, saved, database, thread, chain>>
  <1> USE DEF disks, faults
  <1>1. CASE FetchWritable \/ FetchArchive \/ NotFound
    BY <1>1, Zenon DEF FetchWritable, FetchArchive, NotFound
  <1>2. CASE RefreshWritable \/ StoreFetched \/ \E n \in Node : fetchNodeObject(n)
    BY <1>2, Zenon DEF RefreshWritable, StoreFetched, fetchNodeObject
  <1> QED
    BY <1>1, <1>2, Zenon DEF Fetch

BuilderStep ==
    \/ StoreNode \/ Built \/ \E n \in Node : store(n)
    \/ \E tree \in SUBSET Node \ {{}} : Build(tree)

LEMMA BuilderLeaves ==
    ASSUME BuilderStep
    PROVE  UNCHANGED <<reader, disk, saved, database, thread, valid>>
  BY Zenon DEF BuilderStep, StoreNode, Built, store, Build, disks, chain, faults

\* Nobody reads or builds before the thread runs.
LEMMA ActorsRun ==
    ASSUME Pair, BuilderStep \/ Fetch \/ \E n \in Node : fetchNodeObject(n)
    PROVE  Running
  <1>1. ~Running => /\ writer.tree = {} /\ writer.into = NoBackend
                    /\ reader.at = "idle"
    BY DEF Pair, NoWriter, NoReader
  <1>2. CASE BuilderStep
    BY <1>1, <1>2, Zenon DEF BuilderStep, StoreNode, Built, Build, store, Unlocked
  <1>3. CASE Fetch \/ \E n \in Node : fetchNodeObject(n)
    BY <1>1, <1>3 DEF Fetch, FetchWritable, FetchArchive, NotFound,
                      RefreshWritable, StoreFetched, fetchNodeObject, Unlocked
  <1> QED
    BY <1>2, <1>3

LEMMA ClosedLeaves ==
    ASSUME NEW l, onLedgerClosed(l)
    PROVE  UNCHANGED <<writer, reader, disks, database, newBackend, visiting, last>>
  BY DEF onLedgerClosed

LEMMA CrashLeaves ==
    ASSUME Crash
    PROVE  /\ UNCHANGED <<disks, valid>> /\ last' = valid /\ at' = "down"
           /\ writer' = NoWriter /\ reader' = NoReader /\ doomed' = {}
  BY DEF Crash, Forget, disks

LEMMA WriterTypesKept == ASSUME IInv, Next PROVE WriterTypes'
  <1>0. WriterTypes
    BY DEF IInv
  <1>1. ASSUME UNCHANGED writer PROVE WriterTypes'
    BY <1>0, <1>1 DEF WriterTypes
  <1>2. ASSUME writer' = NoWriter PROVE WriterTypes'
    BY <1>2 DEF WriterTypes, NoWriter, Path
  <1>3. ASSUME NEW n \in Node, store(n) PROVE WriterTypes'
    <2>1. writable \in Path
      BY <1>3 DEF IInv, DiskTypes, Pair, store, Unlocked, Path
    <2> QED
      BY <1>0, <1>3, <2>1, Zenon DEF WriterTypes, store
  <1>4. CASE StoreNode
    BY <1>0, <1>4, Zenon DEF WriterTypes, StoreNode, Path
  <1>5. ASSUME NEW tree \in SUBSET Node \ {{}}, Build(tree) PROVE WriterTypes'
    BY <1>5, Zenon DEF WriterTypes, Build, NoWriter, Path
  <1>6. CASE Built
    BY <1>2, <1>6 DEF Built
  <1>7. ASSUME NEW l, onLedgerClosed(l) PROVE WriterTypes'
    BY <1>1, <1>7, ClosedLeaves
  <1> QED
    BY <1>1, <1>2, <1>3, <1>4, <1>5, <1>6, <1>7, ThreadLeaves, FetchLeaves, CrashLeaves
       DEF Next

LEMMA ReaderTypesKept == ASSUME IInv, Next PROVE ReaderTypes'
  <1>0. ReaderTypes
    BY DEF IInv
  <1>1. ASSUME UNCHANGED reader PROVE ReaderTypes'
    BY <1>0, <1>1 DEF ReaderTypes
  <1>2. ASSUME reader' = NoReader PROVE ReaderTypes'
    BY <1>2 DEF ReaderTypes, NoReader, Path
  <1>3. Unlocked => writable \in Backend /\ archive \in Backend
    BY DEF IInv, DiskTypes, Pair, Unlocked
  <1>4. ASSUME NEW n \in Node, fetchNodeObject(n) PROVE ReaderTypes'
    <2>1. Tree(last) \subseteq Node
      BY DEF IInv, Chain, Tree
    <2> QED
      BY <1>3, <1>4, <2>1 DEF ReaderTypes, fetchNodeObject, Path
  <1>5. CASE Fetch
    <2>1. CASE FetchWritable
      BY <1>0, <1>2, <2>1 DEF ReaderTypes, FetchWritable
    <2>2. CASE FetchArchive
      BY <1>0, <2>2 DEF ReaderTypes, FetchArchive
    <2>3. CASE RefreshWritable
      BY <1>0, <1>3, <2>3, Zenon DEF ReaderTypes, RefreshWritable, Path
    <2> QED
      BY <1>2, <1>5, <2>1, <2>2, <2>3 DEF Fetch, NotFound, StoreFetched
  <1>6. ASSUME NEW l, onLedgerClosed(l) PROVE ReaderTypes'
    BY <1>1, <1>6, ClosedLeaves
  <1> QED
    BY <1>1, <1>2, <1>4, <1>5, <1>6, ThreadLeaves, BuilderLeaves, CrashLeaves
       DEF Next, BuilderStep

LEMMA ChainKept == ASSUME IInv, Next PROVE Chain'
  <1>0. Chain /\ WriterTypes
    BY DEF IInv
  <1>1. ASSUME UNCHANGED <<chain, writer>> PROVE Chain'
    BY <1>0, <1>1 DEF Chain, chain
  <1>2. CASE StoreNode \/ \E n \in Node : store(n)
    <2>1. UNCHANGED chain /\ writer'.tree = writer.tree
      BY <1>0, <1>2, Zenon DEF WriterTypes, StoreNode, store
    <2> QED
      BY <1>0, <2>1 DEF Chain, chain
  <1>3. ASSUME NEW tree \in SUBSET Node \ {{}}, Build(tree) PROVE Chain'
    <2>1. UNCHANGED chain /\ last = valid
      BY <1>0, <1>3 DEF Chain, Build
    <2> QED
      BY <1>0, <2>1 DEF Chain, chain
  <1>4. CASE Built
    <2>1. writer.tree \subseteq Node
      BY <1>0 DEF WriterTypes
    <2> QED
      BY <1>0, <1>4, <2>1 DEF Chain, Built, NoWriter
  <1>5. ASSUME NEW l \in 1 .. MaxSeq, onLedgerClosed(l) PROVE Chain'
    <2>1. l = last /\ valid' = l /\ last' = last /\ writer' = writer /\ l # 0
      BY <1>0, <1>5 DEF Chain, onLedgerClosed
    <2>2. l \in DOMAIN trees' /\ trees'[l] = trees[l]
      BY <1>0, <1>5, <2>1, StoreAssumption DEF Chain, onLedgerClosed
    <2> QED
      BY <1>0, <2>1, <2>2 DEF Chain
  <1>6. CASE Crash
    <2>1. valid # 0 => valid \in DOMAIN trees' /\ trees'[valid] = trees[valid]
      BY <1>0, <1>6 DEF Chain, Crash
    <2> QED
      BY <1>0, <1>6, <2>1, CrashLeaves DEF Chain, NoWriter
  <1> QED
    BY <1>1, <1>2, <1>3, <1>4, <1>5, <1>6, ThreadLeaves, FetchLeaves DEF Next

LEMMA PairKept == ASSUME IInv, Next PROVE Pair'
  <1> USE DEF disks, database, thread, chain, faults
  <1>0. Pair /\ Named /\ DiskTypes /\ WriterTypes /\ ReaderTypes
    BY DEF IInv
  <1>1. ASSUME UNCHANGED <<disk, database, at, visiting, newBackend>>, last' = last,
               valid' = valid, Running, writer'.into \in {NoBackend, writer.into}
        PROVE  Pair'
    BY <1>0, <1>1, StoreAssumption DEF Pair, Running, Rotates, DiskTypes
  <1>2. CASE Fetch \/ \E n \in Node : fetchNodeObject(n)
    <2>1. Running
      BY <1>0, <1>2, ActorsRun, Zenon
    <2> QED
      BY <1>1, <1>2, <2>1, FetchLeaves
  <1>3. CASE StoreNode \/ \E tree \in SUBSET Node \ {{}} : Build(tree)
    <2>1. CASE StoreNode
      <3>1. Running /\ UNCHANGED last /\ writer'.into = NoBackend
        BY <1>0, <2>1 DEF Pair, NoWriter, WriterTypes, StoreNode
      <3> QED
        BY <1>1, <2>1, <3>1, BuilderLeaves, Zenon DEF BuilderStep
    <2>2. ASSUME NEW tree \in SUBSET Node \ {{}}, Build(tree) PROVE Pair'
      <3>1. Running /\ UNCHANGED last /\ writer'.into = NoBackend
        BY <2>2 DEF NoWriter, Build
      <3> QED
        BY <1>1, <2>2, <3>1, BuilderLeaves, Zenon DEF BuilderStep
    <2> QED
      BY <1>3, <2>1, <2>2
  <1>4. ASSUME NEW n \in Node, store(n) PROVE Pair'
    <2>1. Running /\ UNCHANGED last /\ writer'.into = writable
      BY <1>0, <1>4 DEF Unlocked, WriterTypes, store
    <2> QED
      BY <1>0, <1>4, <2>1, BuilderLeaves DEF BuilderStep, Pair, Running, Rotates
  <1>5. CASE Built
    <2>1. Running /\ writer'.into = NoBackend
      BY <1>0, <1>5 DEF Pair, NoWriter, Built
    <2>2. UNCHANGED <<disk, database, at, visiting, newBackend>>
      BY <1>5 DEF Built
    <2> QED
      BY <1>0, <2>1, <2>2, StoreAssumption DEF Pair, Running, Rotates, DiskTypes
  <1>6. CASE Crash
    BY <1>6, CrashLeaves DEF Pair, Running, Rotates
  <1>7. CASE onStop \/ Spurious \/ \E l \in 1 .. MaxSeq : onLedgerClosed(l)
    <2>1. /\ UNCHANGED <<disk, database, visiting, newBackend, writer>> /\ Running
          /\ at' = at \/ (at = "waiting" /\ at' = "woken")
      BY <1>7, Zenon DEF onStop, Spurious, onLedgerClosed, Notified, Running
    <2> QED
      BY <1>0, <2>1 DEF Pair, Running, Rotates
  <1>8. ASSUME NEW b \in Backend, close(b) PROVE Pair'
    BY <1>0, <1>8 DEF Pair, Running, Rotates, close
  <1>9. CASE Start
    <2>1. UNCHANGED <<writer, reader, chain>>
      BY <1>9, ThreadLeaves
    <2>2. CASE dbPaths \/ OpenWritable \/ OpenArchive
      BY <1>0, <2>1, <2>2 DEF Pair, Running, Rotates, dbPaths, OpenWritable, OpenArchive
    <2>3. CASE makeNodeStore
      BY <1>0, <2>1, <2>3 DEF Pair, Named, Running, Rotates, makeNodeStore, NoWriter
    <2> QED
      BY <1>9, <2>2, <2>3 DEF Start
  <1>10. CASE Thread
    <2>1. UNCHANGED <<writer, reader, chain>>
      BY <1>10, ThreadLeaves
    <2>2. CASE Top \/ Woken
      BY <1>0, <2>1, <2>2 DEF Pair, Running, Rotates, Top, Woken
    <2>3. CASE Check
      BY <1>0, <2>1, <2>3 DEF Pair, Running, Rotates, Check, NoStraggler
    <2>4. CASE clearPrior \/ freshenCaches \/ \E n \in Node : copyNode(n)
      BY <1>0, <2>1, <2>4 DEF Pair, Running, Rotates, clearPrior, freshenCaches, copyNode
    <2>5. CASE makeBackendRotating
      BY <1>0, <2>1, <2>5, UnusedIsFree DEF Pair, Running, Rotates, makeBackendRotating
    <2>6. CASE health
      BY <1>0, <2>1, <2>6 DEF Pair, Running, Rotates, health
    <2>7. CASE SaveRotated
      BY <1>0, <2>1, <2>7 DEF Pair, Running, Rotates, SaveRotated
    <2>8. CASE rotateWithLock
      BY <1>0, <2>1, <2>8 DEF Pair, Running, Rotates, rotateWithLock
    <2> QED
      BY <1>10, <2>2, <2>3, <2>4, <2>5, <2>6, <2>7, <2>8 DEF Thread
  <1> QED
    BY <1>2, <1>3, <1>4, <1>5, <1>6, <1>7, <1>8, <1>9, <1>10 DEF Next

LEMMA NamedKept == ASSUME IInv, Next PROVE Named'
  <1> USE DEF disks, database, thread, chain, faults
  <1>0. Pair /\ Named /\ DiskTypes /\ Chain
    BY DEF IInv
  <1>1. ASSUME UNCHANGED <<disk, saved, database, newBackend>>, Running,
               at' = at \/ (Unlocked /\ Unlocked')
        PROVE  Named'
    BY <1>0, <1>1 DEF Named, Running, Unlocked, Unnamed
  <1>2. CASE Fetch \/ \E n \in Node : fetchNodeObject(n)
    <2>1. Running
      BY <1>0, <1>2, ActorsRun, Zenon
    <2> QED
      BY <1>1, <1>2, <2>1, FetchLeaves
  <1>3. CASE BuilderStep
    BY <1>0, <1>1, <1>3, ActorsRun, BuilderLeaves, Zenon
  <1>4. CASE Crash
    <2>1. ~Running \/ Unlocked \/ at = "swap"
      BY DEF Unlocked
    <2> QED
      BY <1>0, <1>4, <2>1, CrashLeaves DEF Named, Pair, Running, Unlocked, Unnamed
  <1>5. CASE onStop \/ Spurious \/ \E l \in 1 .. MaxSeq : onLedgerClosed(l)
    <2>1. /\ UNCHANGED <<disk, saved, database, newBackend>> /\ Running
          /\ at' = at \/ (at = "waiting" /\ at' = "woken")
      BY <1>5, Zenon DEF onStop, Spurious, onLedgerClosed, Notified, Running
    <2> QED
      BY <1>1, <2>1 DEF Unlocked, Running
  <1>6. ASSUME NEW b \in Backend, close(b) PROVE Named'
    <2>1. /\ Running /\ b \notin {writable, archive} /\ disk' = disk \ {b}
          /\ UNCHANGED <<saved, writable, archive, thread, chain>>
      BY <1>0, <1>6 DEF Pair, close
    <2> QED
      BY <1>0, <2>1 DEF Named, Running, Unlocked, Unnamed
  <1>7. CASE Start
    <2>1. UNCHANGED chain
      BY <1>7, ThreadLeaves
    <2>2. CASE dbPaths
      <3>1. /\ saved' = saved /\ at = "down"
            /\ at' \in {"paths", "failed"}
            /\ disk' = disk \cap {saved.writable, saved.archive}
        BY <1>0, <2>2, StoreAssumption DEF dbPaths, DiskTypes
      <3>2. CASE Unnamed /\ valid = 0
        <4>1. at' = "paths" /\ disk' = {}
          BY <1>0, <2>2, <3>1, <3>2, StoreAssumption DEF dbPaths, Unnamed, DiskTypes
        <4> QED
          BY <2>1, <3>1, <3>2, <4>1 DEF Named, Running, Unlocked, Unnamed
      <3>3. CASE {saved.writable, saved.archive} \subseteq disk
                 /\ saved.writable # saved.archive
        <4>1. NoBackend \notin {saved.writable, saved.archive}
          BY <1>0, <3>3, StoreAssumption DEF DiskTypes
        <4>2. at' = "paths"
          BY <2>2, <3>3, <4>1 DEF dbPaths
        <4> QED
          BY <2>1, <3>1, <3>3, <4>1, <4>2 DEF Named, Running, Unlocked, Unnamed
      <3> QED
        BY <1>0, <3>1, <3>2, <3>3 DEF Named, Running
    <2>3. CASE OpenWritable
      <3>1. /\ saved' = saved /\ at = "paths" /\ at' = "open" /\ disk' = disk \cup {writable'}
            /\ writable' = IF saved.writable = NoBackend THEN Unused ELSE saved.writable
        BY <2>3 DEF OpenWritable
      <3>2. CASE Unnamed
        BY <1>0, <2>1, <3>1, <3>2, FirstPair DEF Named, Running, Unlocked, Unnamed
      <3>3. CASE ~Unnamed
        <4>1. writable' = saved.writable
          BY <1>0, <3>1, <3>3, StoreAssumption DEF Named, Running, DiskTypes
        <4> QED
          BY <1>0, <2>1, <3>1, <3>3, <4>1 DEF Named, Running, Unlocked, Unnamed
      <3> QED
        BY <3>2, <3>3
    <2>4. CASE OpenArchive
      <3>1. /\ saved' = saved /\ at = "open" /\ at' = "pair" /\ disk' = disk \cup {archive'}
            /\ archive' = IF saved.archive = NoBackend THEN Unused ELSE saved.archive
            /\ writable' = writable
        BY <2>4, Zenon DEF OpenArchive
      <3>2. CASE Unnamed
        BY <1>0, <2>1, <3>1, <3>2, FirstPair DEF IInv, Named, Running, Unlocked, Unnamed
      <3>3. CASE ~Unnamed
        <4>1. archive' = saved.archive
          BY <1>0, <3>1, <3>3, StoreAssumption DEF Named, Running, DiskTypes
        <4> QED
          BY <1>0, <2>1, <3>1, <3>3, <4>1 DEF Named, Running, Unlocked, Unnamed
      <3> QED
        BY <3>2, <3>3
    <2>5. CASE makeNodeStore
      <3>1. /\ saved'.writable = writable /\ saved'.archive = archive
            /\ at' = "top" /\ UNCHANGED <<writable, archive>>
        BY <1>0, <2>5 DEF makeNodeStore, DiskTypes
      <3> QED
        BY <3>1 DEF Named, Running, Unlocked, Unnamed
    <2> QED
      BY <1>7, <2>2, <2>3, <2>4, <2>5 DEF Start
  <1>8. CASE Thread
    <2>1. CASE Top \/ Woken \/ clearPrior \/ freshenCaches \/ \E n \in Node : copyNode(n)
      BY <1>1, <2>1 DEF Top, Woken, clearPrior, freshenCaches, copyNode, Running, Unlocked
    <2>2. CASE Check
      <3>1. /\ saved'.writable = saved.writable /\ saved'.archive = saved.archive
            /\ Unlocked /\ Unlocked' /\ UNCHANGED <<writable, archive>>
        BY <1>0, <2>2 DEF Check, DiskTypes, Running, Unlocked
      <3> QED
        BY <1>0, <3>1 DEF Named, Running, Unlocked
    <2>3. CASE makeBackendRotating \/ health
      <3>1. UNCHANGED <<saved, writable, archive>> /\ Unlocked /\ Unlocked'
        BY <2>3 DEF makeBackendRotating, health, Running, Unlocked
      <3> QED
        BY <1>0, <3>1 DEF Named, Running, Unlocked
    <2>4. CASE SaveRotated
      BY <2>4 DEF Named, Running, Unlocked, SaveRotated
    <2>5. CASE rotateWithLock
      BY <1>0, <2>5 DEF Named, Running, Unlocked, rotateWithLock
    <2> QED
      BY <1>8, <2>1, <2>2, <2>3, <2>4, <2>5 DEF Thread
  <1> QED
    BY <1>2, <1>3, <1>4, <1>5, <1>6, <1>7, <1>8 DEF Next, BuilderStep

\* What a step brings into memory it has also brought into the pair.
LEMMA StoredAfter ==
    ASSUME IInv, Running, UNCHANGED <<writable, archive>>,
           \A b \in {writable, archive} : content[b] \subseteq content'[b],
           \/ UNCHANGED <<at, visiting>>
           \/ Running' /\ at' \notin {"freshen", "made", "swap"},
           \/ InMemory' \subseteq InMemory \cup content'[writable]
           \/ ~Rotates /\ InMemory' \subseteq InMemory \cup content'[archive]
    PROVE  Stored'
  <1>1. Running' /\ Stored
    BY DEF IInv, Running
  <1>2. InMemory' \subseteq content'[writable'] \cup content'[archive']
    BY <1>1 DEF Stored
  <1>3. CASE at' \in {"freshen", "made", "swap"}
    <2>1. UNCHANGED <<at, visiting>> /\ InMemory' \subseteq InMemory \cup content'[writable]
      BY <1>3 DEF Rotates
    <2>2. InMemory' \ visiting' \subseteq content'[writable']
      BY <1>1, <1>3, <2>1 DEF Stored
    <2> QED
      BY <1>1, <1>2, <2>2 DEF Stored
  <1> QED
    BY <1>1, <1>2, <1>3 DEF Stored

LEMMA StoredKept == ASSUME IInv, Next PROVE Stored'
  <1> USE DEF disks, database, thread, chain, faults
  <1>0. /\ Stored /\ Pair /\ Named /\ Chain
        /\ DiskTypes /\ WriterTypes /\ ReaderTypes
    BY DEF IInv
  <1>1. Running => writable \in Backend /\ archive \in Backend
    BY <1>0 DEF Pair, DiskTypes
  <1>2. CASE Fetch \/ \E n \in Node : fetchNodeObject(n)
    <2>1. Running
      BY <1>0, <1>2, ActorsRun, Zenon
    <2>2. \A b \in Backend : content[b] \subseteq content'[b]
      BY <1>0, <1>2 DEF DiskTypes, Fetch, FetchWritable, FetchArchive, NotFound,
                        RefreshWritable, StoreFetched, fetchNodeObject
    <2>3. InMemory' = InMemory /\ UNCHANGED <<writable, archive, at, visiting>>
      BY <1>2, FetchLeaves DEF InMemory, Tree
    <2> QED
      BY <1>1, <2>1, <2>2, <2>3, StoredAfter
  <1>3. CASE StoreNode
    <2>1. writer.into \in {writable, archive} /\ Running
      BY <1>0, <1>3 DEF Pair, StoreNode, NoWriter
    <2>2. /\ \A b \in Backend : content[b] \subseteq content'[b]
          /\ writer.node \in content'[writer.into]
      BY <1>0, <1>1, <1>3, <2>1 DEF DiskTypes, StoreNode
    <2>3. InMemory' \subseteq InMemory \cup {writer.node}
      BY <1>0, <1>3 DEF InMemory, Tree, StoreNode, WriterTypes
    <2>4. UNCHANGED <<writable, archive, at, visiting>>
      BY <1>3, BuilderLeaves, Zenon DEF BuilderStep
    <2>5. Rotates => writer.into = writable
      BY <1>0, <2>1 DEF Pair
    <2> QED
      BY <1>1, <2>1, <2>2, <2>3, <2>4, <2>5, StoredAfter
  <1>4. CASE \/ Built \/ \E n \in Node : store(n)
             \/ \E tree \in SUBSET Node \ {{}} : Build(tree)
    <2>1. InMemory' \subseteq InMemory
      <3>1. CASE Built
        <4>1. valid # last + 1 /\ last + 1 # 0
          BY <1>0 DEF Chain
        <4>2. Tree(valid)' = Tree(valid)
          BY <1>0, <3>1, <4>1 DEF Chain, Tree, Built
        <4>3. Tree(last)' = writer.tree
          BY <3>1, <4>1 DEF Tree, Built
        <4> QED
          BY <3>1, <4>2, <4>3 DEF InMemory, Built, NoWriter
      <3>2. ASSUME NEW n \in Node, store(n) PROVE InMemory' = InMemory
        BY <1>0, <3>2 DEF InMemory, Tree, store, WriterTypes
      <3>3. ASSUME NEW tree \in SUBSET Node \ {{}}, Build(tree)
            PROVE  InMemory' \subseteq InMemory
        <4>1. writer'.tree = tree /\ writer'.left = tree \ Tree(last)
          BY <3>3 DEF Build, NoWriter
        <4>2. Tree(valid)' = Tree(valid) /\ Tree(last)' = Tree(last)
          BY <3>3, Zenon DEF Build, Tree
        <4> QED
          BY <4>1, <4>2 DEF InMemory
      <3> QED
        BY <1>4, <3>1, <3>2, <3>3
    <2>2. UNCHANGED <<writable, archive, at, visiting, content>>
      BY <1>4, Zenon DEF Built, store, Build
    <2>3. Running
      BY <1>0, <1>4, ActorsRun, Zenon DEF BuilderStep
    <2> QED
      BY <2>1, <2>2, <2>3, StoredAfter
  <1>5. ASSUME NEW l \in 1 .. MaxSeq, onLedgerClosed(l) PROVE Stored'
    <2>1. l = last /\ valid' = l /\ last' = last /\ writer' = writer /\ l # 0
      BY <1>0, <1>5 DEF Chain, onLedgerClosed
    <2>2. trees'[l] = trees[l]
      BY <1>0, <1>5, <2>1, StoreAssumption DEF Chain, onLedgerClosed
    <2>3. InMemory' \subseteq InMemory
      BY <2>1, <2>2 DEF InMemory, Tree
    <2>4. /\ Running /\ UNCHANGED <<writable, archive, content, visiting>>
          /\ at' = at \/ at' = "woken"
      BY <1>5 DEF onLedgerClosed, Notified
    <2> QED
      BY <2>3, <2>4, StoredAfter DEF Running
  <1>6. CASE onStop \/ Spurious
    <2>1. /\ Running /\ UNCHANGED <<writable, archive, content, visiting>>
          /\ at' = at \/ at' = "woken"
      BY <1>6 DEF onStop, Spurious, Notified, Running
    <2>2. InMemory' = InMemory
      BY <1>6, ThreadLeaves DEF InMemory, Tree
    <2> QED
      BY <2>1, <2>2, StoredAfter DEF Running
  <1>7. CASE Crash
    <2>1. Tree(valid)' = Tree(valid)
      BY <1>0, <1>7 DEF Tree, Chain, Crash
    <2>2. ~Running' /\ UNCHANGED <<content, saved>>
      BY <1>7, CrashLeaves DEF Running
    <2>3. Tree(valid) \subseteq InMemory
      BY DEF InMemory
    <2>4. CASE Unlocked
      BY <1>0, <2>1, <2>2, <2>3, <2>4 DEF Stored, Named, Unlocked, Running
    <2>5. CASE at = "swap"
      BY <1>0, <2>1, <2>2, <2>3, <2>5 DEF Stored, Named, Pair, Running
    <2>6. CASE ~Running
      BY <1>0, <2>1, <2>2, <2>6 DEF Stored, Unnamed, Running
    <2> QED
      BY <2>4, <2>5, <2>6 DEF Unlocked
  <1>8. ASSUME NEW b \in Backend, close(b) PROVE Stored'
    <2>1. Running /\ b \notin {writable, archive}
      BY <1>0, <1>8 DEF Pair, close
    <2>2. /\ content'[writable] = content[writable] /\ content'[archive] = content[archive]
          /\ UNCHANGED <<writable, archive, at, visiting>>
      BY <1>0, <1>1, <1>8, <2>1 DEF DiskTypes, close
    <2>3. InMemory' = InMemory
      BY <1>8, ThreadLeaves DEF InMemory, Tree
    <2> QED
      BY <2>1, <2>2, <2>3, StoredAfter
  <1>9. CASE Start
    <2>1. UNCHANGED <<writer, chain>> /\ Tree(valid)' = Tree(valid)
      BY <1>9, ThreadLeaves DEF Tree
    <2>2. CASE dbPaths
      <3>1. ~Running /\ ~Running' /\ saved' = saved
        BY <2>2 DEF dbPaths, Running
      <3>2. ~Unnamed => \A b \in {saved.writable, saved.archive} : content'[b] = content[b]
        BY <1>0, <2>2, <3>1, StoreAssumption, Zenon DEF dbPaths, Named, DiskTypes
      <3> QED
        BY <1>0, <2>1, <3>1, <3>2 DEF Stored, Unnamed, Running
    <2>3. CASE OpenWritable \/ OpenArchive
      BY <1>0, <2>1, <2>3 DEF Stored, Unnamed, Running, OpenWritable, OpenArchive
    <2>4. CASE makeNodeStore
      <3>1. /\ ~Running /\ at' = "top" /\ UNCHANGED <<content, writable, archive>>
            /\ at = "pair"
        BY <2>4, Zenon DEF makeNodeStore, Running
      <3>2. InMemory' = Tree(valid)
        BY <1>0, <2>1, <3>1 DEF InMemory, Tree, Pair, NoWriter
      <3>3. CASE Unnamed
        <4>1. InMemory' = {}
          BY <1>0, <3>1, <3>2, <3>3, StoreAssumption DEF Named, Tree, Unnamed, DiskTypes
        <4> QED
          BY <3>1, <4>1 DEF Stored, Running
      <3>4. CASE ~Unnamed
        BY <1>0, <3>1, <3>2, <3>4 DEF Stored, Named, Running
      <3> QED
        BY <3>3, <3>4
    <2> QED
      BY <1>9, <2>2, <2>3, <2>4 DEF Start
  <1>10. CASE Thread
    <2>1. InMemory' = InMemory
      BY <1>10, ThreadLeaves DEF InMemory, Tree
    <2>2. CASE Top \/ Woken \/ Check \/ clearPrior \/ health
      <3>1. /\ Running /\ UNCHANGED <<writable, archive, content>>
            /\ Running' /\ at' \notin {"freshen", "made", "swap"}
        BY <2>2 DEF Top, Woken, Check, clearPrior, health, Running
      <3> QED
        BY <2>1, <3>1, StoredAfter
    <2>3. ASSUME NEW n \in Node, copyNode(n) PROVE Stored'
      <3>1. /\ Running /\ UNCHANGED <<writable, archive, at>>
            /\ visiting' = visiting \ {n}
        BY <2>3 DEF copyNode, Running
      <3>2. /\ \A b \in Backend : content[b] \subseteq content'[b]
            /\ n \in content[writable] \cup content[archive] => n \in content'[writable]
        BY <1>0, <1>1, <2>3, <3>1 DEF DiskTypes, copyNode, Fetched
      <3>3. InMemory \subseteq content[writable] \cup content[archive]
        BY <1>0, <3>1 DEF Stored
      <3>4. InMemory' \subseteq content'[writable'] \cup content'[archive']
        BY <1>1, <2>1, <3>1, <3>2, <3>3
      <3>5. at' \in {"freshen", "made", "swap"} => InMemory' \ visiting' \subseteq content'[writable']
        BY <1>0, <1>1, <2>1, <3>1, <3>2, <3>3 DEF Stored
      <3> QED
        BY <3>1, <3>4, <3>5 DEF Stored, Running
    <2>4. CASE freshenCaches
      <3>1. /\ Running /\ UNCHANGED <<writable, archive, content>> /\ at' = "freshen"
            /\ InMemory \subseteq visiting'
        BY <2>4, Zenon DEF freshenCaches, Running
      <3> QED
        BY <1>0, <2>1, <3>1 DEF Stored, Running
    <2>5. CASE makeBackendRotating \/ SaveRotated
      BY <1>0, <2>1, <2>5, Zenon DEF Stored, Running, makeBackendRotating, SaveRotated
    <2>6. CASE rotateWithLock
      <3>1. visiting = {} /\ at = "swap"
        BY <1>0, <2>6 DEF Pair, rotateWithLock
      <3>2. InMemory \subseteq content[writable]
        BY <1>0, <3>1 DEF Stored
      <3> QED
        BY <2>1, <2>6, <3>2 DEF Stored, Running, rotateWithLock
    <2> QED
      BY <1>10, <2>2, <2>3, <2>4, <2>5, <2>6 DEF Thread
  <1> QED
    BY <1>2, <1>3, <1>4, <1>5, <1>6, <1>7, <1>8, <1>9, <1>10 DEF Next

LEMMA ReadingKept == ASSUME IInv, Next PROVE Reading'
  <1> USE DEF disks, database, thread, chain, faults
  <1>0. Reading /\ Stored /\ Pair /\ DiskTypes /\ WriterTypes /\ ReaderTypes
    BY DEF IInv
  <1>1. ASSUME reader' = NoReader PROVE Reading'
    BY <1>1 DEF Reading, NoReader
  <1>2. ASSUME UNCHANGED reader,
               reader.at # "idle" =>
                  \A b \in {reader.w, reader.a} : content[b] \subseteq content'[b]
        PROVE  Reading'
    BY <1>0, <1>2 DEF Reading
  <1>3. reader.at # "idle" => reader.w \in Backend /\ reader.a \in Backend
    BY <1>0, Zenon DEF ReaderTypes
  <1>4. ASSUME NEW n \in Node, fetchNodeObject(n) PROVE Reading'
    <2>1. Tree(last) \subseteq content[writable] \cup content[archive]
      BY <1>0, <1>4 DEF Stored, InMemory, fetchNodeObject, Unlocked
    <2> QED
      BY <1>4, <2>1, Zenon DEF Reading, fetchNodeObject
  <1>5. CASE Fetch
    <2>1. CASE FetchWritable
      BY <1>0, <1>1, <2>1 DEF Reading, FetchWritable, ReaderTypes
    <2>2. CASE FetchArchive
      BY <1>0, <2>2 DEF Reading, FetchArchive, ReaderTypes
    <2>3. CASE RefreshWritable
      BY <1>0, <2>3 DEF Reading, RefreshWritable, ReaderTypes
    <2> QED
      BY <1>1, <1>5, <2>1, <2>2, <2>3 DEF Fetch, NotFound, StoreFetched
  <1>6. CASE StoreNode
    <2>1. \A b \in Backend : content[b] \subseteq content'[b]
      <3>1. writer.node \in Node
        BY <1>0, <1>6 DEF WriterTypes, StoreNode
      <3> QED
        BY <1>0, <1>6, <3>1, Storing, Zenon DEF DiskTypes, StoreNode
    <2> QED
      BY <1>2, <1>3, <1>6, <2>1 DEF StoreNode
  <1>7. CASE \/ Built \/ onStop \/ Spurious \/ \E n \in Node : store(n)
             \/ \E tree \in SUBSET Node \ {{}} : Build(tree)
             \/ \E l \in 1 .. MaxSeq : onLedgerClosed(l)
    BY <1>2, <1>7, Zenon DEF Built, onStop, Spurious, store, Build, onLedgerClosed
  <1>8. ASSUME NEW b \in Backend, close(b) PROVE Reading'
    <2>1. reader.at # "idle" => b \notin {reader.w, reader.a}
      BY <1>8 DEF close, Held
    <2>2. \A c \in Backend \ {b} : content'[c] = content[c]
      BY <1>0, <1>8 DEF DiskTypes, close
    <2> QED
      BY <1>2, <1>3, <1>8, <2>1, <2>2 DEF close
  <1>9. CASE Crash
    BY <1>1, <1>9, CrashLeaves
  <1>10. CASE Start
    <2>1. reader' = reader /\ ~Running
      BY <1>10, ThreadLeaves
         DEF Start, dbPaths, OpenWritable, OpenArchive, makeNodeStore, Running
    <2> QED
      BY <1>0, <1>1, <2>1 DEF Pair
  <1>11. CASE Thread
    <2>1. reader' = reader
      BY <1>11, ThreadLeaves
    <2>2. ASSUME NEW n \in Node, copyNode(n)
          PROVE  \A b \in Backend : content[b] \subseteq content'[b]
      BY <1>0, <2>2 DEF DiskTypes, copyNode, Fetched
    <2>3. ASSUME ~\E n \in Node : copyNode(n) PROVE UNCHANGED content
      BY <1>11, <2>3 DEF Thread, Top, Woken, Check, clearPrior, freshenCaches,
                         makeBackendRotating, health, SaveRotated, rotateWithLock
    <2> QED
      BY <1>2, <1>3, <2>1, <2>2, <2>3
  <1> QED
    BY <1>4, <1>5, <1>6, <1>7, <1>8, <1>9, <1>10, <1>11, Zenon DEF Next

-----------------------------------------------------------------------------
(* The theorems. *)

LEMMA Starts == Init => IInv
  <1> SUFFICES ASSUME Init PROVE IInv
    OBVIOUS
  <1>1. DiskTypes
    BY Zenon DEF Init, DiskTypes, NoLedger, Path
  <1>2. WriterTypes /\ ReaderTypes
    BY DEF Init, WriterTypes, NoWriter, ReaderTypes, NoReader, Path
  <1>3. Chain
    BY DEF Init, Chain, NoWriter
  <1>4. Pair
    BY DEF Init, Pair, Running, Rotates
  <1>5. Named
    BY DEF Init, Named, Running, Unlocked, Unnamed
  <1>6. Stored
    BY DEF Init, Stored, Running, Unnamed
  <1>7. Reading
    BY DEF Init, Reading, NoReader
  <1> QED
    BY <1>1, <1>2, <1>3, <1>4, <1>5, <1>6, <1>7 DEF IInv

LEMMA Stutters == IInv /\ UNCHANGED vars => IInv'
  <1> SUFFICES ASSUME IInv, UNCHANGED vars PROVE IInv'
    OBVIOUS
  <1> USE DEF vars, disks, database, thread, chain, faults
  <1>1. DiskTypes' /\ WriterTypes' /\ ReaderTypes'
    BY DEF IInv, DiskTypes, WriterTypes, ReaderTypes
  <1>2. Chain' /\ Pair'
    BY Zenon DEF IInv, Chain, Pair, Running, Rotates
  <1>3. Named'
    BY Zenon DEF IInv, Named, Running, Unlocked, Unnamed
  <1>4. Stored' /\ Reading'
    BY DEF IInv, Stored, Reading, InMemory, Tree, Running, Unnamed
  <1> QED
    BY <1>1, <1>2, <1>3, <1>4 DEF IInv

LEMMA Invariance == Spec => []IInv
  <1>1. IInv /\ [Next]_vars => IInv'
    BY Stutters, DiskTypesKept, WriterTypesKept, ReaderTypesKept, ChainKept, PairKept,
       NamedKept, StoredKept, ReadingKept DEF IInv
  <1> QED
    BY <1>1, Starts, PTL DEF Spec

\* The last ledger built stays in the node store, whatever rotations,
\* fetches, stores, crashes and rotations given up come in between.
THEOREM LastLedgerKept == Spec => []LastLedgerStored
  <1>1. IInv => LastLedgerStored
    BY DEF IInv, Stored, InMemory, LastLedgerStored, Unlocked
  <1> QED
    BY <1>1, Invariance, PTL

\* At every step of every start and of every rotation, what the state
\* database names is on disk and holds the validated ledger: there is no
\* point at which the process may not be killed.
THEOREM AlwaysRestartable == Spec => []Restartable
  <1>1. IInv => Restartable
    <2> SUFFICES ASSUME IInv PROVE Restartable
      OBVIOUS
    <2> DEFINE named == {saved.writable, saved.archive}
    <2>0. Named /\ Pair /\ Stored /\ DiskTypes
      BY Zenon DEF IInv
    <2>1. at # "failed" /\ Tree(valid) \subseteq InMemory
      BY <2>0, Zenon DEF Named, InMemory
    <2>2. CASE Unlocked
      <3>1. named \subseteq disk /\ Tree(valid) \subseteq content[saved.writable] \cup content[saved.archive]
        BY <2>0, <2>1, <2>2 DEF Named, Pair, Stored, Unlocked
      <3> QED
        BY <2>1, <3>1, Zenon DEF Restartable
    <2>3. CASE at = "swap"
      <3>1. /\ saved.writable = newBackend /\ saved.archive = writable
            /\ {newBackend, writable} \subseteq disk /\ visiting = {}
        BY <2>0, <2>3 DEF Named, Pair, Running
      <3>2. InMemory \subseteq content[saved.archive]
        BY <2>0, <2>3, <3>1 DEF Stored
      <3> QED
        BY <2>1, <3>1, <3>2 DEF Restartable
    <2>4. CASE ~Running /\ Unnamed
      <3>1. valid = 0
        BY <2>0, <2>4, StoreAssumption, Zenon DEF Named, Unnamed, DiskTypes
      <3> QED
        BY <2>1, <2>4, <3>1 DEF Restartable, Unnamed
    <2>5. CASE ~Running /\ ~Unnamed
      <3>1. named \subseteq disk /\ Tree(valid) \subseteq content[saved.writable] \cup content[saved.archive]
        BY <2>0, <2>5 DEF Named, Stored
      <3> QED
        BY <2>1, <3>1 DEF Restartable
    <2> QED
      BY <2>2, <2>3, <2>4, <2>5 DEF Unlocked
  <1> QED
    BY <1>1, Invariance, PTL

\* A fetch that reads without the lock never misses a node of the ledger
\* that was the last when it began.
THEOREM FetchesFind == Spec => []FetchFinds
  <1>1. IInv => FetchFinds
    BY DEF IInv, Reading, FetchFinds
  <1> QED
    BY <1>1, Invariance, PTL

\* The thread never sleeps once it has been told to stop.
THEOREM StopIsHeard == Spec => []StopHeard
  <1>1. Init => StopHeard
    BY DEF Init, StopHeard
  <1>2. StopHeard /\ [Next]_vars => StopHeard'
    <2> SUFFICES ASSUME StopHeard, [Next]_vars PROVE StopHeard'
      OBVIOUS
    <2> USE DEF StopHeard, disks, database, thread, chain, faults
    <2>1. ASSUME UNCHANGED <<at, stop>> PROVE StopHeard'
      BY <2>1
    <2>2. CASE Start
      BY <2>2, Zenon DEF Start, dbPaths, OpenWritable, OpenArchive, makeNodeStore
    <2>3. CASE Thread
      BY <2>3, Zenon DEF Thread, Top, Woken, Check, clearPrior, copyNode, freshenCaches,
                  makeBackendRotating, health, SaveRotated, rotateWithLock
    <2>4. CASE Fetch \/ StoreNode \/ Built
      BY <2>1, <2>4, Zenon DEF Fetch, FetchWritable, FetchArchive, NotFound, RefreshWritable,
                        StoreFetched, StoreNode, Built
    <2>5. CASE Crash \/ onStop \/ Spurious
      BY <2>5, Zenon DEF Crash, Forget, onStop, Spurious, Notified
    <2>6. CASE \E n \in Node : fetchNodeObject(n) \/ store(n)
      BY <2>1, <2>6, Zenon DEF fetchNodeObject, store
    <2>7. CASE \E tree \in SUBSET Node \ {{}} : Build(tree)
      BY <2>1, <2>7 DEF Build
    <2>8. CASE \E l \in 1 .. MaxSeq : onLedgerClosed(l)
      BY <2>8 DEF onLedgerClosed, Notified
    <2>9. CASE \E b \in Backend : close(b)
      BY <2>1, <2>9 DEF close
    <2>10. CASE UNCHANGED vars
      BY <2>1, <2>10 DEF vars
    <2> QED
      BY <2>2, <2>3, <2>4, <2>5, <2>6, <2>7, <2>8, <2>9, <2>10, Zenon DEF Next
  <1> QED
    BY <1>1, <1>2, PTL DEF Spec
=============================================================================
