--------------------------- MODULE JobQueueProofs ---------------------------
(* The job queue for any number of workers, clients, types and coroutines.   *)
(* WithinLimits is inductive once the counters are numbers: the jobs let     *)
(* through to the workers, waiting + running - deferred, change only in      *)
(* queueJob and finishJob.  The other invariants say that what the threads   *)
(* count (the semaphore, closureCount, processCount, nSuspend) is the size   *)
(* of the set of jobs, threads or coroutines it stands for: IInv, below.     *)
EXTENDS JobQueue, FiniteSetTheorems, TLAPS

Counters ==
    /\ waiting \in [Type -> Int] /\ running \in [Type -> Int]
    /\ deferred \in [Type -> Nat]

LimitInv == Counters /\ WithinLimits

\* Counting keeps the type of a counter, and does nothing outside its domain.
LEMMA CountedUp ==
    ASSUME NEW f \in [Type -> Int], NEW type, NEW g, g = [f EXCEPT ![type] = @ + 1]
    PROVE  /\ g \in [Type -> Int]
           /\ \A u \in Type : g[u] = IF u = type THEN f[u] + 1 ELSE f[u]
  <1>1. CASE type \in Type
    BY <1>1
  <1>2. CASE type \notin Type
    <2>1. g = f
      BY <1>2, Zenon
    <2> QED
      BY <1>2, <2>1, Zenon
  <1> QED
    BY <1>1, <1>2

LEMMA CountedDown ==
    ASSUME NEW f \in [Type -> Int], NEW type, NEW g, g = [f EXCEPT ![type] = @ - 1]
    PROVE  /\ g \in [Type -> Int]
           /\ \A u \in Type : g[u] = IF u = type THEN f[u] - 1 ELSE f[u]
  <1>1. CASE type \in Type
    BY <1>1
  <1>2. CASE type \notin Type
    <2>1. g = f
      BY <1>2, Zenon
    <2> QED
      BY <1>2, <2>1, Zenon
  <1> QED
    BY <1>1, <1>2

\* queueJob lets a job through or defers it.
LEMMA QueueKept ==
    ASSUME NEW type, LimitInv, queueJob(type), running' = running
    PROVE  LimitInv'
  <1>1. /\ Limit \in [Type -> Nat \ {0}] /\ waiting \in [Type -> Int]
        /\ running \in [Type -> Int] /\ deferred \in [Type -> Int]
    BY JobAssumption DEF LimitInv, Counters
  <1>2. /\ waiting' \in [Type -> Int]
        /\ \A u \in Type : waiting'[u] = IF u = type THEN waiting[u] + 1 ELSE waiting[u]
    BY <1>1, CountedUp, Zenon DEF queueJob
  <1>3. /\ deferred' \in [Type -> Int]
        /\ \A u \in Type : deferred'[u] = IF u = type /\ ~(waiting[u] + running[u] < Limit[u])
                                          THEN deferred[u] + 1 ELSE deferred[u]
    BY <1>1, CountedUp DEF queueJob
  <1>4. deferred' \in [Type -> Nat]
    BY <1>3 DEF LimitInv, Counters
  <1>5. ASSUME NEW u \in Type
        PROVE  /\ running[u] <= Limit[u]
               /\ waiting'[u] + running[u] - deferred'[u] <= Limit[u]
               /\ deferred'[u] > 0 => waiting'[u] + running[u] - deferred'[u] = Limit[u]
    <2>1. /\ waiting[u] \in Int /\ running[u] \in Int /\ deferred[u] \in Nat
          /\ Limit[u] \in Nat
      BY <1>1, <1>5 DEF LimitInv, Counters
    <2>2. /\ running[u] <= Limit[u]
          /\ waiting[u] + running[u] - deferred[u] <= Limit[u]
          /\ deferred[u] > 0 => waiting[u] + running[u] - deferred[u] = Limit[u]
      BY <1>5 DEF LimitInv, WithinLimits
    <2> QED
      BY <1>2, <1>3, <1>5, <2>1, <2>2
  <1> QED
    BY <1>2, <1>4, <1>5 DEF LimitInv, Counters, WithinLimits

\* getNextJob moves a job of a type below its limit from waiting to running.
LEMMA TakeKept ==
    ASSUME NEW type, LimitInv, running[type] < Limit[type],
           waiting' = [waiting EXCEPT ![type] = @ - 1],
           running' = [running EXCEPT ![type] = @ + 1], deferred' = deferred
    PROVE  LimitInv'
  <1>1. /\ Limit \in [Type -> Nat \ {0}] /\ waiting \in [Type -> Int]
        /\ running \in [Type -> Int] /\ deferred \in [Type -> Nat]
    BY JobAssumption, Zenon DEF LimitInv, Counters
  <1>2. /\ waiting' \in [Type -> Int]
        /\ \A u \in Type : waiting'[u] = IF u = type THEN waiting[u] - 1 ELSE waiting[u]
    BY <1>1, CountedDown, Zenon
  <1>3. /\ running' \in [Type -> Int]
        /\ \A u \in Type : running'[u] = IF u = type THEN running[u] + 1 ELSE running[u]
    BY <1>1, CountedUp, Zenon
  <1>4. ASSUME NEW u \in Type
        PROVE  /\ running'[u] <= Limit[u]
               /\ waiting'[u] + running'[u] - deferred[u] = waiting[u] + running[u] - deferred[u]
    <2>1. /\ waiting[u] \in Int /\ running[u] \in Int /\ deferred[u] \in Nat
          /\ Limit[u] \in Nat
      BY <1>1, <1>4
    <2>2. running[u] <= Limit[u]
      BY <1>4 DEF LimitInv, WithinLimits
    <2> QED
      BY <1>2, <1>3, <1>4, <2>1, <2>2
  <1> QED
    BY <1>1, <1>2, <1>3, <1>4 DEF LimitInv, Counters, WithinLimits

\* finishJob gives the place of the job to a deferred one.
LEMMA FinishKept ==
    ASSUME NEW type, LimitInv, finishJob(type), waiting' = waiting
    PROVE  LimitInv'
  <1>1. /\ Limit \in [Type -> Nat \ {0}] /\ waiting \in [Type -> Int]
        /\ running \in [Type -> Int] /\ deferred \in [Type -> Int]
    BY JobAssumption DEF LimitInv, Counters
  <1>2. /\ running' \in [Type -> Int]
        /\ \A u \in Type : running'[u] = IF u = type THEN running[u] - 1 ELSE running[u]
    BY <1>1, CountedDown, Zenon DEF finishJob
  <1>3. /\ deferred' \in [Type -> Int]
        /\ \A u \in Type : deferred'[u] = IF u = type /\ deferred[u] > 0
                                          THEN deferred[u] - 1 ELSE deferred[u]
    BY <1>1, CountedDown DEF finishJob
  <1>4. deferred' \in [Type -> Nat]
    BY <1>3 DEF LimitInv, Counters
  <1> QED
    BY <1>1, <1>2, <1>3, <1>4 DEF LimitInv, Counters, WithinLimits

Tallies == <<waiting, running, deferred>>

\* The other steps of a worker leave the counters alone.
LEMMA WorkerKept == ASSUME LimitInv, NEW w \in Worker, WorkerStep(w) PROVE LimitInv'
  <1>1. ASSUME UNCHANGED Tallies PROVE LimitInv'
    BY <1>1 DEF LimitInv, Counters, WithinLimits, Tallies
  <1>2. CASE Wake(w) \/ TryPause(w) \/ Deactivate(w) \/ SetAllPaused(w) \/ Exit(w)
    BY <1>1, <1>2 DEF Wake, TryPause, Deactivate, SetAllPaused, Exit, queue, Tallies
  <1>3. CASE getNextJob(w)
    <2>1. PICK j \in Runnable :
            /\ waiting' = [waiting EXCEPT ![j.type] = @ - 1]
            /\ running' = [running EXCEPT ![j.type] = @ + 1]
      BY <1>3, Zenon DEF getNextJob
    <2>2. running[j.type] < Limit[j.type] /\ deferred' = deferred
      BY <1>3 DEF Runnable, getNextJob
    <2> QED
      BY <2>1, <2>2, TakeKept, Zenon
  <1>4. CASE RunPlain(w) \/ DestroyJob(w)
    BY <1>1, <1>4 DEF RunPlain, DestroyJob, queue, Tallies
  <1>5. CASE EndTask(w)
    BY <1>5, FinishKept DEF EndTask
  <1>6. CASE resume(w) \/ Enter(w) \/ Return(w) \/ insertPathRequest(w)
    BY <1>1, <1>6 DEF resume, Enter, Return, insertPathRequest, queue, Tallies
  <1>7. CASE newPFWork(w) \/ Asked(w) \/ yield(w)
    BY <1>1, <1>7 DEF newPFWork, Asked, yield, queue, Tallies
  <1>8. CASE updatePaths(w) \/ post(w)
    BY <1>1, <1>8 DEF updatePaths, post, queue, Tallies
  <1>9. CASE addRefCountedJob(w)
    BY <1>9, QueueKept DEF addRefCountedJob
  <1> QED
    BY <1>2, <1>3, <1>4, <1>5, <1>6, <1>7, <1>8, <1>9 DEF WorkerStep

\* LimitInv is inductive.
LEMMA LimitInvKept == ASSUME LimitInv, [Next]_vars PROVE LimitInv'
  <1>1. ASSUME UNCHANGED Tallies PROVE LimitInv'
    BY <1>1 DEF LimitInv, Counters, WithinLimits, Tallies
  <1>2. ASSUME NEW c \in Client, ClientStep(c) PROVE LimitInv'
    <2>1. CASE addRefCountedJob(c)
      BY <2>1, QueueKept DEF addRefCountedJob
    <2>2. CASE post(c) \/ expectEarlyExit(c)
      BY <1>1, <2>2 DEF post, expectEarlyExit, queue, Tallies
    <2> QED
      BY <1>2, <2>1, <2>2 DEF ClientStep
  <1>3. ASSUME NEW c \in Client, NEW type \in Type, addJob(c, type) PROVE LimitInv'
    BY <1>1, <1>3 DEF addJob, queue, Tallies
  <1>4. ASSUME NEW c \in Client, NEW co \in Coro, postCoro(c, co) PROVE LimitInv'
    BY <1>1, <1>4 DEF postCoro, queue, Tallies
  <1>5. CASE stop \/ join \/ ChildrenStop \/ onChildrenStopped
    BY <1>1, <1>5 DEF stop, join, ChildrenStop, onChildrenStopped, queue, Tallies
  <1>6. CASE QueueStopped \/ pauseAllThreads \/ AllPaused
    BY <1>1, <1>6 DEF QueueStopped, pauseAllThreads, AllPaused, queue, Tallies
  <1>7. CASE UNCHANGED vars
    BY <1>1, <1>7 DEF vars, queue, Tallies
  <1> QED
    BY <1>2, <1>3, <1>4, <1>5, <1>6, <1>7, WorkerKept DEF Next, StopStep

\* No schedule of workers, clients and coroutines, and no point at which the
\* server stops, lets more jobs of a type through than its limit, or leaves a
\* job deferred while there is room for it.
THEOREM LimitsKept == Spec => []WithinLimits
  <1>1. Init => LimitInv
    <2> SUFFICES ASSUME Init PROVE LimitInv
      OBVIOUS
    <2>1. Limit \in [Type -> Nat \ {0}]
      BY JobAssumption
    <2>2. /\ waiting = [type \in Type |-> 0] /\ running = [type \in Type |-> 0]
          /\ deferred = [type \in Type |-> 0]
      BY DEF Init
    <2> QED
      BY <2>1, <2>2 DEF LimitInv, Counters, WithinLimits
  <1>2. LimitInv /\ [Next]_vars => LimitInv'
    BY LimitInvKept
  <1>3. LimitInv => WithinLimits
    BY DEF LimitInv
  <1> QED
    BY <1>1, <1>2, <1>3, PTL DEF Spec

-----------------------------------------------------------------------------
(* NextJobFound and StoppedIsQuiet rest on what the counters count.  Every   *)
(* token of the semaphore, and every worker it has woken, stands for a job   *)
(* let through or for a request to pause; closureCount counts the closures   *)
(* that are being added, are queued or have not been destroyed;              *)
(* processCount the workers that have a job; and nSuspend the coroutines     *)
(* that were started and have not returned, less the threads inside them.    *)

LivePlaces == {"run", "enter", "inside", "ask", "adding", "asked", "yield",
               "post", "resume", "done"}
InPlaces == {"enter", "inside", "ask", "asked", "yield"}

WorkerPlaces == LivePlaces \cup {"wait", "pause", "paused", "last", "asleep",
                                "exited", "task", "finish"}
ClientPlaces == {"idle", "post", "refused", "adding"}

Jobs == [type : Type, id : Nat, kind : {"none", "plain", "coro", "find"},
         co : Coro \cup {NoCoro}]

AtTypes ==
    /\ at \in [Thread -> WorkerPlaces \cup ClientPlaces]
    /\ \A w \in Worker : at[w] \in WorkerPlaces
    /\ \A c \in Client : at[c] \in ClientPlaces

JobTypes ==
    /\ job \in [Thread -> Jobs]
    /\ lastJob \in Nat /\ jobSet \subseteq Jobs
    /\ \A j \in jobSet : j.id <= lastJob

CoroTypes ==
    /\ coro \in [Coro -> {"none", "created", "yielded", "finished", "overrun"}]
    /\ mutex_ \in [Coro -> Worker \cup {NoOne}]
    /\ request \in [Coro -> {"none", "waiting", "found"}]

NumberTypes ==
    /\ semaphore \in Nat /\ pauseCount \in Nat
    /\ processCount \in Int /\ nSuspend \in Int /\ closureCount \in Int

Types == AtTypes /\ JobTypes /\ CoroTypes /\ NumberTypes

\* The coroutine of a job of kind "coro", and of a path request being served.
HasCoro(j) == j.kind = "coro" => j.co \in Coro

WorkerKind(w) ==
    /\ at[w] \in {"ask", "asked", "yield"} => job[w].kind = "coro"
    /\ at[w] \in {"post", "resume"} => job[w].kind = "find"
    /\ at[w] \in {"adding", "enter", "inside"} => job[w].kind \in {"coro", "find"}
    /\ at[w] \in {"adding", "enter", "inside", "post", "resume"} => job[w].co \in Coro

Kinds ==
    /\ \A j \in jobSet : HasCoro(j)
    /\ \A t \in Thread : HasCoro(job[t])
    /\ \A c \in Client : at[c] \in {"post", "refused"} => job[c].kind = "coro"
    /\ \A w \in Worker : WorkerKind(w)

(* What is counted. *)
Adding == {t \in Thread : at[t] = "adding"}
Live == {w \in Worker : at[w] \in LivePlaces}
Working == {w \in Worker : at[w] \in LivePlaces \cup {"finish"}}
Awake == {w \in Worker : at[w] \in {"task", "pause"}}
In == {w \in Worker : at[w] \in InPlaces \/ (at[w] = "adding" /\ job[w].kind = "coro")}
Started == {co \in Coro : coro[co] \in {"created", "yielded"}}
OfType(type) == {j \in jobSet : j.type = type}
Tokens(f) == UNION {{type} \X (1 .. f[type]) : type \in Type}
Spare == [type \in Type |-> waiting[type] - deferred[type]]
LetThrough == Tokens(Spare)

Finite ==
    /\ IsFiniteSet(Adding) /\ IsFiniteSet(jobSet) /\ IsFiniteSet(Started)
    /\ IsFiniteSet(LetThrough)

QueueCount == \A type \in Type : waiting[type] = Cardinality(OfType(type))
TokenCount == semaphore + Cardinality(Awake) = Cardinality(LetThrough) + pauseCount
ClosureCount == closureCount = Cardinality(Adding) + Cardinality(jobSet) + Cardinality(Live)
WorkCount == processCount = Cardinality(Working)
CoroCount == ~Overrun => nSuspend = Cardinality(Started) - Cardinality(In)

Counts == QueueCount /\ TokenCount /\ ClosureCount /\ WorkCount /\ CoroCount

(* The coroutines.  A worker inside one holds its mutex_; one that a client  *)
(* has still to post is the client's alone; one that has asked for a path    *)
(* is not as it was created, unless a worker is still inside it.             *)
Asking(co) ==
    \E w \in Worker : /\ at[w] \in {"ask", "adding", "asked", "yield"}
                      /\ job[w].kind = "coro" /\ job[w].co = co
Begun(co) == coro[co] \notin {"none", "created"} \/ Asking(co)

Posting(c) == at[c] \in {"post", "refused", "adding"} /\ job[c].kind = "coro"

InsideHeld ==
    /\ \A w \in In : at[w] # "enter" => mutex_[job[w].co] = w
    /\ \A w \in In : at[w] \notin {"enter", "inside"} => coro[job[w].co] = "created"

JobsStarted ==
    /\ \A w \in Worker : job[w].co \in Coro => coro[job[w].co] # "none"
    /\ \A j \in jobSet : j.co \in Coro => coro[j.co] # "none"

RequestsBegun ==
    /\ \A co \in Coro : request[co] # "none" => Begun(co)
    /\ \A w \in Worker : job[w].kind = "find" /\ job[w].co \in Coro => Begun(job[w].co)

Coroutines == InsideHeld /\ JobsStarted /\ RequestsBegun

\* Of the jobs that wait or are to be added, only those of kind "coro" have a
\* coroutine.
Plain(j) == j.kind # "coro" => j.co = NoCoro
PlainJobs == (\A j \in jobSet : Plain(j)) /\ (\A c \in Client : Plain(job[c]))

Private ==
    \A c \in Client : Posting(c) =>
        /\ coro[job[c].co] = "created" /\ request[job[c].co] = "none"
        /\ \A j \in jobSet : j.co # job[c].co
        /\ \A w \in Worker : job[w].co # job[c].co
        /\ \A d \in Client \ {c} : Posting(d) => job[d].co # job[c].co

(* The stages of a stop. *)
Joined == stopper \in {"joined", "childless", "blocked", "stopped", "pausing", "deleting"}

JoinStages ==
    /\ stopper = "joining" => waitForClosures
    /\ Joined => waitForClosures /\ closureCount = 0
    /\ childrenStopped => Joined /\ \A c \in Client : at[c] = "idle"

PauseStages ==
    /\ stopper \in {"pausing", "deleting"} => \A w \in Worker : at[w] # "task"
    /\ pauseCount > 0 => stopper \in {"pausing", "deleting"}

StopStages ==
    isStopping => /\ childrenStopped /\ processCount = 0
                  /\ ~Overrun => \A co \in Coro : coro[co] \in {"none", "finished"}

Stages == JoinStages /\ PauseStages /\ StopStages

IInv == /\ LimitInv /\ Types /\ Kinds /\ Finite /\ Counts /\ Coroutines /\ PlainJobs
        /\ Private /\ Stages

LEMMA NoJobHasNone == NoJob.co \notin Coro /\ NoJob.kind = "none" /\ NoJob.co = NoCoro
BY JobAssumption DEF NoJob, Job

LEMMA Starts == ASSUME Init PROVE IInv
  <1>1. LimitInv
    <2>1. Limit \in [Type -> Nat \ {0}]
      BY JobAssumption
    <2>2. /\ waiting = [type \in Type |-> 0] /\ running = [type \in Type |-> 0]
          /\ deferred = [type \in Type |-> 0]
      BY DEF Init
    <2> QED
      BY <2>1, <2>2 DEF LimitInv, Counters, WithinLimits
  <1>2. at = [t \in Thread |-> IF t \in Worker THEN "wait" ELSE "idle"]
        /\ job = [t \in Thread |-> NoJob] /\ jobSet = {}
    BY DEF Init
  <1>3. (\A w \in Worker : at[w] = "wait" /\ job[w] = NoJob)
        /\ (\A c \in Client : at[c] = "idle" /\ job[c] = NoJob)
    BY <1>2, JobAssumption DEF Thread
  <1>4. NoJob \in Jobs /\ NoJob.kind = "none" /\ NoJob.co = NoCoro
    BY JobAssumption DEF NoJob, Job, Jobs
  <1>5. /\ coro = [co \in Coro |-> "none"] /\ mutex_ = [co \in Coro |-> NoOne]
        /\ request = [co \in Coro |-> "none"]
    BY DEF Init
  <1>6. Types
    <2>1. AtTypes
      BY <1>2, <1>3 DEF AtTypes, WorkerPlaces, ClientPlaces
    <2>2. JobTypes
      BY <1>2, <1>4 DEF Init, JobTypes
    <2>3. CoroTypes
      BY <1>5 DEF CoroTypes
    <2>4. NumberTypes
      BY DEF Init, NumberTypes
    <2> QED
      BY <2>1, <2>2, <2>3, <2>4 DEF Types
  <1>7. Kinds /\ PlainJobs
    BY <1>2, <1>3, <1>4 DEF Kinds, WorkerKind, HasCoro, PlainJobs, Plain, Thread
  <1>8. Adding = {} /\ Live = {} /\ Working = {} /\ Awake = {} /\ In = {} /\ Started = {}
    <2>1. \A t \in Thread : at[t] \in {"wait", "idle"}
      BY <1>3 DEF Thread
    <2>2. Adding = {} /\ Live = {} /\ Working = {}
      BY <1>3, <2>1 DEF Adding, Live, Working, LivePlaces
    <2>3. Awake = {} /\ In = {} /\ Started = {}
      BY <1>3, <1>5 DEF Awake, In, InPlaces, Started
    <2> QED
      BY <2>2, <2>3
  <1>9. LetThrough = {}
    <2>1. ASSUME NEW y \in LetThrough PROVE FALSE
      <3>1. PICK type \in Type : y \in {type} \X (1 .. Spare[type])
        BY <2>1, Zenon DEF LetThrough, Tokens
      <3>2. Spare[type] = 0 - 0
        BY DEF Spare, Init
      <3>3. 1 .. Spare[type] = {}
        BY <3>2
      <3>4. y \in {type} \X {}
        BY <3>1, <3>3, Zenon
      <3> QED
        BY <3>4
    <2> QED
      BY <2>1
  <1>10. Finite
    BY <1>2, <1>8, <1>9, FS_EmptySet, Zenon DEF Finite
  <1>11. Counts
    <2>1. Cardinality({}) = 0
      BY FS_EmptySet
    <2>2. QueueCount
      <3>1. \A type \in Type : OfType(type) = {} /\ waiting[type] = 0
        BY <1>2 DEF OfType, Init
      <3> QED
        BY <2>1, <3>1, Zenon DEF QueueCount
    <2>3. TokenCount /\ ClosureCount
      BY <1>2, <1>8, <1>9, <2>1 DEF TokenCount, ClosureCount, Init
    <2>4. WorkCount /\ CoroCount
      BY <1>8, <2>1 DEF WorkCount, CoroCount, Init
    <2> QED
      BY <2>2, <2>3, <2>4 DEF Counts
  <1>12. Coroutines
    <2>1. InsideHeld
      BY <1>8 DEF InsideHeld
    <2>2. JobsStarted
      BY <1>2, <1>3, NoJobHasNone, Zenon DEF JobsStarted
    <2>3. RequestsBegun
      BY <1>3, <1>4, <1>5 DEF RequestsBegun
    <2> QED
      BY <2>1, <2>2, <2>3 DEF Coroutines
  <1>13. Private
    BY <1>3, Zenon DEF Private, Posting
  <1>14. Stages
    BY DEF Init, Stages, JoinStages, PauseStages, StopStages, Joined
  <1> QED
    BY <1>1, <1>6, <1>7, <1>10, <1>11, <1>12, <1>13, <1>14 DEF IInv

LEMMA Unmoved == ASSUME IInv, UNCHANGED vars PROVE IInv'
  <1>1. /\ UNCHANGED <<jobSet, lastJob, waiting, running, deferred>>
        /\ UNCHANGED <<processCount, nSuspend, semaphore, pauseCount>>
        /\ UNCHANGED <<closureCount, waitForClosures>>
        /\ UNCHANGED <<stopper, stopEntered, childrenStopped, isStopping>>
        /\ UNCHANGED <<at, job, coro, mutex_, request>>
    BY DEF vars, queue, workers, closures, stopping, coros
  <1>2. LimitInv'
    BY <1>1 DEF IInv, LimitInv, Counters, WithinLimits
  <1>3. Types'
    BY <1>1, Zenon DEF IInv, Types, AtTypes, JobTypes, CoroTypes, NumberTypes
  <1>4. Kinds' /\ PlainJobs'
    BY <1>1, Zenon DEF IInv, Kinds, WorkerKind, PlainJobs
  <1>5. /\ Adding' = Adding /\ Live' = Live /\ Working' = Working /\ Awake' = Awake /\ In' = In
        /\ Started' = Started /\ LetThrough' = LetThrough
        /\ \A type \in Type : OfType(type)' = OfType(type)
    BY <1>1, Zenon DEF Adding, Live, Working, Awake, In, Started, LetThrough, Tokens, Spare, OfType
  <1>6. Finite'
    BY <1>1, <1>5, Zenon DEF IInv, Finite
  <1>7. Counts'
    <2>1. QueueCount' /\ TokenCount'
      BY <1>1, <1>5, Zenon DEF IInv, Counts, QueueCount, TokenCount
    <2>2. ClosureCount' /\ WorkCount'
      BY <1>1, <1>5, Zenon DEF IInv, Counts, ClosureCount, WorkCount
    <2>3. CoroCount'
      BY <1>1, <1>5 DEF IInv, Counts, CoroCount, Overrun
    <2> QED
      BY <2>1, <2>2, <2>3 DEF Counts
  <1>8. Coroutines' /\ Private'
    <2>1. \A co \in Coro : Begun(co)' <=> Begun(co)
      BY <1>1 DEF Begun, Asking
    <2>2. InsideHeld'
      BY <1>1, <1>5, Zenon DEF IInv, Coroutines, InsideHeld
    <2>3. JobsStarted' /\ RequestsBegun'
      BY <1>1, <2>1, Zenon DEF IInv, Coroutines, JobsStarted, RequestsBegun
    <2>4. Private'
      BY <1>1, Zenon DEF IInv, Private, Posting
    <2> QED
      BY <2>2, <2>3, <2>4 DEF Coroutines
  <1>9. Stages'
    BY <1>1, Zenon DEF IInv, Stages, JoinStages, PauseStages, StopStages, Joined, Overrun
  <1> QED
    BY <1>2, <1>3, <1>4, <1>6, <1>7, <1>8, <1>9 DEF IInv

-----------------------------------------------------------------------------
(* Counting.  A step moves one thread, one job or one coroutine at a time.   *)

Has(S, x) == IF x \in S THEN 1 ELSE 0

\* A set that gains or loses at most x counts one more or one less.
LEMMA Counted ==
    ASSUME NEW S, NEW T, NEW x, IsFiniteSet(S),
           \A y : y # x => (y \in S <=> y \in T)
    PROVE  /\ IsFiniteSet(T) /\ Cardinality(S) \in Nat /\ Cardinality(T) \in Nat
           /\ Cardinality(T) = Cardinality(S) + Has(T, x) - Has(S, x)
  <1> DEFINE R == S \ {x}
  <1>1. /\ IsFiniteSet(R) /\ Cardinality(S) \in Nat
        /\ Cardinality(R) = IF x \in S THEN Cardinality(S) - 1 ELSE Cardinality(S)
    BY FS_RemoveElement, FS_CardinalityType, Zenon
  <1>2. CASE x \in T
    <2>1. T = R \cup {x} /\ x \notin R
      BY <1>2
    <2>2. /\ IsFiniteSet(R \cup {x})
          /\ Cardinality(R \cup {x}) = IF x \in R THEN Cardinality(R) ELSE Cardinality(R) + 1
      BY <1>1, FS_AddElement, Zenon
    <2>3. IsFiniteSet(T) /\ Cardinality(T) = Cardinality(R) + 1
      BY <2>1, <2>2, Zenon
    <2>4. Cardinality(T) \in Nat
      BY <2>3, FS_CardinalityType
    <2> HIDE DEF R
    <2> QED
      BY <1>1, <1>2, <2>3, <2>4 DEF Has
  <1>3. CASE x \notin T
    <2>1. T = R
      BY <1>3
    <2>2. IsFiniteSet(T) /\ Cardinality(T) = Cardinality(R)
      BY <1>1, <2>1, Zenon
    <2>3. Cardinality(T) \in Nat
      BY <2>2, FS_CardinalityType
    <2> HIDE DEF R
    <2> QED
      BY <1>1, <1>3, <2>2, <2>3 DEF Has
  <1> QED
    BY <1>2, <1>3, Zenon

\* Any set of workers is finite.
LEMMA WorkersCounted ==
    ASSUME NEW S \in SUBSET Worker
    PROVE  IsFiniteSet(S) /\ Cardinality(S) \in Nat /\ (Cardinality(S) = 0 <=> S = {})
  <1>1. IsFiniteSet(S)
    BY JobAssumption, FS_Subset, Zenon
  <1> QED
    BY <1>1, FS_CardinalityType, FS_EmptySet, Zenon

\* Only t moves.
Moves(t) ==
    /\ \E place : Goes(t, place)
    /\ \A u \in Thread : u # t => at'[u] = at[u] /\ job'[u] = job[u]

LEMMA Moved ==
    ASSUME Finite, NEW t \in Thread, Moves(t)
    PROVE  /\ IsFiniteSet(Adding')
           /\ Cardinality(Adding) \in Nat /\ Cardinality(Adding') \in Nat
           /\ Cardinality(Adding') = Cardinality(Adding) + Has(Adding', t) - Has(Adding, t)
           /\ Cardinality(Live') = Cardinality(Live) + Has(Live', t) - Has(Live, t)
           /\ Cardinality(Working') = Cardinality(Working) + Has(Working', t) - Has(Working, t)
           /\ Cardinality(Awake') = Cardinality(Awake) + Has(Awake', t) - Has(Awake, t)
           /\ Cardinality(In') = Cardinality(In) + Has(In', t) - Has(In, t)
  <1>1. \A y : y # t => (y \in Adding <=> y \in Adding')
    BY Zenon DEF Moves, Adding
  <1>2. IsFiniteSet(Adding)
    BY DEF Finite
  <1>3. /\ IsFiniteSet(Adding')
        /\ Cardinality(Adding) \in Nat /\ Cardinality(Adding') \in Nat
        /\ Cardinality(Adding') = Cardinality(Adding) + Has(Adding', t) - Has(Adding, t)
    BY <1>1, <1>2, Counted, Zenon
  <1>4. /\ \A y : y # t => (y \in Live <=> y \in Live')
        /\ \A y : y # t => (y \in Working <=> y \in Working')
        /\ \A y : y # t => (y \in Awake <=> y \in Awake')
        /\ \A y : y # t => (y \in In <=> y \in In')
    BY Zenon DEF Moves, Live, Working, Awake, In, Thread
  <1>5. IsFiniteSet(Live) /\ IsFiniteSet(Working) /\ IsFiniteSet(Awake) /\ IsFiniteSet(In)
    <2>1. Live \in SUBSET Worker /\ Working \in SUBSET Worker
          /\ Awake \in SUBSET Worker /\ In \in SUBSET Worker
      BY DEF Live, Working, Awake, In
    <2> QED
      BY <2>1, WorkersCounted, Zenon
  <1> QED
    BY <1>3, <1>4, <1>5, Counted, Zenon

-----------------------------------------------------------------------------
(* The steps, by what they move.                                             *)

\* A worker goes to take a task or to pause, or comes back from pausing.
Pausing(w) == Wake(w) \/ TryPause(w) \/ Deactivate(w) \/ SetAllPaused(w) \/ Exit(w)

\* A worker goes on with the job it has.
Passing(w) ==
    \/ RunPlain(w) \/ resume(w) \/ Enter(w) \/ Return(w) \/ insertPathRequest(w)
    \/ Asked(w) \/ yield(w) \/ updatePaths(w)

\* A thread asks the counter of closures for leave to add a job.
Wrapping(t) == post(t) \/ (t \in Worker /\ newPFWork(t))

LEMMA Actions ==
    ASSUME Next
    PROVE  \/ stop \/ StopStep
           \/ \E c \in Client : \E type \in Type : addJob(c, type)
           \/ \E c \in Client : \E co \in Coro : postCoro(c, co)
           \/ \E c \in Client : expectEarlyExit(c)
           \/ \E t \in Thread : Wrapping(t)
           \/ \E t \in Thread : addRefCountedJob(t)
           \/ \E w \in Worker : Pausing(w)
           \/ \E w \in Worker : getNextJob(w)
           \/ \E w \in Worker : DestroyJob(w)
           \/ \E w \in Worker : EndTask(w)
           \/ \E w \in Worker : Passing(w)
  <1>1. ASSUME NEW c \in Client, ClientStep(c)
        PROVE  Wrapping(c) \/ addRefCountedJob(c) \/ expectEarlyExit(c)
    BY <1>1, Zenon DEF ClientStep, Wrapping
  <1>2. ASSUME NEW w \in Worker, WorkerStep(w)
        PROVE  \/ Pausing(w) \/ getNextJob(w) \/ DestroyJob(w) \/ EndTask(w) \/ Passing(w)
               \/ Wrapping(w) \/ addRefCountedJob(w)
    BY <1>2, Zenon DEF WorkerStep, Pausing, Passing, Wrapping
  <1> QED
    BY <1>1, <1>2, Zenon DEF Next, Thread

\* Who moves, and where to.
LEMMA GoesThere ==
    ASSUME Types, NEW t \in Thread, NEW place, Goes(t, place),
           job' = job \/ \E j : job' = [job EXCEPT ![t] = j]
    PROVE  at'[t] = place /\ Moves(t)
  <1>1. at \in [Thread -> WorkerPlaces \cup ClientPlaces] /\ at' = [at EXCEPT ![t] = place]
    BY DEF Types, AtTypes, Goes
  <1>2. at'[t] = place /\ \A u \in Thread : u # t => at'[u] = at[u]
    BY <1>1, Zenon
  <1>3. \A u \in Thread : u # t => job'[u] = job[u]
    <2>1. job \in [Thread -> Jobs]
      BY DEF Types, JobTypes
    <2> QED
      BY <2>1, Zenon
  <1> QED
    BY <1>2, <1>3, Zenon DEF Moves

LEMMA PausingMoves ==
    ASSUME Types, NEW w \in Worker, Pausing(w)
    PROVE  /\ Moves(w)
           /\ at[w] \in {"wait", "pause", "paused", "last", "asleep"}
           /\ at'[w] \in {"task", "pause", "paused", "last", "asleep", "exited"}
           /\ UNCHANGED <<queue, processCount, nSuspend, closures, stopping, job, coros>>
  <1>0. w \in Thread
    BY DEF Thread
  <1>1. CASE Wake(w)
    BY <1>0, <1>1, GoesThere, Zenon DEF Wake
  <1>2. CASE TryPause(w)
    BY <1>0, <1>2, GoesThere, Zenon DEF TryPause
  <1>3. CASE Deactivate(w)
    BY <1>0, <1>3, GoesThere, Zenon DEF Deactivate
  <1>4. CASE SetAllPaused(w)
    BY <1>0, <1>4, GoesThere, Zenon DEF SetAllPaused
  <1>5. CASE Exit(w)
    BY <1>0, <1>5, GoesThere, Zenon DEF Exit
  <1> QED
    BY <1>1, <1>2, <1>3, <1>4, <1>5, Zenon DEF Pausing

LEMMA PassingMoves ==
    ASSUME Types, NEW w \in Worker, Passing(w)
    PROVE  /\ Moves(w)
           /\ at[w] \in LivePlaces \ {"adding"} /\ at'[w] \in LivePlaces \ {"adding"}
           /\ UNCHANGED <<queue, processCount, workers, closures, stopping>>
  <1>0. w \in Thread
    BY DEF Thread
  <1>1. CASE RunPlain(w)
    BY <1>0, <1>1, GoesThere DEF RunPlain, LivePlaces
  <1>2. CASE resume(w)
    BY <1>0, <1>2, GoesThere DEF resume, LivePlaces
  <1>3. CASE Enter(w)
    BY <1>0, <1>3, GoesThere DEF Enter, LivePlaces
  <1>4. CASE Return(w)
    BY <1>0, <1>4, GoesThere DEF Return, Leave, LivePlaces
  <1>5. CASE insertPathRequest(w)
    BY <1>0, <1>5, GoesThere DEF insertPathRequest, LivePlaces
  <1>6. CASE Asked(w)
    BY <1>0, <1>6, GoesThere DEF Asked, Leave, LivePlaces
  <1>7. CASE yield(w)
    BY <1>0, <1>7, GoesThere DEF yield, Leave, LivePlaces
  <1>8. CASE updatePaths(w)
    <2>1. job' = job \/ \E j : job' = [job EXCEPT ![w] = j]
      BY <1>8, Zenon DEF updatePaths
    <2>2. at[w] = "run" /\ \E place \in {"post", "done"} : Goes(w, place)
      BY <1>8, Zenon DEF updatePaths
    <2>3. UNCHANGED <<queue, processCount, workers, closures, stopping>>
      BY <1>8, Zenon DEF updatePaths
    <2> QED
      BY <1>0, <2>1, <2>2, <2>3, GoesThere, Zenon DEF LivePlaces
  <1> QED
    BY <1>1, <1>2, <1>3, <1>4, <1>5, <1>6, <1>7, <1>8, Zenon DEF Passing

LEMMA WrappingMoves ==
    ASSUME Types, NEW t \in Thread, Wrapping(t)
    PROVE  /\ Moves(t)
           /\ \/ /\ ~waitForClosures /\ closureCount' = closureCount + 1
                 /\ at'[t] = "adding"
              \/ /\ waitForClosures /\ UNCHANGED closureCount
                 /\ at'[t] = IF at[t] = "ask" THEN "asked"
                             ELSE IF t \in Client THEN "refused" ELSE "resume"
           /\ at[t] = "post" \/ (at[t] = "ask" /\ t \in Worker)
           /\ UNCHANGED <<queue, processCount, nSuspend, workers, waitForClosures,
                          stopping, job, coros>>
  <1>1. CASE post(t)
    BY <1>1, GoesThere, Zenon DEF post, wrap
  <1>2. CASE t \in Worker /\ newPFWork(t)
    BY <1>2, GoesThere, Zenon DEF newPFWork, wrap
  <1> QED
    BY <1>1, <1>2, Zenon DEF Wrapping

LEMMA AddingMoves ==
    ASSUME Types, NEW t \in Thread, addRefCountedJob(t)
    PROVE  Moves(t) /\ at[t] = "adding" /\ at'[t] = AfterAdding(t)
BY GoesThere, Zenon DEF addRefCountedJob

LEMMA TakingMoves ==
    ASSUME Types, NEW w \in Worker, getNextJob(w)
    PROVE  /\ Moves(w) /\ at[w] = "task" /\ at'[w] = "run"
           /\ job'[w] \in Runnable
           /\ jobSet' = jobSet \ {job'[w]}
           /\ waiting' = [waiting EXCEPT ![job'[w].type] = @ - 1]
           /\ job' = [job EXCEPT ![w] = job'[w]]
           /\ processCount' = processCount + 1
           /\ UNCHANGED <<lastJob, deferred, nSuspend, workers, closures, stopping, coros>>
  <1>1. PICK j \in Runnable :
          /\ jobSet' = jobSet \ {j}
          /\ waiting' = [waiting EXCEPT ![j.type] = @ - 1]
          /\ job' = [job EXCEPT ![w] = j]
    BY Zenon DEF getNextJob
  <1>2. w \in Thread /\ job \in [Thread -> Jobs]
    BY DEF Thread, Types, JobTypes
  <1>3. job'[w] = j
    BY <1>1, <1>2, Zenon
  <1>4. at[w] = "task" /\ Goes(w, "run") /\ processCount' = processCount + 1
        /\ UNCHANGED <<lastJob, deferred, nSuspend, workers, closures, stopping, coros>>
    BY Zenon DEF getNextJob
  <1>5. Moves(w) /\ at'[w] = "run"
    BY <1>1, <1>2, <1>4, GoesThere, Zenon
  <1> QED
    BY <1>1, <1>3, <1>4, <1>5, Zenon

LEMMA FinishingMoves ==
    ASSUME Types, NEW w \in Worker
    PROVE  /\ DestroyJob(w) => Moves(w) /\ at[w] = "done" /\ at'[w] = "finish"
           /\ EndTask(w) => Moves(w) /\ at[w] = "finish" /\ at'[w] = "wait"
  <1>1. w \in Thread
    BY DEF Thread
  <1>2. ASSUME DestroyJob(w) PROVE Moves(w) /\ at[w] = "done" /\ at'[w] = "finish"
    BY <1>1, <1>2, GoesThere, Zenon DEF DestroyJob
  <1>3. ASSUME EndTask(w) PROVE Moves(w) /\ at[w] = "finish" /\ at'[w] = "wait"
    BY <1>1, <1>3, GoesThere, Zenon DEF EndTask
  <1> QED
    BY <1>2, <1>3, Zenon

LEMMA ClientMoves ==
    ASSUME Types, NEW c \in Client
    PROVE  /\ c \in Thread /\ c \notin Worker
           /\ \A type : addJob(c, type) => Moves(c) /\ at[c] = "idle" /\ at'[c] = "adding"
           /\ \A co : postCoro(c, co) => Moves(c) /\ at[c] = "idle" /\ at'[c] = "post"
           /\ expectEarlyExit(c) => Moves(c) /\ at[c] = "refused" /\ at'[c] = "idle"
  <1>1. c \in Thread /\ c \notin Worker
    BY JobAssumption DEF Thread
  <1>2. ASSUME NEW type, addJob(c, type) PROVE Moves(c) /\ at[c] = "idle" /\ at'[c] = "adding"
    BY <1>1, <1>2, GoesThere, Zenon DEF addJob, wrap
  <1>3. ASSUME NEW co, postCoro(c, co) PROVE Moves(c) /\ at[c] = "idle" /\ at'[c] = "post"
    BY <1>1, <1>3, GoesThere, Zenon DEF postCoro
  <1>4. ASSUME expectEarlyExit(c) PROVE Moves(c) /\ at[c] = "refused" /\ at'[c] = "idle"
    BY <1>1, <1>4, GoesThere, Zenon DEF expectEarlyExit
  <1> QED
    BY <1>1, <1>2, <1>3, <1>4, Zenon

\* The stop moves no thread and no job.
LEMMA StopMoves ==
    ASSUME stop \/ StopStep
    PROVE  /\ UNCHANGED <<queue, processCount, nSuspend, closureCount, at, job, coros>>
           /\ UNCHANGED <<semaphore, pauseCount>> \/ pauseAllThreads
           /\ isStopping' = isStopping \/ onChildrenStopped
           /\ waitForClosures => waitForClosures'
           /\ stop \/ UNCHANGED stopEntered
           /\ ChildrenStop \/ UNCHANGED childrenStopped
  <1>1. CASE stop
    BY <1>1, Zenon DEF stop, workers, closures
  <1>2. CASE join
    BY <1>2 DEF join, workers
  <1>3. CASE ChildrenStop
    BY <1>3, Zenon DEF ChildrenStop, workers, closures
  <1>4. CASE onChildrenStopped
    BY <1>4, Zenon DEF onChildrenStopped, workers, closures
  <1>5. CASE QueueStopped
    BY <1>5, Zenon DEF QueueStopped, workers, closures
  <1>6. CASE pauseAllThreads
    BY <1>6, Zenon DEF pauseAllThreads, closures
  <1>7. CASE AllPaused
    BY <1>7, Zenon DEF AllPaused, workers, closures
  <1> QED
    BY <1>1, <1>2, <1>3, <1>4, <1>5, <1>6, <1>7, Zenon DEF StopStep

\* Every thread stays where its kind of thread may be.
LEMMA PlacesKept ==
    ASSUME Types, NEW t \in Thread, Moves(t),
           t \in Worker => at'[t] \in WorkerPlaces,
           t \in Client => at'[t] \in ClientPlaces
    PROVE  AtTypes'
  <1>1. at \in [Thread -> WorkerPlaces \cup ClientPlaces]
        /\ (\A w \in Worker : at[w] \in WorkerPlaces)
        /\ (\A c \in Client : at[c] \in ClientPlaces)
    BY DEF Types, AtTypes
  <1>2. PICK place : at' = [at EXCEPT ![t] = place]
    BY Zenon DEF Moves, Goes
  <1>3. place = at'[t] /\ place \in WorkerPlaces \cup ClientPlaces
    BY <1>1, <1>2, Zenon DEF Thread
  <1>4. at' \in [Thread -> WorkerPlaces \cup ClientPlaces]
    BY <1>1, <1>2, <1>3, Zenon
  <1>5. (\A w \in Worker : at'[w] \in WorkerPlaces) /\ (\A c \in Client : at'[c] \in ClientPlaces)
    BY <1>1, Zenon DEF Moves, Thread
  <1> QED
    BY <1>4, <1>5, Zenon DEF AtTypes

LEMMA AtTypesKept == ASSUME Types, Kinds, Next PROVE AtTypes'
  <1>1. CASE stop \/ StopStep
    <2>1. at' = at
      BY <1>1, StopMoves, Zenon
    <2> QED
      BY <2>1, Zenon DEF Types, AtTypes
  <1>2. ASSUME NEW c \in Client, NEW type \in Type, addJob(c, type) PROVE AtTypes'
    BY <1>2, ClientMoves, PlacesKept, Zenon DEF ClientPlaces
  <1>3. ASSUME NEW c \in Client, NEW co \in Coro, postCoro(c, co) PROVE AtTypes'
    BY <1>3, ClientMoves, PlacesKept, Zenon DEF ClientPlaces
  <1>4. ASSUME NEW c \in Client, expectEarlyExit(c) PROVE AtTypes'
    BY <1>4, ClientMoves, PlacesKept, Zenon DEF ClientPlaces
  <1>5. ASSUME NEW t \in Thread, Wrapping(t) PROVE AtTypes'
    <2>1. /\ Moves(t)
          /\ t \in Client => at'[t] \in {"adding", "refused"} \/ (t \in Worker /\ at'[t] = "asked")
      BY <1>5, WrappingMoves, Zenon
    <2>2. t \in Worker => t \notin Client
      BY JobAssumption
    <2>3. t \in Worker => at'[t] \in {"adding", "asked", "resume"}
      BY <1>5, <2>2, WrappingMoves, Zenon
    <2> QED
      BY <1>5, <2>1, <2>2, <2>3, PlacesKept, Zenon DEF ClientPlaces, WorkerPlaces, LivePlaces
  <1>6. ASSUME NEW t \in Thread, addRefCountedJob(t) PROVE AtTypes'
    <2>1. Moves(t) /\ at'[t] = AfterAdding(t)
      BY <1>6, AddingMoves, Zenon
    <2>2. t \in Client => AfterAdding(t) = "idle" /\ t \notin Worker
      BY JobAssumption DEF AfterAdding
    <2>3. t \in Worker => AfterAdding(t) \in {"asked", "run"}
      BY JobAssumption DEF AfterAdding
    <2> QED
      BY <1>6, <2>1, <2>2, <2>3, PlacesKept, Zenon DEF ClientPlaces, WorkerPlaces, LivePlaces
  <1>7. ASSUME NEW w \in Worker, \/ Pausing(w) \/ getNextJob(w) \/ DestroyJob(w) \/ EndTask(w)
                                 \/ Passing(w)
        PROVE  AtTypes'
    <2>1. w \in Thread /\ w \notin Client
      BY JobAssumption DEF Thread
    <2>2. Moves(w) /\ at'[w] \in LivePlaces \cup {"task", "pause", "paused", "last", "asleep",
                                                 "exited", "finish", "wait"}
      BY <1>7, PausingMoves, TakingMoves, FinishingMoves, PassingMoves, Zenon DEF LivePlaces
    <2>3. at'[w] \in WorkerPlaces
      BY <2>2, Zenon DEF WorkerPlaces
    <2> QED
      BY <2>1, <2>2, <2>3, PlacesKept, Zenon
  <1> QED
    BY <1>1, <1>2, <1>3, <1>4, <1>5, <1>6, <1>7, Actions, Zenon

\* What addRefCountedJob puts in the queue.
LEMMA AddedJob ==
    ASSUME Types, Kinds, NEW t \in Thread, at[t] = "adding"
    PROVE  /\ Added(t) \in Jobs /\ HasCoro(Added(t))
           /\ t \in Client => Added(t) = job[t]
           /\ t \in Worker => (IF job[t].kind = "coro" THEN Added(t) = Job(FindType, "find", NoCoro)
                               ELSE /\ Added(t) = Job(CoroType, "coro", job[t].co)
                                    /\ job[t].kind = "find" /\ job[t].co \in Coro)
  <1>1. job[t] \in Jobs /\ HasCoro(job[t])
    BY DEF Types, JobTypes, Kinds
  <1>2. CASE t \in Client
    BY <1>1, <1>2, JobAssumption DEF Added
  <1>3. CASE t \in Worker /\ job[t].kind = "coro"
    <2>1. t \notin Client
      BY <1>3, JobAssumption
    <2>2. Added(t) = Job(FindType, "find", NoCoro)
      BY <1>3, <2>1, Zenon DEF Added
    <2>3. Job(FindType, "find", NoCoro) \in Jobs /\ HasCoro(Job(FindType, "find", NoCoro))
      BY JobAssumption DEF Job, Jobs, HasCoro
    <2> QED
      BY <1>3, <2>1, <2>2, <2>3, Zenon
  <1>4. CASE t \in Worker /\ job[t].kind # "coro"
    <2>1. t \notin Client
      BY <1>4, JobAssumption
    <2>2. Added(t) = Job(CoroType, "coro", job[t].co)
      BY <1>4, <2>1, Zenon DEF Added
    <2>3. job[t].kind = "find" /\ job[t].co \in Coro
      BY <1>4 DEF Kinds, WorkerKind
    <2>4. Job(CoroType, "coro", job[t].co) \in Jobs /\ HasCoro(Job(CoroType, "coro", job[t].co))
      BY <2>3, JobAssumption DEF Job, Jobs, HasCoro
    <2> QED
      BY <1>4, <2>1, <2>2, <2>3, <2>4, Zenon
  <1> QED
    BY <1>2, <1>3, <1>4, Zenon DEF Thread

\* The job that is added is new to the queue: its id is the next one.
LEMMA QueuedJob ==
    ASSUME Types, Kinds, NEW t \in Thread, addRefCountedJob(t)
    PROVE  \E j \in Jobs \ jobSet :
              /\ jobSet' = jobSet \cup {j} /\ j.id = lastJob + 1
              /\ j.type = Added(t).type /\ j.kind = Added(t).kind /\ j.co = Added(t).co
              /\ HasCoro(j) /\ j.type \in Type
  <1> DEFINE j == [Added(t) EXCEPT !.id = lastJob + 1]
  <1>1. Added(t) \in Jobs /\ HasCoro(Added(t))
    BY AddedJob DEF addRefCountedJob
  <1>2. lastJob \in Nat /\ (\A k \in jobSet : k.id <= lastJob)
    BY DEF Types, JobTypes
  <1>3. /\ j \in Jobs /\ j.id = lastJob + 1
        /\ j.type = Added(t).type /\ j.kind = Added(t).kind /\ j.co = Added(t).co
    BY <1>1, <1>2 DEF Jobs
  <1>4. j \notin jobSet
    <2>1. ~(lastJob + 1 <= lastJob)
      BY <1>2
    <2> QED
      BY <1>2, <1>3, <2>1, Zenon
  <1>5. jobSet' = jobSet \cup {j}
    BY DEF addRefCountedJob
  <1>6. HasCoro(j) /\ j.type \in Type
    BY <1>1, <1>3 DEF HasCoro, Jobs
  <1> HIDE DEF j
  <1> QED
    BY <1>3, <1>4, <1>5, <1>6, Zenon

LEMMA JobTypesKept == ASSUME Types, Kinds, Next PROVE JobTypes'
  <1>1. ASSUME UNCHANGED <<job, lastJob, jobSet>> PROVE JobTypes'
    BY <1>1, Zenon DEF Types, JobTypes
  <1>2. ASSUME NEW t \in Thread, NEW j \in Jobs, job' = [job EXCEPT ![t] = j],
               UNCHANGED <<lastJob, jobSet>>
        PROVE  JobTypes'
    <2>1. job' \in [Thread -> Jobs]
      BY <1>2, Zenon DEF Types, JobTypes
    <2> QED
      BY <1>2, <2>1, Zenon DEF Types, JobTypes
  <1>3. CASE stop \/ StopStep
    BY <1>1, <1>3, StopMoves, Zenon DEF queue
  <1>4. ASSUME NEW c \in Client, NEW type \in Type, addJob(c, type) PROVE JobTypes'
    <2>1. Job(type, "plain", NoCoro) \in Jobs
      BY DEF Job, Jobs
    <2>2. job' = [job EXCEPT ![c] = Job(type, "plain", NoCoro)] /\ UNCHANGED queue
      BY <1>4, Zenon DEF addJob
    <2> QED
      BY <1>2, <2>1, <2>2, Zenon DEF queue, Thread
  <1>5. ASSUME NEW c \in Client, NEW co \in Coro, postCoro(c, co) PROVE JobTypes'
    <2>1. Job(CoroType, "coro", co) \in Jobs
      BY JobAssumption DEF Job, Jobs
    <2>2. job' = [job EXCEPT ![c] = Job(CoroType, "coro", co)] /\ UNCHANGED queue
      BY <1>5, Zenon DEF postCoro
    <2> QED
      BY <1>2, <2>1, <2>2, Zenon DEF queue, Thread
  <1>6. ASSUME NEW c \in Client, expectEarlyExit(c) PROVE JobTypes'
    BY <1>1, <1>6, Zenon DEF expectEarlyExit, queue
  <1>7. ASSUME NEW t \in Thread, Wrapping(t) PROVE JobTypes'
    BY <1>1, <1>7, WrappingMoves, Zenon DEF queue
  <1>8. ASSUME NEW t \in Thread, addRefCountedJob(t) PROVE JobTypes'
    <2>1. PICK j \in Jobs : jobSet' = jobSet \cup {j} /\ j.id = lastJob + 1
      BY <1>8, QueuedJob, Zenon
    <2>2. lastJob' = lastJob + 1 /\ job' = job
      BY <1>8, Zenon DEF addRefCountedJob
    <2>3. lastJob \in Nat /\ jobSet \subseteq Jobs /\ (\A k \in jobSet : k.id <= lastJob)
      BY DEF Types, JobTypes
    <2>4. lastJob' \in Nat /\ (\A k \in jobSet : k.id <= lastJob') /\ j.id <= lastJob'
      <3>1. \A k \in jobSet : k.id \in Nat
        BY <2>3 DEF Jobs
      <3> QED
        BY <2>1, <2>2, <2>3, <3>1
    <2>5. job' \in [Thread -> Jobs]
      BY <2>2 DEF Types, JobTypes
    <2> QED
      BY <2>1, <2>3, <2>4, <2>5, Zenon DEF JobTypes
  <1>9. ASSUME NEW w \in Worker, Pausing(w) PROVE JobTypes'
    BY <1>1, <1>9, PausingMoves, Zenon DEF queue
  <1>10. ASSUME NEW w \in Worker, getNextJob(w) PROVE JobTypes'
    <2>1. job'[w] \in jobSet /\ jobSet' = jobSet \ {job'[w]} /\ lastJob' = lastJob
          /\ job' = [job EXCEPT ![w] = job'[w]]
      BY <1>10, TakingMoves, Zenon DEF Runnable
    <2>2. job'[w] \in Jobs
      BY <2>1, Zenon DEF Types, JobTypes
    <2>3. job' \in [Thread -> Jobs]
      BY <2>1, <2>2, Zenon DEF Types, JobTypes
    <2> QED
      BY <2>1, <2>3, Zenon DEF Types, JobTypes
  <1>11. ASSUME NEW w \in Worker, DestroyJob(w) PROVE JobTypes'
    BY <1>1, <1>11, Zenon DEF DestroyJob, queue
  <1>12. ASSUME NEW w \in Worker, EndTask(w) PROVE JobTypes'
    <2>1. NoJob \in Jobs
      BY JobAssumption DEF NoJob, Job, Jobs
    <2> QED
      BY <1>2, <1>12, <2>1, Zenon DEF EndTask, Thread
  <1>13. ASSUME NEW w \in Worker, Passing(w) PROVE JobTypes'
    <2>1. UNCHANGED <<lastJob, jobSet>> /\ w \in Thread
      BY <1>13, PassingMoves, Zenon DEF queue, Thread
    <2>2. job' = job \/ \E co \in Coro : job' = [job EXCEPT ![w].co = co]
      BY <1>13, Zenon DEF Passing, RunPlain, resume, Enter, Return, insertPathRequest,
                          Asked, yield, updatePaths
    <2>3. ASSUME NEW co \in Coro, job' = [job EXCEPT ![w].co = co] PROVE JobTypes'
      <3>1. [job[w] EXCEPT !.co = co] \in Jobs
        BY <2>1 DEF Types, JobTypes, Jobs
      <3>2. job' = [job EXCEPT ![w] = [job[w] EXCEPT !.co = co]]
        BY <2>1, <2>3 DEF Types, JobTypes
      <3> QED
        BY <1>2, <2>1, <3>1, <3>2, Zenon
    <2> QED
      BY <1>1, <2>1, <2>2, <2>3, Zenon
  <1> QED
    BY <1>3, <1>4, <1>5, <1>6, <1>7, <1>8, <1>9, <1>10, <1>11, <1>12, <1>13, Actions, Zenon

LEMMA CoroTypesKept == ASSUME Types, Next PROVE CoroTypes'
  <1>0. /\ coro \in [Coro -> {"none", "created", "yielded", "finished", "overrun"}]
        /\ mutex_ \in [Coro -> Worker \cup {NoOne}]
        /\ request \in [Coro -> {"none", "waiting", "found"}]
    BY DEF Types, CoroTypes
  <1>1. ASSUME UNCHANGED coros PROVE CoroTypes'
    BY <1>1, Zenon DEF Types, CoroTypes, coros
  <1>2. ASSUME NEW S, NEW f \in [Coro -> S], NEW co, NEW v \in S
        PROVE  [f EXCEPT ![co] = v] \in [Coro -> S]
    BY Zenon
  <1>3. CASE stop \/ StopStep
    BY <1>1, <1>3, StopMoves, Zenon
  <1>4. ASSUME NEW c \in Client, NEW type \in Type, addJob(c, type) PROVE CoroTypes'
    BY <1>1, <1>4, Zenon DEF addJob
  <1>5. ASSUME NEW c \in Client, NEW co \in Coro, postCoro(c, co) PROVE CoroTypes'
    BY <1>0, <1>2, <1>5, Zenon DEF postCoro, CoroTypes
  <1>6. ASSUME NEW c \in Client, expectEarlyExit(c) PROVE CoroTypes'
    BY <1>0, <1>2, <1>6, Zenon DEF expectEarlyExit, CoroTypes
  <1>7. ASSUME NEW t \in Thread, Wrapping(t) PROVE CoroTypes'
    BY <1>1, <1>7, WrappingMoves, Zenon
  <1>8. ASSUME NEW t \in Thread, addRefCountedJob(t) PROVE CoroTypes'
    BY <1>1, <1>8, Zenon DEF addRefCountedJob
  <1>9. ASSUME NEW w \in Worker, Pausing(w) PROVE CoroTypes'
    BY <1>1, <1>9, PausingMoves, Zenon
  <1>10. ASSUME NEW w \in Worker, getNextJob(w) \/ DestroyJob(w) \/ EndTask(w) PROVE CoroTypes'
    BY <1>1, <1>10, Zenon DEF getNextJob, DestroyJob, EndTask
  <1>11. ASSUME NEW w \in Worker, Passing(w) PROVE CoroTypes'
    <2>1. CASE RunPlain(w) \/ resume(w)
      BY <1>1, <2>1, Zenon DEF RunPlain, resume
    <2>2. CASE Enter(w)
      <3>1. w \in Worker \cup {NoOne}
        OBVIOUS
      <3> QED
        BY <1>0, <1>2, <2>2, <3>1, Zenon DEF Enter, CoroTypes
    <2>3. ASSUME NEW state \in {"finished", "overrun", "yielded"}, Leave(w, state)
          PROVE  /\ coro' \in [Coro -> {"none", "created", "yielded", "finished", "overrun"}]
                 /\ mutex_' \in [Coro -> Worker \cup {NoOne}]
      BY <1>0, <1>2, <2>3, Zenon DEF Leave
    <2>4. CASE Return(w)
      BY <1>0, <2>3, <2>4, Zenon DEF Return, CoroTypes
    <2>5. CASE insertPathRequest(w)
      BY <1>0, <1>2, <2>5, Zenon DEF insertPathRequest, CoroTypes
    <2>6. CASE Asked(w)
      BY <1>0, <1>1, <1>2, <2>3, <2>6, Zenon DEF Asked, CoroTypes
    <2>7. CASE yield(w)
      BY <1>0, <2>3, <2>7, Zenon DEF yield, CoroTypes
    <2>8. CASE updatePaths(w)
      BY <1>0, <1>2, <2>8, Zenon DEF updatePaths, CoroTypes
    <2> QED
      BY <1>11, <2>1, <2>2, <2>4, <2>5, <2>6, <2>7, <2>8, Zenon DEF Passing
  <1> QED
    BY <1>3, <1>4, <1>5, <1>6, <1>7, <1>8, <1>9, <1>10, <1>11, Actions, Zenon

LEMMA NumberTypesKept == ASSUME Types, Next PROVE NumberTypes'
  <1>0. /\ semaphore \in Nat /\ pauseCount \in Nat
        /\ processCount \in Int /\ nSuspend \in Int /\ closureCount \in Int
    BY DEF Types, NumberTypes
  <1>1. CASE stop \/ StopStep
    <2>1. UNCHANGED <<processCount, nSuspend, closureCount>>
      BY <1>1, StopMoves, Zenon
    <2>2. semaphore' \in Nat /\ pauseCount' \in Nat
      <3>1. CASE pauseAllThreads
        <4>1. Cardinality(Worker) \in Nat
          BY WorkersCounted
        <4> QED
          BY <1>0, <3>1, <4>1 DEF pauseAllThreads
      <3> QED
        BY <1>0, <1>1, <3>1, StopMoves, Zenon
    <2> QED
      BY <1>0, <2>1, <2>2 DEF NumberTypes
  <1>2. ASSUME NEW c \in Client, NEW type \in Type, addJob(c, type) PROVE NumberTypes'
    BY <1>0, <1>2 DEF addJob, wrap, workers, NumberTypes
  <1>3. ASSUME NEW c \in Client, NEW co \in Coro, postCoro(c, co) PROVE NumberTypes'
    BY <1>0, <1>3 DEF postCoro, workers, closures, NumberTypes
  <1>4. ASSUME NEW c \in Client, expectEarlyExit(c) PROVE NumberTypes'
    BY <1>0, <1>4 DEF expectEarlyExit, workers, closures, NumberTypes
  <1>5. ASSUME NEW t \in Thread, Wrapping(t) PROVE NumberTypes'
    <2>1. /\ UNCHANGED <<processCount, nSuspend, workers>>
          /\ closureCount' = closureCount \/ closureCount' = closureCount + 1
      BY <1>5, WrappingMoves, Zenon
    <2> QED
      BY <1>0, <2>1 DEF workers, NumberTypes
  <1>6. ASSUME NEW t \in Thread, addRefCountedJob(t) PROVE NumberTypes'
    <2>1. /\ UNCHANGED <<processCount, nSuspend, pauseCount, closures>>
          /\ semaphore' = semaphore \/ semaphore' = semaphore + 1
      BY <1>6, Zenon DEF addRefCountedJob, queueJob
    <2> QED
      BY <1>0, <2>1 DEF closures, NumberTypes
  <1>7. ASSUME NEW w \in Worker, Pausing(w) PROVE NumberTypes'
    <2>1. UNCHANGED <<processCount, nSuspend, closures>>
      BY <1>7, PausingMoves, Zenon
    <2>2. /\ semaphore' = semaphore \/ (semaphore > 0 /\ semaphore' = semaphore - 1)
          /\ pauseCount' = pauseCount \/ (pauseCount > 0 /\ pauseCount' = pauseCount - 1)
      BY <1>7, Zenon DEF Pausing, Wake, TryPause, Deactivate, SetAllPaused, Exit, workers
    <2> QED
      BY <1>0, <2>1, <2>2 DEF closures, NumberTypes
  <1>8. ASSUME NEW w \in Worker, getNextJob(w) PROVE NumberTypes'
    BY <1>0, <1>8, TakingMoves DEF workers, closures, NumberTypes
  <1>9. ASSUME NEW w \in Worker, DestroyJob(w) PROVE NumberTypes'
    BY <1>0, <1>9 DEF DestroyJob, workers, closures, NumberTypes
  <1>10. ASSUME NEW w \in Worker, EndTask(w) PROVE NumberTypes'
    <2>1. /\ UNCHANGED <<nSuspend, pauseCount, closures>> /\ processCount' = processCount - 1
          /\ semaphore' = semaphore \/ semaphore' = semaphore + 1
      BY <1>10, Zenon DEF EndTask, finishJob
    <2> QED
      BY <1>0, <2>1 DEF closures, NumberTypes
  <1>11. ASSUME NEW w \in Worker, Passing(w) PROVE NumberTypes'
    <2>1. UNCHANGED <<processCount, workers, closures>>
      BY <1>11, PassingMoves, Zenon
    <2>2. nSuspend' = nSuspend \/ nSuspend' = nSuspend - 1 \/ nSuspend' = nSuspend + 1
      BY <1>11, Zenon DEF Passing, RunPlain, resume, Enter, Return, insertPathRequest,
                          Asked, yield, updatePaths
    <2> QED
      BY <1>0, <2>1, <2>2 DEF workers, closures, NumberTypes
  <1> QED
    BY <1>1, <1>2, <1>3, <1>4, <1>5, <1>6, <1>7, <1>8, <1>9, <1>10, <1>11, Actions, Zenon

LEMMA TypesKept == ASSUME Types, Kinds, Next PROVE Types'
BY AtTypesKept, JobTypesKept, CoroTypesKept, NumberTypesKept, Zenon DEF Types

-----------------------------------------------------------------------------
(* The kinds of the jobs.                                                    *)

LEMMA KindsMoved ==
    ASSUME Kinds, NEW t \in Thread, Moves(t),
           \A j \in jobSet' : HasCoro(j), HasCoro(job'[t]),
           t \in Client => (at'[t] \in {"post", "refused"} => job'[t].kind = "coro"),
           t \in Worker => WorkerKind(t)'
    PROVE  Kinds'
  <1>1. \A u \in Thread : u # t => at'[u] = at[u] /\ job'[u] = job[u]
    BY Zenon DEF Moves
  <1>2. \A u \in Thread : HasCoro(job'[u])
    BY <1>1, Zenon DEF Kinds
  <1>3. \A c \in Client : at'[c] \in {"post", "refused"} => job'[c].kind = "coro"
    BY <1>1, Zenon DEF Kinds, Thread
  <1>4. \A w \in Worker : WorkerKind(w)'
    BY <1>1, Zenon DEF Kinds, WorkerKind, Thread
  <1> QED
    BY <1>2, <1>3, <1>4, Zenon DEF Kinds

\* Only the job a coroutine was started with asks for a path: a job that finds
\* paths resumes one that has asked already.
LEMMA OnlyNewAsks ==
    ASSUME Kinds, Coroutines, NEW w \in Worker, insertPathRequest(w)
    PROVE  job[w].kind = "coro"
  <1> SUFFICES ASSUME job[w].kind # "coro" PROVE FALSE
    OBVIOUS
  <1>1. at[w] = "inside" /\ coro[job[w].co] = "created"
    BY DEF insertPathRequest
  <1>2. job[w].kind = "find" /\ job[w].co \in Coro
    BY <1>1 DEF Kinds, WorkerKind
  <1>3. Begun(job[w].co)
    BY <1>2, Zenon DEF Coroutines, RequestsBegun
  <1>4. Asking(job[w].co)
    BY <1>1, <1>3, Zenon DEF Begun
  <1>5. PICK v \in Worker : /\ at[v] \in {"ask", "adding", "asked", "yield"}
                            /\ job[v].kind = "coro" /\ job[v].co = job[w].co
    BY <1>4, Zenon DEF Asking
  <1>6. v \in In /\ w \in In /\ at[v] # "enter"
    BY <1>1, <1>5 DEF In, InPlaces
  <1>7. mutex_[job[w].co] = v /\ mutex_[job[w].co] = w
    BY <1>1, <1>5, <1>6 DEF Coroutines, InsideHeld
  <1> QED
    BY <1>5, <1>7

LEMMA KindsKept == ASSUME Types, Kinds, Coroutines, Next PROVE Kinds'
  <1>0. /\ \A j \in jobSet : HasCoro(j)
        /\ \A t \in Thread : HasCoro(job[t])
    BY DEF Kinds
  <1>1. CASE stop \/ StopStep
    <2>1. UNCHANGED <<at, job, jobSet>>
      BY <1>1, StopMoves, Zenon DEF queue
    <2> QED
      BY <2>1, Zenon DEF Kinds, WorkerKind
  <1>2. ASSUME NEW c \in Client, NEW type \in Type, addJob(c, type) PROVE Kinds'
    <2>1. c \in Thread /\ c \notin Worker /\ Moves(c) /\ at'[c] = "adding" /\ jobSet' = jobSet
      BY <1>2, ClientMoves, Zenon DEF addJob, queue
    <2>2. job'[c] = Job(type, "plain", NoCoro)
      BY <1>2, <2>1, Zenon DEF addJob, Types, JobTypes
    <2>3. HasCoro(job'[c])
      BY <2>2 DEF Job, HasCoro
    <2> QED
      BY <1>0, <2>1, <2>3, KindsMoved, Zenon
  <1>3. ASSUME NEW c \in Client, NEW co \in Coro, postCoro(c, co) PROVE Kinds'
    <2>1. c \in Thread /\ c \notin Worker /\ Moves(c) /\ at'[c] = "post" /\ jobSet' = jobSet
      BY <1>3, ClientMoves, Zenon DEF postCoro, queue
    <2>2. job'[c] = Job(CoroType, "coro", co)
      BY <1>3, <2>1, Zenon DEF postCoro, Types, JobTypes
    <2>3. HasCoro(job'[c]) /\ job'[c].kind = "coro"
      BY <2>2 DEF Job, HasCoro
    <2> QED
      BY <1>0, <2>1, <2>3, KindsMoved, Zenon
  <1>4. ASSUME NEW c \in Client, expectEarlyExit(c) PROVE Kinds'
    <2>1. c \in Thread /\ c \notin Worker /\ Moves(c) /\ at'[c] = "idle"
          /\ UNCHANGED <<jobSet, job>>
      BY <1>4, ClientMoves, Zenon DEF expectEarlyExit, queue
    <2> QED
      BY <1>0, <2>1, KindsMoved, Zenon
  <1>5. ASSUME NEW t \in Thread, Wrapping(t) PROVE Kinds'
    <2>1. Moves(t) /\ UNCHANGED <<jobSet, job>>
          /\ (at[t] = "post" \/ (at[t] = "ask" /\ t \in Worker))
          /\ at'[t] \in {"adding", IF at[t] = "ask" THEN "asked"
                                   ELSE IF t \in Client THEN "refused" ELSE "resume"}
      BY <1>5, WrappingMoves, Zenon DEF queue
    <2>2. t \in Client => t \notin Worker /\ job'[t].kind = "coro"
      BY <2>1, JobAssumption DEF Kinds
    <2>3. ASSUME t \in Worker PROVE WorkerKind(t)'
      <3>1. t \notin Client /\ WorkerKind(t) /\ HasCoro(job[t])
        BY <2>3, JobAssumption DEF Kinds
      <3>2. CASE at[t] = "post"
        BY <2>1, <3>1, <3>2 DEF WorkerKind
      <3>3. CASE at[t] = "ask"
        BY <2>1, <3>1, <3>3 DEF WorkerKind, HasCoro
      <3> QED
        BY <2>1, <3>2, <3>3, Zenon
    <2> QED
      BY <1>0, <2>1, <2>2, <2>3, KindsMoved, Zenon
  <1>6. ASSUME NEW t \in Thread, addRefCountedJob(t) PROVE Kinds'
    <2>1. Moves(t) /\ at'[t] = AfterAdding(t) /\ job' = job
      BY <1>6, AddingMoves, Zenon DEF addRefCountedJob
    <2>2. \A j \in jobSet' : HasCoro(j)
      BY <1>0, <1>6, QueuedJob, Zenon
    <2>3. t \in Client => AfterAdding(t) = "idle"
      BY JobAssumption DEF AfterAdding
    <2>4. ASSUME t \in Worker PROVE WorkerKind(t)'
      <3>1. AfterAdding(t) = IF job[t].kind = "coro" THEN "asked" ELSE "run"
        BY <2>4, JobAssumption DEF AfterAdding
      <3> QED
        BY <2>1, <3>1 DEF WorkerKind
    <2> QED
      BY <1>0, <2>1, <2>2, <2>3, <2>4, KindsMoved, Zenon
  <1>7. ASSUME NEW w \in Worker, Pausing(w) PROVE Kinds'
    <2>1. w \in Thread /\ w \notin Client
      BY JobAssumption DEF Thread
    <2>2. /\ Moves(w) /\ UNCHANGED <<jobSet, job>>
          /\ at'[w] \in {"task", "pause", "paused", "last", "asleep", "exited"}
      BY <1>7, PausingMoves, Zenon DEF queue
    <2>3. WorkerKind(w)'
      BY <2>2 DEF WorkerKind
    <2> QED
      BY <1>0, <2>1, <2>2, <2>3, KindsMoved, Zenon
  <1>8. ASSUME NEW w \in Worker, getNextJob(w) PROVE Kinds'
    <2>1. w \in Thread /\ w \notin Client
      BY JobAssumption DEF Thread
    <2>2. Moves(w) /\ at'[w] = "run" /\ job'[w] \in jobSet /\ jobSet' \subseteq jobSet
      BY <1>8, TakingMoves, Zenon DEF Runnable
    <2>3. WorkerKind(w)'
      BY <2>2 DEF WorkerKind
    <2> QED
      BY <1>0, <2>1, <2>2, <2>3, KindsMoved, Zenon
  <1>9. ASSUME NEW w \in Worker, DestroyJob(w) \/ EndTask(w) PROVE Kinds'
    <2>1. w \in Thread /\ w \notin Client
      BY JobAssumption DEF Thread
    <2>2. Moves(w) /\ at'[w] \in {"finish", "wait"}
      BY <1>9, FinishingMoves, Zenon
    <2>3. jobSet' = jobSet /\ (job' = job \/ job' = [job EXCEPT ![w] = NoJob])
      BY <1>9, Zenon DEF DestroyJob, EndTask, queue
    <2>4. HasCoro(NoJob)
      BY DEF HasCoro, NoJob, Job
    <2>5. HasCoro(job'[w])
      BY <1>0, <2>1, <2>3, <2>4, Zenon DEF Types, JobTypes
    <2>6. WorkerKind(w)'
      BY <2>2 DEF WorkerKind
    <2> QED
      BY <1>0, <2>1, <2>2, <2>3, <2>5, <2>6, KindsMoved, Zenon
  <1>10. ASSUME NEW w \in Worker, Passing(w) PROVE Kinds'
    <2>1. w \in Thread /\ w \notin Client
      BY JobAssumption DEF Thread
    <2>2. Moves(w) /\ jobSet' = jobSet /\ WorkerKind(w) /\ HasCoro(job[w])
      BY <1>10, <2>1, PassingMoves, Zenon DEF queue, Kinds
    <2>3. ASSUME HasCoro(job'[w]), WorkerKind(w)' PROVE Kinds'
      BY <1>0, <2>1, <2>2, <2>3, KindsMoved, Zenon
    <2>4. CASE RunPlain(w)
      <3>1. job' = job /\ at'[w] = "done"
        BY <2>1, <2>4, GoesThere, Zenon DEF RunPlain
      <3>2. WorkerKind(w)'
        BY <3>1 DEF WorkerKind
      <3> QED
        BY <2>2, <2>3, <3>1, <3>2, Zenon
    <2>5. CASE resume(w)
      <3>1. job' = job /\ at'[w] = "enter"
        BY <2>1, <2>5, GoesThere, Zenon DEF resume
      <3>2. job[w].kind \in {"coro", "find"} /\ job[w].co \in Coro
        BY <2>2, <2>5 DEF resume, WorkerKind, HasCoro
      <3>3. WorkerKind(w)'
        BY <3>1, <3>2 DEF WorkerKind
      <3> QED
        BY <2>2, <2>3, <3>1, <3>3, Zenon
    <2>6. CASE Enter(w)
      <3>1. job' = job /\ at[w] = "enter" /\ at'[w] = "inside"
        BY <2>1, <2>6, GoesThere, Zenon DEF Enter
      <3>2. WorkerKind(w)'
        BY <2>2, <3>1 DEF WorkerKind
      <3> QED
        BY <2>2, <2>3, <3>1, <3>2, Zenon
    <2>7. CASE insertPathRequest(w)
      <3>1. job' = job /\ at'[w] = "ask"
        BY <2>1, <2>7, GoesThere, Zenon DEF insertPathRequest
      <3>2. job[w].kind = "coro"
        BY <2>7, OnlyNewAsks, Zenon
      <3>3. WorkerKind(w)'
        BY <3>1, <3>2 DEF WorkerKind
      <3> QED
        BY <2>2, <2>3, <3>1, <3>3, Zenon
    <2>8. CASE Return(w) \/ Asked(w) \/ yield(w)
      <3>1. job' = job /\ (at[w] = "asked" => at'[w] \in {"yield", "done", "run"})
            /\ (at[w] # "asked" => at'[w] \in {"done", "run"})
        BY <2>1, <2>8, GoesThere, Zenon DEF Return, Asked, yield, Leave
      <3>2. WorkerKind(w)'
        BY <2>2, <3>1 DEF WorkerKind
      <3> QED
        BY <2>2, <2>3, <3>1, <3>2, Zenon
    <2>9. CASE updatePaths(w)
      <3>0. job[w] \in Jobs /\ job[w].kind = "find"
        BY <2>1, <2>9, Zenon DEF updatePaths, Types, JobTypes
      <3>1. CASE \E co \in Coro : job' = [job EXCEPT ![w].co = co] /\ Goes(w, "post")
        <4>1. PICK co \in Coro : job' = [job EXCEPT ![w].co = co] /\ Goes(w, "post")
          BY <3>1, Zenon
        <4>2. job'[w] = [job[w] EXCEPT !.co = co]
          BY <2>1, <4>1 DEF Types, JobTypes
        <4>3. job'[w].kind = "find" /\ job'[w].co = co
          BY <3>0, <4>2 DEF Jobs
        <4>4. at'[w] = "post"
          <5>1. \E j : job' = [job EXCEPT ![w] = j]
            BY <4>1, Zenon
          <5> QED
            BY <2>1, <4>1, <5>1, GoesThere, Zenon
        <4>5. HasCoro(job'[w]) /\ WorkerKind(w)'
          BY <4>3, <4>4 DEF HasCoro, WorkerKind
        <4> QED
          BY <2>3, <4>5, Zenon
      <3>2. CASE job' = job /\ Goes(w, "done")
        <4>1. at'[w] = "done"
          BY <2>1, <3>2, GoesThere, Zenon
        <4>2. WorkerKind(w)'
          BY <4>1 DEF WorkerKind
        <4> QED
          BY <2>2, <2>3, <3>2, <4>2, Zenon
      <3> QED
        BY <2>9, <3>1, <3>2, Zenon DEF updatePaths
    <2> QED
      BY <1>10, <2>4, <2>5, <2>6, <2>7, <2>8, <2>9, Zenon DEF Passing
  <1> QED
    BY <1>1, <1>2, <1>3, <1>4, <1>5, <1>6, <1>7, <1>8, <1>9, <1>10, Actions, Zenon
-----------------------------------------------------------------------------
(* waiting counts the jobs of a type, whatever threads do in between.        *)

LEMMA OfTypeCounted ==
    ASSUME Finite, NEW type \in Type
    PROVE  /\ IsFiniteSet(OfType(type)) /\ Cardinality(OfType(type)) \in Nat
           /\ (\E j \in jobSet : j.type = type) => Cardinality(OfType(type)) # 0
  <1>1. OfType(type) \in SUBSET jobSet /\ IsFiniteSet(jobSet)
    BY DEF OfType, Finite
  <1>2. IsFiniteSet(OfType(type))
    BY <1>1, FS_Subset, Zenon
  <1>3. (\E j \in jobSet : j.type = type) => OfType(type) # {}
    BY DEF OfType
  <1> QED
    BY <1>2, <1>3, FS_CardinalityType, FS_EmptySet, Zenon

LEMMA QueueCountKept ==
    ASSUME LimitInv, Types, Kinds, Finite, QueueCount, Next
    PROVE  QueueCount' /\ IsFiniteSet(jobSet')
  <1>0. waiting \in [Type -> Int] /\ jobSet \subseteq Jobs /\ IsFiniteSet(jobSet)
    BY DEF LimitInv, Counters, Types, JobTypes, Finite
  <1>1. ASSUME UNCHANGED <<jobSet, waiting>> PROVE QueueCount' /\ IsFiniteSet(jobSet')
    BY <1>0, <1>1, Zenon DEF QueueCount, OfType
  <1>2. ASSUME NEW j \in Jobs, \A k : k # j => (k \in jobSet <=> k \in jobSet'),
               \A u \in Type : waiting'[u] = IF u = j.type
                                             THEN waiting[u] + Has(jobSet', j) - Has(jobSet, j)
                                             ELSE waiting[u]
        PROVE  QueueCount' /\ IsFiniteSet(jobSet')
    <2>1. IsFiniteSet(jobSet')
      BY <1>0, <1>2, Counted, Zenon
    <2>2. ASSUME NEW u \in Type PROVE waiting'[u] = Cardinality(OfType(u)')
      <3>1. \A k : k # j => (k \in OfType(u) <=> k \in OfType(u)')
        BY <1>2, Zenon DEF OfType
      <3>2. IsFiniteSet(OfType(u))
        BY OfTypeCounted, Zenon
      <3>3. /\ Cardinality(OfType(u)) \in Nat /\ Cardinality(OfType(u)') \in Nat
            /\ Cardinality(OfType(u)')
                 = Cardinality(OfType(u)) + Has(OfType(u)', j) - Has(OfType(u), j)
        BY <3>1, <3>2, Counted, Zenon
      <3>4. waiting[u] = Cardinality(OfType(u))
        BY Zenon DEF QueueCount
      <3>5. CASE u = j.type
        <4>1. Has(OfType(u)', j) = Has(jobSet', j) /\ Has(OfType(u), j) = Has(jobSet, j)
          BY <3>5, Zenon DEF Has, OfType
        <4> QED
          BY <1>2, <3>3, <3>4, <3>5, <4>1, Zenon
      <3>6. CASE u # j.type
        <4>1. Has(OfType(u)', j) = 0 /\ Has(OfType(u), j) = 0
          BY <3>6, Zenon DEF Has, OfType
        <4>2. Cardinality(OfType(u)') = Cardinality(OfType(u))
          BY <3>3, <4>1
        <4> QED
          BY <1>2, <3>4, <3>6, <4>2, Zenon
      <3> QED
        BY <3>5, <3>6, Zenon
    <2> QED
      BY <2>1, <2>2, Zenon DEF QueueCount
  <1>3. ASSUME NEW t \in Thread, addRefCountedJob(t) PROVE QueueCount' /\ IsFiniteSet(jobSet')
    <2>1. PICK j \in Jobs \ jobSet : /\ jobSet' = jobSet \cup {j}
                                     /\ j.type = Added(t).type /\ j.type \in Type
      BY <1>3, QueuedJob, Zenon
    <2>2. /\ waiting' \in [Type -> Int]
          /\ \A u \in Type : waiting'[u] = IF u = j.type THEN waiting[u] + 1 ELSE waiting[u]
      BY <1>0, <1>3, <2>1, CountedUp, Zenon DEF addRefCountedJob, queueJob
    <2>3. Has(jobSet', j) = 1 /\ Has(jobSet, j) = 0
      BY <2>1, Zenon DEF Has
    <2>4. \A u \in Type : waiting'[u] = IF u = j.type
                                        THEN waiting[u] + Has(jobSet', j) - Has(jobSet, j)
                                        ELSE waiting[u]
      BY <1>0, <2>2, <2>3
    <2> QED
      BY <1>2, <2>1, <2>4, Zenon
  <1>4. ASSUME NEW w \in Worker, getNextJob(w) PROVE QueueCount' /\ IsFiniteSet(jobSet')
    <2> DEFINE j == job'[w]
    <2>1. j \in jobSet /\ jobSet' = jobSet \ {j} /\ waiting' = [waiting EXCEPT ![j.type] = @ - 1]
      BY <1>4, TakingMoves, Zenon DEF Runnable
    <2>2. j \in Jobs
      BY <1>0, <2>1
    <2>3. Has(jobSet', j) = 0 /\ Has(jobSet, j) = 1
      BY <2>1, Zenon DEF Has
    <2>4. \A u \in Type : waiting'[u] = IF u = j.type THEN waiting[u] - 1 ELSE waiting[u]
      BY <1>0, <2>1, CountedDown, Zenon
    <2> HIDE DEF j
    <2>5. \A u \in Type : waiting'[u] = IF u = j.type
                                        THEN waiting[u] + Has(jobSet', j) - Has(jobSet, j)
                                        ELSE waiting[u]
      BY <1>0, <2>3, <2>4
    <2> QED
      BY <1>2, <2>1, <2>2, <2>5, Zenon
  <1>5. CASE stop \/ StopStep
    BY <1>1, <1>5, StopMoves, Zenon DEF queue
  <1>6. ASSUME NEW c \in Client, (\E type \in Type : addJob(c, type))
                                 \/ (\E co \in Coro : postCoro(c, co)) \/ expectEarlyExit(c)
        PROVE  QueueCount' /\ IsFiniteSet(jobSet')
    BY <1>1, <1>6, Zenon DEF addJob, postCoro, expectEarlyExit, queue
  <1>7. ASSUME NEW t \in Thread, Wrapping(t) PROVE QueueCount' /\ IsFiniteSet(jobSet')
    BY <1>1, <1>7, WrappingMoves, Zenon DEF queue
  <1>8. ASSUME NEW w \in Worker, Pausing(w) \/ Passing(w) PROVE QueueCount' /\ IsFiniteSet(jobSet')
    BY <1>1, <1>8, PausingMoves, PassingMoves, Zenon DEF queue
  <1>9. ASSUME NEW w \in Worker, DestroyJob(w) \/ EndTask(w) PROVE QueueCount' /\ IsFiniteSet(jobSet')
    BY <1>1, <1>9, Zenon DEF DestroyJob, EndTask, queue
  <1> QED
    BY <1>3, <1>4, <1>5, <1>6, <1>7, <1>8, <1>9, Actions, Zenon

-----------------------------------------------------------------------------
(* The tokens of the semaphore.                                              *)

\* One more job of a type let through is one more token.
LEMMA TokensStep ==
    ASSUME NEW f \in [Type -> Int], NEW g \in [Type -> Int], NEW type \in Type, f[type] >= 0,
           \A u \in Type : g[u] = IF u = type THEN f[u] + 1 ELSE f[u],
           IsFiniteSet(Tokens(f)) \/ IsFiniteSet(Tokens(g))
    PROVE  /\ IsFiniteSet(Tokens(f)) /\ IsFiniteSet(Tokens(g))
           /\ Cardinality(Tokens(f)) \in Nat /\ Cardinality(Tokens(g)) \in Nat
           /\ Cardinality(Tokens(g)) = Cardinality(Tokens(f)) + 1
  <1> DEFINE x == <<type, f[type] + 1>>
  <1>1. \A h : \A y : y \in Tokens(h) <=> \E u \in Type : \E i \in 1 .. h[u] : y = <<u, i>>
    BY DEF Tokens
  <1>2. \A u \in Type : f[u] \in Int /\ g[u] \in Int
    OBVIOUS
  <1>3. x \in Tokens(g)
    <2>1. f[type] + 1 \in 1 .. g[type]
      BY <1>2
    <2> QED
      BY <1>1, <2>1, Zenon
  <1>4. x \notin Tokens(f)
    <2>1. f[type] + 1 \notin 1 .. f[type]
      BY <1>2
    <2>2. ASSUME NEW u \in Type, NEW i, i \in 1 .. f[u], x = <<u, i>> PROVE FALSE
      <3>1. type = u /\ f[type] + 1 = i
        BY <2>2
      <3> QED
        BY <2>1, <2>2, <3>1, Zenon
    <2> QED
      BY <1>1, <2>2, Zenon
  <1>5. ASSUME NEW y, y # x PROVE y \in Tokens(f) <=> y \in Tokens(g)
    <2>1. ASSUME y \in Tokens(f) PROVE y \in Tokens(g)
      <3>1. PICK u \in Type : \E i \in 1 .. f[u] : y = <<u, i>>
        BY <1>1, <2>1
      <3>2. 1 .. f[u] \subseteq 1 .. g[u]
        BY <1>2
      <3> QED
        BY <1>1, <3>1, <3>2, Zenon
    <2>2. ASSUME y \in Tokens(g) PROVE y \in Tokens(f)
      <3>0. PICK u \in Type : \E i \in 1 .. g[u] : y = <<u, i>>
        BY <1>1, <2>2
      <3>1. PICK i \in 1 .. g[u] : y = <<u, i>>
        BY <3>0, Zenon
      <3>2. ~(u = type /\ i = f[type] + 1)
        BY <1>5, <3>1, Zenon
      <3>3. i \in 1 .. f[u]
        BY <1>2, <3>2
      <3> QED
        BY <1>1, <3>1, <3>3, Zenon
    <2> QED
      BY <2>1, <2>2, Zenon
  <1>6. Has(Tokens(f), x) = 0 /\ Has(Tokens(g), x) = 1
    BY <1>3, <1>4, Zenon DEF Has
  <1> HIDE DEF x
  <1>7. CASE IsFiniteSet(Tokens(f))
    <2>1. /\ IsFiniteSet(Tokens(g))
          /\ Cardinality(Tokens(f)) \in Nat /\ Cardinality(Tokens(g)) \in Nat
          /\ Cardinality(Tokens(g)) = Cardinality(Tokens(f)) + Has(Tokens(g), x) - Has(Tokens(f), x)
      BY <1>5, <1>7, Counted, Zenon
    <2> QED
      BY <1>6, <1>7, <2>1
  <1>8. CASE IsFiniteSet(Tokens(g))
    <2>1. /\ IsFiniteSet(Tokens(f))
          /\ Cardinality(Tokens(f)) \in Nat /\ Cardinality(Tokens(g)) \in Nat
          /\ Cardinality(Tokens(f)) = Cardinality(Tokens(g)) + Has(Tokens(f), x) - Has(Tokens(g), x)
      BY <1>5, <1>8, Counted, Zenon
    <2> QED
      BY <1>6, <1>8, <2>1
  <1> QED
    BY <1>7, <1>8, Zenon

\* Deferred jobs are waiting jobs, and a job that may run is not deferred.
LEMMA SpareBounds ==
    ASSUME LimitInv, Finite, QueueCount
    PROVE  /\ Spare \in [Type -> Int]
           /\ \A type \in Type : Spare[type] = waiting[type] - deferred[type] /\ Spare[type] >= 0
           /\ \A j \in Runnable : j.type \in Type => Spare[j.type] >= 1
  <1>1. ASSUME NEW type \in Type
        PROVE  /\ waiting[type] \in Nat /\ running[type] \in Int /\ deferred[type] \in Nat
               /\ Limit[type] \in Nat /\ running[type] <= Limit[type]
               /\ deferred[type] > 0 => waiting[type] + running[type] - deferred[type] = Limit[type]
    <2>1. waiting[type] \in Nat
      BY OfTypeCounted, Zenon DEF QueueCount
    <2>2. running[type] \in Int /\ deferred[type] \in Nat /\ Limit[type] \in Nat
      BY JobAssumption DEF LimitInv, Counters
    <2> QED
      BY <2>1, <2>2 DEF LimitInv, WithinLimits
  <1>2. Spare \in [Type -> Int]
        /\ \A type \in Type : Spare[type] = waiting[type] - deferred[type]
    BY <1>1 DEF Spare
  <1>3. \A type \in Type : Spare[type] >= 0
    BY <1>1, <1>2
  <1>4. ASSUME NEW j \in Runnable, j.type \in Type PROVE Spare[j.type] >= 1
    <2>1. running[j.type] < Limit[j.type] /\ j \in jobSet
      BY DEF Runnable
    <2>2. waiting[j.type] # 0
      BY <1>4, <2>1, OfTypeCounted, Zenon DEF QueueCount
    <2> QED
      BY <1>1, <1>2, <1>4, <2>1, <2>2
  <1> QED
    BY <1>2, <1>3, <1>4, Zenon

LEMMA AwakeSame ==
    ASSUME NEW t \in Thread, Moves(t),
           t \in Worker => at[t] \notin {"task", "pause"} /\ at'[t] \notin {"task", "pause"}
    PROVE  Awake' = Awake
BY Zenon DEF Moves, Awake, Thread

LEMMA TokenCountKept ==
    ASSUME LimitInv, LimitInv', Types, Kinds, Finite, QueueCount, TokenCount, Next
    PROVE  TokenCount' /\ IsFiniteSet(LetThrough')
  <1> DEFINE Kept == TokenCount' /\ IsFiniteSet(LetThrough')
  <1>0. /\ semaphore \in Nat /\ pauseCount \in Nat /\ Cardinality(Awake) \in Nat
        /\ IsFiniteSet(LetThrough) /\ Cardinality(LetThrough) \in Nat
        /\ semaphore + Cardinality(Awake) = Cardinality(LetThrough) + pauseCount
    <2>1. IsFiniteSet(LetThrough) /\ Cardinality(LetThrough) \in Nat
      BY FS_CardinalityType DEF Finite
    <2>2. Cardinality(Awake) \in Nat
      <3>1. Awake \in SUBSET Worker
        BY DEF Awake
      <3> QED
        BY <3>1, WorkersCounted, Zenon
    <2> QED
      BY <2>1, <2>2 DEF Types, NumberTypes, TokenCount
  <1>1. ASSUME UNCHANGED <<waiting, deferred>> PROVE LetThrough' = LetThrough
    BY <1>1, Zenon DEF LetThrough, Spare, Tokens
  <1>2. ASSUME Awake' = Awake, UNCHANGED <<waiting, deferred, semaphore, pauseCount>> PROVE Kept
    BY <1>0, <1>1, <1>2, Zenon DEF TokenCount
  <1>3. CASE stop \/ StopStep
    <2>1. UNCHANGED <<waiting, deferred>> /\ Awake' = Awake
      BY <1>3, StopMoves, Zenon DEF queue, Awake
    <2>2. CASE pauseAllThreads
      <3>1. /\ pauseCount' = pauseCount + Cardinality(Worker)
            /\ semaphore' = semaphore + Cardinality(Worker) /\ Cardinality(Worker) \in Nat
        BY <2>2, WorkersCounted DEF pauseAllThreads
      <3>2. semaphore' + Cardinality(Awake) = Cardinality(LetThrough) + pauseCount'
        BY <1>0, <3>1
      <3> QED
        BY <1>0, <1>1, <2>1, <3>2, Zenon DEF TokenCount
    <2> QED
      BY <1>2, <1>3, <2>1, <2>2, StopMoves, Zenon
  <1>4. ASSUME NEW c \in Client, (\E type \in Type : addJob(c, type))
                                 \/ (\E co \in Coro : postCoro(c, co)) \/ expectEarlyExit(c)
        PROVE  Kept
    <2>1. UNCHANGED <<waiting, deferred, semaphore, pauseCount>>
      BY <1>4, Zenon DEF addJob, postCoro, expectEarlyExit, queue, workers
    <2>2. Awake' = Awake
      BY <1>4, ClientMoves, AwakeSame, Zenon
    <2> QED
      BY <1>2, <2>1, <2>2, Zenon
  <1>5. ASSUME NEW t \in Thread, Wrapping(t) PROVE Kept
    <2>1. /\ Moves(t) /\ at[t] \in {"post", "ask"}
          /\ at'[t] \in {"adding", "asked", "refused", "resume"}
          /\ UNCHANGED <<waiting, deferred, semaphore, pauseCount>>
      BY <1>5, WrappingMoves, Zenon DEF queue, workers
    <2>2. Awake' = Awake
      BY <2>1, AwakeSame, Zenon
    <2> QED
      BY <1>2, <2>1, <2>2, Zenon
  <1>6. ASSUME NEW w \in Worker, DestroyJob(w) PROVE Kept
    <2>1. UNCHANGED <<waiting, deferred, semaphore, pauseCount>>
      BY <1>6, Zenon DEF DestroyJob, queue, workers
    <2>2. Awake' = Awake
      BY <1>6, FinishingMoves, AwakeSame, Zenon DEF Thread
    <2> QED
      BY <1>2, <2>1, <2>2, Zenon
  <1>7. ASSUME NEW w \in Worker, Passing(w) PROVE Kept
    <2>1. UNCHANGED <<waiting, deferred, semaphore, pauseCount>>
      BY <1>7, PassingMoves, Zenon DEF queue, workers
    <2>2. /\ Moves(w) /\ w \in Thread
          /\ at[w] \notin {"task", "pause"} /\ at'[w] \notin {"task", "pause"}
      BY <1>7, PassingMoves DEF LivePlaces, Thread
    <2>3. Awake' = Awake
      BY <2>2, AwakeSame, Zenon
    <2> QED
      BY <1>2, <2>1, <2>3, Zenon
  <1>8. ASSUME NEW t \in Thread, Moves(t)
        PROVE  /\ Cardinality(Awake') \in Nat
               /\ Cardinality(Awake') = Cardinality(Awake) + Has(Awake', t) - Has(Awake, t)
    <2>1. Awake' \in SUBSET Worker
      BY DEF Awake
    <2>2. Cardinality(Awake') \in Nat
      BY <2>1, WorkersCounted, Zenon
    <2> QED
      BY <1>8, <2>2, Moved, Zenon
  <1>9. ASSUME NEW w \in Worker, Pausing(w) PROVE Kept
    <2>0. w \in Thread
      BY DEF Thread
    <2>1. Moves(w) /\ UNCHANGED <<waiting, deferred>> /\ LetThrough' = LetThrough
      BY <1>1, <1>9, PausingMoves, Zenon DEF queue
    <2>2. /\ Cardinality(Awake') \in Nat
          /\ Cardinality(Awake') = Cardinality(Awake) + Has(Awake', w) - Has(Awake, w)
      BY <1>8, <2>0, <2>1, Zenon
    <2>3. CASE Wake(w)
      <3>1. at[w] = "wait" /\ at'[w] \in {"task", "pause"}
            /\ semaphore' = semaphore - 1 /\ pauseCount' = pauseCount
        BY <2>0, <2>3, GoesThere, Zenon DEF Wake
      <3>2. Has(Awake', w) = 1 /\ Has(Awake, w) = 0
        BY <3>1 DEF Has, Awake
      <3>3. semaphore' + Cardinality(Awake') = Cardinality(LetThrough) + pauseCount'
        BY <1>0, <2>2, <3>1, <3>2
      <3> QED
        BY <1>0, <2>1, <3>3, Zenon DEF TokenCount
    <2>4. CASE TryPause(w) /\ pauseCount > 0
      <3>1. at[w] = "pause" /\ at'[w] = "paused"
            /\ semaphore' = semaphore /\ pauseCount' = pauseCount - 1
        BY <2>0, <2>4, GoesThere, Zenon DEF TryPause
      <3>2. Has(Awake', w) = 0 /\ Has(Awake, w) = 1
        BY <3>1 DEF Has, Awake
      <3>3. semaphore' + Cardinality(Awake') = Cardinality(LetThrough) + pauseCount'
        BY <1>0, <2>2, <3>1, <3>2
      <3> QED
        BY <1>0, <2>1, <3>3, Zenon DEF TokenCount
    <2>5. CASE TryPause(w) /\ ~(pauseCount > 0)
      <3>1. at[w] = "pause" /\ at'[w] = "task" /\ UNCHANGED <<semaphore, pauseCount>>
        BY <2>0, <2>5, GoesThere, Zenon DEF TryPause
      <3>2. Awake' = Awake
        BY <2>0, <2>1, <3>1, Zenon DEF Awake, Moves, Thread
      <3> QED
        BY <1>2, <2>1, <3>1, <3>2, Zenon
    <2>6. CASE Deactivate(w) \/ SetAllPaused(w) \/ Exit(w)
      <3>1. at[w] \in {"paused", "last", "asleep"} /\ UNCHANGED <<semaphore, pauseCount, job>>
        BY <2>6, Zenon DEF Deactivate, SetAllPaused, Exit, workers
      <3>2. \E place \in {"last", "asleep", "exited"} : Goes(w, place)
        BY <2>6, Zenon DEF Deactivate, SetAllPaused, Exit
      <3>3. at[w] \notin {"task", "pause"} /\ at'[w] \notin {"task", "pause"}
        BY <2>0, <3>1, <3>2, GoesThere, Zenon
      <3> QED
        BY <1>2, <2>0, <2>1, <3>1, <3>3, AwakeSame, Zenon
    <2> QED
      BY <1>9, <2>3, <2>4, <2>5, <2>6, Zenon DEF Pausing
  <1>10. /\ waiting \in [Type -> Int] /\ deferred \in [Type -> Int]
         /\ Spare' \in [Type -> Int]
         /\ \A u \in Type : Spare'[u] = waiting'[u] - deferred'[u]
    <2>1. waiting \in [Type -> Int] /\ deferred \in [Type -> Nat]
      BY DEF LimitInv, Counters
    <2>2. waiting' \in [Type -> Int] /\ deferred' \in [Type -> Nat]
      BY DEF LimitInv, Counters
    <2>3. Spare' = [type \in Type |-> waiting'[type] - deferred'[type]]
      BY DEF Spare
    <2> QED
      BY <2>1, <2>2, <2>3
  <1>11. ASSUME NEW w \in Worker, getNextJob(w) PROVE Kept
    <2> DEFINE type == job'[w].type
    <2>1. /\ Moves(w) /\ at[w] = "task" /\ at'[w] = "run" /\ job'[w] \in Runnable
          /\ waiting' = [waiting EXCEPT ![type] = @ - 1] /\ deferred' = deferred
          /\ UNCHANGED <<semaphore, pauseCount>>
      BY <1>11, TakingMoves, Zenon DEF workers
    <2>2. type \in Type
      BY <2>1 DEF Runnable, Types, JobTypes, Jobs
    <2>3. \A u \in Type : waiting'[u] = IF u = type THEN waiting[u] - 1 ELSE waiting[u]
      BY <1>10, <2>1, CountedDown, Zenon
    <2>4. Spare \in [Type -> Int] /\ Spare[type] >= 1
          /\ (\A u \in Type : Spare[u] = waiting[u] - deferred[u])
      BY <2>1, <2>2, SpareBounds, Zenon
    <2> HIDE DEF type
    <2>5. /\ Spare'[type] >= 0
          /\ \A u \in Type : Spare[u] = IF u = type THEN Spare'[u] + 1 ELSE Spare'[u]
      <3>1. \A u \in Type : waiting[u] \in Int /\ deferred[u] \in Int
        BY <1>10
      <3> QED
        BY <1>10, <2>1, <2>2, <2>3, <2>4, <3>1
    <2>6. /\ IsFiniteSet(LetThrough') /\ Cardinality(LetThrough') \in Nat
          /\ Cardinality(LetThrough) = Cardinality(LetThrough') + 1
      <3>1. IsFiniteSet(Tokens(Spare))
        BY <1>0 DEF LetThrough
      <3>2. /\ IsFiniteSet(Tokens(Spare')) /\ Cardinality(Tokens(Spare')) \in Nat
            /\ Cardinality(Tokens(Spare)) = Cardinality(Tokens(Spare')) + 1
        BY <1>10, <2>2, <2>4, <2>5, <3>1, TokensStep, Zenon
      <3>3. LetThrough' = Tokens(Spare')
        BY DEF LetThrough, Tokens
      <3> QED
        BY <3>2, <3>3, Zenon DEF LetThrough
    <2>7. Has(Awake', w) = 0 /\ Has(Awake, w) = 1
      BY <2>1 DEF Has, Awake
    <2>8. semaphore' + Cardinality(Awake') = Cardinality(LetThrough') + pauseCount'
      <3>1. /\ Cardinality(Awake') \in Nat
            /\ Cardinality(Awake') = Cardinality(Awake) + Has(Awake', w) - Has(Awake, w)
        BY <1>8, <2>1, Zenon DEF Thread
      <3> QED
        BY <1>0, <2>1, <2>6, <2>7, <3>1
    <2> QED
      BY <2>6, <2>8, Zenon DEF TokenCount
  <1>12. ASSUME NEW type \in Type, Awake' = Awake, pauseCount' = pauseCount,
                \A u \in Type : Spare'[u] = IF u = type THEN Spare[u] + 1 ELSE Spare[u],
                semaphore' = semaphore + 1
         PROVE  Kept
    <2>1. Spare \in [Type -> Int] /\ Spare[type] >= 0
      BY SpareBounds, Zenon
    <2>2. IsFiniteSet(Tokens(Spare))
      BY <1>0 DEF LetThrough
    <2>3. /\ IsFiniteSet(Tokens(Spare')) /\ Cardinality(Tokens(Spare')) \in Nat
          /\ Cardinality(Tokens(Spare')) = Cardinality(Tokens(Spare)) + 1
      BY <1>10, <1>12, <2>1, <2>2, TokensStep, Zenon
    <2>4. LetThrough' = Tokens(Spare')
      BY DEF LetThrough, Tokens
    <2>5. IsFiniteSet(LetThrough') /\ Cardinality(LetThrough') = Cardinality(LetThrough) + 1
      BY <2>3, <2>4, Zenon DEF LetThrough
    <2>6. semaphore' + Cardinality(Awake') = Cardinality(LetThrough') + pauseCount'
      BY <1>0, <1>12, <2>5
    <2> QED
      BY <2>5, <2>6, Zenon DEF TokenCount
  <1>13. ASSUME Awake' = Awake, UNCHANGED <<semaphore, pauseCount>>,
                \A u \in Type : Spare'[u] = Spare[u]
         PROVE  Kept
    <2>1. Spare \in [Type -> Int]
      BY SpareBounds, Zenon
    <2>2. Spare' = Spare
      BY <1>10, <1>13, <2>1
    <2>3. LetThrough' = LetThrough
      BY <2>2, Zenon DEF LetThrough, Tokens
    <2> QED
      BY <1>0, <1>13, <2>3, Zenon DEF TokenCount
  <1>14. \A u \in Type : /\ waiting[u] \in Int /\ deferred[u] \in Int
                         /\ Spare[u] = waiting[u] - deferred[u]
    BY <1>10, SpareBounds
  <1>15. ASSUME NEW t \in Thread, addRefCountedJob(t) PROVE Kept
    <2> DEFINE type == Added(t).type
    <2>1. type \in Type
      BY <1>15, QueuedJob, Zenon
    <2>2. queueJob(type) /\ pauseCount' = pauseCount
      BY <1>15, Zenon DEF addRefCountedJob
    <2>3. Awake' = Awake
      <3>1. Moves(t) /\ at[t] = "adding" /\ at'[t] = AfterAdding(t)
        BY <1>15, AddingMoves, Zenon
      <3>2. t \in Worker => AfterAdding(t) \in {"asked", "run"}
        BY JobAssumption DEF AfterAdding
      <3> QED
        BY <3>1, <3>2, AwakeSame, Zenon
    <2> HIDE DEF type
    <2>4. \A u \in Type : waiting'[u] = IF u = type THEN waiting[u] + 1 ELSE waiting[u]
      BY <1>10, <2>2, CountedUp, Zenon DEF queueJob
    <2>5. CASE waiting[type] + running[type] < Limit[type]
      <3>1. semaphore' = semaphore + 1 /\ deferred' = deferred
        BY <2>2, <2>5, Zenon DEF queueJob
      <3>2. \A u \in Type : Spare'[u] = IF u = type THEN Spare[u] + 1 ELSE Spare[u]
        BY <1>10, <1>14, <2>4, <3>1
      <3> QED
        BY <1>12, <2>1, <2>2, <2>3, <3>1, <3>2, Zenon
    <2>6. CASE ~(waiting[type] + running[type] < Limit[type])
      <3>1. semaphore' = semaphore /\ deferred' = [deferred EXCEPT ![type] = @ + 1]
        BY <2>2, <2>6, Zenon DEF queueJob
      <3>2. \A u \in Type : deferred'[u] = IF u = type THEN deferred[u] + 1 ELSE deferred[u]
        BY <1>10, <3>1, CountedUp, Zenon
      <3>3. \A u \in Type : Spare'[u] = Spare[u]
        BY <1>10, <1>14, <2>4, <3>2
      <3> QED
        BY <1>13, <2>2, <2>3, <3>1, <3>3, Zenon
    <2> QED
      BY <2>5, <2>6, Zenon
  <1>16. ASSUME NEW w \in Worker, EndTask(w) PROVE Kept
    <2> DEFINE type == job[w].type
    <2>1. type \in Type
      BY DEF Types, JobTypes, Jobs, Thread
    <2>2. finishJob(type) /\ waiting' = waiting /\ pauseCount' = pauseCount
      BY <1>16, Zenon DEF EndTask
    <2>3. Awake' = Awake
      BY <1>16, FinishingMoves, AwakeSame, Zenon DEF Thread
    <2> HIDE DEF type
    <2>4. CASE deferred[type] > 0
      <3>1. semaphore' = semaphore + 1 /\ deferred' = [deferred EXCEPT ![type] = @ - 1]
        BY <2>2, <2>4, Zenon DEF finishJob
      <3>2. \A u \in Type : deferred'[u] = IF u = type THEN deferred[u] - 1 ELSE deferred[u]
        BY <1>10, <3>1, CountedDown, Zenon
      <3>3. \A u \in Type : Spare'[u] = IF u = type THEN Spare[u] + 1 ELSE Spare[u]
        BY <1>10, <1>14, <2>2, <3>2
      <3> QED
        BY <1>12, <2>1, <2>2, <2>3, <3>1, <3>3, Zenon
    <2>5. CASE ~(deferred[type] > 0)
      <3>1. semaphore' = semaphore /\ deferred' = deferred
        BY <2>2, <2>5, Zenon DEF finishJob
      <3>2. \A u \in Type : Spare'[u] = Spare[u]
        BY <1>10, <1>14, <2>2, <3>1, Zenon
      <3> QED
        BY <1>13, <2>2, <2>3, <3>1, <3>2, Zenon
    <2> QED
      BY <2>4, <2>5, Zenon
  <1> QED
    BY <1>3, <1>4, <1>5, <1>6, <1>7, <1>9, <1>11, <1>15, <1>16, Actions, Zenon
=============================================================================
