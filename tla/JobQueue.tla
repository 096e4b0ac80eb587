------------------------------ MODULE JobQueue ------------------------------
(* The job queue: JobQueue with its Workers, its coroutines (Coro), the      *)
(* counter of jobs in flight (ClosureCounter) and the way the server stops   *)
(* (Stoppable).  A client is a thread of one of the queue's children: it     *)
(* adds jobs and starts coroutines.  A coroutine may ask for a path, and     *)
(* then yields until a job that finds paths resumes it.                      *)
EXTENDS Integers, FiniteSets

CONSTANTS Worker,    \* the threads of Workers
          Client,    \* the other threads that add jobs
          Coro,      \* the coroutines that may be started
          Type,      \* job types; a greater type is more urgent
          Limit,     \* how many jobs of a type may run at a time (JobTypes)
          CoroType,  \* the type of the jobs that run coroutines (jtCLIENT)
          FindType,  \* the type of the jobs that find paths (jtUPDATE_PF)
          MaxJobs    \* bound: clients add plain jobs up to this id

NoOne == "no one"
NoCoro == "no coroutine"

ASSUME JobAssumption ==
    /\ IsFiniteSet(Worker) /\ Worker # {} /\ Worker \cap Client = {}
    /\ NoOne \notin Worker /\ NoCoro \notin Coro
    /\ Type \subseteq Int /\ Limit \in [Type -> Nat \ {0}]
    /\ CoroType \in Type /\ FindType \in Type /\ CoroType # FindType

VARIABLES
    \* JobQueue: m_jobSet, m_lastJob, JobTypeData of each type, m_processCount,
    \* nSuspend_
    jobSet, lastJob, waiting, running, deferred, processCount, nSuspend,
    \* Workers: m_semaphore, m_pauseCount, m_activeCount, m_allPaused
    semaphore, pauseCount, activeCount, allPaused,
    \* ClosureCounter: closureCount_, waitForClosures_
    closureCount, waitForClosures,
    \* Stoppable: the progress of stop and of the destructors, stopEntered_,
    \* m_childrenStopped and m_is_stopping of the queue
    stopper, stopEntered, childrenStopped, isStopping,
    \* where each thread is and the job it runs (a client: the job it adds)
    at, job,
    \* each coroutine, the thread that holds its mutex_, its path request
    coro, mutex_, request

queue == <<jobSet, lastJob, waiting, running, deferred>>
workers == <<semaphore, pauseCount, activeCount, allPaused>>
closures == <<closureCount, waitForClosures>>
stopping == <<stopper, stopEntered, childrenStopped, isStopping>>
coros == <<coro, mutex_, request>>
vars == <<queue, processCount, nSuspend, workers, closures, stopping, at, job, coros>>

Thread == Worker \cup Client
Job(type, kind, co) == [type |-> type, id |-> 0, kind |-> kind, co |-> co]
NoJob == Job(FindType, "none", NoCoro)

Goes(t, place) == at' = [at EXCEPT ![t] = place]

-----------------------------------------------------------------------------
(* Adding a job takes two steps: wrap, which refuses once join was called,   *)
(* and addRefCountedJob, which runs under the queue's mutex.                 *)

wrap(t) == ~waitForClosures /\ closureCount' = closureCount + 1 /\ Goes(t, "adding")

\* Mutant: one job too many of a type is handed to the workers.
QueueOneMore(type) ==
    /\ IF waiting[type] + running[type] <= Limit[type]
       THEN semaphore' = semaphore + 1 /\ UNCHANGED deferred
       ELSE deferred' = [deferred EXCEPT ![type] = @ + 1] /\ UNCHANGED semaphore
    /\ waiting' = [waiting EXCEPT ![type] = @ + 1]

queueJob(type) ==
    /\ IF waiting[type] + running[type] < Limit[type]
       THEN semaphore' = semaphore + 1 /\ UNCHANGED deferred
       ELSE deferred' = [deferred EXCEPT ![type] = @ + 1] /\ UNCHANGED semaphore
    /\ waiting' = [waiting EXCEPT ![type] = @ + 1]

\* What a thread adds: a coroutine adds a job that finds paths, and that job's
\* continuation adds a job that resumes the coroutine.
Added(t) ==
    CASE t \in Client -> job[t]
      [] t \in Worker /\ job[t].kind = "coro" -> Job(FindType, "find", NoCoro)
      [] OTHER -> Job(CoroType, "coro", job[t].co)

AfterAdding(t) ==
    CASE t \in Client -> "idle"
      [] t \in Worker /\ job[t].kind = "coro" -> "asked"
      [] OTHER -> "run"

addRefCountedJob(t) ==
    /\ at[t] = "adding"
    /\ jobSet' = jobSet \cup {[Added(t) EXCEPT !.id = lastJob + 1]}
    /\ lastJob' = lastJob + 1
    /\ queueJob(Added(t).type)
    /\ Goes(t, AfterAdding(t))
    /\ UNCHANGED <<running, processCount, nSuspend, pauseCount, activeCount,
                   allPaused, closures, stopping, job, coros>>

\* A client's addJob.  A refused job leaves everything as it was; a child that
\* has stopped has no threads left.
addJob(c, type) ==
    /\ at[c] = "idle" /\ ~childrenStopped /\ lastJob < MaxJobs
    /\ wrap(c)
    /\ job' = [job EXCEPT ![c] = Job(type, "plain", NoCoro)]
    /\ UNCHANGED <<queue, processCount, nSuspend, workers, waitForClosures,
                   stopping, coros>>

\* postCoro creates the coroutine, which yields at once, and posts it.
postCoro(c, co) ==
    /\ at[c] = "idle" /\ ~childrenStopped /\ coro[co] = "none"
    /\ coro' = [coro EXCEPT ![co] = "created"]
    /\ nSuspend' = nSuspend + 1
    /\ job' = [job EXCEPT ![c] = Job(CoroType, "coro", co)]
    /\ Goes(c, "post")
    /\ UNCHANGED <<queue, processCount, workers, closures, stopping, mutex_, request>>

\* Coro::post.  When the job is refused postCoro gives the coroutine up, and
\* the continuation of a path request resumes it on the same thread.
post(t) ==
    /\ at[t] = "post"
    /\ \/ wrap(t)
       \/ waitForClosures /\ UNCHANGED closureCount
          /\ Goes(t, IF t \in Client THEN "refused" ELSE "resume")
    /\ UNCHANGED <<queue, processCount, nSuspend, workers, waitForClosures,
                   stopping, job, coros>>

expectEarlyExit(c) ==
    /\ at[c] = "refused"
    /\ coro' = [coro EXCEPT ![job[c].co] = "finished"]
    /\ nSuspend' = nSuspend - 1
    /\ Goes(c, "idle")
    /\ UNCHANGED <<queue, processCount, workers, closures, stopping, job,
                   mutex_, request>>

-----------------------------------------------------------------------------
(* Worker::run: the loop of a worker thread.                                 *)

\* m_semaphore.wait(), then the load of m_pauseCount: both are part of taking
\* one task or one request to pause.
Wake(w) ==
    /\ at[w] = "wait" /\ semaphore > 0
    /\ semaphore' = semaphore - 1
    /\ Goes(w, IF pauseCount > 0 THEN "pause" ELSE "task")
    /\ UNCHANGED <<queue, processCount, nSuspend, pauseCount, activeCount, allPaused,
                   closures, stopping, job, coros>>

\* The decrement; a worker that came too late undoes it and takes a task.
TryPause(w) ==
    /\ at[w] = "pause"
    /\ IF pauseCount > 0
       THEN pauseCount' = pauseCount - 1 /\ Goes(w, "paused")
       ELSE Goes(w, "task") /\ UNCHANGED pauseCount
    /\ UNCHANGED <<queue, processCount, nSuspend, semaphore, activeCount, allPaused,
                   closures, stopping, job, coros>>

\* --m_activeCount; the last worker then sets m_allPaused.
Deactivate(w) ==
    /\ at[w] = "paused"
    /\ activeCount' = activeCount - 1
    /\ Goes(w, IF activeCount = 1 THEN "last" ELSE "asleep")
    /\ UNCHANGED <<queue, processCount, nSuspend, semaphore, pauseCount, allPaused,
                   closures, stopping, job, coros>>

SetAllPaused(w) ==
    /\ at[w] = "last"
    /\ allPaused' = TRUE
    /\ Goes(w, "asleep")
    /\ UNCHANGED <<queue, processCount, nSuspend, semaphore, pauseCount, activeCount,
                   closures, stopping, job, coros>>

Exit(w) ==
    /\ at[w] = "asleep" /\ stopper = "deleting"
    /\ Goes(w, "exited")
    /\ UNCHANGED <<queue, processCount, nSuspend, workers, closures, stopping, job, coros>>

-----------------------------------------------------------------------------
(* processTask: take the next job, run it, finish it.                        *)

\* Job::operator<: the greater type goes first, then the earlier job.
Before(j, k) == j.type > k.type \/ (j.type = k.type /\ j.id < k.id)

Runnable == {j \in jobSet : running[j.type] < Limit[j.type]}

\* Mutant: the first job is taken whatever its type's limit.
NextAny(w) ==
    /\ at[w] = "task"
    /\ \E j \in jobSet :
          /\ \A k \in jobSet \ {j} : Before(j, k)
          /\ jobSet' = jobSet \ {j}
          /\ waiting' = [waiting EXCEPT ![j.type] = @ - 1]
          /\ running' = [running EXCEPT ![j.type] = @ + 1]
          /\ job' = [job EXCEPT ![w] = j]
    /\ processCount' = processCount + 1
    /\ Goes(w, "run")
    /\ UNCHANGED <<lastJob, deferred, nSuspend, workers, closures, stopping, coros>>

getNextJob(w) ==
    /\ at[w] = "task"
    /\ \E j \in Runnable :
          /\ \A k \in Runnable \ {j} : Before(j, k)
          /\ jobSet' = jobSet \ {j}
          /\ waiting' = [waiting EXCEPT ![j.type] = @ - 1]
          /\ running' = [running EXCEPT ![j.type] = @ + 1]
          /\ job' = [job EXCEPT ![w] = j]
    /\ processCount' = processCount + 1
    /\ Goes(w, "run")
    /\ UNCHANGED <<lastJob, deferred, nSuspend, workers, closures, stopping, coros>>

\* A plain job does nothing to the queue.
RunPlain(w) ==
    /\ at[w] = "run" /\ job[w].kind = "plain"
    /\ Goes(w, "done")
    /\ UNCHANGED <<queue, processCount, nSuspend, workers, closures, stopping, job, coros>>

\* The wrapped closure goes out of scope.
DestroyJob(w) ==
    /\ at[w] = "done"
    /\ closureCount' = closureCount - 1
    /\ Goes(w, "finish")
    /\ UNCHANGED <<queue, processCount, nSuspend, workers, waitForClosures,
                   stopping, job, coros>>

\* Mutant: the suspended coroutines are forgotten.
StoppedBusy(procs, jobs) == stopEntered /\ childrenStopped /\ procs = 0 /\ jobs = {}

\* checkStopped, on the values the caller leaves.
Stopped(procs, jobs) == stopEntered /\ childrenStopped /\ procs = 0 /\ jobs = {} /\ nSuspend = 0

\* Mutant: no deferred job takes the place of the one that finished.
FinishOnly(type) ==
    /\ running' = [running EXCEPT ![type] = @ - 1]
    /\ UNCHANGED <<deferred, semaphore>>

finishJob(type) ==
    /\ IF deferred[type] > 0
       THEN /\ deferred' = [deferred EXCEPT ![type] = @ - 1]
            /\ semaphore' = semaphore + 1
       ELSE UNCHANGED <<deferred, semaphore>>
    /\ running' = [running EXCEPT ![type] = @ - 1]

\* Mutant: the worker that finishes last does not look whether that was all.
EndUnchecked(w) ==
    /\ at[w] = "finish"
    /\ finishJob(job[w].type)
    /\ processCount' = processCount - 1
    /\ job' = [job EXCEPT ![w] = NoJob]
    /\ Goes(w, "wait")
    /\ UNCHANGED <<jobSet, lastJob, waiting, nSuspend, pauseCount, activeCount,
                   allPaused, closures, stopping, coros>>

EndTask(w) ==
    /\ at[w] = "finish"
    /\ finishJob(job[w].type)
    /\ processCount' = processCount - 1
    /\ isStopping' = (isStopping \/ Stopped(processCount - 1, jobSet))
    /\ job' = [job EXCEPT ![w] = NoJob]
    /\ Goes(w, "wait")
    /\ UNCHANGED <<jobSet, lastJob, waiting, nSuspend, pauseCount, activeCount,
                   allPaused, closures, stopper, stopEntered, childrenStopped, coros>>

-----------------------------------------------------------------------------
(* Coroutines.  resume uncounts the coroutine first and then waits for the   *)
(* thread that is still inside it, so a resume that overtakes the yield it   *)
(* answers is harmless.                                                      *)

resume(w) ==
    /\ \/ at[w] = "resume"
       \/ at[w] = "run" /\ job[w].kind = "coro"
    /\ nSuspend' = nSuspend - 1
    /\ Goes(w, "enter")
    /\ UNCHANGED <<queue, processCount, workers, closures, stopping, job, coros>>

Enter(w) ==
    /\ at[w] = "enter" /\ mutex_[job[w].co] = NoOne
    /\ mutex_' = [mutex_ EXCEPT ![job[w].co] = w]
    /\ Goes(w, "inside")
    /\ UNCHANGED <<queue, processCount, nSuspend, workers, closures, stopping, job,
                   coro, request>>

\* The coroutine is left in a state, and its mutex_ is released.  A thread that
\* resumed it from a path request goes on with the other requests.
Leave(w, state) ==
    /\ coro' = [coro EXCEPT ![job[w].co] = state]
    /\ mutex_' = [mutex_ EXCEPT ![job[w].co] = NoOne]
    /\ Goes(w, IF job[w].kind = "coro" THEN "done" ELSE "run")

\* The function of a coroutine returns, on its first or on its second run.
\* Calling a coroutine that has returned is undefined (assert(coro_)).
Return(w) ==
    /\ at[w] = "inside"
    /\ Leave(w, IF coro[job[w].co] \in {"finished", "overrun"} THEN "overrun" ELSE "finished")
    /\ UNCHANGED <<queue, processCount, nSuspend, workers, closures, stopping, job, request>>

\* makeLegacyPathRequest lists the request ...
insertPathRequest(w) ==
    /\ at[w] = "inside" /\ coro[job[w].co] = "created"
    /\ request' = [request EXCEPT ![job[w].co] = "waiting"]
    /\ Goes(w, "ask")
    /\ UNCHANGED <<queue, processCount, nSuspend, workers, closures, stopping, job,
                   coro, mutex_>>

\* ... and newPFWork, under LedgerMaster's m_mutex, adds a job to serve it.
newPFWork(w) ==
    /\ at[w] = "ask"
    /\ \/ wrap(w)
       \/ waitForClosures /\ Goes(w, "asked") /\ UNCHANGED closureCount
    /\ UNCHANGED <<queue, processCount, nSuspend, workers, waitForClosures,
                   stopping, job, coros>>

\* newPFWork's result: once the server is stopping the request is dropped and
\* the coroutine returns.
Asked(w) ==
    /\ at[w] = "asked"
    /\ \/ /\ ~stopEntered
          /\ Goes(w, "yield")
          /\ UNCHANGED coros
       \/ /\ stopEntered
          /\ request' = [request EXCEPT ![job[w].co] = "none"]
          /\ Leave(w, "finished")
    /\ UNCHANGED <<queue, processCount, nSuspend, workers, closures, stopping, job>>

yield(w) ==
    /\ at[w] = "yield"
    /\ nSuspend' = nSuspend + 1
    /\ Leave(w, "yielded")
    /\ UNCHANGED <<queue, processCount, workers, closures, stopping, job, request>>

\* updatePaths, a job that finds paths, serves the requests one at a time and
\* stops without serving them once the server is stopping (shouldCancel).  Its
\* loop needs the m_mutex that newPFWork holds.
PathLockFree == \A t \in Worker : at[t] = "asked" \/ at[t] = "adding" => job[t].kind # "coro"

updatePaths(w) ==
    /\ at[w] = "run" /\ job[w].kind = "find" /\ PathLockFree
    /\ \/ /\ ~stopEntered
          /\ \E co \in Coro :
                /\ request[co] = "waiting"
                /\ request' = [request EXCEPT ![co] = "found"]
                /\ job' = [job EXCEPT ![w].co = co]
          /\ Goes(w, "post")
       \/ /\ stopEntered \/ \A co \in Coro : request[co] # "waiting"
          /\ Goes(w, "done")
          /\ UNCHANGED <<request, job>>
    /\ UNCHANGED <<queue, processCount, nSuspend, workers, closures, stopping, coro, mutex_>>

-----------------------------------------------------------------------------
(* RootStoppable::stop, and then the destructor of Workers.                  *)

stop ==
    /\ stopper = "up"
    /\ stopEntered' = TRUE /\ stopper' = "entered"
    /\ UNCHANGED <<queue, processCount, nSuspend, workers, closures, childrenStopped,
                   isStopping, at, job, coros>>

\* ClosureCounter::join refuses new jobs and waits for those in flight.
join ==
    /\ \/ /\ stopper = "entered"
          /\ waitForClosures' = TRUE /\ stopper' = "joining"
       \/ /\ stopper = "joining" /\ closureCount = 0
          /\ stopper' = "joined" /\ UNCHANGED waitForClosures
    /\ UNCHANGED <<queue, processCount, nSuspend, workers, closureCount, stopEntered,
                   childrenStopped, isStopping, at, job, coros>>

\* stopRecursive: the children have stopped, so their threads are idle.
ChildrenStop ==
    /\ stopper = "joined" /\ \A c \in Client : at[c] = "idle"
    /\ childrenStopped' = TRUE /\ stopper' = "childless"
    /\ UNCHANGED <<queue, processCount, nSuspend, workers, closures, stopEntered,
                   isStopping, at, job, coros>>

onChildrenStopped ==
    /\ stopper = "childless"
    /\ isStopping' = (isStopping \/ Stopped(processCount, jobSet))
    /\ stopper' = "blocked"
    /\ UNCHANGED <<queue, processCount, nSuspend, workers, closures, stopEntered,
                   childrenStopped, at, job, coros>>

QueueStopped ==
    /\ stopper = "blocked" /\ isStopping
    /\ stopper' = "stopped"
    /\ UNCHANGED <<queue, processCount, nSuspend, workers, closures, stopEntered,
                   childrenStopped, isStopping, at, job, coros>>

\* setNumberOfThreads(0).
pauseAllThreads ==
    /\ stopper = "stopped"
    /\ pauseCount' = pauseCount + Cardinality(Worker)
    /\ semaphore' = semaphore + Cardinality(Worker)
    /\ stopper' = "pausing"
    /\ UNCHANGED <<queue, processCount, nSuspend, activeCount, allPaused, closures,
                   stopEntered, childrenStopped, isStopping, at, job, coros>>

AllPaused ==
    /\ stopper = "pausing" /\ allPaused
    /\ stopper' = "deleting"
    /\ UNCHANGED <<queue, processCount, nSuspend, workers, closures, stopEntered,
                   childrenStopped, isStopping, at, job, coros>>

-----------------------------------------------------------------------------
\* The server has started: setThreadCount has created the workers.
Init ==
    /\ jobSet = {} /\ lastJob = 0 /\ processCount = 0 /\ nSuspend = 0
    /\ waiting = [type \in Type |-> 0]
    /\ running = [type \in Type |-> 0]
    /\ deferred = [type \in Type |-> 0]
    /\ semaphore = 0 /\ pauseCount = 0
    /\ activeCount = Cardinality(Worker) /\ allPaused = FALSE
    /\ closureCount = 0 /\ waitForClosures = FALSE
    /\ stopper = "up" /\ stopEntered = FALSE
    /\ childrenStopped = FALSE /\ isStopping = FALSE
    /\ at = [t \in Thread |-> IF t \in Worker THEN "wait" ELSE "idle"]
    /\ job = [t \in Thread |-> NoJob]
    /\ coro = [co \in Coro |-> "none"]
    /\ mutex_ = [co \in Coro |-> NoOne]
    /\ request = [co \in Coro |-> "none"]

ClientStep(c) == post(c) \/ addRefCountedJob(c) \/ expectEarlyExit(c)

WorkerStep(w) ==
    \/ Wake(w) \/ TryPause(w) \/ Deactivate(w) \/ SetAllPaused(w) \/ Exit(w)
    \/ getNextJob(w) \/ RunPlain(w) \/ DestroyJob(w) \/ EndTask(w)
    \/ resume(w) \/ Enter(w) \/ Return(w) \/ insertPathRequest(w) \/ newPFWork(w)
    \/ Asked(w) \/ yield(w) \/ updatePaths(w) \/ post(w) \/ addRefCountedJob(w)

StopStep ==
    join \/ ChildrenStop \/ onChildrenStopped \/ QueueStopped \/ pauseAllThreads \/ AllPaused

Next ==
    \/ \E c \in Client : ClientStep(c)
    \/ \E c \in Client, type \in Type : addJob(c, type)
    \/ \E c \in Client, co \in Coro : postCoro(c, co)
    \/ \E w \in Worker : WorkerStep(w)
    \/ stop
    \/ StopStep

Spec == Init /\ [][Next]_vars

\* The operating system runs every thread; nothing obliges a client to add a
\* job or the server to stop.
FairSpec ==
    /\ Spec
    /\ \A c \in Client : WF_vars(ClientStep(c))
    /\ \A w \in Worker : WF_vars(WorkerStep(w))
    /\ WF_vars(StopStep)

-----------------------------------------------------------------------------
(* Properties.                                                               *)

\* The jobs of a type that run, and those that run or that a worker was woken
\* for, never exceed the type's limit, and no job is deferred while the type is
\* below it: the three counters of JobTypeData stay in step over queueJob,
\* getNextJob and finishJob.
WithinLimits ==
    \A type \in Type :
        LET let == waiting[type] + running[type] - deferred[type]
        IN /\ running[type] <= Limit[type] /\ let <= Limit[type]
           /\ deferred[type] > 0 => let = Limit[type]

\* A worker that goes to take a job finds one that its type's limit allows
\* (the assertions of getNextJob), whichever worker was woken for it.
NextJobFound == (\E w \in Worker : at[w] = "task") => Runnable # {}

\* Some coroutine was called after it returned.
Overrun == \E co \in Coro : coro[co] = "overrun"

\* Once checkStopped has reported the queue stopped, and for ever after, no
\* job, worker, client or coroutine is left that would touch the objects the
\* destructors take down.
StoppedIsQuiet ==
    (isStopping /\ ~Overrun) =>
        /\ jobSet = {} /\ processCount = 0
        /\ \A t \in Thread : at[t] \notin {"task", "run", "adding", "post", "done", "finish"}
        /\ \A co \in Coro : coro[co] \in {"none", "finished"}

\* Every job that was added is taken by a worker ("Job will eventually run",
\* queueJob): the semaphore, the limits and the deferred jobs lose none.
JobsRun == (jobSet # {}) ~> (jobSet = {})

Exited == \A w \in Worker : at[w] = "exited"

\* A coroutine whose path request was cancelled waits for ever.
Stranded == \E co \in Coro : coro[co] = "yielded" /\ request[co] = "waiting"

\* Stop ends with every worker gone, unless a coroutine was stranded or
\* resumed after its return: no wake-up of join, checkStopped or the pausing
\* of the workers is lost.
StopCompletes == stopEntered ~> (Exited \/ Stranded \/ Overrun)

\* Stop ends, which RipplePathFind.cpp sets out to ensure: a coroutine that
\* waits for a path is resumed even though the server is stopping.
StopAlwaysCompletes == stopEntered ~> Exited
=============================================================================
