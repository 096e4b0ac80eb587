------------------------- MODULE JobQueueStopProofs -------------------------
(* The rest of the job queue's invariant IInv: the closures, the coroutines  *)
(* and the stages of a stop; then NextJobFound and StoppedIsQuiet, which the *)
(* whole of IInv gives.                                                      *)
EXTENDS JobQueueProofs

(* The closures, and the workers that have a job.                            *)

LEMMA ClosureCountKept ==
    ASSUME Types, Kinds, Finite, ClosureCount, Next
    PROVE  ClosureCount' /\ IsFiniteSet(Adding')
  <1> DEFINE Kept == ClosureCount' /\ IsFiniteSet(Adding')
  <1>0. /\ closureCount = Cardinality(Adding) + Cardinality(jobSet) + Cardinality(Live)
        /\ IsFiniteSet(Adding) /\ IsFiniteSet(jobSet)
        /\ Cardinality(Adding) \in Nat /\ Cardinality(jobSet) \in Nat /\ Cardinality(Live) \in Nat
    <2>1. Live \in SUBSET Worker
      BY DEF Live
    <2> QED
      BY <2>1, WorkersCounted, FS_CardinalityType, Zenon DEF Finite, ClosureCount
  <1>1. ASSUME NEW t \in Thread, Moves(t), NEW n \in Int, NEW m \in Int,
               closureCount' = closureCount + n,
               Cardinality(jobSet') = Cardinality(jobSet) + m,
               n = Has(Adding', t) - Has(Adding, t) + m + Has(Live', t) - Has(Live, t)
        PROVE  Kept
    <2>1. /\ IsFiniteSet(Adding')
          /\ Cardinality(Adding') = Cardinality(Adding) + Has(Adding', t) - Has(Adding, t)
          /\ Cardinality(Live') = Cardinality(Live) + Has(Live', t) - Has(Live, t)
      BY <1>1, Moved, Zenon
    <2>2. \A S : Has(S, t) \in Int
      BY DEF Has
    <2>3. closureCount' = Cardinality(Adding') + Cardinality(jobSet') + Cardinality(Live')
      BY <1>0, <1>1, <2>1, <2>2
    <2> QED
      BY <2>1, <2>3, Zenon DEF ClosureCount
  <1>2. ASSUME NEW t \in Thread, Moves(t), UNCHANGED <<closureCount, jobSet>>,
               at[t] # "adding", at'[t] # "adding",
               t \in Worker => (at[t] \in LivePlaces <=> at'[t] \in LivePlaces)
        PROVE  Kept
    <2>1. Has(Adding', t) = 0 /\ Has(Adding, t) = 0 /\ Has(Live', t) = Has(Live, t)
      BY <1>2, Zenon DEF Has, Adding, Live
    <2>2. /\ closureCount' = closureCount + 0 /\ Cardinality(jobSet') = Cardinality(jobSet) + 0
          /\ 0 = Has(Adding', t) - Has(Adding, t) + 0 + Has(Live', t) - Has(Live, t)
      <3>1. Has(Live, t) \in Int
        BY DEF Has
      <3>2. closureCount \in Int
        BY DEF Types, NumberTypes
      <3> QED
        BY <1>0, <1>2, <2>1, <3>1, <3>2
    <2> QED
      BY <1>1, <1>2, <2>2
  <1>3. CASE stop \/ StopStep
    <2>1. UNCHANGED <<closureCount, jobSet, at>>
      BY <1>3, StopMoves, Zenon DEF queue
    <2>2. Adding' = Adding /\ Live' = Live
      BY <2>1, Zenon DEF Adding, Live
    <2> QED
      BY <1>0, <2>1, <2>2, Zenon DEF ClosureCount
  <1>4. ASSUME NEW c \in Client, NEW type \in Type, addJob(c, type) PROVE Kept
    <2>1. c \in Thread /\ c \notin Worker /\ Moves(c) /\ at[c] = "idle" /\ at'[c] = "adding"
      BY <1>4, ClientMoves, Zenon
    <2>2. closureCount' = closureCount + 1 /\ jobSet' = jobSet
      BY <1>4, Zenon DEF addJob, wrap, queue
    <2>3. /\ Has(Adding', c) = 1 /\ Has(Adding, c) = 0
          /\ Has(Live', c) = 0 /\ Has(Live, c) = 0
      BY <2>1 DEF Has, Adding, Live
    <2>4. /\ Cardinality(jobSet') = Cardinality(jobSet) + 0
          /\ 1 = Has(Adding', c) - Has(Adding, c) + 0 + Has(Live', c) - Has(Live, c)
      BY <1>0, <2>2, <2>3
    <2> QED
      BY <1>1, <2>1, <2>2, <2>4
  <1>5. ASSUME NEW c \in Client, (\E co \in Coro : postCoro(c, co)) \/ expectEarlyExit(c)
        PROVE  Kept
    <2>1. c \in Thread /\ c \notin Worker /\ Moves(c) /\ at[c] # "adding" /\ at'[c] # "adding"
      BY <1>5, ClientMoves, Zenon
    <2>2. UNCHANGED <<closureCount, jobSet>>
      BY <1>5, Zenon DEF postCoro, expectEarlyExit, closures, queue
    <2> QED
      BY <1>2, <2>1, <2>2, Zenon
  <1>6. ASSUME NEW t \in Thread, Wrapping(t) PROVE Kept
    <2>1. Moves(t) /\ at[t] \in {"post", "ask"} /\ jobSet' = jobSet
      BY <1>6, WrappingMoves, Zenon DEF queue
    <2>2. CASE closureCount' = closureCount + 1 /\ at'[t] = "adding"
      <3>1. Has(Adding', t) = 1 /\ Has(Adding, t) = 0 /\ Has(Live', t) = Has(Live, t)
        BY <2>1, <2>2, Zenon DEF Has, Adding, Live, LivePlaces
      <3>2. /\ Cardinality(jobSet') = Cardinality(jobSet) + 0
            /\ 1 = Has(Adding', t) - Has(Adding, t) + 0 + Has(Live', t) - Has(Live, t)
        <4>1. Has(Live, t) \in Int
          BY DEF Has
        <4> QED
          BY <1>0, <2>1, <3>1, <4>1
      <3> QED
        BY <1>1, <2>1, <2>2, <3>2
    <2>3. CASE closureCount' = closureCount /\ at'[t] # "adding"
      <3>1. t \in Worker => t \notin Client
        BY JobAssumption
      <3>2. t \in Worker => at'[t] \in {"asked", "resume"}
        BY <1>6, <2>3, <3>1, WrappingMoves, Zenon
      <3>3. t \in Worker => (at[t] \in LivePlaces <=> at'[t] \in LivePlaces)
        BY <2>1, <3>2, Zenon DEF LivePlaces
      <3>4. at[t] # "adding"
        BY <2>1, Zenon
      <3> QED
        BY <1>2, <2>1, <2>3, <3>3, <3>4, Zenon
    <2> QED
      BY <1>6, <2>2, <2>3, WrappingMoves, Zenon
  <1>7. ASSUME NEW t \in Thread, addRefCountedJob(t) PROVE Kept
    <2>1. Moves(t) /\ at[t] = "adding" /\ at'[t] = AfterAdding(t) /\ closureCount' = closureCount
      BY <1>7, AddingMoves, Zenon DEF addRefCountedJob, closures
    <2>2. AfterAdding(t) # "adding" /\ (t \in Worker => AfterAdding(t) \in LivePlaces)
      BY JobAssumption DEF AfterAdding, LivePlaces
    <2>3. Has(Adding', t) = 0 /\ Has(Adding, t) = 1 /\ Has(Live', t) = Has(Live, t)
      BY <2>1, <2>2, Zenon DEF Has, Adding, Live, LivePlaces
    <2>4. Cardinality(jobSet') = Cardinality(jobSet) + 1
      <3>1. PICK j : j \notin jobSet /\ jobSet' = jobSet \cup {j}
        BY <1>7, QueuedJob, Zenon
      <3> QED
        BY <1>0, <3>1, FS_AddElement, Zenon
    <2>5. closureCount' = closureCount + 0
          /\ 0 = Has(Adding', t) - Has(Adding, t) + 1 + Has(Live', t) - Has(Live, t)
      <3>1. Has(Live, t) \in Int
        BY DEF Has
      <3>2. closureCount \in Int
        BY DEF Types, NumberTypes
      <3> QED
        BY <2>1, <2>3, <3>1, <3>2
    <2> QED
      BY <1>1, <2>1, <2>4, <2>5
  <1>8. ASSUME NEW w \in Worker, getNextJob(w) PROVE Kept
    <2>1. /\ Moves(w) /\ at[w] = "task" /\ at'[w] = "run" /\ closureCount' = closureCount
          /\ job'[w] \in jobSet /\ jobSet' = jobSet \ {job'[w]}
      BY <1>8, TakingMoves, Zenon DEF Runnable, closures
    <2>2. /\ Has(Adding', w) = 0 /\ Has(Adding, w) = 0
          /\ Has(Live', w) = 1 /\ Has(Live, w) = 0
      BY <2>1 DEF Has, Adding, Live, LivePlaces
    <2>3. Cardinality(jobSet') = Cardinality(jobSet) - 1
      BY <1>0, <2>1, FS_RemoveElement, Zenon
    <2>4. /\ closureCount' = closureCount + 0
          /\ Cardinality(jobSet') = Cardinality(jobSet) + (-1)
          /\ 0 = Has(Adding', w) - Has(Adding, w) + (-1) + Has(Live', w) - Has(Live, w)
      <3>1. closureCount \in Int
        BY DEF Types, NumberTypes
      <3> QED
        BY <1>0, <2>1, <2>2, <2>3, <3>1
    <2>5. w \in Thread
      BY DEF Thread
    <2> QED
      BY <1>1, <2>1, <2>4, <2>5
  <1>9. ASSUME NEW w \in Worker, DestroyJob(w) PROVE Kept
    <2>1. Moves(w) /\ at[w] = "done" /\ at'[w] = "finish"
      BY <1>9, FinishingMoves, Zenon
    <2>2. closureCount' = closureCount - 1 /\ jobSet' = jobSet
      BY <1>9, Zenon DEF DestroyJob, queue
    <2>3. /\ Has(Adding', w) = 0 /\ Has(Adding, w) = 0
          /\ Has(Live', w) = 0 /\ Has(Live, w) = 1
      BY <2>1 DEF Has, Adding, Live, LivePlaces
    <2>4. /\ closureCount' = closureCount + (-1)
          /\ Cardinality(jobSet') = Cardinality(jobSet) + 0
          /\ -1 = Has(Adding', w) - Has(Adding, w) + 0 + Has(Live', w) - Has(Live, w)
      <3>1. closureCount \in Int
        BY DEF Types, NumberTypes
      <3> QED
        BY <1>0, <2>2, <2>3, <3>1
    <2>5. w \in Thread
      BY DEF Thread
    <2> QED
      BY <1>1, <2>1, <2>4, <2>5
  <1>10. ASSUME NEW w \in Worker, Pausing(w) \/ EndTask(w) PROVE Kept
    <2>1. /\ w \in Thread /\ Moves(w) /\ at[w] \notin LivePlaces /\ at'[w] \notin LivePlaces
          /\ at[w] # "adding" /\ at'[w] # "adding"
      <3>1. /\ Moves(w) /\ at[w] \in {"wait", "pause", "paused", "last", "asleep", "finish"}
            /\ at'[w] \in {"task", "pause", "paused", "last", "asleep", "exited", "wait"}
        BY <1>10, PausingMoves, FinishingMoves, Zenon
      <3> QED
        BY <3>1 DEF LivePlaces, Thread
    <2>2. UNCHANGED <<closureCount, jobSet>>
      <3>1. CASE Pausing(w)
        BY <3>1, PausingMoves, Zenon DEF closures, queue
      <3>2. CASE EndTask(w)
        BY <3>2, Zenon DEF EndTask, closures
      <3> QED
        BY <1>10, <3>1, <3>2, Zenon
    <2> QED
      BY <1>2, <2>1, <2>2, Zenon
  <1>11. ASSUME NEW w \in Worker, Passing(w) PROVE Kept
    <2>1. /\ w \in Thread /\ Moves(w) /\ UNCHANGED <<closureCount, jobSet>>
          /\ at[w] \in LivePlaces \ {"adding"} /\ at'[w] \in LivePlaces \ {"adding"}
      BY <1>11, PassingMoves, Zenon DEF closures, queue, Thread
    <2> QED
      BY <1>2, <2>1, Zenon
  <1> QED
    BY <1>3, <1>4, <1>5, <1>6, <1>7, <1>8, <1>9, <1>10, <1>11, Actions, Zenon

LEMMA WorkCountKept ==
    ASSUME Types, Finite, WorkCount, Next
    PROVE  WorkCount'
  <1>0. processCount = Cardinality(Working) /\ Cardinality(Working) \in Nat
    <2>1. Working \in SUBSET Worker
      BY DEF Working
    <2> QED
      BY <2>1, WorkersCounted, Zenon DEF WorkCount
  <1>1. ASSUME NEW t \in Thread, Moves(t),
               processCount' = processCount + Has(Working', t) - Has(Working, t)
        PROVE  WorkCount'
    BY <1>0, <1>1, Moved, Zenon DEF WorkCount
  <1>2. ASSUME NEW t \in Thread, Moves(t), processCount' = processCount,
               t \in Worker => (at[t] \in LivePlaces \cup {"finish"}
                                <=> at'[t] \in LivePlaces \cup {"finish"})
        PROVE  WorkCount'
    <2>1. Has(Working', t) = Has(Working, t) /\ Has(Working, t) \in Int
      BY <1>2 DEF Has, Working
    <2>2. processCount' = processCount + Has(Working', t) - Has(Working, t)
      BY <1>0, <1>2, <2>1
    <2> QED
      BY <1>1, <1>2, <2>2, Zenon
  <1>3. CASE stop \/ StopStep
    BY <1>3, StopMoves, Zenon DEF WorkCount, Working
  <1>4. ASSUME NEW c \in Client, (\E type \in Type : addJob(c, type))
                                 \/ (\E co \in Coro : postCoro(c, co)) \/ expectEarlyExit(c)
        PROVE  WorkCount'
    <2>1. processCount' = processCount
      BY <1>4, Zenon DEF addJob, postCoro, expectEarlyExit
    <2> QED
      BY <1>2, <1>4, <2>1, ClientMoves, Zenon
  <1>5. ASSUME NEW t \in Thread, Wrapping(t) PROVE WorkCount'
    <2>1. Moves(t) /\ at[t] \in {"post", "ask"} /\ processCount' = processCount
      BY <1>5, WrappingMoves, Zenon
    <2>2. t \in Worker => at'[t] \in {"adding", "asked", "resume"}
      BY <1>5, JobAssumption, WrappingMoves
    <2> QED
      BY <1>2, <2>1, <2>2 DEF LivePlaces
  <1>6. ASSUME NEW t \in Thread, addRefCountedJob(t) PROVE WorkCount'
    <2>1. Moves(t) /\ at[t] = "adding" /\ at'[t] = AfterAdding(t) /\ processCount' = processCount
      BY <1>6, AddingMoves, Zenon DEF addRefCountedJob
    <2>2. t \in Worker => AfterAdding(t) \in {"asked", "run"}
      BY JobAssumption DEF AfterAdding
    <2> QED
      BY <1>2, <2>1, <2>2 DEF LivePlaces
  <1>7. ASSUME NEW w \in Worker, getNextJob(w) PROVE WorkCount'
    <2>1. /\ Moves(w) /\ at[w] = "task" /\ at'[w] = "run" /\ w \in Thread
          /\ processCount' = processCount + 1
      BY <1>7, TakingMoves, Zenon DEF Thread
    <2>2. Has(Working', w) = 1 /\ Has(Working, w) = 0
      BY <2>1 DEF Has, Working, LivePlaces
    <2>3. processCount' = processCount + Has(Working', w) - Has(Working, w)
      BY <1>0, <2>1, <2>2
    <2> QED
      BY <1>1, <2>1, <2>3, Zenon
  <1>8. ASSUME NEW w \in Worker, EndTask(w) PROVE WorkCount'
    <2>1. Moves(w) /\ at[w] = "finish" /\ at'[w] = "wait" /\ w \in Thread
      BY <1>8, FinishingMoves, Zenon DEF Thread
    <2>2. Has(Working', w) = 0 /\ Has(Working, w) = 1
      BY <2>1 DEF Has, Working, LivePlaces
    <2>3. processCount' = processCount + Has(Working', w) - Has(Working, w)
      BY <1>0, <1>8, <2>2 DEF EndTask
    <2> QED
      BY <1>1, <2>1, <2>3, Zenon
  <1>9. ASSUME NEW w \in Worker, DestroyJob(w) PROVE WorkCount'
    <2>1. Moves(w) /\ at[w] = "done" /\ at'[w] = "finish" /\ w \in Thread
      BY <1>9, FinishingMoves, Zenon DEF Thread
    <2>2. processCount' = processCount
      BY <1>9 DEF DestroyJob
    <2> QED
      BY <1>2, <2>1, <2>2 DEF LivePlaces
  <1>10. ASSUME NEW w \in Worker, Pausing(w) PROVE WorkCount'
    <2>1. /\ w \in Thread /\ Moves(w) /\ processCount' = processCount
          /\ at[w] \in {"wait", "pause", "paused", "last", "asleep"}
          /\ at'[w] \in {"task", "pause", "paused", "last", "asleep", "exited"}
      BY <1>10, PausingMoves, Zenon DEF Thread
    <2> QED
      BY <1>2, <2>1 DEF LivePlaces
  <1>11. ASSUME NEW w \in Worker, Passing(w) PROVE WorkCount'
    <2>1. /\ w \in Thread /\ Moves(w) /\ processCount' = processCount
          /\ at[w] \in LivePlaces /\ at'[w] \in LivePlaces
      BY <1>11, PassingMoves, Zenon DEF Thread
    <2> QED
      BY <1>2, <2>1, Zenon
  <1> QED
    BY <1>3, <1>4, <1>5, <1>6, <1>7, <1>8, <1>9, <1>10, <1>11, Actions, Zenon
-----------------------------------------------------------------------------
(* The coroutines that are suspended.                                        *)

\* A worker inside a coroutine has one that was started.
LEMMA InsideStarted ==
    ASSUME Types, Kinds, Coroutines, NEW w \in Worker, w \in In
    PROVE  job[w].co \in Coro /\ coro[job[w].co] # "none"
  <1>1. job[w].co \in Coro
    BY DEF In, InPlaces, Kinds, WorkerKind, HasCoro, Thread
  <1> QED
    BY <1>1, Zenon DEF Coroutines, JobsStarted

LEMMA CoroCountKept ==
    ASSUME Types, Kinds, Finite, Coroutines, Private, CoroCount, Next
    PROVE  CoroCount' /\ IsFiniteSet(Started')
  <1> DEFINE Kept == CoroCount' /\ IsFiniteSet(Started')
             Only(co) == \A d \in Coro : d # co => coro'[d] = coro[d]
  <1>0. /\ IsFiniteSet(Started) /\ Cardinality(Started) \in Nat /\ Cardinality(In) \in Nat
        /\ nSuspend \in Int
    <2>1. In \in SUBSET Worker
      BY DEF In
    <2> QED
      BY <2>1, WorkersCounted, FS_CardinalityType, Zenon DEF Finite, Types, NumberTypes
  <1>1. ASSUME NEW t \in Thread, Moves(t), NEW co, Only(co), Overrun => Overrun', NEW n \in Int,
               ~Overrun' => /\ nSuspend' = nSuspend + n
                            /\ n = Has(Started', co) - Has(Started, co) - Has(In', t) + Has(In, t)
        PROVE  Kept
    <2>1. \A d : d # co => (d \in Started <=> d \in Started')
      BY <1>1, Zenon DEF Started
    <2>2. /\ IsFiniteSet(Started') /\ Cardinality(Started') \in Nat
          /\ Cardinality(Started') = Cardinality(Started) + Has(Started', co) - Has(Started, co)
      BY <1>0, <2>1, Counted, Zenon
    <2>3. Cardinality(In') = Cardinality(In) + Has(In', t) - Has(In, t)
      BY <1>1, Moved, Zenon
    <2>4. \A S : Has(S, t) \in Int /\ Has(S, co) \in Int
      BY DEF Has
    <2>5. ASSUME ~Overrun' PROVE nSuspend' = Cardinality(Started') - Cardinality(In')
      <3>1. nSuspend = Cardinality(Started) - Cardinality(In)
        BY <1>1, <2>5, Zenon DEF CoroCount
      <3> QED
        BY <1>0, <1>1, <2>2, <2>3, <2>4, <2>5, <3>1
    <2> QED
      BY <2>2, <2>5, Zenon DEF CoroCount
  <1>2. ASSUME NEW t \in Thread, Moves(t), UNCHANGED <<nSuspend, coro>>, t \in In <=> t \in In'
        PROVE  Kept
    <2>1. Only(t) /\ (Overrun => Overrun') /\ Started' = Started
      BY <1>2, Zenon DEF Overrun, Started
    <2>2. /\ nSuspend' = nSuspend + 0
          /\ 0 = Has(Started', t) - Has(Started, t) - Has(In', t) + Has(In, t)
      <3>1. Has(In, t) \in Int /\ Has(In', t) = Has(In, t) /\ Has(Started, t) \in Int
        BY <1>2 DEF Has
      <3> QED
        BY <1>0, <1>2, <2>1, <3>1
    <2> QED
      BY <1>1, <1>2, <2>1, <2>2
  <1>3. CASE stop \/ StopStep
    <2>1. UNCHANGED <<nSuspend, at, job, coro>>
      BY <1>3, StopMoves, Zenon DEF coros
    <2>2. Started' = Started /\ In' = In /\ (Overrun' <=> Overrun)
      BY <2>1, Zenon DEF Started, In, Overrun
    <2> QED
      BY <1>0, <2>1, <2>2, Zenon DEF CoroCount
  <1>4. ASSUME NEW c \in Client, NEW type \in Type, addJob(c, type) PROVE Kept
    <2>1. c \in Thread /\ c \notin Worker /\ Moves(c)
      BY <1>4, ClientMoves, Zenon
    <2>2. UNCHANGED <<nSuspend, coro>>
      BY <1>4, Zenon DEF addJob, coros
    <2>3. c \in In <=> c \in In'
      BY <2>1 DEF In
    <2> QED
      BY <1>2, <2>1, <2>2, <2>3, Zenon
  <1>5. ASSUME NEW c \in Client, NEW co \in Coro, postCoro(c, co) PROVE Kept
    <2>1. c \in Thread /\ c \notin Worker /\ Moves(c)
      BY <1>5, ClientMoves, Zenon
    <2>2. nSuspend' = nSuspend + 1 /\ coro[co] = "none" /\ coro' = [coro EXCEPT ![co] = "created"]
      BY <1>5, Zenon DEF postCoro
    <2>3. Only(co) /\ coro'[co] = "created"
      BY <2>2, Zenon DEF Types, CoroTypes
    <2>4. Overrun => Overrun'
      BY <2>2, <2>3, Zenon DEF Overrun
    <2>5. /\ Has(Started', co) = 1 /\ Has(Started, co) = 0
          /\ Has(In', c) = 0 /\ Has(In, c) = 0
      BY <2>1, <2>2, <2>3 DEF Has, Started, In
    <2>6. 1 = Has(Started', co) - Has(Started, co) - Has(In', c) + Has(In, c)
      BY <2>5
    <2> QED
      BY <1>1, <2>1, <2>2, <2>3, <2>4, <2>6
  <1>6. ASSUME NEW c \in Client, expectEarlyExit(c) PROVE Kept
    <2> DEFINE co == job[c].co
    <2>1. c \in Thread /\ c \notin Worker /\ Moves(c) /\ at[c] = "refused"
      BY <1>6, ClientMoves, Zenon
    <2>2. nSuspend' = nSuspend - 1 /\ coro' = [coro EXCEPT ![co] = "finished"]
      BY <1>6, Zenon DEF expectEarlyExit
    <2>3. co \in Coro /\ coro[co] = "created"
      BY <2>1 DEF Kinds, HasCoro, Private, Posting
    <2> HIDE DEF co
    <2>4. Only(co) /\ coro'[co] = "finished"
      BY <2>2, <2>3, Zenon DEF Types, CoroTypes
    <2>5. Overrun => Overrun'
      BY <2>3, <2>4, Zenon DEF Overrun
    <2>6. /\ Has(Started', co) = 0 /\ Has(Started, co) = 1
          /\ Has(In', c) = 0 /\ Has(In, c) = 0
      BY <2>1, <2>3, <2>4 DEF Has, Started, In
    <2>7. /\ -1 = Has(Started', co) - Has(Started, co) - Has(In', c) + Has(In, c)
          /\ nSuspend' = nSuspend + (-1)
      BY <1>0, <2>2, <2>6
    <2> QED
      BY <1>1, <2>1, <2>4, <2>5, <2>7
  <1>7. ASSUME NEW t \in Thread, Wrapping(t) PROVE Kept
    <2>1. /\ Moves(t) /\ UNCHANGED <<nSuspend, coro, job>> /\ at[t] \in {"post", "ask"}
          /\ at'[t] \in {"adding", IF at[t] = "ask" THEN "asked"
                                   ELSE IF t \in Client THEN "refused" ELSE "resume"}
      BY <1>7, WrappingMoves, Zenon DEF coros
    <2>2. ASSUME t \in Worker PROVE t \in In <=> t \in In'
      <3>1. WorkerKind(t) /\ t \notin Client
        BY <2>2, JobAssumption DEF Kinds
      <3>2. CASE at[t] = "ask"
        BY <2>1, <2>2, <3>1, <3>2 DEF WorkerKind, In, InPlaces
      <3>3. CASE at[t] = "post"
        BY <2>1, <2>2, <3>1, <3>3 DEF WorkerKind, In, InPlaces
      <3> QED
        BY <2>1, <3>2, <3>3, Zenon
    <2>3. t \in In <=> t \in In'
      BY <2>2, Zenon DEF In
    <2> QED
      BY <1>2, <2>1, <2>3, Zenon
  <1>8. ASSUME NEW t \in Thread, addRefCountedJob(t) PROVE Kept
    <2>1. /\ Moves(t) /\ UNCHANGED <<nSuspend, coro, job>>
          /\ at[t] = "adding" /\ at'[t] = AfterAdding(t)
      BY <1>8, AddingMoves, Zenon DEF addRefCountedJob, coros
    <2>2. t \in Worker => AfterAdding(t) = IF job[t].kind = "coro" THEN "asked" ELSE "run"
      BY JobAssumption DEF AfterAdding
    <2>3. t \in In <=> t \in In'
      BY <2>1, <2>2 DEF In, InPlaces
    <2> QED
      BY <1>2, <2>1, <2>3, Zenon
  <1>9. ASSUME NEW w \in Worker, Pausing(w) \/ getNextJob(w) \/ DestroyJob(w) \/ EndTask(w)
        PROVE  Kept
    <2>1. /\ Moves(w) /\ w \in Thread
          /\ at[w] \in {"wait", "pause", "paused", "last", "asleep", "task", "done", "finish"}
          /\ at'[w] \in {"task", "pause", "paused", "last", "asleep", "exited", "run", "finish", "wait"}
      BY <1>9, PausingMoves, TakingMoves, FinishingMoves, Zenon DEF Thread
    <2>2. UNCHANGED <<nSuspend, coro>>
      <3>1. CASE Pausing(w)
        BY <3>1, PausingMoves, Zenon DEF coros
      <3>2. CASE getNextJob(w) \/ DestroyJob(w) \/ EndTask(w)
        BY <3>2, Zenon DEF getNextJob, DestroyJob, EndTask, coros
      <3> QED
        BY <1>9, <3>1, <3>2, Zenon
    <2>3. w \notin In /\ w \notin In'
      BY <2>1 DEF In, InPlaces
    <2> QED
      BY <1>2, <2>1, <2>2, <2>3, Zenon
  <1>10. ASSUME NEW w \in Worker, Passing(w) PROVE Kept
    <2>0. w \in Thread /\ Moves(w)
      BY <1>10, PassingMoves, Zenon DEF Thread
    <2>1. CASE RunPlain(w) \/ Enter(w) \/ insertPathRequest(w)
      <3>1. UNCHANGED <<nSuspend, coro, job>>
        BY <2>1, Zenon DEF RunPlain, Enter, insertPathRequest, coros
      <3>2. \/ at[w] = "run" /\ at'[w] = "done"
            \/ at[w] \in {"enter", "inside"} /\ at'[w] \in {"inside", "ask"}
        BY <2>0, <2>1, GoesThere, Zenon DEF RunPlain, Enter, insertPathRequest
      <3>3. w \in In <=> w \in In'
        BY <3>2 DEF In, InPlaces
      <3> QED
        BY <1>2, <2>0, <3>1, <3>3, Zenon
    <2>2. CASE resume(w)
      <3>1. nSuspend' = nSuspend - 1 /\ coro' = coro /\ at[w] \in {"resume", "run"} /\ at'[w] = "enter"
        BY <2>0, <2>2, GoesThere, Zenon DEF resume, coros
      <3>2. Has(In', w) = 1 /\ Has(In, w) = 0 /\ Started' = Started
        BY <3>1 DEF Has, In, InPlaces, Started
      <3>3. Only(w) /\ (Overrun => Overrun')
        BY <3>1, Zenon DEF Overrun
      <3>4. /\ -1 = Has(Started', w) - Has(Started, w) - Has(In', w) + Has(In, w)
            /\ nSuspend' = nSuspend + (-1)
        <4>1. Has(Started, w) \in Int
          BY DEF Has
        <4> QED
          BY <1>0, <3>1, <3>2, <4>1
      <3> QED
        BY <1>1, <2>0, <3>3, <3>4
    <2>3. CASE updatePaths(w)
      <3>1. UNCHANGED <<nSuspend, coro>>
        BY <2>3, Zenon DEF updatePaths
      <3>2. at[w] = "run" /\ at'[w] \in {"post", "done"}
        <4>1. job' = job \/ \E j : job' = [job EXCEPT ![w] = j]
          BY <2>3, Zenon DEF updatePaths
        <4>2. at[w] = "run" /\ \E place \in {"post", "done"} : Goes(w, place)
          BY <2>3, Zenon DEF updatePaths
        <4> QED
          BY <2>0, <4>1, <4>2, GoesThere, Zenon
      <3>3. w \notin In /\ w \notin In'
        BY <3>2 DEF In, InPlaces
      <3> QED
        BY <1>2, <2>0, <3>1, <3>3, Zenon
    <2>4. ASSUME NEW state, Leave(w, state), w \in In, job' = job,
                 coro[job[w].co] = "overrun" => state = "overrun",
                 NEW n \in Int, nSuspend' = nSuspend + n,
                 state # "overrun" => n = (IF state \in {"created", "yielded"} THEN 1 ELSE 0)
                                          - (IF coro[job[w].co] \in {"created", "yielded"} THEN 1 ELSE 0) + 1
          PROVE  Kept
      <3> DEFINE co == job[w].co
      <3>1. co \in Coro /\ coro' = [coro EXCEPT ![co] = state]
        BY <2>4, InsideStarted, Zenon DEF Leave
      <3>2. at'[w] \in {"done", "run"}
        BY <2>0, <2>4, GoesThere, Zenon DEF Leave
      <3>3. Has(In', w) = 0 /\ Has(In, w) = 1
        BY <2>4, <3>2 DEF Has, In, InPlaces
      <3>4. Only(co) /\ coro'[co] = state
        BY <3>1, Zenon DEF Types, CoroTypes
      <3>5. Overrun => Overrun'
        BY <2>4, <3>1, <3>4, Zenon DEF Overrun
      <3>6. ~Overrun' => state # "overrun"
        BY <3>1, <3>4, Zenon DEF Overrun
      <3>7. /\ Has(Started', co) = IF state \in {"created", "yielded"} THEN 1 ELSE 0
            /\ Has(Started, co) = IF coro[co] \in {"created", "yielded"} THEN 1 ELSE 0
        BY <3>1, <3>4, Zenon DEF Has, Started
      <3>8. state # "overrun" => n = Has(Started', co) - Has(Started, co) - Has(In', w) + Has(In, w)
        BY <2>4, <3>3, <3>7
      <3> HIDE DEF co
      <3> QED
        BY <1>1, <2>0, <2>4, <3>4, <3>5, <3>6, <3>8
    <2>5. CASE Return(w)
      <3>1. w \in In
        BY <2>5 DEF Return, In, InPlaces
      <3>2. coro[job[w].co] \in {"created", "yielded", "finished", "overrun"}
        BY <3>1, InsideStarted DEF Types, CoroTypes
      <3>3. /\ Leave(w, IF coro[job[w].co] \in {"finished", "overrun"} THEN "overrun" ELSE "finished")
            /\ job' = job /\ nSuspend' = nSuspend
        BY <2>5, Zenon DEF Return
      <3>4. nSuspend' = nSuspend + 0
        BY <1>0, <3>3
      <3>5. CASE coro[job[w].co] \in {"finished", "overrun"}
        BY <2>4, <3>1, <3>3, <3>4, <3>5
      <3>6. CASE coro[job[w].co] \in {"created", "yielded"}
        <4>1. Leave(w, "finished")
          BY <3>3, <3>6
        <4> QED
          BY <2>4, <3>1, <3>3, <3>4, <3>6, <4>1
      <3> QED
        BY <3>2, <3>5, <3>6
    <2>6. CASE Asked(w)
      <3>1. w \in In /\ job' = job /\ nSuspend' = nSuspend /\ at[w] = "asked"
        BY <2>6 DEF Asked, In, InPlaces
      <3>2. coro[job[w].co] = "created"
        BY <3>1 DEF Coroutines, InsideHeld
      <3>3. CASE Goes(w, "yield") /\ coro' = coro
        <4>1. at'[w] = "yield"
          BY <2>0, <3>1, <3>3, GoesThere, Zenon
        <4>2. w \in In'
          BY <4>1 DEF In, InPlaces
        <4> QED
          BY <1>2, <2>0, <3>1, <3>3, <4>2, Zenon
      <3>4. CASE Leave(w, "finished")
        <4>1. nSuspend' = nSuspend + 0
          BY <1>0, <3>1
        <4> QED
          BY <2>4, <3>1, <3>2, <3>4, <4>1
      <3> QED
        BY <2>6, <3>3, <3>4, Zenon DEF Asked, coros
    <2>7. CASE yield(w)
      <3>1. w \in In /\ job' = job /\ nSuspend' = nSuspend + 1 /\ at[w] = "yield" /\ Leave(w, "yielded")
        BY <2>7 DEF yield, In, InPlaces
      <3>2. coro[job[w].co] = "created"
        BY <3>1 DEF Coroutines, InsideHeld
      <3> QED
        BY <2>4, <3>1, <3>2
    <2> QED
      BY <1>10, <2>1, <2>2, <2>3, <2>5, <2>6, <2>7, Zenon DEF Passing
  <1> QED
    BY <1>3, <1>4, <1>5, <1>6, <1>7, <1>8, <1>9, <1>10, Actions, Zenon
-----------------------------------------------------------------------------
(* The coroutines.                                                           *)

\* A coroutine goes from none to created, and never back.
LEMMA CoroForward ==
    ASSUME Types, Next, NEW co \in Coro
    PROVE  /\ coro[co] # "none" => coro'[co] # "none"
           /\ coro[co] \notin {"none", "created"} => coro'[co] \notin {"none", "created"}
  <1>0. coro \in [Coro -> {"none", "created", "yielded", "finished", "overrun"}]
    BY DEF Types, CoroTypes
  <1>1. ASSUME coro' = coro
        PROVE  /\ coro[co] # "none" => coro'[co] # "none"
               /\ coro[co] \notin {"none", "created"} => coro'[co] \notin {"none", "created"}
    BY <1>1, Zenon
  <1>2. ASSUME NEW d, NEW state \in {"finished", "overrun", "yielded"},
               coro' = [coro EXCEPT ![d] = state]
        PROVE  /\ coro[co] # "none" => coro'[co] # "none"
               /\ coro[co] \notin {"none", "created"} => coro'[co] \notin {"none", "created"}
    <2>1. coro'[co] = IF d = co THEN state ELSE coro[co]
      BY <1>0, <1>2, Zenon
    <2> QED
      BY <2>1, Zenon
  <1>3. ASSUME NEW c \in Client, NEW d \in Coro, postCoro(c, d)
        PROVE  /\ coro[co] # "none" => coro'[co] # "none"
               /\ coro[co] \notin {"none", "created"} => coro'[co] \notin {"none", "created"}
    <2>1. coro[d] = "none" /\ coro'[co] = IF d = co THEN "created" ELSE coro[co]
      BY <1>0, <1>3, Zenon DEF postCoro
    <2> QED
      BY <2>1, Zenon
  <1>4. CASE stop \/ StopStep
    BY <1>1, <1>4, StopMoves, Zenon DEF coros
  <1>5. ASSUME NEW c \in Client, NEW type \in Type, addJob(c, type) PROVE coro' = coro
    BY <1>5, Zenon DEF addJob, coros
  <1>6. ASSUME NEW c \in Client, expectEarlyExit(c)
        PROVE  \E d : coro' = [coro EXCEPT ![d] = "finished"]
    BY <1>6, Zenon DEF expectEarlyExit
  <1>7. ASSUME NEW t \in Thread, Wrapping(t) \/ addRefCountedJob(t) PROVE coro' = coro
    BY <1>7, WrappingMoves, Zenon DEF addRefCountedJob, coros
  <1>8. ASSUME NEW w \in Worker, Pausing(w) \/ getNextJob(w) \/ DestroyJob(w) \/ EndTask(w)
        PROVE  coro' = coro
    BY <1>8, PausingMoves, Zenon DEF getNextJob, DestroyJob, EndTask, coros
  <1>9. ASSUME NEW w \in Worker, Passing(w)
        PROVE  \/ coro' = coro
               \/ \E state \in {"finished", "overrun", "yielded"} :
                     coro' = [coro EXCEPT ![job[w].co] = state]
    <2>1. CASE RunPlain(w) \/ resume(w) \/ Enter(w) \/ insertPathRequest(w) \/ updatePaths(w)
      BY <2>1, Zenon DEF RunPlain, resume, Enter, insertPathRequest, updatePaths, coros
    <2>2. CASE Return(w) \/ Asked(w) \/ yield(w)
      BY <2>2, Zenon DEF Return, Asked, yield, Leave, coros
    <2> QED
      BY <1>9, <2>1, <2>2, Zenon DEF Passing
  <1> QED
    BY <1>1, <1>2, <1>3, <1>4, <1>5, <1>6, <1>7, <1>8, <1>9, Actions, Zenon

\* Whoever asks goes on asking until the coroutine is left.
LEMMA BegunKept == ASSUME Types, Next, NEW co \in Coro, Begun(co) PROVE Begun(co)'
  <1>1. CASE coro[co] \notin {"none", "created"}
    BY <1>1, CoroForward, Zenon DEF Begun
  <1>2. ASSUME NEW v \in Worker, at[v] \in {"ask", "adding", "asked", "yield"},
               job[v].kind = "coro", job[v].co = co
        PROVE  Begun(co)'
    <2>1. ASSUME job'[v] = job[v], at'[v] \in {"ask", "adding", "asked", "yield"} PROVE Begun(co)'
      BY <1>2, <2>1, Zenon DEF Begun, Asking
    <2>2. v \in Thread /\ v \notin Client
      BY JobAssumption DEF Thread
    <2>3. ASSUME NEW t \in Thread, t # v, Moves(t) PROVE Begun(co)'
      BY <1>2, <2>1, <2>2, <2>3, Zenon DEF Moves
    <2>4. CASE stop \/ StopStep
      BY <1>2, <2>1, <2>4, StopMoves, Zenon
    <2>5. ASSUME NEW c \in Client, (\E type \in Type : addJob(c, type))
                                 \/ (\E d \in Coro : postCoro(c, d)) \/ expectEarlyExit(c)
          PROVE  Begun(co)'
      BY <2>2, <2>3, <2>5, ClientMoves, Zenon
    <2>6. ASSUME NEW t \in Thread, Wrapping(t) PROVE Begun(co)'
      <3>1. CASE t = v
        <4>1. job' = job /\ (at[v] = "post" \/ at[v] = "ask")
              /\ at'[v] \in {"adding", IF at[v] = "ask" THEN "asked" ELSE "resume"}
          BY <2>2, <2>6, <3>1, WrappingMoves, Zenon
        <4> QED
          BY <1>2, <2>1, <4>1, Zenon
      <3> QED
        BY <2>3, <2>6, <3>1, WrappingMoves, Zenon
    <2>7. ASSUME NEW t \in Thread, addRefCountedJob(t) PROVE Begun(co)'
      <3>1. CASE t = v
        <4>1. job' = job /\ at'[v] = AfterAdding(v)
          BY <2>7, <3>1, AddingMoves, Zenon DEF addRefCountedJob
        <4>2. AfterAdding(v) = "asked"
          BY <1>2, <2>2, Zenon DEF AfterAdding
        <4> QED
          BY <2>1, <4>1, <4>2, Zenon
      <3> QED
        BY <2>3, <2>7, <3>1, AddingMoves, Zenon
    <2>8. ASSUME NEW w \in Worker, Pausing(w) \/ getNextJob(w) \/ DestroyJob(w) \/ EndTask(w)
          PROVE  Begun(co)'
      <3>1. /\ Moves(w) /\ w \in Thread
            /\ at[w] \in {"wait", "pause", "paused", "last", "asleep", "task", "done", "finish"}
        BY <2>8, PausingMoves, TakingMoves, FinishingMoves, Zenon DEF Thread
      <3>2. w # v
        BY <1>2, <3>1, Zenon
      <3> QED
        BY <2>3, <3>1, <3>2, Zenon
    <2>9. ASSUME NEW w \in Worker, Passing(w) PROVE Begun(co)'
      <3>1. CASE w = v
        <4>1. Asked(v) \/ yield(v)
          BY <1>2, <2>9, <3>1, Zenon DEF Passing, RunPlain, resume, Enter, Return,
                                         insertPathRequest, updatePaths
        <4>2. ASSUME NEW state \in {"finished", "yielded"}, Leave(v, state) PROVE Begun(co)'
          <5>1. coro' = [coro EXCEPT ![co] = state]
            BY <1>2, <4>2, Zenon DEF Leave
          <5>2. coro'[co] = state
            BY <5>1, Zenon DEF Types, CoroTypes
          <5> QED
            BY <5>2, Zenon DEF Begun
        <4>3. ASSUME Goes(v, "yield"), job' = job PROVE Begun(co)'
          BY <2>1, <2>2, <4>3, GoesThere, Zenon
        <4> QED
          BY <4>1, <4>2, <4>3, Zenon DEF Asked, yield
      <3> QED
        BY <2>3, <2>9, <3>1, PassingMoves, Zenon DEF Thread
    <2> QED
      BY <2>4, <2>5, <2>6, <2>7, <2>8, <2>9, Actions, Zenon
  <1> QED
    BY <1>1, <1>2, Zenon DEF Begun, Asking
\* Where the job of a worker comes from.
LEMMA WorkerJob ==
    ASSUME Types, Next, NEW w \in Worker
    PROVE  \/ job'[w] = job[w]
           \/ job'[w] \in jobSet
           \/ job'[w] = NoJob
           \/ \E co \in Coro : request[co] = "waiting" /\ job'[w].co = co /\ job'[w].kind = "find"
  <1>0. w \in Thread /\ w \notin Client /\ job \in [Thread -> Jobs]
    BY JobAssumption DEF Thread, Types, JobTypes
  <1>1. CASE stop \/ StopStep
    BY <1>1, StopMoves, Zenon
  <1>2. ASSUME NEW t \in Thread, Moves(t), t # w PROVE job'[w] = job[w]
    BY <1>0, <1>2, Zenon DEF Moves
  <1>3. ASSUME NEW c \in Client, (\E type \in Type : addJob(c, type))
                                 \/ (\E co \in Coro : postCoro(c, co)) \/ expectEarlyExit(c)
        PROVE  job'[w] = job[w]
    BY <1>0, <1>2, <1>3, ClientMoves, Zenon
  <1>4. ASSUME NEW t \in Thread, Wrapping(t) \/ addRefCountedJob(t) PROVE job'[w] = job[w]
    BY <1>4, WrappingMoves, Zenon DEF addRefCountedJob
  <1>5. ASSUME NEW v \in Worker, Pausing(v) \/ DestroyJob(v) PROVE job'[w] = job[w]
    BY <1>5, PausingMoves, Zenon DEF DestroyJob
  <1>6. ASSUME NEW v \in Worker, getNextJob(v) PROVE job'[w] = job[w] \/ job'[w] \in jobSet
    BY <1>2, <1>6, TakingMoves, Zenon DEF Thread, Runnable
  <1>7. ASSUME NEW v \in Worker, EndTask(v) PROVE job'[w] = job[w] \/ job'[w] = NoJob
    BY <1>0, <1>7, Zenon DEF EndTask
  <1>8. ASSUME NEW v \in Worker, Passing(v)
        PROVE  \/ job'[w] = job[w]
               \/ \E co \in Coro : request[co] = "waiting" /\ job'[w].co = co /\ job'[w].kind = "find"
    <2>1. CASE v # w
      BY <1>2, <1>8, <2>1, PassingMoves, Zenon DEF Thread
    <2>2. CASE v = w /\ updatePaths(w) /\ job' # job
      <3>1. PICK co \in Coro : request[co] = "waiting" /\ job' = [job EXCEPT ![w].co = co]
        BY <2>2, Zenon DEF updatePaths
      <3>2. job'[w] = [job[w] EXCEPT !.co = co] /\ job[w] \in Jobs /\ job[w].kind = "find"
        BY <1>0, <2>2, <3>1 DEF updatePaths
      <3>3. job'[w].co = co /\ job'[w].kind = "find"
        BY <3>2 DEF Jobs
      <3> QED
        BY <3>1, <3>3, Zenon
    <2>3. updatePaths(v) \/ job' = job
      BY <1>8, Zenon DEF Passing, RunPlain, resume, Enter, Return, insertPathRequest, Asked, yield
    <2> QED
      BY <1>8, <2>1, <2>2, <2>3, Zenon
  <1> QED
    BY <1>1, <1>3, <1>4, <1>5, <1>6, <1>7, <1>8, Actions, Zenon

\* Where a job that waits comes from.
LEMMA QueuedFrom ==
    ASSUME Types, Kinds, Next, NEW j \in jobSet'
    PROVE  \/ j \in jobSet
           \/ \E t \in Thread : /\ addRefCountedJob(t) /\ at[t] = "adding"
                               /\ j.kind = Added(t).kind /\ j.co = Added(t).co
  <1>1. CASE stop \/ StopStep
    BY <1>1, StopMoves, Zenon DEF queue
  <1>2. ASSUME NEW c \in Client, (\E type \in Type : addJob(c, type))
                                 \/ (\E co \in Coro : postCoro(c, co)) \/ expectEarlyExit(c)
        PROVE  jobSet' = jobSet
    BY <1>2, Zenon DEF addJob, postCoro, expectEarlyExit, queue
  <1>3. ASSUME NEW t \in Thread, Wrapping(t) PROVE jobSet' = jobSet
    BY <1>3, WrappingMoves, Zenon DEF queue
  <1>4. ASSUME NEW t \in Thread, addRefCountedJob(t)
        PROVE  \/ j \in jobSet
               \/ at[t] = "adding" /\ j.kind = Added(t).kind /\ j.co = Added(t).co
    BY <1>4, QueuedJob, AddingMoves, Zenon
  <1>5. ASSUME NEW w \in Worker, Pausing(w) \/ Passing(w) PROVE jobSet' = jobSet
    BY <1>5, PausingMoves, PassingMoves, Zenon DEF queue
  <1>6. ASSUME NEW w \in Worker, getNextJob(w) PROVE j \in jobSet
    BY <1>6, TakingMoves, Zenon
  <1>7. ASSUME NEW w \in Worker, DestroyJob(w) \/ EndTask(w) PROVE jobSet' = jobSet
    BY <1>7, Zenon DEF DestroyJob, EndTask, queue
  <1> QED
    BY <1>1, <1>2, <1>3, <1>4, <1>5, <1>6, <1>7, Actions, Zenon

LEMMA AddedCoro ==
    ASSUME Types, Kinds, PlainJobs, NEW t \in Thread, at[t] = "adding"
    PROVE  /\ Plain(Added(t))
           /\ \/ Added(t).co = NoCoro
              \/ t \in Client /\ Posting(t) /\ Added(t).co = job[t].co
              \/ t \in Worker /\ Added(t).co = job[t].co /\ job[t].co \in Coro
  <1>1. CASE t \in Client
    <2>1. Added(t) = job[t] /\ Plain(job[t])
      BY <1>1, AddedJob, Zenon DEF PlainJobs
    <2> QED
      BY <1>1, <2>1, Zenon DEF Plain, Posting
  <1>2. CASE t \in Worker
    <2>1. CASE job[t].kind = "coro"
      <3>1. Added(t) = Job(FindType, "find", NoCoro)
        BY <1>2, <2>1, AddedJob, Zenon
      <3> QED
        BY <3>1 DEF Job, Plain
    <2>2. CASE job[t].kind # "coro"
      <3>1. Added(t) = Job(CoroType, "coro", job[t].co) /\ job[t].co \in Coro
        BY <1>2, <2>2, AddedJob, Zenon
      <3>2. Added(t).co = job[t].co /\ Added(t).kind = "coro"
        BY <3>1 DEF Job
      <3> QED
        BY <1>2, <3>1, <3>2, Zenon DEF Plain
    <2> QED
      BY <2>1, <2>2, Zenon
  <1> QED
    BY <1>1, <1>2, Zenon DEF Thread

LEMMA PlainJobsKept == ASSUME Types, Kinds, PlainJobs, Next PROVE PlainJobs'
  <1>1. \A j \in jobSet' : Plain(j)
    <2> SUFFICES ASSUME NEW j \in jobSet' PROVE Plain(j)
      OBVIOUS
    <2>1. ASSUME NEW t \in Thread, at[t] = "adding", j.kind = Added(t).kind, j.co = Added(t).co
          PROVE  Plain(j)
      BY <2>1, AddedCoro, Zenon DEF Plain
    <2> QED
      BY <2>1, QueuedFrom, Zenon DEF PlainJobs
  <1>2. ASSUME NEW c \in Client PROVE Plain(job'[c])
    <2>0. c \in Thread /\ c \notin Worker /\ Plain(job[c]) /\ job \in [Thread -> Jobs]
      BY JobAssumption DEF Thread, PlainJobs, Types, JobTypes
    <2>1. ASSUME NEW t \in Thread, t # c, Moves(t) PROVE Plain(job'[c])
      BY <2>0, <2>1, Zenon DEF Moves
    <2>2. CASE stop \/ StopStep
      BY <2>0, <2>2, StopMoves, Zenon
    <2>3. ASSUME NEW d \in Client, NEW type \in Type, addJob(d, type) PROVE Plain(job'[c])
      <3>1. CASE d = c
        <4>1. job'[c] = Job(type, "plain", NoCoro)
          BY <2>0, <2>3, <3>1, Zenon DEF addJob
        <4> QED
          BY <4>1 DEF Job, Plain
      <3> QED
        BY <2>1, <2>3, <3>1, ClientMoves, Zenon
    <2>4. ASSUME NEW d \in Client, NEW co \in Coro, postCoro(d, co) PROVE Plain(job'[c])
      <3>1. CASE d = c
        <4>1. job'[c] = Job(CoroType, "coro", co)
          BY <2>0, <2>4, <3>1, Zenon DEF postCoro
        <4> QED
          BY <4>1 DEF Job, Plain
      <3> QED
        BY <2>1, <2>4, <3>1, ClientMoves, Zenon
    <2>5. ASSUME NEW d \in Client, expectEarlyExit(d) PROVE Plain(job'[c])
      BY <2>0, <2>5, Zenon DEF expectEarlyExit
    <2>6. ASSUME NEW t \in Thread, Wrapping(t) \/ addRefCountedJob(t) PROVE Plain(job'[c])
      BY <2>0, <2>6, WrappingMoves, Zenon DEF addRefCountedJob
    <2>7. ASSUME NEW w \in Worker, \/ Pausing(w) \/ getNextJob(w) \/ DestroyJob(w) \/ EndTask(w)
                                   \/ Passing(w)
          PROVE  Plain(job'[c])
      <3>1. Moves(w)
        BY <2>7, PausingMoves, TakingMoves, FinishingMoves, PassingMoves, Zenon
      <3> QED
        BY <2>0, <2>1, <3>1, Zenon DEF Thread
    <2> QED
      BY <2>2, <2>3, <2>4, <2>5, <2>6, <2>7, Actions, Zenon
  <1> QED
    BY <1>1, <1>2, Zenon DEF PlainJobs
LEMMA BegunStarted ==
    ASSUME InsideHeld, NEW co \in Coro, Begun(co)
    PROVE  coro[co] # "none"
  <1>1. ASSUME NEW w \in Worker, at[w] \in {"ask", "adding", "asked", "yield"},
               job[w].kind = "coro", job[w].co = co
        PROVE  coro[co] = "created"
    <2>1. w \in In /\ at[w] \notin {"enter", "inside"}
      BY <1>1 DEF In, InPlaces
    <2> QED
      BY <1>1, <2>1, Zenon DEF InsideHeld
  <1> QED
    BY <1>1, Zenon DEF Begun, Asking

LEMMA JobsStartedKept ==
    ASSUME Types, Kinds, Coroutines, PlainJobs, Private, Next
    PROVE  JobsStarted'
  <1>1. ASSUME NEW w \in Worker, job'[w].co \in Coro PROVE coro'[job'[w].co] # "none"
    <2>1. ASSUME NEW co \in Coro, request[co] = "waiting" PROVE coro[co] # "none"
      <3>1. Begun(co)
        BY <2>1, Zenon DEF Coroutines, RequestsBegun
      <3> QED
        BY <3>1, BegunStarted, Zenon DEF Coroutines
    <2>2. coro[job'[w].co] # "none"
      BY <1>1, <2>1, WorkerJob, NoJobHasNone, Zenon DEF Coroutines, JobsStarted
    <2> QED
      BY <1>1, <2>2, CoroForward, Zenon
  <1>2. ASSUME NEW j \in jobSet', j.co \in Coro PROVE coro'[j.co] # "none"
    <2>1. ASSUME NEW t \in Thread, at[t] = "adding", j.co = Added(t).co PROVE coro[j.co] # "none"
      <3>1. CASE Added(t).co = NoCoro
        BY <1>2, <2>1, <3>1, JobAssumption, Zenon
      <3>2. CASE t \in Client /\ Posting(t) /\ Added(t).co = job[t].co
        BY <2>1, <3>2, Zenon DEF Private
      <3>3. CASE t \in Worker /\ Added(t).co = job[t].co /\ job[t].co \in Coro
        BY <2>1, <3>3, Zenon DEF Coroutines, JobsStarted
      <3> QED
        BY <2>1, <3>1, <3>2, <3>3, AddedCoro, Zenon
    <2>2. coro[j.co] # "none"
      BY <1>2, <2>1, QueuedFrom, Zenon DEF Coroutines, JobsStarted
    <2> QED
      BY <1>2, <2>2, CoroForward, Zenon
  <1> QED
    BY <1>1, <1>2, Zenon DEF JobsStarted

\* A path request is made inside the coroutine.
LEMMA RequestsBegunKept ==
    ASSUME Types, Kinds, Coroutines, PlainJobs, Next
    PROVE  RequestsBegun'
  <1>1. ASSUME NEW co \in Coro, request'[co] # "none", request[co] = "none" PROVE Begun(co)'
    <2>1. CASE stop \/ StopStep
      BY <1>1, <2>1, StopMoves, Zenon DEF coros
    <2>2. ASSUME NEW c \in Client, (\E type \in Type : addJob(c, type))
                                   \/ (\E d \in Coro : postCoro(c, d)) \/ expectEarlyExit(c)
          PROVE  FALSE
      BY <1>1, <2>2, Zenon DEF addJob, postCoro, expectEarlyExit, coros
    <2>3. ASSUME NEW t \in Thread, Wrapping(t) \/ addRefCountedJob(t) PROVE FALSE
      BY <1>1, <2>3, WrappingMoves, Zenon DEF addRefCountedJob, coros
    <2>4. ASSUME NEW w \in Worker, Pausing(w) \/ getNextJob(w) \/ DestroyJob(w) \/ EndTask(w)
          PROVE  FALSE
      BY <1>1, <2>4, PausingMoves, Zenon DEF getNextJob, DestroyJob, EndTask, coros
    <2>5. ASSUME NEW w \in Worker, Passing(w) PROVE Begun(co)'
      <3>1. CASE \/ RunPlain(w) \/ resume(w) \/ Enter(w) \/ Return(w) \/ yield(w)
        BY <1>1, <3>1, Zenon DEF RunPlain, resume, Enter, Return, yield, coros
      <3>2. CASE Asked(w)
        BY <1>1, <3>2, Zenon DEF Asked, coros, Types, CoroTypes
      <3>3. CASE updatePaths(w)
        BY <1>1, <3>3, Zenon DEF updatePaths, Types, CoroTypes
      <3>4. CASE insertPathRequest(w)
        <4>1. job[w].co = co
          BY <1>1, <3>4, Zenon DEF insertPathRequest, Types, CoroTypes
        <4>2. job' = job /\ at'[w] = "ask" /\ job[w].kind = "coro"
          BY <3>4, OnlyNewAsks, GoesThere, Zenon DEF insertPathRequest, Thread
        <4> QED
          BY <4>1, <4>2, Zenon DEF Begun, Asking
      <3> QED
        BY <2>5, <3>1, <3>2, <3>3, <3>4, Zenon DEF Passing
    <2> QED
      BY <2>1, <2>2, <2>3, <2>4, <2>5, Actions, Zenon
  <1>2. ASSUME NEW co \in Coro, request'[co] # "none" PROVE Begun(co)'
    BY <1>1, <1>2, BegunKept, Zenon DEF Coroutines, RequestsBegun
  <1>3. ASSUME NEW w \in Worker, NEW co \in Coro, job'[w].kind = "find", job'[w].co = co
        PROVE  Begun(co)'
    <2>1. ASSUME job'[w] \in jobSet PROVE FALSE
      BY <1>3, <2>1, JobAssumption, Zenon DEF PlainJobs, Plain
    <2>2. job'[w] # NoJob
      BY <1>3, NoJobHasNone, Zenon
    <2>3. Begun(co)
      BY <1>3, <2>1, <2>2, WorkerJob, Zenon DEF Coroutines, RequestsBegun
    <2> QED
      BY <2>3, BegunKept, Zenon
  <1>4. ASSUME NEW w \in Worker
        PROVE  (job[w].kind = "find" /\ job[w].co \in Coro => Begun(job[w].co))'
    <2> SUFFICES ASSUME job'[w].kind = "find", NEW co \in Coro, job'[w].co = co
                 PROVE  Begun(job[w].co)'
      BY Zenon
    <2>1. Begun(co)'
      BY <1>3, Zenon
    <2> QED
      BY <2>1, Zenon DEF Begun, Asking
  <1> QED
    BY <1>2, <1>4, Zenon DEF RequestsBegun
\* A worker inside a coroutine keeps it from the others by its mutex_.
LEMMA InsideMoved ==
    ASSUME InsideHeld, NEW t \in Thread, Moves(t),
           \A v \in In : v # t /\ at[v] # "enter" => mutex_'[job[v].co] = mutex_[job[v].co],
           \A v \in In : v # t /\ at[v] \notin {"enter", "inside"}
                           => coro'[job[v].co] = coro[job[v].co],
           t \in In' => /\ at'[t] # "enter" => mutex_'[job'[t].co] = t
                        /\ at'[t] \notin {"enter", "inside"} => coro'[job'[t].co] = "created"
    PROVE  InsideHeld'
  <1>1. ASSUME NEW v \in In', v # t PROVE v \in In /\ at'[v] = at[v] /\ job'[v] = job[v]
    BY <1>1, Zenon DEF Moves, In, Thread
  <1> QED
    BY <1>1, Zenon DEF InsideHeld

LEMMA InsideHeldKept ==
    ASSUME Types, Kinds, Coroutines, Private, Next
    PROVE  InsideHeld'
  <1>0. /\ InsideHeld /\ NoOne \notin Worker
        /\ coro \in [Coro -> {"none", "created", "yielded", "finished", "overrun"}]
        /\ mutex_ \in [Coro -> Worker \cup {NoOne}]
        /\ \A v \in In : v \in Worker /\ job[v].co \in Coro
    <2>1. \A v \in In : v \in Worker /\ job[v].co \in Coro
      BY InsideStarted, Zenon DEF In
    <2> QED
      BY <2>1, JobAssumption DEF Coroutines, Types, CoroTypes
  <1>1. ASSUME NEW t \in Thread, Moves(t), UNCHANGED <<coro, mutex_>>, t \notin In' PROVE InsideHeld'
    BY <1>0, <1>1, InsideMoved, Zenon
  <1>2. ASSUME NEW t \in Thread, Moves(t), UNCHANGED <<coro, mutex_>>, job'[t] = job[t],
               t \in In' => \/ at'[t] = "enter"
                            \/ t \in In /\ at[t] # "enter" /\ at'[t] # "enter"
                               /\ (at[t] = "inside" => at'[t] = "inside" \/ coro[job[t].co] = "created")
        PROVE  InsideHeld'
    BY <1>0, <1>2, InsideMoved, Zenon DEF InsideHeld
  <1>3. CASE stop \/ StopStep
    <2>1. UNCHANGED <<at, job, coro, mutex_>>
      BY <1>3, StopMoves, Zenon DEF coros
    <2> QED
      BY <1>0, <2>1, Zenon DEF InsideHeld, In
  <1>4. ASSUME NEW c \in Client, NEW type \in Type, addJob(c, type) PROVE InsideHeld'
    <2>1. c \in Thread /\ Moves(c) /\ c \notin In' /\ UNCHANGED <<coro, mutex_>>
      BY <1>4, ClientMoves, Zenon DEF addJob, coros, In
    <2> QED
      BY <1>1, <2>1, Zenon
  <1>5. ASSUME NEW c \in Client, NEW co \in Coro, postCoro(c, co) PROVE InsideHeld'
    <2>1. c \in Thread /\ Moves(c) /\ c \notin In' /\ mutex_' = mutex_
      BY <1>5, ClientMoves, Zenon DEF postCoro, In
    <2>2. coro[co] = "none" /\ coro' = [coro EXCEPT ![co] = "created"]
      BY <1>5, Zenon DEF postCoro
    <2>3. \A v \in In : at[v] \notin {"enter", "inside"} => coro'[job[v].co] = coro[job[v].co]
      BY <1>0, <2>2, Zenon DEF InsideHeld
    <2> QED
      BY <1>0, <2>1, <2>3, InsideMoved, Zenon
  <1>6. ASSUME NEW c \in Client, expectEarlyExit(c) PROVE InsideHeld'
    <2>1. c \in Thread /\ Moves(c) /\ c \notin In' /\ mutex_' = mutex_ /\ at[c] = "refused"
      BY <1>6, ClientMoves, Zenon DEF expectEarlyExit, In
    <2>2. Posting(c) /\ coro' = [coro EXCEPT ![job[c].co] = "finished"]
      BY <1>6, <2>1, Zenon DEF expectEarlyExit, Posting, Kinds
    <2>3. \A v \in In : coro'[job[v].co] = coro[job[v].co]
      BY <1>0, <2>2, Zenon DEF Private
    <2> QED
      BY <1>0, <2>1, <2>3, InsideMoved, Zenon
  <1>7. ASSUME NEW t \in Thread, Wrapping(t) PROVE InsideHeld'
    <2>1. /\ Moves(t) /\ UNCHANGED <<coro, mutex_, job>>
          /\ at[t] = "post" \/ (at[t] = "ask" /\ t \in Worker)
          /\ at'[t] \in {"adding", "asked", "refused", "resume"}
      BY <1>7, WrappingMoves, Zenon DEF coros
    <2>2. ASSUME t \in In' PROVE t \in In /\ at[t] = "ask"
      <3>1. t \in Worker /\ t \notin Client /\ WorkerKind(t)
        BY <2>2, JobAssumption DEF In, Kinds
      <3>2. at[t] = "ask"
        BY <1>7, <2>1, <2>2, <3>1, WrappingMoves DEF In, InPlaces, WorkerKind
      <3> QED
        BY <3>1, <3>2 DEF In, InPlaces
    <2> QED
      BY <1>2, <2>1, <2>2, Zenon
  <1>8. ASSUME NEW t \in Thread, addRefCountedJob(t) PROVE InsideHeld'
    <2>1. /\ Moves(t) /\ UNCHANGED <<coro, mutex_, job>>
          /\ at[t] = "adding" /\ at'[t] = AfterAdding(t)
      BY <1>8, AddingMoves, Zenon DEF addRefCountedJob, coros
    <2>2. ASSUME t \in In' PROVE t \in In /\ at'[t] = "asked"
      <3>1. t \in Worker /\ t \notin Client
        BY <2>2, JobAssumption DEF In
      <3>2. AfterAdding(t) = IF job[t].kind = "coro" THEN "asked" ELSE "run"
        BY <3>1, Zenon DEF AfterAdding
      <3> QED
        BY <2>1, <2>2, <3>1, <3>2 DEF In, InPlaces
    <2> QED
      BY <1>2, <2>1, <2>2, Zenon
  <1>9. ASSUME NEW w \in Worker, Pausing(w) \/ getNextJob(w) \/ DestroyJob(w) \/ EndTask(w)
        PROVE  InsideHeld'
    <2>1. /\ Moves(w) /\ w \in Thread
          /\ at'[w] \in {"task", "pause", "paused", "last", "asleep", "exited", "run", "finish", "wait"}
      BY <1>9, PausingMoves, TakingMoves, FinishingMoves, Zenon DEF Thread
    <2>2. UNCHANGED <<coro, mutex_>>
      BY <1>9, PausingMoves, Zenon DEF getNextJob, DestroyJob, EndTask, coros
    <2>3. w \notin In'
      BY <2>1 DEF In, InPlaces
    <2> QED
      BY <1>1, <2>1, <2>2, <2>3, Zenon
  <1>10. ASSUME NEW w \in Worker, Passing(w) PROVE InsideHeld'
    <2>0. w \in Thread /\ Moves(w)
      BY <1>10, PassingMoves, Zenon DEF Thread
    <2>1. CASE RunPlain(w) \/ updatePaths(w)
      <3>1. UNCHANGED <<coro, mutex_>>
        BY <2>1, Zenon DEF RunPlain, updatePaths, coros
      <3>2. \E place \in {"post", "done"} : Goes(w, place)
        BY <2>1, Zenon DEF RunPlain, updatePaths
      <3>3. at'[w] \in {"post", "done"}
        BY <2>0, <3>2, Zenon DEF Goes, Types, AtTypes
      <3>4. w \notin In'
        BY <3>3 DEF In, InPlaces
      <3> QED
        BY <1>1, <2>0, <3>1, <3>4, Zenon
    <2>2. CASE resume(w)
      <3>1. UNCHANGED <<coro, mutex_, job>> /\ at'[w] = "enter"
        BY <2>0, <2>2, GoesThere, Zenon DEF resume, coros
      <3> QED
        BY <1>2, <2>0, <3>1, Zenon
    <2>3. CASE insertPathRequest(w)
      <3>1. /\ UNCHANGED <<coro, mutex_, job>> /\ coro[job[w].co] = "created"
            /\ at[w] = "inside" /\ at'[w] = "ask"
        BY <2>0, <2>3, GoesThere, Zenon DEF insertPathRequest
      <3>2. w \in In
        BY <3>1 DEF In, InPlaces
      <3> QED
        BY <1>2, <2>0, <3>1, <3>2, Zenon
    <2>4. CASE Enter(w)
      <3>1. /\ coro' = coro /\ job' = job /\ at[w] = "enter" /\ at'[w] = "inside"
            /\ mutex_[job[w].co] = NoOne /\ mutex_' = [mutex_ EXCEPT ![job[w].co] = w]
        BY <2>0, <2>4, GoesThere, Zenon DEF Enter
      <3>2. w \in In
        BY <3>1 DEF In, InPlaces
      <3>3. ASSUME NEW v \in In, at[v] # "enter" PROVE mutex_'[job[v].co] = mutex_[job[v].co]
        <4>1. mutex_[job[v].co] = v /\ v # NoOne
          BY <1>0, <3>3, Zenon DEF InsideHeld
        <4>2. job[v].co # job[w].co
          BY <3>1, <4>1, Zenon
        <4> QED
          BY <1>0, <3>1, <4>2, Zenon
      <3>4. mutex_'[job'[w].co] = w
        BY <1>0, <3>1, <3>2, Zenon
      <3> QED
        BY <1>0, <2>0, <3>1, <3>3, <3>4, InsideMoved, Zenon
    <2>5. ASSUME NEW state, Leave(w, state), w \in In, at[w] # "enter", job' = job PROVE InsideHeld'
      <3>1. mutex_[job[w].co] = w
        BY <1>0, <2>5, Zenon DEF InsideHeld
      <3>2. /\ coro' = [coro EXCEPT ![job[w].co] = state]
            /\ mutex_' = [mutex_ EXCEPT ![job[w].co] = NoOne]
        BY <2>5, Zenon DEF Leave
      <3>3. ASSUME NEW v \in In, v # w, at[v] # "enter"
            PROVE  /\ mutex_'[job[v].co] = mutex_[job[v].co]
                   /\ coro'[job[v].co] = coro[job[v].co]
        <4>1. job[v].co # job[w].co
          BY <1>0, <3>1, <3>3, Zenon DEF InsideHeld
        <4> QED
          BY <1>0, <3>2, <4>1, Zenon
      <3>4. at'[w] \in {"done", "run"}
        BY <2>0, <2>5, GoesThere, Zenon DEF Leave
      <3>5. w \notin In'
        BY <3>4 DEF In, InPlaces
      <3> QED
        BY <1>0, <2>0, <3>3, <3>5, InsideMoved, Zenon
    <2>6. CASE Return(w) \/ yield(w)
      <3>1. w \in In /\ at[w] # "enter" /\ job' = job
        BY <2>6 DEF Return, yield, In, InPlaces
      <3> QED
        BY <2>5, <2>6, <3>1, Zenon DEF Return, yield
    <2>7. CASE Asked(w)
      <3>1. w \in In /\ at[w] = "asked" /\ job' = job
        BY <2>7 DEF Asked, In, InPlaces
      <3>2. ASSUME Goes(w, "yield"), UNCHANGED <<coro, mutex_>> PROVE InsideHeld'
        <4>1. at'[w] = "yield"
          BY <2>0, <3>1, <3>2, GoesThere, Zenon
        <4> QED
          BY <1>2, <2>0, <3>1, <3>2, <4>1, Zenon
      <3> QED
        BY <2>5, <2>7, <3>1, <3>2, Zenon DEF Asked, coros
    <2> QED
      BY <1>10, <2>1, <2>2, <2>3, <2>4, <2>6, <2>7, Zenon DEF Passing
  <1> QED
    BY <1>3, <1>4, <1>5, <1>6, <1>7, <1>8, <1>9, <1>10, Actions, Zenon
\* A client that posts a coroutine has just created it, or was posting it.
LEMMA ClientJob ==
    ASSUME Types, Kinds, Next, NEW c \in Client, Posting(c)'
    PROVE  \/ /\ Posting(c) /\ job'[c] = job[c]
              /\ ~expectEarlyExit(c) /\ ~addRefCountedJob(c)
           \/ \E co \in Coro : postCoro(c, co) /\ job'[c].co = co
  <1>0. c \in Thread /\ c \notin Worker /\ job \in [Thread -> Jobs]
    BY JobAssumption DEF Thread, Types, JobTypes
  <1>1. ~expectEarlyExit(c) /\ ~addRefCountedJob(c)
    <2>1. ASSUME expectEarlyExit(c) PROVE FALSE
      BY <2>1, ClientMoves, Zenon DEF Posting
    <2>2. ASSUME addRefCountedJob(c) PROVE FALSE
      <3>1. at'[c] = "idle"
        BY <1>0, <2>2, AddingMoves, Zenon DEF AfterAdding
      <3> QED
        BY <3>1, Zenon DEF Posting
    <2> QED
      BY <2>1, <2>2, Zenon
  <1>2. ASSUME NEW t \in Thread, t # c, Moves(t) PROVE Posting(c) /\ job'[c] = job[c]
    BY <1>0, <1>2, Zenon DEF Moves, Posting
  <1>3. CASE stop \/ StopStep
    BY <1>1, <1>3, StopMoves, Zenon DEF Posting
  <1>4. ASSUME NEW d \in Client, NEW type \in Type, addJob(d, type)
        PROVE  Posting(c) /\ job'[c] = job[c]
    <2>1. CASE d = c
      <3>1. job'[c] = Job(type, "plain", NoCoro)
        BY <1>0, <1>4, <2>1, Zenon DEF addJob
      <3>2. job'[c].kind # "coro"
        BY <3>1 DEF Job
      <3> QED
        BY <3>2, Zenon DEF Posting
    <2> QED
      BY <1>2, <1>4, <2>1, ClientMoves, Zenon
  <1>5. ASSUME NEW d \in Client, NEW co \in Coro, postCoro(d, co)
        PROVE  (Posting(c) /\ job'[c] = job[c]) \/ (d = c /\ job'[c].co = co)
    <2>1. CASE d = c
      <3>1. job'[c] = Job(CoroType, "coro", co)
        BY <1>0, <1>5, <2>1, Zenon DEF postCoro
      <3> QED
        BY <2>1, <3>1 DEF Job
    <2> QED
      BY <1>2, <1>5, <2>1, ClientMoves, Zenon
  <1>6. ASSUME NEW d \in Client, expectEarlyExit(d) PROVE Posting(c) /\ job'[c] = job[c]
    BY <1>1, <1>2, <1>6, ClientMoves, Zenon
  <1>7. ASSUME NEW t \in Thread, Wrapping(t) PROVE Posting(c) /\ job'[c] = job[c]
    <2>1. CASE t = c
      BY <1>0, <1>7, <2>1, WrappingMoves, Zenon DEF Posting, Kinds
    <2> QED
      BY <1>2, <1>7, <2>1, WrappingMoves, Zenon
  <1>8. ASSUME NEW t \in Thread, addRefCountedJob(t) PROVE Posting(c) /\ job'[c] = job[c]
    BY <1>1, <1>2, <1>8, AddingMoves, Zenon
  <1>9. ASSUME NEW w \in Worker, \/ Pausing(w) \/ getNextJob(w) \/ DestroyJob(w) \/ EndTask(w)
                                 \/ Passing(w)
        PROVE  Posting(c) /\ job'[c] = job[c]
    <2>1. Moves(w)
      BY <1>9, PausingMoves, TakingMoves, FinishingMoves, PassingMoves, Zenon
    <2> QED
      BY <1>0, <1>2, <2>1, Zenon DEF Thread
  <1> QED
    BY <1>1, <1>3, <1>4, <1>5, <1>6, <1>7, <1>8, <1>9, Actions, Zenon

\* Who may change a coroutine or its request.
LEMMA CoroOwner ==
    ASSUME Types, Kinds, Next, NEW co \in Coro
    PROVE  \/ coro'[co] = coro[co] /\ request'[co] = request[co]
           \/ coro[co] = "none" \/ request[co] = "waiting"
           \/ \E d \in Client : expectEarlyExit(d) /\ Posting(d) /\ job[d].co = co
           \/ \E w \in Worker : job[w].co = co
  <1>0. /\ coro \in [Coro -> {"none", "created", "yielded", "finished", "overrun"}]
        /\ request \in [Coro -> {"none", "waiting", "found"}]
    BY DEF Types, CoroTypes
  <1>1. CASE stop \/ StopStep
    BY <1>1, StopMoves, Zenon DEF coros
  <1>2. ASSUME NEW c \in Client, NEW type \in Type, addJob(c, type) PROVE UNCHANGED <<coro, request>>
    BY <1>2, Zenon DEF addJob, coros
  <1>3. ASSUME NEW c \in Client, NEW d \in Coro, postCoro(c, d)
        PROVE  (coro'[co] = coro[co] /\ request'[co] = request[co]) \/ coro[co] = "none"
    BY <1>0, <1>3, Zenon DEF postCoro
  <1>4. ASSUME NEW c \in Client, expectEarlyExit(c)
        PROVE  (coro'[co] = coro[co] /\ request'[co] = request[co]) \/ (Posting(c) /\ job[c].co = co)
    BY <1>0, <1>4, Zenon DEF expectEarlyExit, Posting, Kinds
  <1>5. ASSUME NEW t \in Thread, Wrapping(t) \/ addRefCountedJob(t) PROVE UNCHANGED <<coro, request>>
    BY <1>5, WrappingMoves, Zenon DEF addRefCountedJob, coros
  <1>6. ASSUME NEW w \in Worker, Pausing(w) \/ getNextJob(w) \/ DestroyJob(w) \/ EndTask(w)
        PROVE  UNCHANGED <<coro, request>>
    BY <1>6, PausingMoves, Zenon DEF getNextJob, DestroyJob, EndTask, coros
  <1>7. ASSUME NEW w \in Worker, Passing(w)
        PROVE  \/ coro'[co] = coro[co] /\ request'[co] = request[co]
               \/ request[co] = "waiting" \/ job[w].co = co
    <2>1. CASE RunPlain(w) \/ resume(w) \/ Enter(w)
      BY <2>1, Zenon DEF RunPlain, resume, Enter, coros
    <2>2. CASE insertPathRequest(w)
      BY <1>0, <2>2, Zenon DEF insertPathRequest
    <2>3. CASE updatePaths(w)
      BY <1>0, <2>3, Zenon DEF updatePaths
    <2>4. CASE Return(w) \/ yield(w)
      BY <1>0, <2>4, Zenon DEF Return, yield, Leave
    <2>5. CASE Asked(w)
      BY <1>0, <2>5, Zenon DEF Asked, Leave, coros
    <2> QED
      BY <1>7, <2>1, <2>2, <2>3, <2>4, <2>5, Zenon DEF Passing
  <1> QED
    BY <1>1, <1>2, <1>3, <1>4, <1>5, <1>6, <1>7, Actions, Zenon

LEMMA PrivateKept ==
    ASSUME Types, Kinds, Coroutines, PlainJobs, Private, Next
    PROVE  Private'
  <1> DEFINE Alone(c) ==
        /\ coro[job[c].co] = "created" /\ request[job[c].co] = "none"
        /\ \A j \in jobSet : j.co # job[c].co
        /\ \A w \in Worker : job[w].co # job[c].co
        /\ \A d \in Client \ {c} : Posting(d) => job[d].co # job[c].co
  <1>1. ASSUME NEW c \in Client, Posting(c) PROVE Alone(c) /\ job[c].co \in Coro /\ job[c].co # NoCoro
    <2>1. job[c].co \in Coro
      BY <1>1 DEF Posting, Kinds, HasCoro, Thread
    <2> QED
      BY <1>1, <2>1, JobAssumption, Zenon DEF Private
  <1>2. ASSUME NEW c \in Client, Posting(c), job'[c] = job[c], Posting(c)',
               ~expectEarlyExit(c), ~addRefCountedJob(c)
        PROVE  Alone(c)'
    <2> DEFINE co == job[c].co
    <2>1. co \in Coro /\ co # NoCoro /\ coro[co] = "created" /\ request[co] = "none"
          /\ (\A w \in Worker : job[w].co # co) /\ (\A j \in jobSet : j.co # co)
          /\ (\A d \in Client \ {c} : Posting(d) => job[d].co # co)
      BY <1>1, <1>2, Zenon
    <2>2. job'[c].co = co
      BY <1>2, Zenon
    <2> HIDE DEF co
    <2>3. coro'[co] = "created" /\ request'[co] = "none"
      BY <1>2, <2>1, CoroOwner, Zenon
    <2>4. ASSUME NEW j \in jobSet' PROVE j.co # co
      <3>1. ASSUME NEW t \in Thread, addRefCountedJob(t), at[t] = "adding", j.co = Added(t).co
            PROVE  j.co # co
        <4>1. t # c
          BY <1>2, <3>1, Zenon
        <4> QED
          BY <2>1, <3>1, <4>1, AddedCoro, Zenon
      <3> QED
        BY <2>1, <3>1, QueuedFrom, Zenon
    <2>5. ASSUME NEW w \in Worker PROVE job'[w].co # co
      BY <2>1, WorkerJob, NoJobHasNone, Zenon
    <2>6. ASSUME NEW d \in Client \ {c}, Posting(d)' PROVE job'[d].co # co
      <3>1. \A e \in Coro : postCoro(d, e) => e # co
        BY <2>1, Zenon DEF postCoro
      <3>2. \/ Posting(d) /\ job'[d] = job[d]
            \/ \E e \in Coro : postCoro(d, e) /\ job'[d].co = e
        BY <2>6, ClientJob, Zenon
      <3> QED
        BY <2>1, <2>6, <3>1, <3>2, Zenon
    <2> QED
      BY <2>2, <2>3, <2>4, <2>5, <2>6, Zenon
  <1>3. ASSUME NEW c \in Client, NEW co \in Coro, postCoro(c, co), job'[c].co = co PROVE Alone(c)'
    <2>1. coro[co] = "none" /\ coro' = [coro EXCEPT ![co] = "created"] /\ request' = request
          /\ jobSet' = jobSet
      BY <1>3, Zenon DEF postCoro, queue
    <2>2. c \in Thread /\ c \notin Worker /\ Moves(c)
      BY <1>3, ClientMoves, Zenon
    <2>3. coro'[co] = "created"
      BY <2>1, Zenon DEF Types, CoroTypes
    <2>4. request'[co] = "none"
      <3>1. InsideHeld
        BY DEF Coroutines
      <3>2. ~Begun(co)
        BY <2>1, <3>1, BegunStarted, Zenon
      <3> QED
        BY <2>1, <3>2, Zenon DEF Coroutines, RequestsBegun
    <2>5. ASSUME NEW j \in jobSet' PROVE j.co # co
      BY <2>1, Zenon DEF Coroutines, JobsStarted
    <2>6. ASSUME NEW w \in Worker PROVE job'[w].co # co
      <3>1. job'[w] = job[w]
        BY <2>2, Zenon DEF Moves, Thread
      <3> QED
        BY <2>1, <3>1, Zenon DEF Coroutines, JobsStarted
    <2>7. ASSUME NEW d \in Client \ {c}, Posting(d)' PROVE job'[d].co # co
      <3>1. job'[d] = job[d] /\ Posting(d)
        BY <2>2, <2>7, Zenon DEF Moves, Thread, Posting
      <3> QED
        BY <1>1, <2>1, <3>1, Zenon
    <2> QED
      BY <1>3, <2>3, <2>4, <2>5, <2>6, <2>7, Zenon
  <1>4. ASSUME NEW c \in Client, Posting(c)' PROVE Alone(c)'
    BY <1>2, <1>3, <1>4, ClientJob, Zenon
  <1> QED
    BY <1>4, Zenon DEF Private
-----------------------------------------------------------------------------
(* The stages of a stop.                                                     *)

\* Once join has returned nothing is queued, and every token of the semaphore
\* asks a worker to pause.
LEMMA Drained ==
    ASSUME LimitInv, Types, Finite, Counts, closureCount = 0
    PROVE  /\ Adding = {} /\ jobSet = {} /\ Live = {}
           /\ semaphore + Cardinality(Awake) = pauseCount
  <1>1. /\ IsFiniteSet(Adding) /\ IsFiniteSet(jobSet) /\ IsFiniteSet(Live)
        /\ Cardinality(Adding) \in Nat /\ Cardinality(jobSet) \in Nat /\ Cardinality(Live) \in Nat
    <2>1. Live \in SUBSET Worker
      BY DEF Live
    <2> QED
      BY <2>1, WorkersCounted, FS_CardinalityType, Zenon DEF Finite
  <1>2. 0 = Cardinality(Adding) + Cardinality(jobSet) + Cardinality(Live)
    BY DEF Counts, ClosureCount
  <1>3. Cardinality(Adding) = 0 /\ Cardinality(jobSet) = 0 /\ Cardinality(Live) = 0
    BY <1>1, <1>2
  <1>4. Adding = {} /\ jobSet = {} /\ Live = {}
    BY <1>1, <1>3, FS_EmptySet, Zenon
  <1>5. \A type \in Type : 1 .. Spare[type] = {}
    <2> SUFFICES ASSUME NEW type \in Type PROVE 1 .. Spare[type] = {}
      OBVIOUS
    <2>1. OfType(type) = {}
      BY <1>4 DEF OfType
    <2>2. waiting[type] = 0
      BY <2>1, FS_EmptySet, Zenon DEF Counts, QueueCount
    <2>3. Spare[type] = waiting[type] - deferred[type] /\ deferred[type] \in Nat
      BY DEF Spare, LimitInv, Counters
    <2> QED
      BY <2>2, <2>3
  <1>6. LetThrough = {}
    <2>1. ASSUME NEW y \in LetThrough PROVE FALSE
      <3>1. PICK type \in Type : y \in {type} \X (1 .. Spare[type])
        BY <2>1, Zenon DEF LetThrough, Tokens
      <3>2. y \in {type} \X {}
        BY <1>5, <3>1, Zenon
      <3> QED
        BY <3>2
    <2> QED
      BY <2>1
  <1>7. Cardinality(LetThrough) = 0
    BY <1>6, FS_EmptySet, Zenon
  <1>8. semaphore + Cardinality(Awake) = Cardinality(LetThrough) + pauseCount
    BY DEF Counts, TokenCount
  <1>9. pauseCount \in Nat
    BY DEF Types, NumberTypes
  <1> QED
    BY <1>4, <1>7, <1>8, <1>9

\* Without a worker on a job nobody is inside a coroutine.
LEMMA NobodyWorks ==
    ASSUME WorkCount, processCount = 0
    PROVE  Working = {} /\ In = {} /\ Live = {}
  <1>1. Working \in SUBSET Worker
    BY DEF Working
  <1>2. Working = {}
    BY <1>1, WorkersCounted, Zenon DEF WorkCount
  <1>3. In \subseteq Working /\ Live \subseteq Working
    BY DEF In, Live, Working, InPlaces, LivePlaces
  <1> QED
    BY <1>2, <1>3

\* What the threads leave to the stop.
LEMMA ThreadLeaves ==
    ASSUME Types, Next
    PROVE  \/ stop \/ StopStep
           \/ /\ UNCHANGED <<stopper, stopEntered, childrenStopped, waitForClosures>>
              /\ isStopping' = isStopping \/ \E w \in Worker : EndTask(w)
              /\ pauseCount' = pauseCount \/ (pauseCount > 0 /\ pauseCount' = pauseCount - 1)
  <1> DEFINE Left == /\ UNCHANGED <<stopper, stopEntered, childrenStopped, waitForClosures>>
                     /\ isStopping' = isStopping \/ \E w \in Worker : EndTask(w)
                     /\ pauseCount' = pauseCount \/ (pauseCount > 0 /\ pauseCount' = pauseCount - 1)
  <1>1. ASSUME NEW c \in Client, (\E type \in Type : addJob(c, type))
                                 \/ (\E co \in Coro : postCoro(c, co)) \/ expectEarlyExit(c)
        PROVE  Left
    BY <1>1, Zenon DEF addJob, postCoro, expectEarlyExit, stopping, closures, workers
  <1>2. ASSUME NEW t \in Thread, Wrapping(t) PROVE Left
    BY <1>2, WrappingMoves, Zenon DEF stopping, workers
  <1>3. ASSUME NEW t \in Thread, addRefCountedJob(t) PROVE Left
    BY <1>3, Zenon DEF addRefCountedJob, stopping, closures
  <1>4. ASSUME NEW w \in Worker, Pausing(w) PROVE Left
    <2>1. UNCHANGED <<stopping, closures>>
      BY <1>4, PausingMoves, Zenon
    <2>2. pauseCount' = pauseCount \/ (pauseCount > 0 /\ pauseCount' = pauseCount - 1)
      BY <1>4, Zenon DEF Pausing, Wake, TryPause, Deactivate, SetAllPaused, Exit, workers
    <2> QED
      BY <2>1, <2>2, Zenon DEF stopping, closures
  <1>5. ASSUME NEW w \in Worker, getNextJob(w) \/ DestroyJob(w) PROVE Left
    BY <1>5, Zenon DEF getNextJob, DestroyJob, stopping, closures, workers
  <1>6. ASSUME NEW w \in Worker, EndTask(w) PROVE Left
    BY <1>6, Zenon DEF EndTask, closures
  <1>7. ASSUME NEW w \in Worker, Passing(w) PROVE Left
    BY <1>7, PassingMoves, Zenon DEF stopping, closures, workers
  <1> QED
    BY <1>1, <1>2, <1>3, <1>4, <1>5, <1>6, <1>7, Actions, Zenon
\* No closure is made after join.
LEMMA NoNewClosures ==
    ASSUME LimitInv, Types, Finite, Counts, JoinStages, Joined, Next
    PROVE  closureCount' = 0
  <1>0. waitForClosures /\ closureCount = 0
    BY DEF JoinStages
  <1>1. Live = {}
    BY <1>0, Drained, Zenon
  <1>2. CASE stop \/ StopStep
    BY <1>0, <1>2, StopMoves, Zenon
  <1>3. ASSUME NEW c \in Client, (\E type \in Type : addJob(c, type))
                                 \/ (\E co \in Coro : postCoro(c, co)) \/ expectEarlyExit(c)
        PROVE  closureCount' = 0
    BY <1>0, <1>3, Zenon DEF addJob, wrap, postCoro, expectEarlyExit, closures
  <1>4. ASSUME NEW t \in Thread, Wrapping(t) PROVE closureCount' = 0
    BY <1>0, <1>4, WrappingMoves, Zenon
  <1>5. ASSUME NEW t \in Thread, addRefCountedJob(t) PROVE closureCount' = 0
    BY <1>0, <1>5, Zenon DEF addRefCountedJob, closures
  <1>6. ASSUME NEW w \in Worker, Pausing(w) \/ Passing(w) PROVE closureCount' = 0
    BY <1>0, <1>6, PausingMoves, PassingMoves, Zenon DEF closures
  <1>7. ASSUME NEW w \in Worker, getNextJob(w) \/ EndTask(w) PROVE closureCount' = 0
    BY <1>0, <1>7, Zenon DEF getNextJob, EndTask, closures
  <1>8. ASSUME NEW w \in Worker, DestroyJob(w) PROVE FALSE
    <2>1. w \in Live
      BY <1>8 DEF DestroyJob, Live, LivePlaces
    <2> QED
      BY <1>1, <2>1
  <1> QED
    BY <1>2, <1>3, <1>4, <1>5, <1>6, <1>7, <1>8, Actions, Zenon

\* A client that has stopped stays idle.
LEMMA ClientsStayIdle ==
    ASSUME Types, childrenStopped, \A c \in Client : at[c] = "idle", Next, NEW c \in Client
    PROVE  at'[c] = "idle"
  <1>0. c \in Thread /\ c \notin Worker /\ at[c] = "idle"
    BY JobAssumption DEF Thread
  <1>1. ASSUME NEW t \in Thread, t # c, Moves(t) PROVE at'[c] = "idle"
    BY <1>0, <1>1, Zenon DEF Moves
  <1>2. CASE stop \/ StopStep
    BY <1>0, <1>2, StopMoves, Zenon
  <1>3. ASSUME NEW d \in Client, (\E type \in Type : addJob(d, type))
                                 \/ (\E co \in Coro : postCoro(d, co)) \/ expectEarlyExit(d)
        PROVE  FALSE
    BY <1>3, Zenon DEF addJob, postCoro, expectEarlyExit
  <1>4. ASSUME NEW t \in Thread, Wrapping(t) PROVE at'[c] = "idle"
    BY <1>0, <1>1, <1>4, WrappingMoves, Zenon
  <1>5. ASSUME NEW t \in Thread, addRefCountedJob(t) PROVE at'[c] = "idle"
    BY <1>0, <1>1, <1>5, AddingMoves, Zenon
  <1>6. ASSUME NEW w \in Worker, \/ Pausing(w) \/ getNextJob(w) \/ DestroyJob(w) \/ EndTask(w)
                                 \/ Passing(w)
        PROVE  at'[c] = "idle"
    <2>1. Moves(w)
      BY <1>6, PausingMoves, TakingMoves, FinishingMoves, PassingMoves, Zenon
    <2> QED
      BY <1>0, <1>1, <2>1, Zenon DEF Thread
  <1> QED
    BY <1>2, <1>3, <1>4, <1>5, <1>6, Actions, Zenon

LEMMA JoinStagesKept ==
    ASSUME LimitInv, Types, Finite, Counts, JoinStages, Next
    PROVE  JoinStages'
  <1>1. CASE stop
    BY <1>1 DEF stop, closures, JoinStages, Joined
  <1>2. CASE join
    BY <1>2 DEF join, JoinStages, Joined
  <1>3. CASE ChildrenStop
    BY <1>3 DEF ChildrenStop, closures, JoinStages, Joined
  <1>4. CASE onChildrenStopped
    BY <1>4 DEF onChildrenStopped, closures, JoinStages, Joined
  <1>5. CASE QueueStopped
    BY <1>5 DEF QueueStopped, closures, JoinStages, Joined
  <1>6. CASE pauseAllThreads
    BY <1>6 DEF pauseAllThreads, closures, JoinStages, Joined
  <1>7. CASE AllPaused
    BY <1>7 DEF AllPaused, closures, JoinStages, Joined
  <1>8. CASE UNCHANGED <<stopper, stopEntered, childrenStopped, waitForClosures>>
    <2>1. (stopper = "joining" => waitForClosures) /\ (Joined => waitForClosures)
      BY DEF JoinStages
    <2>2. Joined => closureCount' = 0
      BY NoNewClosures
    <2>3. ASSUME childrenStopped PROVE Joined /\ \A c \in Client : at'[c] = "idle"
      BY <2>3, ClientsStayIdle DEF JoinStages
    <2>4. Joined' <=> Joined
      BY <1>8, Zenon DEF Joined
    <2> QED
      BY <1>8, <2>1, <2>2, <2>3, <2>4 DEF JoinStages
  <1> QED
    BY <1>1, <1>2, <1>3, <1>4, <1>5, <1>6, <1>7, <1>8, ThreadLeaves, Zenon DEF StopStep

LEMMA PauseStagesKept ==
    ASSUME LimitInv, Types, Finite, Counts, JoinStages, PauseStages, Next
    PROVE  PauseStages'
  <1>0. /\ semaphore \in Nat /\ pauseCount \in Nat /\ Cardinality(Awake) \in Nat
        /\ (Cardinality(Awake) = 0 <=> Awake = {})
    <2>1. Awake \in SUBSET Worker
      BY DEF Awake
    <2> QED
      BY <2>1, WorkersCounted, Zenon DEF Types, NumberTypes
  <1>1. Joined => semaphore + Cardinality(Awake) = pauseCount
    BY Drained, Zenon DEF JoinStages
  <1>2. CASE stop \/ join \/ ChildrenStop \/ onChildrenStopped \/ QueueStopped
    BY <1>2 DEF stop, join, ChildrenStop, onChildrenStopped, QueueStopped, workers, PauseStages
  <1>3. CASE pauseAllThreads
    <2>1. stopper = "stopped" /\ stopper' = "pausing" /\ at' = at
      BY <1>3, Zenon DEF pauseAllThreads
    <2>2. pauseCount = 0
      BY <1>0, <2>1 DEF PauseStages
    <2>3. Joined
      BY <2>1 DEF Joined
    <2>4. Cardinality(Awake) = 0
      BY <1>0, <1>1, <2>2, <2>3
    <2>5. \A w \in Worker : at[w] # "task"
      BY <1>0, <2>4 DEF Awake
    <2> QED
      BY <2>1, <2>5 DEF PauseStages
  <1>4. CASE AllPaused
    BY <1>4 DEF AllPaused, workers, PauseStages
  <1>5. CASE /\ stopper' = stopper
             /\ pauseCount' = pauseCount \/ (pauseCount > 0 /\ pauseCount' = pauseCount - 1)
             /\ ~(stop \/ StopStep)
    <2>1. pauseCount' > 0 => stopper' \in {"pausing", "deleting"}
      BY <1>0, <1>5 DEF PauseStages
    <2>2. ASSUME stopper \in {"pausing", "deleting"}, NEW v \in Worker, at'[v] = "task" PROVE FALSE
      <3>1. Joined /\ (\A w \in Worker : at[w] # "task") /\ v \in Thread /\ v \notin Client
        BY <2>2, JobAssumption DEF Joined, PauseStages, Thread
      <3>2. semaphore + Cardinality(Awake) = pauseCount
        BY <1>1, <3>1, Zenon
      <3>3. ASSUME NEW t \in Thread, t # v, Moves(t) PROVE FALSE
        BY <2>2, <3>1, <3>3, Zenon DEF Moves
      <3>4. ASSUME NEW c \in Client, (\E type \in Type : addJob(c, type))
                                     \/ (\E co \in Coro : postCoro(c, co)) \/ expectEarlyExit(c)
            PROVE  FALSE
        BY <3>1, <3>3, <3>4, ClientMoves, Zenon
      <3>5. ASSUME NEW t \in Thread, Wrapping(t) PROVE FALSE
        BY <2>2, <3>3, <3>5, WrappingMoves, Zenon
      <3>6. ASSUME NEW t \in Thread, addRefCountedJob(t) PROVE FALSE
        <4>1. AfterAdding(t) # "task"
          BY JobAssumption DEF AfterAdding, Thread
        <4> QED
          BY <2>2, <3>3, <3>6, <4>1, AddingMoves, Zenon
      <3>7. ASSUME NEW w \in Worker, getNextJob(w) \/ DestroyJob(w) \/ EndTask(w) PROVE FALSE
        BY <2>2, <3>3, <3>7, TakingMoves, FinishingMoves, Zenon DEF Thread
      <3>8. ASSUME NEW w \in Worker, Passing(w) PROVE FALSE
        <4>1. at'[w] # "task" /\ Moves(w) /\ w \in Thread
          BY <3>8, PassingMoves DEF LivePlaces, Thread
        <4> QED
          BY <2>2, <3>3, <4>1, Zenon
      <3>9. ASSUME NEW w \in Worker, Pausing(w) PROVE FALSE
        <4>1. w = v
          BY <3>3, <3>9, PausingMoves, Zenon DEF Thread
        <4>2. CASE Wake(v)
          <5>1. semaphore > 0 /\ at'[v] = IF pauseCount > 0 THEN "pause" ELSE "task"
            BY <3>1, <4>2, GoesThere, Zenon DEF Wake
          <5>2. pauseCount > 0
            BY <1>0, <3>2, <5>1
          <5> QED
            BY <2>2, <5>1, <5>2, Zenon
        <4>3. CASE TryPause(v)
          <5>1. at[v] = "pause" /\ (pauseCount > 0 => at'[v] = "paused")
            BY <3>1, <4>3, GoesThere, Zenon DEF TryPause
          <5>2. Awake # {}
            BY <5>1 DEF Awake
          <5>3. pauseCount > 0
            BY <1>0, <3>2, <5>2
          <5> QED
            BY <2>2, <5>1, <5>3, Zenon
        <4>4. CASE Deactivate(v) \/ SetAllPaused(v) \/ Exit(v)
          <5>1. job' = job /\ \E place \in {"last", "asleep", "exited"} : Goes(v, place)
            BY <4>4, Zenon DEF Deactivate, SetAllPaused, Exit
          <5>2. at'[v] # "task"
            BY <3>1, <5>1, GoesThere, Zenon
          <5> QED
            BY <2>2, <5>2, Zenon
        <4> QED
          BY <3>9, <4>1, <4>2, <4>3, <4>4, Zenon DEF Pausing
      <3> QED
        BY <1>5, <3>4, <3>5, <3>6, <3>7, <3>8, <3>9, Actions, Zenon
    <2> QED
      BY <1>5, <2>1, <2>2, Zenon DEF PauseStages
  <1> QED
    BY <1>2, <1>3, <1>4, <1>5, ThreadLeaves, Zenon DEF StopStep
\* checkStopped sees all that is left; and nothing starts afterwards.
LEMMA StopStagesKept ==
    ASSUME IInv, Next, Types', Finite', WorkCount', CoroCount'
    PROVE  StopStages'
  <1>0. /\ LimitInv /\ Types /\ Kinds /\ Finite /\ Counts /\ JoinStages /\ StopStages
        /\ WorkCount
    BY DEF IInv, Stages, Counts
  <1>1. childrenStopped => childrenStopped'
    <2>1. CASE stop \/ StopStep
      BY <2>1, StopMoves, Zenon DEF ChildrenStop
    <2> QED
      BY <1>0, <2>1, ThreadLeaves, Zenon
  <1>2. ASSUME isStopping PROVE processCount' = 0 /\ coro' = coro
    <2>1. childrenStopped /\ processCount = 0 /\ (\A c \in Client : at[c] = "idle") /\ closureCount = 0
      BY <1>0, <1>2 DEF StopStages, JoinStages
    <2>2. jobSet = {} /\ Live = {} /\ Working = {}
      BY <1>0, <2>1, Drained, NobodyWorks, Zenon
    <2>3. CASE stop \/ StopStep
      BY <2>1, <2>3, StopMoves, Zenon DEF coros
    <2>4. ASSUME NEW d \in Client, (\E type \in Type : addJob(d, type))
                                   \/ (\E co \in Coro : postCoro(d, co)) \/ expectEarlyExit(d)
          PROVE  FALSE
      BY <2>1, <2>4, Zenon DEF addJob, postCoro, expectEarlyExit
    <2>5. ASSUME NEW t \in Thread, Wrapping(t) \/ addRefCountedJob(t)
          PROVE  processCount' = processCount /\ coro' = coro
      BY <1>0, <2>5, WrappingMoves, Zenon DEF addRefCountedJob, coros
    <2>6. ASSUME NEW w \in Worker, Pausing(w) PROVE processCount' = processCount /\ coro' = coro
      BY <1>0, <2>6, PausingMoves, Zenon DEF coros
    <2>7. ASSUME NEW w \in Worker, getNextJob(w) PROVE FALSE
      <3>1. job'[w] \in jobSet
        BY <1>0, <2>7, TakingMoves, Zenon DEF Runnable
      <3> QED
        BY <2>2, <3>1
    <2>8. ASSUME NEW w \in Worker, DestroyJob(w) \/ EndTask(w) PROVE FALSE
      <3>1. at[w] \in {"done", "finish"}
        BY <2>8, Zenon DEF DestroyJob, EndTask
      <3>2. w \in Working
        BY <3>1 DEF Working, LivePlaces
      <3> QED
        BY <2>2, <3>2
    <2>9. ASSUME NEW w \in Worker, Passing(w) PROVE FALSE
      <3>1. w \in Live
        BY <1>0, <2>9, PassingMoves, Zenon DEF Live
      <3> QED
        BY <2>2, <3>1
    <2> QED
      BY <2>1, <2>3, <2>4, <2>5, <2>6, <2>7, <2>8, <2>9, Actions, Zenon
  <1>3. CASE isStopping
    <2>1. childrenStopped' /\ (Overrun' <=> Overrun)
      BY <1>0, <1>1, <1>2, <1>3 DEF StopStages, Overrun
    <2>2. ~Overrun' => \A co \in Coro : coro'[co] \in {"none", "finished"}
      BY <1>0, <1>2, <1>3, <2>1 DEF StopStages
    <2> QED
      BY <1>2, <1>3, <2>1, <2>2 DEF StopStages
  <1>4. ASSUME childrenStopped, processCount' = 0, nSuspend' = 0 PROVE StopStages'
    <2>1. Working' \in SUBSET Worker /\ Cardinality(Working') = 0
      BY <1>4 DEF Working, WorkCount
    <2>2. Working' = {}
      BY <2>1, WorkersCounted, Zenon
    <2>3. In' = {}
      <3>1. In' \subseteq Working'
        BY DEF In, Working, InPlaces, LivePlaces
      <3> QED
        BY <2>2, <3>1
    <2>4. ASSUME ~Overrun', NEW co \in Coro PROVE coro'[co] \in {"none", "finished"}
      <3>1. IsFiniteSet(Started') /\ Cardinality(Started') \in Nat
        BY FS_CardinalityType DEF Finite
      <3>2. Cardinality(In') = 0
        BY <2>3, FS_EmptySet, Zenon
      <3>3. 0 = Cardinality(Started') - Cardinality(In')
        BY <1>4, <2>4 DEF CoroCount
      <3>4. Cardinality(Started') = 0
        BY <3>1, <3>2, <3>3
      <3>5. Started' = {}
        BY <3>1, <3>4, FS_EmptySet, Zenon
      <3>6. coro'[co] \in {"none", "created", "yielded", "finished", "overrun"}
        BY DEF Types, CoroTypes
      <3>7. coro'[co] # "overrun" /\ coro'[co] \notin {"created", "yielded"}
        BY <2>4, <3>5, Zenon DEF Overrun, Started
      <3> QED
        BY <3>6, <3>7, Zenon
    <2> QED
      BY <1>1, <1>4, <2>4, Zenon DEF StopStages
  <1>5. CASE ~isStopping
    <2>1. CASE onChildrenStopped
      <3>1. (isStopping' <=> Stopped(processCount, jobSet))
            /\ UNCHANGED <<processCount, nSuspend>>
        BY <1>5, <2>1, Zenon DEF onChildrenStopped
      <3> QED
        BY <1>4, <3>1 DEF Stopped, StopStages
    <2>2. ASSUME NEW w \in Worker, EndTask(w) PROVE StopStages'
      <3>1. (isStopping' <=> Stopped(processCount - 1, jobSet))
            /\ processCount' = processCount - 1 /\ nSuspend' = nSuspend
        BY <1>5, <2>2, Zenon DEF EndTask
      <3> QED
        BY <1>4, <3>1 DEF Stopped, StopStages
    <2>3. CASE isStopping' = isStopping
      BY <1>5, <2>3 DEF StopStages
    <2> QED
      BY <1>0, <2>1, <2>2, <2>3, ThreadLeaves, StopMoves, Zenon
  <1> QED
    BY <1>3, <1>5

-----------------------------------------------------------------------------
(* The invariant, and what it gives.                                         *)

LEMMA Kept == ASSUME IInv, Next PROVE IInv'
  <1>0. /\ LimitInv /\ Types /\ Kinds /\ Finite /\ Counts /\ Coroutines /\ PlainJobs
        /\ Private /\ Stages
    BY DEF IInv
  <1>1. LimitInv'
    BY <1>0, LimitInvKept
  <1>2. Types' /\ Kinds' /\ PlainJobs'
    BY <1>0, TypesKept, KindsKept, PlainJobsKept, Zenon
  <1>3. QueueCount' /\ IsFiniteSet(jobSet')
    BY <1>0, QueueCountKept, Zenon DEF Counts
  <1>4. TokenCount' /\ IsFiniteSet(LetThrough')
    BY <1>0, <1>1, TokenCountKept, Zenon DEF Counts
  <1>5. ClosureCount' /\ IsFiniteSet(Adding')
    BY <1>0, ClosureCountKept, Zenon DEF Counts
  <1>6. WorkCount'
    BY <1>0, WorkCountKept, Zenon DEF Counts
  <1>7. CoroCount' /\ IsFiniteSet(Started')
    BY <1>0, CoroCountKept, Zenon DEF Counts
  <1>8. Finite' /\ Counts'
    BY <1>3, <1>4, <1>5, <1>6, <1>7, Zenon DEF Finite, Counts
  <1>9. Coroutines' /\ Private'
    BY <1>0, JobsStartedKept, RequestsBegunKept, InsideHeldKept, PrivateKept, Zenon DEF Coroutines
  <1>10. JoinStages' /\ PauseStages'
    BY <1>0, JoinStagesKept, PauseStagesKept, Zenon DEF Stages
  <1>11. StopStages'
    BY <1>2, <1>6, <1>7, <1>8, StopStagesKept, Zenon
  <1> QED
    BY <1>1, <1>2, <1>8, <1>9, <1>10, <1>11 DEF IInv, Stages

LEMMA Invariance == Spec => []IInv
  <1>1. Init => IInv
    BY Starts
  <1>2. IInv /\ [Next]_vars => IInv'
    BY Kept, Unmoved
  <1> QED
    BY <1>1, <1>2, PTL DEF Spec

\* A worker woken out of the semaphore always finds a job that its type's
\* limit allows, whichever worker was woken for it and whoever added the job:
\* the assertions of getNextJob never fail.  The semaphore and the workers it
\* woke are as many as the jobs let through, unless the workers are being
\* paused, and then none goes for a job.
THEOREM NextJobIsFound == Spec => []NextJobFound
  <1>1. IInv => NextJobFound
    <2> SUFFICES ASSUME IInv, NEW w \in Worker, at[w] = "task" PROVE Runnable # {}
      BY DEF NextJobFound
    <2>0. /\ LimitInv /\ Types /\ Finite /\ QueueCount /\ TokenCount /\ PauseStages
          /\ IsFiniteSet(LetThrough) /\ IsFiniteSet(jobSet)
      BY DEF IInv, Counts, Stages, Finite
    <2>1. pauseCount = 0 /\ semaphore \in Nat
      BY <2>0 DEF PauseStages, Types, NumberTypes
    <2>2. Awake \in SUBSET Worker /\ w \in Awake
      BY DEF Awake
    <2>3. Cardinality(Awake) \in Nat /\ Cardinality(Awake) # 0
      BY <2>2, WorkersCounted, Zenon
    <2>4. Cardinality(LetThrough) # 0
      BY <2>0, <2>1, <2>3 DEF TokenCount
    <2>5. LetThrough # {}
      BY <2>4, FS_EmptySet, Zenon
    <2>6. PICK token : token \in LetThrough
      BY <2>5, Zenon
    <2>7. PICK type \in Type : token \in {type} \X (1 .. Spare[type])
      BY <2>6, Zenon DEF LetThrough, Tokens
    <2>8. /\ waiting[type] \in Int /\ running[type] \in Int /\ deferred[type] \in Nat
          /\ Limit[type] \in Nat /\ waiting[type] + running[type] - deferred[type] <= Limit[type]
          /\ Spare[type] = waiting[type] - deferred[type]
      BY <2>0, JobAssumption DEF LimitInv, Counters, WithinLimits, Spare
    <2>9. Spare[type] >= 1
      <3>1. 1 .. Spare[type] # {}
        BY <2>7
      <3> QED
        BY <2>8, <3>1
    <2>10. waiting[type] > 0 /\ running[type] < Limit[type]
      BY <2>8, <2>9
    <2>11. OfType(type) # {}
      <3>1. Cardinality(OfType(type)) # 0
        BY <2>0, <2>10 DEF QueueCount
      <3> QED
        BY <3>1, FS_EmptySet, Zenon
    <2> QED
      BY <2>10, <2>11 DEF OfType, Runnable
  <1> QED
    BY <1>1, Invariance, PTL

\* Once checkStopped has reported the queue stopped, nothing is left that
\* would touch what the destructors take down, and nothing comes back: no job,
\* no worker on its way to one, no client adding one, no coroutine suspended.
\* The join of the closures leaves nothing to be added; processCount counts the
\* workers that still run, nSuspend the coroutines that nobody is inside.
THEOREM StoppedMeansQuiet == Spec => []StoppedIsQuiet
  <1>1. IInv => StoppedIsQuiet
    <2> SUFFICES ASSUME IInv, isStopping, ~Overrun
                 PROVE  /\ jobSet = {} /\ processCount = 0
                        /\ \A t \in Thread : at[t] \notin {"task", "run", "adding", "post",
                                                           "done", "finish"}
                        /\ \A co \in Coro : coro[co] \in {"none", "finished"}
      BY DEF StoppedIsQuiet
    <2>0. /\ LimitInv /\ Types /\ Finite /\ Counts /\ WorkCount
          /\ JoinStages /\ PauseStages /\ StopStages
      BY DEF IInv, Counts, Stages
    <2>1. /\ childrenStopped /\ processCount = 0 /\ closureCount = 0
          /\ \A co \in Coro : coro[co] \in {"none", "finished"}
          /\ \A c \in Client : at[c] = "idle"
      BY <2>0 DEF StopStages, JoinStages
    <2>2. jobSet = {} /\ semaphore + Cardinality(Awake) = pauseCount
      BY <2>0, <2>1, Drained, Zenon
    <2>3. Working = {}
      BY <2>0, <2>1, NobodyWorks, Zenon
    <2>4. ASSUME NEW w \in Worker PROVE at[w] \notin {"run", "adding", "post", "done", "finish"}
      BY <2>3 DEF Working, LivePlaces
    <2>5. ASSUME NEW w \in Worker, at[w] = "task" PROVE FALSE
      <3>1. semaphore \in Nat /\ pauseCount \in Nat
        BY <2>0 DEF Types, NumberTypes
      <3>2. Awake \in SUBSET Worker /\ w \in Awake
        BY <2>5 DEF Awake
      <3>3. Cardinality(Awake) \in Nat /\ Cardinality(Awake) # 0
        BY <3>2, WorkersCounted, Zenon
      <3>4. pauseCount > 0
        BY <2>2, <3>1, <3>3
      <3> QED
        BY <2>0, <2>5, <3>4 DEF PauseStages
    <2>6. ASSUME NEW t \in Thread
          PROVE  at[t] \notin {"task", "run", "adding", "post", "done", "finish"}
      <3>1. CASE t \in Worker
        BY <2>4, <2>5, <3>1
      <3>2. CASE t \in Client
        BY <2>1, <3>2
      <3> QED
        BY <3>1, <3>2 DEF Thread
    <2> QED
      BY <2>1, <2>2, <2>6, Zenon
  <1> QED
    BY <1>1, Invariance, PTL
=============================================================================
