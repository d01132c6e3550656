--------------------- MODULE ExecutionScheduler_proofs ---------------------
(***************************************************************************)
(* Theorems about ExecutionScheduler, for any number of threads, workers   *)
(* and jobs.                                                               *)
(***************************************************************************)
EXTENDS ExecutionScheduler, WorkerPool_proofs

PcStates == {"idle", "next", "taken", "running", "returned"}
Outermost(t) == pc[t] = "running" /\ saved[t] = "default"

\* The inductive invariant behind OutermostGuardHolds: a guard that ends gives back
\* what it found, so at most one of the guards that are alive may have found SIG_DFL.
GuardInv ==
    /\ pc \in [Drainers -> PcStates]
    /\ sigpipe \in {"default", "ignored"} /\ saved \in [Drainers -> {"default", "ignored"}]
    /\ \A t \in Drainers : Outermost(t) => sigpipe = "ignored"
    /\ \A t, u \in Drainers : Outermost(t) /\ Outermost(u) => t = u

----------------------------------------------------------------------------

\* Before any run() no guard is alive.
LEMMA InitGuard == Init => GuardInv
BY DEF Init, PoolInit, GuardInv, Outermost, PcStates

\* A step that leaves the guards alone and starts or ends no run() keeps GuardInv.
LEMMA OtherSteps ==
    ASSUME GuardInv, UNCHANGED runVars, pc' \in [Drainers -> PcStates],
           \A t \in Drainers : pc'[t] = "running" => pc[t] = "running"
    PROVE  GuardInv'
BY DEF GuardInv, Outermost, runVars

\* Submitting, cancelling and collecting touch no thread's pc.
LEMMA ClientSteps ==
    ASSUME GuardInv,
           \/ Submit
           \/ (CancelQueued \/ CollectCompleted) /\ UNCHANGED <<counter, runVars>>
    PROVE  GuardInv'
<1>1. UNCHANGED <<runVars, pc>>
  BY DEF Submit, NewJob, CancelQueued, CollectCompleted, drainVars
<1>2. QED
  BY <1>1, OtherSteps DEF GuardInv

\* The steps of drainAll() outside run().
LEMMA PoolSteps ==
    ASSUME GuardInv, NEW t \in Drainers,
           StartDrain(t) \/ PoolStep(t), UNCHANGED <<counter, runVars>>
    PROVE  GuardInv'
<1>1. \/ pc' = pc
      \/ \E p \in {"idle", "next", "taken"} : pc' = [pc EXCEPT ![t] = p]
  BY DEF StartDrain, PoolStep, TakeNext, NothingToRun, PublishResult, EndOfBatch
<1>2. UNCHANGED runVars
  OBVIOUS
<1>3. pc' \in [Drainers -> PcStates]
  BY <1>1 DEF GuardInv, PcStates
<1>4. \A u \in Drainers : pc'[u] = "running" => pc[u] = "running"
  BY <1>1 DEF GuardInv
<1>5. QED
  BY <1>2, <1>3, <1>4, OtherSteps

\* SigpipeGuard(): if it finds SIG_DFL, no other guard that is alive did.
LEMMA GuardBegins ==
    ASSUME GuardInv, NEW t \in Drainers, RunBegins(t)
    PROVE  GuardInv'
<1>1. /\ pc' = [pc EXCEPT ![t] = "running"] /\ saved' = [saved EXCEPT ![t] = sigpipe]
      /\ sigpipe' = "ignored"
  BY DEF RunBegins
<1>2. QED
  BY <1>1 DEF GuardInv, Outermost, PcStates

\* ~SigpipeGuard(): the guard that ends gives back SIG_DFL only if it was the one
\* guard that found it, and then no guard that is left did.
LEMMA GuardEnds ==
    ASSUME GuardInv, NEW t \in Drainers, RunReturns(t)
    PROVE  GuardInv'
<1>1. /\ pc[t] = "running" /\ pc' = [pc EXCEPT ![t] = "returned"]
      /\ saved' = [saved EXCEPT ![t] = "default"] /\ sigpipe' = saved[t]
  BY DEF RunReturns, RestoreSigpipe
<1>2. \A u \in Drainers : Outermost(u)' => u # t /\ Outermost(u)
  BY <1>1 DEF GuardInv, Outermost, PcStates
<1>3. \A u \in Drainers : Outermost(u)' => sigpipe' = "ignored"
  BY <1>1, <1>2 DEF GuardInv, Outermost
<1>4. QED
  BY <1>1, <1>2, <1>3 DEF GuardInv, PcStates

----------------------------------------------------------------------------

\* Every step keeps GuardInv: the runs that begin and end, and all the others.
LEMMA GuardInductive == GuardInv /\ [Next]_vars => GuardInv'
<1> SUFFICES ASSUME GuardInv, [Next]_vars PROVE GuardInv'
  OBVIOUS
<1>1. CASE \/ Submit
           \/ (CancelQueued \/ CollectCompleted) /\ UNCHANGED <<counter, runVars>>
  BY <1>1, ClientSteps
<1>2. CASE \E t \in Drainers : StartDrain(t) /\ UNCHANGED <<counter, runVars>>
  BY <1>2, PoolSteps
<1>3. CASE \E t \in Drainers : DrainStep(t)
  BY <1>3, PoolSteps, GuardBegins, GuardEnds DEF DrainStep
<1>4. CASE UNCHANGED vars
  BY <1>4 DEF vars, poolVars, GuardInv, Outermost
<1>5. QED
  BY <1>1, <1>2, <1>3, <1>4 DEF Next

\* Of any number of overlapping run()s, the SigpipeGuard that found SIG_DFL keeps
\* SIGPIPE ignored until its run() ends, in whatever order the others end.
THEOREM OutermostGuard == Spec => []OutermostGuardHolds
<1>1. GuardInv => OutermostGuardHolds
  BY DEF GuardInv, Outermost, OutermostGuardHolds
<1>2. QED
  BY InitGuard, GuardInductive, <1>1, PTL DEF Spec

----------------------------------------------------------------------------
\* The pool

\* The handles of executions are handles.
LEMMA ExecutionHandleSet == HandleSet(ExecutionHandles)
<1> SUFFICES ASSUME NEW h \in ExecutionHandles, NEW s \in {"Running", "Cancelled"}
             PROVE  /\ h.job \in Jobs /\ [h EXCEPT !.state = s] \in ExecutionHandles
                    /\ [h EXCEPT !.state = s].job = h.job
                    /\ [h EXCEPT !.state = s].state = s
  BY DEF HandleSet
<1>1. s \in ExecutionStates
  BY DEF ExecutionStates
<1> QED BY <1>1 DEF ExecutionHandles

\* An id has a bit at every position.
LEMMA IdTypes == \A nanos, c : GenerateExecutionId(nanos, c) \in [BitPositions -> {0, 1}]
<1>1. \A v, i : Bit(v, i) \in {0, 1}
  BY DEF Bit
<1>2. \A nanos, i : Shifted(nanos, ClockShift, i) \in {0, 1} /\ PidBit(i) \in {0, 1}
  BY <1>1 DEF Shifted, PidBit
<1>3. \A x, y, z \in {0, 1} : (x + y + z) % 2 \in {0, 1}
  OBVIOUS
<1>4. \A nanos, c : RawId(nanos, c) \in [BitPositions -> {0, 1}]
  BY <1>1, <1>2, <1>3 DEF RawId
<1>5. One \in [BitPositions -> {0, 1}]
  BY DEF One
<1> QED BY <1>4, <1>5 DEF GenerateExecutionId

\* The state a run() gives its handle: of ExecutionState, and never Cancelled.
LEMMA ResultStates ==
    \A o \in RunResults : o.state \in ExecutionStates /\ o.state # "Cancelled"
<1>1. \A o \in RunResults : o \in RunOutcomes
  BY SchedulerAssumption
<1>2. \A o \in RunOutcomes :
        o.state \in {"Finished", "Signaled", "TimedOut", "SandboxFailed", "RunnerFailed", "Created"}
  BY DEF RunOutcomes, Outcome
<1> QED BY <1>1, <1>2 DEF ExecutionStates

\* Every step of the scheduler is a step of a pool of executions.
LEMMA SchedulerPoolStep ==
    ASSUME PoolTypeOK(ExecutionHandles), Holding, counter \in Nat, [Next]_vars
    PROVE  PoolStepOf(ExecutionHandles)
<1>1. CASE Submit
  <2>1. PICK nanos \in ClockReadings :
          Enqueue([job |-> submitted + 1, id |-> GenerateExecutionId(nanos, counter),
                   ticket |-> counter, state |-> "Created"])
    BY <1>1 DEF Submit
  <2> DEFINE h == [job |-> submitted + 1, id |-> GenerateExecutionId(nanos, counter),
                   ticket |-> counter, state |-> "Created"]
  <2>2. submitted + 1 \in Jobs /\ NewJob
    BY <1>1, PoolAssumption DEF Submit, NewJob, Jobs, PoolTypeOK
  <2>3. "Created" \in ExecutionStates
    BY DEF ExecutionStates
  <2>4. h \in ExecutionHandles /\ h.job = submitted + 1
    BY <2>2, <2>3, IdTypes DEF ExecutionHandles
  <2> QED BY <2>1, <2>2, <2>4 DEF PoolStepOf, Admits
<1>2. CASE (CancelQueued \/ CollectCompleted) /\ UNCHANGED <<counter, runVars>>
  BY <1>2 DEF PoolStepOf
<1>3. ASSUME NEW t \in Drainers, StartDrain(t) \/ PoolStep(t) PROVE PoolStepOf(ExecutionHandles)
  BY <1>3 DEF PoolStep, PoolStepOf, Drains
<1>4. ASSUME NEW t \in Drainers, RunBegins(t) \/ RunReturns(t)
      PROVE  PoolStepOf(ExecutionHandles)
  <2>1. /\ pc[t] \in {"taken", "running"}
        /\ \E p \in {"running", "returned"} : pc' = [pc EXCEPT ![t] = p]
        /\ UNCHANGED <<queueVars, submitted, collected, worker, batch, upto>>
    BY <1>4 DEF RunBegins, RunReturns
  <2>2. held[t] \in ExecutionHandles /\ held[t].state # "Cancelled"
        /\ held \in [Drainers -> ExecutionHandles \cup {NoHandle}]
    BY <2>1 DEF Holding, PoolTypeOK
  <2>3. \E h \in ExecutionHandles : /\ h.job = held[t].job /\ h.state # "Cancelled"
                                    /\ held' = [held EXCEPT ![t] = h]
    <3>1. CASE RunBegins(t)
      <4>1. held' = [held EXCEPT ![t] = held[t]]
        BY <3>1, <2>2 DEF RunBegins
      <4> QED BY <2>2, <4>1
    <3>2. CASE RunReturns(t)
      <4>1. PICK o \in RunResults : held' = [held EXCEPT ![t].state = o.state]
        BY <3>2 DEF RunReturns
      <4> DEFINE h == [held[t] EXCEPT !.state = o.state]
      <4>2. h \in ExecutionHandles /\ h.job = held[t].job /\ h.state = o.state
        BY <2>2, ResultStates DEF ExecutionHandles
      <4>3. held' = [held EXCEPT ![t] = h]
        BY <4>1
      <4> QED BY <4>2, <4>3, ResultStates
    <3> QED BY <1>4, <3>1, <3>2
  <2>4. Works(t, ExecutionHandles)
    BY <2>1, <2>3 DEF Works
  <2> QED BY <2>4 DEF PoolStepOf, Drains
<1>5. CASE UNCHANGED vars
  BY <1>5 DEF vars, poolVars, PoolStepOf
<1> QED BY <1>1, <1>2, <1>3, <1>4, <1>5 DEF Next, DrainStep

\* PoolInv, for executions, whose handles hold values of the counter.
ExecutionPoolInv == PoolInv(ExecutionHandles) /\ counter \in Nat

\* It is an invariant of the scheduler.
LEMMA ExecutionPool == Spec => []ExecutionPoolInv
<1>1. Init => ExecutionPoolInv
  BY PoolInitially, ExecutionHandleSet DEF Init, ExecutionPoolInv
<1>2. ExecutionPoolInv /\ [Next]_vars => ExecutionPoolInv'
  <2> SUFFICES ASSUME ExecutionPoolInv, [Next]_vars PROVE ExecutionPoolInv'
    OBVIOUS
  <2>1. PoolStepOf(ExecutionHandles)
    BY SchedulerPoolStep DEF ExecutionPoolInv, PoolInv, PlaceInv
  <2>2. counter' \in {counter, counter + 1}
    BY DEF Next, Submit, DrainStep, RunBegins, RunReturns, vars
  <2>3. counter' \in Nat
    BY <2>2 DEF ExecutionPoolInv
  <2> QED BY <2>1, <2>3, PoolInductive, ExecutionHandleSet DEF ExecutionPoolInv
<1> QED BY <1>1, <1>2, PTL DEF Spec

\* The mapping to JobBoard, in every state of the scheduler.
LEMMA ExecutionBoard == ExecutionPoolInv => BoardFacts
BY BoardMap, ExecutionHandleSet DEF ExecutionPoolInv

\* Every execution that was admitted is started once, in order, or cancelled before it
\* starts, and handed out once, whatever threads call the scheduler: the deque, the
\* vector and the handles in processNext() implement JobBoard.
THEOREM SchedulerImplementsJobBoard == Spec => ImplementsJobBoard
<1>1. Init => Board!Init
  BY BoardInitially DEF Init
<1>2. ExecutionPoolInv /\ ExecutionPoolInv' /\ BoardFacts /\ BoardFacts' /\ [Next]_vars
        => [Board!Next]_BoardStatus
  <2> SUFFICES ASSUME ExecutionPoolInv, ExecutionPoolInv', BoardFacts, BoardFacts', [Next]_vars
               PROVE  [Board!Next]_BoardStatus
    OBVIOUS
  <2>1. PoolStepOf(ExecutionHandles)
    BY SchedulerPoolStep DEF ExecutionPoolInv, PoolInv, PlaceInv
  <2> QED BY <2>1, BoardStep, ExecutionHandleSet DEF ExecutionPoolInv
<1> QED BY <1>1, <1>2, ExecutionPool, ExecutionBoard, PTL
        DEF Spec, ImplementsJobBoard, Board!Spec

\* drainAll() leaves nothing in the queue that was submitted before it was called.
THEOREM SchedulerDrainAllDrains == Spec => DrainAllDrains
<1>1. ExecutionPoolInv /\ [Next]_vars
        => [\A t \in Drainers : pc[t] # "idle" /\ pc'[t] = "idle"
              => \A h \in ToSet(queue) : h.job > upto[t]]_poolVars
  <2> SUFFICES ASSUME ExecutionPoolInv, [Next]_vars, NEW t \in Drainers,
                      pc[t] # "idle", pc'[t] = "idle"
               PROVE  \A h \in ToSet(queue) : h.job > upto[t]
    OBVIOUS
  <2>1. PoolStepOf(ExecutionHandles)
    BY SchedulerPoolStep DEF ExecutionPoolInv, PoolInv, PlaceInv
  <2> QED BY <2>1, AllDrained, ExecutionHandleSet DEF ExecutionPoolInv
<1> QED BY <1>1, ExecutionPool, PTL DEF Spec, DrainAllDrains

----------------------------------------------------------------------------
\* The counter of generateExecutionId

\* Jobs that have been taken from the queue and are past the start of run(), or were
\* cancelled.
Started == {j \in 1 .. submitted :
              /\ \A i \in DOMAIN queue : queue[i].job # j
              /\ \A t \in Drainers : held[t].job = j => pc[t] # "taken"}

\* Every job has drawn one id when it was submitted, and one more if its run() has
\* begun; a job that was cancelled draws no second one.
CounterInv == counter \in Nat \ {0} /\ counter <= 1 + submitted + Cardinality(Started)

\* Handles in the queue or in processNext().
Live == (ToSet(queue) \cup {held[t] : t \in Drainers}) \ {NoHandle}

\* An id that generateExecutionId has returned before the counter was k, and the value of
\* the counter it took.
Drawn(k, id, c) == /\ c \in 1 .. k - 1
                   /\ \E nanos \in ClockReadings : id = GenerateExecutionId(nanos, c)

\* The ids of what is under way have been drawn, each with a value of the counter of its
\* own.
IdInv ==
    /\ \A h \in Live : Drawn(counter, h.id, h.ticket)
    /\ \A t \in Drainers : pc[t] = "running" => Drawn(counter, cgroupId[t], drawn[t])
    /\ \A g, h \in Live : g.job # h.job => g.ticket # h.ticket
    /\ \A t, u \in Drainers :
         t # u /\ pc[t] = "running" /\ pc[u] = "running" => drawn[t] # drawn[u]

RunTypes == /\ cgroupId \in [Drainers -> [BitPositions -> {0, 1}]] /\ drawn \in [Drainers -> Nat]
            /\ sigpipe \in {"default", "ignored"}
            /\ saved \in [Drainers -> {"default", "ignored"}]
SchedulerInv == ExecutionPoolInv /\ RunTypes /\ CounterInv /\ IdInv

\* What a set of job numbers has.
LEMMA NumbersBound ==
    ASSUME NEW n \in Nat, NEW S \in SUBSET (1 .. n)
    PROVE  IsFiniteSet(S) /\ Cardinality(S) \in Nat /\ Cardinality(S) <= n
<1>1. IsFiniteSet(1 .. n) /\ Cardinality(1 .. n) = n
  BY FS_Interval
<1>2. IsFiniteSet(S) /\ Cardinality(S) <= n
  BY <1>1, FS_Subset
<1> QED BY <1>2, FS_CardinalityType

\* A job that has started stays so.
LEMMA StartedGrows ==
    ASSUME NEW H, HandleSet(H), PoolInv(H), PoolStepOf(H)
    PROVE  Started \subseteq Started'
<1>1. /\ queue \in Seq(H) /\ held \in [Drainers -> H \cup {NoHandle}]
      /\ pc \in [Drainers -> PcStates]
  BY DEF PoolInv, PoolTypeOK, PcStates
<1>2. \A t \in Drainers : pc'[t] = "taken" =>
        \/ pc[t] = "taken" /\ held'[t] = held[t]
        \/ \E k \in DOMAIN queue : held'[t].job = queue[k].job
  <2>1. CASE \E u \in Drainers : TakeNext(u)
    <3>1. PICK u \in Drainers : TakeNext(u)
      BY <2>1
    <3>2. PICK g \in H : g.job = queue[1].job /\ held' = [held EXCEPT ![u] = g]
      BY <3>1, Taken DEF PoolInv
    <3>3. 1 \in DOMAIN queue /\ pc' = [pc EXCEPT ![u] = "taken"]
      BY <3>1, Taken DEF PoolInv, TakeNext
    <3> QED BY <1>1, <3>2, <3>3
  <2>2. CASE pc' = pc /\ held' = held
    BY <2>2
  <2>3. CASE \E u \in Drainers :
               /\ \E p \in {"idle", "next", "running", "returned"} : pc' = [pc EXCEPT ![u] = p]
               /\ held' = held \/ \E h : held' = [held EXCEPT ![u] = h]
    BY <1>1, <2>3
  <2>4. (\E u \in Drainers : TakeNext(u)) \/ (pc' = pc /\ held' = held)
        \/ \E u \in Drainers :
              /\ \E p \in {"idle", "next", "running", "returned"} : pc' = [pc EXCEPT ![u] = p]
              /\ held' = held \/ \E h : held' = [held EXCEPT ![u] = h]
    BY DEF PoolStepOf, Admits, NewJob, CancelQueued, CollectCompleted, Drains, StartDrain,
       NothingToRun, Works, PublishResult, EndOfBatch, poolVars, drainVars
  <2> QED BY <2>1, <2>2, <2>3, <2>4
<1> SUFFICES ASSUME NEW j \in Started PROVE j \in Started'
  OBVIOUS
<1>3. /\ j \in 1 .. submitted /\ \A i \in DOMAIN queue : queue[i].job # j
      /\ \A t \in Drainers : held[t].job = j => pc[t] # "taken"
  BY DEF Started
<1>4. j \in 1 .. submitted' /\ j # submitted + 1
  BY <1>3, QueueFrom
<1>5. \A i \in DOMAIN queue' : queue'[i].job # j
  BY <1>3, <1>4, QueueFrom
<1>6. \A t \in Drainers : held'[t].job = j => pc'[t] # "taken"
  BY <1>2, <1>3
<1> QED BY <1>4, <1>5, <1>6 DEF Started

\* The counter stays within its bound: the same number of ids and of jobs, or one more
\* id for one more job, or for one more run().
LEMMA CounterStep ==
    ASSUME ExecutionPoolInv, ExecutionPoolInv', CounterInv, [Next]_vars
    PROVE  CounterInv'
<1>1. PoolStepOf(ExecutionHandles)
  BY SchedulerPoolStep DEF ExecutionPoolInv, PoolInv, PlaceInv
<1>2. Started \subseteq Started' /\ submitted \in Nat /\ submitted' \in {submitted, submitted + 1}
  BY <1>1, StartedGrows, QueueFrom, ExecutionHandleSet DEF ExecutionPoolInv
<1> DEFINE m == Cardinality(Started)  n == Cardinality(Started')
<1>3. /\ Started \in SUBSET (1 .. submitted) /\ Started' \in SUBSET (1 .. submitted')
      /\ submitted' \in Nat
  BY <1>2 DEF Started
<1>4. m \in Nat /\ n \in Nat /\ IsFiniteSet(Started) /\ IsFiniteSet(Started')
  BY <1>2, <1>3, NumbersBound
<1>5. m <= n
  BY <1>2, <1>4, FS_Subset
<1>6. counter \in Nat \ {0} /\ counter <= 1 + submitted + m
  BY DEF CounterInv
<1>7. counter' = counter \/ (counter' = counter + 1 /\ submitted' = submitted + 1)
        => counter' \in Nat \ {0} /\ counter' <= 1 + submitted' + n
  <2> HIDE DEF m, n
  <2> QED BY <1>2, <1>4, <1>5, <1>6
<1>8. ASSUME NEW t \in Drainers, RunBegins(t)
      PROVE  counter' \in Nat \ {0} /\ counter' <= 1 + submitted' + n
  <2> DEFINE j == held[t].job
  <2>1. /\ pc[t] = "taken" /\ pc' = [pc EXCEPT ![t] = "running"] /\ counter' = counter + 1
        /\ UNCHANGED <<queue, submitted, held>>
    BY <1>8 DEF RunBegins, queueVars
  <2>2. /\ pc \in [Drainers -> PcStates] /\ held[t] # NoHandle /\ j \in Nat \ {0}
        /\ j <= submitted
    BY <2>1, HandleTypes, ExecutionHandleSet
       DEF ExecutionPoolInv, PoolInv, PoolTypeOK, PlaceInv, Holding, JobsKnown, PcStates
  <2>3. j \notin Started
    BY <2>1 DEF Started
  <2>4. /\ \A i \in DOMAIN queue : queue[i].job # j
        /\ \A u \in Drainers : held[u].job = j => u = t
    BY <2>2 DEF ExecutionPoolInv, PoolInv, PlaceInv, Exclusive, HeldOnce
  <2>5. j \in 1 .. submitted' /\ pc'[t] = "running"
    BY <1>2, <2>1, <2>2
  <2>6. j \in Started'
    BY <2>1, <2>4, <2>5 DEF Started
  <2>7. Started \cup {j} \subseteq Started'
    BY <1>2, <2>6
  <2>8. Cardinality(Started \cup {j}) = m + 1 /\ Cardinality(Started \cup {j}) <= n
    BY <1>4, <2>3, <2>7, FS_AddElement, FS_Subset
  <2>9. m + 1 <= n
    BY <2>8
  <2> HIDE DEF m, n
  <2> QED BY <1>2, <1>4, <1>6, <2>1, <2>9
<1>9. \/ counter' = counter
      \/ counter' = counter + 1 /\ submitted' = submitted + 1
      \/ \E t \in Drainers : RunBegins(t)
  BY DEF Next, Submit, NewJob, DrainStep, RunReturns, vars
<1> QED BY <1>7, <1>8, <1>9 DEF CounterInv

\* Every id drawn so far, and the next one, takes a value of the counter of its own.
LEMMA CounterBound ==
    ASSUME ExecutionPoolInv, CounterInv
    PROVE  counter \in 1 .. 2 * MaxJobs + 1
<1>1. submitted \in Nat /\ MaxJobs \in Nat /\ submitted <= MaxJobs
  BY HandleTypes, ExecutionHandleSet DEF ExecutionPoolInv, PoolInv
<1> DEFINE m == Cardinality(Started)
<1>2. Started \in SUBSET (1 .. submitted)
  BY DEF Started
<1>3. m \in Nat /\ m <= submitted
  BY <1>1, <1>2, NumbersBound
<1>4. counter \in Nat \ {0} /\ counter <= 1 + submitted + m
  BY DEF CounterInv
<1> HIDE DEF m
<1> QED BY <1>1, <1>3, <1>4

----------------------------------------------------------------------------
\* Ids

\* Ids drawn at different values of the counter are told apart by the bits below the
\* clock's, which the clock does not reach, unless 0 was replaced.
LEMMA IdsDiffer ==
    ASSUME NEW m, NEW n, NEW c, NEW d, c # d,
           NEW a, NEW b, a = GenerateExecutionId(m, c), b = GenerateExecutionId(n, d)
    PROVE  ToldApart(a, c, b, d)
<1> SUFFICES ASSUME a = b, a # One, NEW i \in 0 .. ClockShift - 1
             PROVE  Bit(c, i) = Bit(d, i)
  BY DEF ToldApart
<1>1. i \in BitPositions /\ i < ClockShift
  BY IdAssumption DEF BitPositions
<1>2. Shifted(m, ClockShift, i) = 0 /\ Shifted(n, ClockShift, i) = 0
  BY <1>1 DEF Shifted
<1>3. Bit(c, i) \in {0, 1} /\ Bit(d, i) \in {0, 1} /\ PidBit(i) \in {0, 1}
  BY DEF Bit, PidBit, Shifted
<1>4. /\ RawId(m, c)[i] = (0 + PidBit(i) + Bit(c, i)) % 2
      /\ RawId(n, d)[i] = (0 + PidBit(i) + Bit(d, i)) % 2
  BY <1>1, <1>2 DEF RawId
<1>5. RawId(m, c) = a /\ RawId(n, d) = b
  BY DEF GenerateExecutionId
<1>6. (0 + PidBit(i) + Bit(c, i)) % 2 = (0 + PidBit(i) + Bit(d, i)) % 2
  BY <1>4, <1>5
<1> QED BY <1>3, <1>6

\* So IdInv tells the executions apart.
LEMMA IdsToldApart == IdInv => UniqueIds
<1> SUFFICES ASSUME IdInv PROVE UniqueIds
  OBVIOUS
<1>1. \A a, b, c, d : Drawn(counter, a, c) /\ Drawn(counter, b, d) /\ c # d => ToldApart(a, c, b, d)
  BY IdsDiffer DEF Drawn
<1> QED BY <1>1 DEF IdInv, UniqueIds, Live

\* The value of the counter that a step takes is new, and the id is drawn from then on;
\* what was drawn stays so.
LEMMA NextIdFresh ==
    ASSUME CounterInv, counter' \in {counter, counter + 1}
    PROVE  /\ \A id, c : Drawn(counter, id, c) => Drawn(counter', id, c) /\ c # counter
           /\ counter' = counter + 1 => \A nanos \in ClockReadings :
                Drawn(counter', GenerateExecutionId(nanos, counter), counter)
<1>1. counter \in Nat \ {0}
  BY DEF CounterInv
<1>2. counter' \in Nat /\ counter <= counter'
  BY <1>1
<1>3. \A c \in 1 .. counter - 1 : c \in 1 .. counter' - 1 /\ c # counter
  <2>1. \A m, n \in Nat : m <= n => \A c \in 1 .. m - 1 : c \in 1 .. n - 1 /\ c # m
    OBVIOUS
  <2> QED BY <1>1, <1>2, <2>1
<1>4. counter' = counter + 1 => counter \in 1 .. counter' - 1
  BY <1>1
<1>5. \A id, c : Drawn(counter, id, c) => Drawn(counter', id, c) /\ c # counter
  BY <1>3 DEF Drawn
<1>6. counter' = counter + 1 => \A nanos \in ClockReadings :
        Drawn(counter', GenerateExecutionId(nanos, counter), counter)
  BY <1>4 DEF Drawn
<1> QED BY <1>5, <1>6

\* A step that draws no id, of the handles that are under way.
LEMMA IdsKept ==
    ASSUME CounterInv, IdInv, counter' = counter,
           \A h \in Live' : \E g \in Live : g.id = h.id /\ g.job = h.job /\ g.ticket = h.ticket,
           \A t \in Drainers : pc'[t] = "running" =>
             pc[t] = "running" /\ cgroupId'[t] = cgroupId[t] /\ drawn'[t] = drawn[t]
    PROVE  IdInv'
<1>1. \A id, c : Drawn(counter, id, c) => Drawn(counter', id, c)
  BY NextIdFresh
<1>2. (\A h \in Live : Drawn(counter, h.id, h.ticket))'
  BY <1>1 DEF IdInv
<1>3. (\A t \in Drainers : pc[t] = "running" => Drawn(counter, cgroupId[t], drawn[t]))'
  BY <1>1 DEF IdInv
<1>4. \A g, h \in Live' : g.job # h.job => g.ticket # h.ticket
  BY DEF IdInv
<1>5. \A t, u \in Drainers :
        t # u /\ pc'[t] = "running" /\ pc'[u] = "running" => drawn'[t] # drawn'[u]
  BY DEF IdInv
<1> QED BY <1>2, <1>3, <1>4, <1>5 DEF IdInv

\* A submission adds one handle, whose ticket is new.
LEMMA SubmitIds ==
    ASSUME ExecutionPoolInv, CounterInv, IdInv, Submit
    PROVE  IdInv'
<1>1. PICK nanos \in ClockReadings :
        Enqueue([job |-> submitted + 1, id |-> GenerateExecutionId(nanos, counter),
                 ticket |-> counter, state |-> "Created"])
  BY DEF Submit
<1> DEFINE new == GenerateExecutionId(nanos, counter)
           h == [job |-> submitted + 1, id |-> new, ticket |-> counter, state |-> "Created"]
<1>2. /\ queue' = Append(queue, h) /\ counter' = counter + 1
      /\ UNCHANGED <<pc, held, cgroupId, drawn>>
  BY <1>1 DEF Enqueue, Submit, NewJob, drainVars, runVars
<1>3. /\ \A id, c : Drawn(counter, id, c) => Drawn(counter', id, c) /\ c # counter
      /\ Drawn(counter', new, counter)
  BY <1>2, NextIdFresh
<1>4. queue \in Seq(ExecutionHandles \cup {h})
  BY SeqMonotonic DEF ExecutionPoolInv, PoolInv, PoolTypeOK
<1>5. \A g \in Live' : g \in Live \/ g = h
  <2>1. \A i \in DOMAIN queue' : queue'[i] = h \/ \E k \in DOMAIN queue : queue'[i] = queue[k]
    BY <1>2, <1>4, AppendFacts
  <2> QED BY <1>2, <2>1 DEF Live, ToSet
<1>6. h.id = new /\ h.ticket = counter
  OBVIOUS
<1> HIDE DEF h, new
<1>7. (\A g \in Live : Drawn(counter, g.id, g.ticket))'
  <2>1. \A g \in Live' : Drawn(counter', g.id, g.ticket)
    BY <1>3, <1>5, <1>6 DEF IdInv
  <2> QED BY <2>1
<1>8. (\A t \in Drainers : pc[t] = "running" => Drawn(counter, cgroupId[t], drawn[t]))'
  BY <1>2, <1>3 DEF IdInv
<1>9. \A f, g \in Live' : f.job # g.job => f.ticket # g.ticket
  <2>1. \A g \in Live : g.ticket # counter
    BY <1>3 DEF IdInv
  <2> QED BY <1>5, <1>6, <2>1 DEF IdInv
<1> QED BY <1>2, <1>7, <1>8, <1>9 DEF IdInv

\* A run() that begins takes a new value of the counter.
LEMMA RunBeginsIds ==
    ASSUME ExecutionPoolInv, RunTypes, CounterInv, IdInv, NEW t \in Drainers, RunBegins(t)
    PROVE  IdInv'
<1>1. PICK nanos \in ClockReadings :
        cgroupId' = [cgroupId EXCEPT ![t] = GenerateExecutionId(nanos, counter)]
  BY DEF RunBegins
<1> DEFINE new == GenerateExecutionId(nanos, counter)
<1>2. /\ counter' = counter + 1 /\ pc' = [pc EXCEPT ![t] = "running"]
      /\ drawn' = [drawn EXCEPT ![t] = counter] /\ UNCHANGED <<queue, held>>
  BY DEF RunBegins, queueVars
<1>3. /\ \A id, c : Drawn(counter, id, c) => Drawn(counter', id, c) /\ c # counter
      /\ Drawn(counter', new, counter)
  BY <1>2, NextIdFresh
<1>4. \A u \in Drainers : /\ cgroupId'[u] = IF u = t THEN new ELSE cgroupId[u]
                          /\ drawn'[u] = IF u = t THEN counter ELSE drawn[u]
                          /\ pc'[u] = IF u = t THEN "running" ELSE pc[u]
  BY <1>1, <1>2 DEF RunTypes, ExecutionPoolInv, PoolInv, PoolTypeOK
<1> HIDE DEF new
<1>5. Live' = Live
  BY <1>2 DEF Live
<1>6. (\A g \in Live : Drawn(counter, g.id, g.ticket))'
  <2>1. \A g \in Live : Drawn(counter', g.id, g.ticket)
    BY <1>3 DEF IdInv
  <2> QED BY <1>5, <2>1
<1>7. (\A u \in Drainers : pc[u] = "running" => Drawn(counter, cgroupId[u], drawn[u]))'
  <2>1. \A u \in Drainers : pc'[u] = "running" => Drawn(counter', cgroupId'[u], drawn'[u])
    BY <1>3, <1>4 DEF IdInv
  <2> QED BY <2>1
<1>8. \A u \in Drainers : pc[u] = "running" => drawn[u] # counter
  BY <1>3 DEF IdInv
<1>9. \A u, v \in Drainers :
        u # v /\ pc'[u] = "running" /\ pc'[v] = "running" => drawn'[u] # drawn'[v]
  BY <1>4, <1>8 DEF IdInv
<1>10. \A g, h \in Live' : g.job # h.job => g.ticket # h.ticket
  BY <1>5 DEF IdInv
<1> QED BY <1>6, <1>7, <1>9, <1>10 DEF IdInv

\* Handles of one execution.
SameDraw(g, h) == g.id = h.id /\ g.job = h.job /\ g.ticket = h.ticket

\* What a step outside run(), or the end of run(), does to the id of thread t.
Forgets(t) == \/ UNCHANGED <<cgroupId, drawn>>
              \/ /\ cgroupId' = [cgroupId EXCEPT ![t] = Zero]
                 /\ drawn' = [drawn EXCEPT ![t] = 0]

\* Every other step moves handles, or changes their state.
LEMMA OtherIds ==
    ASSUME ExecutionPoolInv, RunTypes, CounterInv, IdInv, [Next]_vars, ~Submit,
           \A t \in Drainers : ~RunBegins(t)
    PROVE  IdInv'
<1>1. PoolStepOf(ExecutionHandles)
  BY SchedulerPoolStep DEF ExecutionPoolInv, PoolInv, PlaceInv
<1>2. counter' = counter /\ submitted' = submitted
  BY DEF Next, DrainStep, PoolStep, RunReturns, vars, poolVars, StartDrain, TakeNext,
     NothingToRun, PublishResult, EndOfBatch, CancelQueued, CollectCompleted
<1>3. /\ held \in [Drainers -> ExecutionHandles \cup {NoHandle}]
      /\ pc \in [Drainers -> PcStates] /\ queue \in Seq(ExecutionHandles)
      /\ \A i \in DOMAIN queue : queue[i] \in ExecutionHandles
      /\ NoHandle \notin ExecutionHandles
  BY HandleTypes, ExecutionHandleSet DEF ExecutionPoolInv, PoolInv, PoolTypeOK, PcStates
<1>4. \A i \in DOMAIN queue' : \E k \in DOMAIN queue : queue'[i] = queue[k]
  BY <1>1, <1>2, QueueFrom, ExecutionHandleSet DEF ExecutionPoolInv
<1>5. \A t \in Drainers : held'[t] = NoHandle \/ \E g \in Live : SameDraw(g, held'[t])
  <2>1. \A t \in Drainers : held[t] = NoHandle \/ held[t] \in Live
    BY DEF Live
  <2>a. \A g : SameDraw(g, g)
    BY DEF SameDraw
  <2>2. CASE held' = held
    BY <2>1, <2>2, <2>a
  <2>3. CASE \E t \in Drainers : TakeNext(t)
    <3>1. PICK t \in Drainers : TakeNext(t)
      BY <2>3
    <3>2. PICK h \in ToSet(queue) : held' = [held EXCEPT ![t] = [h EXCEPT !.state = "Running"]]
      BY <3>1 DEF TakeNext
    <3>3. h \in ExecutionHandles /\ h \in Live
      BY <1>3, <3>2 DEF ToSet, Live
    <3>4. SameDraw(h, [h EXCEPT !.state = "Running"])
      BY <3>3 DEF ExecutionHandles, SameDraw
    <3> QED BY <1>3, <2>1, <2>a, <3>2, <3>3, <3>4
  <2>4. CASE \E t \in Drainers : PublishResult(t)
    <3>1. PICK t \in Drainers : held' = [held EXCEPT ![t] = NoHandle]
      BY <2>4 DEF PublishResult
    <3> QED BY <1>3, <2>1, <2>a, <3>1
  <2>5. CASE \E t \in Drainers : RunReturns(t)
    <3>1. PICK t \in Drainers : RunReturns(t)
      BY <2>5
    <3>2. PICK o \in RunResults : held' = [held EXCEPT ![t].state = o.state]
      BY <3>1 DEF RunReturns
    <3>3. held[t] \in ExecutionHandles /\ held[t] \in Live
      BY <1>3, <2>1, <3>1 DEF RunReturns, ExecutionPoolInv, PoolInv, PlaceInv, Holding
    <3> DEFINE h == [held[t] EXCEPT !.state = o.state]
    <3>4. held' = [held EXCEPT ![t] = h] /\ SameDraw(held[t], h)
      BY <3>2, <3>3 DEF ExecutionHandles, SameDraw
    <3> HIDE DEF h
    <3> QED BY <1>3, <2>1, <2>a, <3>3, <3>4
  <2>6. \/ held' = held \/ \E t \in Drainers : TakeNext(t) \/ PublishResult(t) \/ RunReturns(t)
    BY DEF Next, DrainStep, PoolStep, vars, poolVars, StartDrain, NothingToRun, EndOfBatch,
       CancelQueued, CollectCompleted, drainVars
  <2> QED BY <2>2, <2>3, <2>4, <2>5, <2>6
<1>6. \A h \in Live' : \E g \in Live : SameDraw(g, h)
  <2> TAKE h \in Live'
  <2>1. h # NoHandle /\ ((\E i \in DOMAIN queue' : h = queue'[i]) \/ \E t \in Drainers : h = held'[t])
    BY DEF Live, ToSet
  <2>2. CASE \E i \in DOMAIN queue' : h = queue'[i]
    <3>1. PICK k \in DOMAIN queue : h = queue[k]
      BY <1>4, <2>2
    <3>2. h \in Live
      BY <2>1, <3>1 DEF Live, ToSet
    <3> QED BY <3>2 DEF SameDraw
  <2>3. CASE \E t \in Drainers : h = held'[t]
    BY <1>5, <2>1, <2>3
  <2> QED BY <2>1, <2>2, <2>3
<1>7. \A t \in Drainers : pc'[t] = "running" => pc[t] = "running" /\ cgroupId'[t] = cgroupId[t] /\ drawn'[t] = drawn[t]
  <2>1. CASE UNCHANGED <<cgroupId, drawn, pc>>
    BY <2>1
  <2>2. CASE \E t \in Drainers, p \in {"idle", "next", "taken", "returned"} :
               /\ pc' = [pc EXCEPT ![t] = p]
               /\ Forgets(t)
    <3>1. PICK t \in Drainers, p \in {"idle", "next", "taken", "returned"} :
            /\ pc' = [pc EXCEPT ![t] = p]
            /\ Forgets(t)
      BY <2>2
    <3>2. \A u \in Drainers : pc'[u] = "running" => u # t /\ pc[u] = "running"
      BY <1>3, <3>1
    <3>3. \A u \in Drainers : u # t => cgroupId'[u] = cgroupId[u] /\ drawn'[u] = drawn[u]
      BY <3>1 DEF RunTypes, Forgets
    <3> QED BY <3>2, <3>3
  <2>3. \/ UNCHANGED <<cgroupId, drawn, pc>>
        \/ \E t \in Drainers, p \in {"idle", "next", "taken", "returned"} :
             /\ pc' = [pc EXCEPT ![t] = p]
             /\ Forgets(t)
    BY DEF Next, DrainStep, PoolStep, RunReturns, vars, poolVars, runVars, StartDrain, TakeNext,
       NothingToRun, PublishResult, EndOfBatch, CancelQueued, CollectCompleted, drainVars, Forgets
  <2> QED BY <2>1, <2>2, <2>3
<1> QED BY <1>2, <1>6, <1>7, IdsKept DEF SameDraw

\* The types of what a run() adds.
LEMMA RunTypesStep ==
    ASSUME ExecutionPoolInv, RunTypes, [Next]_vars
    PROVE  RunTypes'
<1>1. CASE UNCHANGED runVars
  BY <1>1 DEF RunTypes, runVars
<1>2. ASSUME NEW t \in Drainers, RunBegins(t) PROVE RunTypes'
  BY <1>2, IdTypes DEF RunTypes, RunBegins, ExecutionPoolInv
<1>3. ASSUME NEW t \in Drainers, RunReturns(t) PROVE RunTypes'
  <2>1. Zero \in [BitPositions -> {0, 1}]
    BY DEF Zero
  <2> QED BY <1>3, <2>1 DEF RunTypes, RunReturns, RestoreSigpipe
<1>4. UNCHANGED runVars \/ \E t \in Drainers : RunBegins(t) \/ RunReturns(t)
  BY DEF Next, Submit, DrainStep, vars, runVars
<1> QED BY <1>1, <1>2, <1>3, <1>4

\* SchedulerInv holds initially and is kept by every step.
LEMMA SchedulerInductive == Spec => []SchedulerInv
<1>1. Init => RunTypes /\ CounterInv /\ IdInv
  <2> SUFFICES ASSUME Init PROVE RunTypes /\ CounterInv /\ IdInv
    OBVIOUS
  <2>1. RunTypes
    BY DEF Init, RunTypes, Zero
  <2>2. Started = {} /\ submitted = 0 /\ counter = 1
    <3>1. submitted = 0 /\ counter = 1
      BY DEF Init, PoolInit
    <3> QED BY <3>1 DEF Started
  <2>3. CounterInv
    BY <2>2, FS_EmptySet DEF CounterInv
  <2>4. Live = {} /\ \A t \in Drainers : pc[t] = "idle"
    BY DEF Init, PoolInit, Live, ToSet
  <2>5. IdInv
    BY <2>4 DEF IdInv
  <2> QED BY <2>1, <2>3, <2>5
<1>2. ExecutionPoolInv /\ ExecutionPoolInv' /\ RunTypes /\ CounterInv /\ [Next]_vars
        => RunTypes' /\ CounterInv'
  BY RunTypesStep, CounterStep
<1>3. ExecutionPoolInv /\ RunTypes /\ CounterInv /\ IdInv /\ [Next]_vars => IdInv'
  BY SubmitIds, RunBeginsIds, OtherIds
<1> QED BY <1>1, <1>2, <1>3, ExecutionPool, PTL DEF Spec, SchedulerInv

\* Every variable of the scheduler has its type, and the counter never exceeds two
\* values for each job: one id for the handle and one for the run.
THEOREM SchedulerTypeCorrect == Spec => []TypeOK
<1>1. SchedulerInv => TypeOK
  BY CounterBound DEF SchedulerInv, TypeOK, RunTypes, ExecutionPoolInv, PoolInv
<1> QED BY <1>1, SchedulerInductive, PTL

\* Whatever the threads, the clock and the fields of an id: no two executions under way
\* took the same value of the counter, and if their cgroups or their handles have the same
\* id, it is 1 or the two values agree in all the bits below the clock's.
THEOREM IdsAreUnique == Spec => []UniqueIds
<1>1. SchedulerInv => UniqueIds
  BY IdsToldApart DEF SchedulerInv
<1> QED BY <1>1, SchedulerInductive, PTL

============================================================================
