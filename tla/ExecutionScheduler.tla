------------------------ MODULE ExecutionScheduler ------------------------
(***************************************************************************)
(* ExecutionScheduler and its worker pools (execution_scheduler.hpp) in    *)
(* one judge process.  A run() is its result, taken from RunOutcomes, and  *)
(* what it does to the whole process: the SIGPIPE disposition and the      *)
(* execution id.                                                           *)
(***************************************************************************)
EXTENDS WorkerPool, ExecutionId, ExecutionResult

CONSTANT RunResults    \* the results of run() that are told apart: queue and pool treat all alike

ASSUME SchedulerAssumption == RunResults \subseteq RunOutcomes

VARIABLES
    counter,       \* the counter of generateExecutionId
    cgroupId,      \* the execution_id of the run() in progress
    drawn,         \* ghost: the value of the counter it was made from
    sigpipe, saved \* SIGPIPE's disposition; SigpipeGuard::old_

runVars == <<cgroupId, drawn, sigpipe, saved>>
vars    == <<poolVars, counter, cgroupId, drawn, sigpipe, saved>>

Init ==
    /\ PoolInit
    /\ counter = 1 /\ cgroupId = [t \in Drainers |-> Zero] /\ drawn = [t \in Drainers |-> 0]
    /\ sigpipe = "default" /\ saved = [t \in Drainers |-> "default"]

\* The ghost `ticket` is the value of the counter that went into the id.
Submit ==
    /\ NewJob
    /\ \E nanos \in ClockReadings :
         Enqueue([job |-> submitted + 1, id |-> GenerateExecutionId(nanos, counter),
                  ticket |-> counter, state |-> "Created"])
    /\ counter' = counter + 1
    /\ UNCHANGED runVars

\* run() draws an id of its own, and SigpipeGuard saves and sets the disposition
\* of the process.
RunBegins(t) ==
    /\ pc[t] = "taken" /\ pc' = [pc EXCEPT ![t] = "running"]
    /\ \E nanos \in ClockReadings :
         cgroupId' = [cgroupId EXCEPT ![t] = GenerateExecutionId(nanos, counter)]
    /\ drawn' = [drawn EXCEPT ![t] = counter] /\ counter' = counter + 1
    /\ saved' = [saved EXCEPT ![t] = sigpipe] /\ sigpipe' = "ignored"
    /\ UNCHANGED <<queueVars, submitted, collected, worker, batch, upto, held>>

\* Mutant of RestoreSigpipe: the guard restores SIG_DFL, not what it found.
RestoreSigpipeDefault(t) == sigpipe' = "default"

\* ~SigpipeGuard
RestoreSigpipe(t) == sigpipe' = saved[t]

\* handle.result = run(...); handle.state = handle.result.state
RunReturns(t) ==
    /\ pc[t] = "running" /\ pc' = [pc EXCEPT ![t] = "returned"]
    /\ RestoreSigpipe(t) /\ saved' = [saved EXCEPT ![t] = "default"]
    /\ \E o \in RunResults : held' = [held EXCEPT ![t].state = o.state]
    /\ cgroupId' = [cgroupId EXCEPT ![t] = Zero] /\ drawn' = [drawn EXCEPT ![t] = 0]
    /\ UNCHANGED <<queueVars, submitted, collected, counter, worker, batch, upto>>

PoolStep(t) == TakeNext(t) \/ NothingToRun(t) \/ PublishResult(t) \/ EndOfBatch(t)

DrainStep(t) == \/ PoolStep(t) /\ UNCHANGED <<counter, runVars>>
                \/ RunBegins(t) \/ RunReturns(t)

Next == \/ Submit
        \/ (CancelQueued \/ CollectCompleted) /\ UNCHANGED <<counter, runVars>>
        \/ \E t \in Drainers : \/ StartDrain(t) /\ UNCHANGED <<counter, runVars>>
                               \/ DrainStep(t)

Spec == Init /\ [][Next]_vars

\* A thread that has called drainAll() runs, and run() returns (ProcessRunner's
\* Returns).  Nobody has to submit, cancel, collect or drain.
FairSpec == Spec /\ \A t \in Drainers : WF_vars(DrainStep(t))

----------------------------------------------------------------------------
\* Properties

ExecutionHandles == [job : Jobs, id : [BitPositions -> {0, 1}], ticket : Nat,
                     state : ExecutionStates]

\* The types of the state; every id takes at most one value of the counter.
TypeOK ==
    /\ PoolTypeOK(ExecutionHandles)
    /\ counter \in 1 .. 2 * MaxJobs + 1
    /\ cgroupId \in [Drainers -> [BitPositions -> {0, 1}]] /\ drawn \in [Drainers -> Nat]
    /\ sigpipe \in {"default", "ignored"}
    /\ saved \in [Drainers -> {"default", "ignored"}]

\* Two ids, and the values of the counter they were made from: the values differ, and
\* ids that are equal nevertheless are 1, which stands for 0 too, or were made from
\* values that agree in all bits below the clock's (in the code at least 65 536 apart).
ToldApart(id, c, otherId, d) ==
    /\ c # d
    /\ id = otherId => id = One \/ \A i \in 0 .. ClockShift - 1 : Bit(c, i) = Bit(d, i)

\* Executions under way have cgroups of their own, and cancel() by id names one handle,
\* whatever threads draw ids and whatever the clock says: two of them share an id only in
\* the cases that generateExecutionId leaves open (ToldApart).
UniqueIds ==
    /\ \A t, u \in Drainers : t # u /\ pc[t] = "running" /\ pc[u] = "running" =>
         ToldApart(cgroupId[t], drawn[t], cgroupId[u], drawn[u])
    /\ LET live == (ToSet(queue) \cup {held[t] : t \in Drainers}) \ {NoHandle}
       IN  \A g, h \in live : g.job # h.job => ToldApart(g.id, g.ticket, h.id, h.ticket)

\* Of overlapping run()s, the one that found SIG_DFL is protected: until it ends,
\* a write to a broken pipe gives EPIPE to every run(), not SIGPIPE to the judge.
\* (One that found SIG_IGN is protected only as long as the first one runs.)
OutermostGuardHolds ==
    (\E t \in Drainers : pc[t] = "running" /\ saved[t] = "default") => sigpipe = "ignored"

============================================================================
