---------------------------- MODULE WorkerPool ----------------------------
(***************************************************************************)
(* Threads that call drainAll() on a pool of workers over one JobQueue:    *)
(* ExecutionWorkerPool (include/runner/execution_scheduler.hpp) and        *)
(* SubmissionWorkerPool (include/submission/submission_service.hpp), which *)
(* are the same code.  Each thread of Drainers has a pool of its own; any  *)
(* thread may admit, cancel and collect.  What a worker does with the job  *)
(* it holds is left to the modules that extend this one: they add their    *)
(* variables to each step here.                                            *)
(***************************************************************************)
EXTENDS JobQueue

CONSTANTS
    Drainers,      \* threads that call drainAll
    WorkerCount,   \* worker_count of each thread's pool
    MaxJobs        \* bound: jobs ever admitted.  The code has none: callers may go
                   \* on submitting, and then drainAll() need not return

\* A pool without workers drains nothing.
ASSUME PoolAssumption == WorkerCount \in [Drainers -> Nat \ {0}] /\ MaxJobs \in Nat

VARIABLES
    submitted,     \* number of handles created: the last job number
    collected,     \* how often drainCompleted has handed out each job
    pc, worker,    \* where a drainer is; the worker drainOnce is at
    batch,         \* processed of the current drainOnce
    upto,          \* `submitted` when this drainAll began
    held           \* the handle in processNext

drainVars == <<pc, worker, batch, upto, held>>
poolVars  == <<queue, completed, submitted, collected, pc, worker, batch, upto, held>>

Jobs == 1 .. MaxJobs
NoHandle == [job |-> 0]

PoolInit ==
    /\ queue = <<>> /\ completed = <<>>
    /\ submitted = 0 /\ collected = [j \in Jobs |-> 0]
    /\ pc = [t \in Drainers |-> "idle"] /\ worker = [t \in Drainers |-> 1]
    /\ batch = [t \in Drainers |-> 0] /\ upto = [t \in Drainers |-> 0]
    /\ held = [t \in Drainers |-> NoHandle]

----------------------------------------------------------------------------
\* Any thread

\* What goes with an Enqueue or TryEnqueue.
NewJob ==
    /\ submitted < MaxJobs /\ submitted' = submitted + 1
    /\ UNCHANGED <<collected, drainVars>>

CancelQueued ==
    /\ \E h \in ToSet(queue) : Cancel(h.id)
    /\ UNCHANGED <<submitted, collected, drainVars>>

CollectCompleted ==
    /\ completed # <<>> /\ DrainCompleted
    /\ collected' = [j \in Jobs |->
         collected[j] + (IF \E h \in ToSet(completed) : h.job = j THEN 1 ELSE 0)]
    /\ UNCHANGED <<submitted, drainVars>>

----------------------------------------------------------------------------
\* A thread in drainAll()

\* Mutant of FirstWorker: processed is not reset between batches.
FirstWorkerOnly(t) == worker' = [worker EXCEPT ![t] = 1] /\ UNCHANGED batch

\* drainOnce() begins.
FirstWorker(t) ==
    worker' = [worker EXCEPT ![t] = 1] /\ batch' = [batch EXCEPT ![t] = 0]

StartDrain(t) ==
    /\ pc[t] = "idle" /\ pc' = [pc EXCEPT ![t] = "next"]
    /\ FirstWorker(t)
    /\ upto' = [upto EXCEPT ![t] = submitted]
    /\ UNCHANGED <<queueVars, submitted, collected, held>>

\* processNext(): tryDequeue, and the handle is Running.
TakeNext(t) ==
    /\ pc[t] = "next" /\ worker[t] <= WorkerCount[t]
    /\ \E h \in ToSet(queue) :
         TryDequeue(h) /\ held' = [held EXCEPT ![t] = [h EXCEPT !.state = "Running"]]
    /\ pc' = [pc EXCEPT ![t] = "taken"]
    /\ UNCHANGED <<submitted, collected, worker, batch, upto>>

\* Mutant of NothingToRun: a worker that found nothing counts as one that ran.
NothingToRunCounted(t) ==
    /\ pc[t] = "next" /\ worker[t] <= WorkerCount[t] /\ queue = <<>>
    /\ worker' = [worker EXCEPT ![t] = @ + 1] /\ batch' = [batch EXCEPT ![t] = @ + 1]
    /\ UNCHANGED <<queueVars, submitted, collected, pc, upto, held>>

\* tryDequeue returned false: on to the next worker.
NothingToRun(t) ==
    /\ pc[t] = "next" /\ worker[t] <= WorkerCount[t] /\ queue = <<>>
    /\ worker' = [worker EXCEPT ![t] = @ + 1]
    /\ UNCHANGED <<queueVars, submitted, collected, pc, batch, upto, held>>

\* The worker is through with its handle, which is complete()d.
PublishResult(t) ==
    /\ pc[t] = "returned" /\ pc' = [pc EXCEPT ![t] = "next"]
    /\ Complete(held[t])
    /\ worker' = [worker EXCEPT ![t] = @ + 1] /\ batch' = [batch EXCEPT ![t] = @ + 1]
    /\ held' = [held EXCEPT ![t] = NoHandle]
    /\ UNCHANGED <<submitted, collected, upto>>

\* Mutant of EndOfBatch: drainAll calls drainOnce only once.
EndOfFirstBatch(t) ==
    /\ pc[t] = "next" /\ worker[t] > WorkerCount[t]
    /\ pc' = [pc EXCEPT ![t] = "idle"] /\ upto' = [upto EXCEPT ![t] = 0] /\ FirstWorker(t)
    /\ UNCHANGED <<queueVars, submitted, collected, held>>

\* drainOnce() returns; drainAll() returns after a batch of 0, else starts another.
\* (What an idle thread's variables hold means nothing: they are reset.)
EndOfBatch(t) ==
    /\ pc[t] = "next" /\ worker[t] > WorkerCount[t]
    /\ IF batch[t] = 0
       THEN pc' = [pc EXCEPT ![t] = "idle"] /\ upto' = [upto EXCEPT ![t] = 0]
       ELSE UNCHANGED <<pc, upto>>
    /\ FirstWorker(t)
    /\ UNCHANGED <<queueVars, submitted, collected, held>>

----------------------------------------------------------------------------
\* Properties

\* The pool's part of a type invariant.  A drainer is never past the end of its
\* pool by more than one worker, and never counts more jobs than workers passed.
PoolTypeOK(Handles) ==
    /\ queue \in Seq(Handles) /\ completed \in Seq(Handles)
    /\ submitted \in 0 .. MaxJobs /\ collected \in [Jobs -> Nat]
    /\ pc \in [Drainers -> {"idle", "next", "taken", "running", "returned"}]
    /\ worker \in [Drainers -> Nat] /\ batch \in [Drainers -> Nat]
    /\ \A t \in Drainers : batch[t] < worker[t] /\ worker[t] <= WorkerCount[t] + 1
    /\ upto \in [Drainers -> 0 .. MaxJobs]
    /\ held \in [Drainers -> Handles \cup {NoHandle}]

\* Where job j is, as a set of places: a job that is lost has none, one that is
\* copied has several.
Places(j) ==
    {<<"pending", i>> : i \in {k \in DOMAIN queue : queue[k].job = j}} \cup
    {<<"running", t>> : t \in {u \in Drainers : held[u].job = j}} \cup
    {<<IF completed[i].state = "Cancelled" THEN "cancelled" ELSE "done", i>> :
        i \in {k \in DOMAIN completed : completed[k].job = j}} \cup
    {<<"collected", c>> : c \in 1 .. collected[j]}

StatusOf(j, places) ==
    CASE j > submitted -> "new"
      [] j <= submitted /\ Cardinality(places) = 1 -> (CHOOSE p \in places : TRUE)[1]
      [] OTHER -> "astray"

BoardStatus == [j \in Jobs |-> StatusOf(j, Places(j))]

Board == INSTANCE JobBoard WITH status <- BoardStatus

\* Every job is started once, in order of admission, or cancelled before it starts,
\* and is handed out once by drainCompleted, whatever threads admit, cancel, collect
\* and drain at the same time and even if ids clash: the deque, the vector and the
\* handles in processNext() implement JobBoard.
ImplementsJobBoard == Board!Spec

\* drainAll() returns only when everything that was admitted before it was called
\* has left the queue, although other threads take jobs between its batches.
DrainAllDrains ==
    [][\A t \in Drainers : pc[t] # "idle" /\ pc'[t] = "idle"
          => \A h \in ToSet(queue) : h.job > upto[t]]_poolVars

\* What was admitted before drainAll() was called leaves the queue, however much other
\* threads admit behind it or take out of its turn: no batch ends the loop while such a
\* job is pending.  (That drainAll() returns is another matter, see DrainReturns.)
BacklogServed ==
    \A j \in Jobs :
        LET pending == \E h \in ToSet(queue) : h.job = j
        IN  pending /\ (\E t \in Drainers : j <= upto[t]) ~> ~pending

AdmissionsOver == submitted = MaxJobs

\* drainAll() returns once nobody submits any more, although other threads cancel, collect
\* and drain.  Under submissions without end the code's `while (batch != 0)` has no
\* reason to stop, so nothing more can be said.
DrainReturns == \A t \in Drainers : (AdmissionsOver /\ pc[t] # "idle") ~> pc[t] = "idle"

============================================================================
