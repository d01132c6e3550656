----------------------------- MODULE JobQueue -----------------------------
(***************************************************************************)
(* class ExecutionQueue (include/runner/execution_scheduler.hpp); class    *)
(* SubmissionQueue is the same code over another element type.  Every      *)
(* member function holds mutex_ from its first line to its last, so each   *)
(* is one step.  A handle is a record with an id, a state, and the number  *)
(* of the job it stands for, which the code does not have: ids may clash,  *)
(* job numbers do not.                                                     *)
(***************************************************************************)
EXTENDS Naturals, Sequences, SequencesExt

CONSTANT MaxPending     \* max_pending_; 0 is no limit
ASSUME MaxPendingAssumption == MaxPending \in Nat

VARIABLES queue,        \* queue_, a deque of handles
          completed     \* completed_, a vector of handles

queueVars == <<queue, completed>>

Enqueue(handle) == queue' = Append(queue, handle) /\ UNCHANGED completed

\* Mutant of TryEnqueue: an off-by-one in the admission check.
TryEnqueueOneMore(handle) ==
    /\ MaxPending # 0 => Len(queue) <= MaxPending
    /\ Enqueue(handle)

\* nullopt, and no change, when the queue is full.
TryEnqueue(handle) ==
    /\ MaxPending # 0 => Len(queue) < MaxPending
    /\ Enqueue(handle)

\* Mutant of TryDequeue: front() without pop_front().
TryDequeueNoPop(handle) ==
    /\ queue # <<>> /\ handle = Head(queue)
    /\ UNCHANGED <<queue, completed>>

TryDequeue(handle) ==
    /\ queue # <<>> /\ handle = Head(queue)
    /\ queue' = Tail(queue) /\ UNCHANGED completed

Complete(handle) == completed' = Append(completed, handle) /\ UNCHANGED queue

\* Mutant of Cancel: every handle with that id is erased, the first is published.
CancelAll(id) ==
    LET i == SelectInSeq(queue, LAMBDA h : h.id = id)
    IN  /\ i # 0
        /\ queue' = SelectSeq(queue, LAMBDA h : h.id # id)
        /\ completed' = Append(completed, [queue[i] EXCEPT !.state = "Cancelled"])

\* The first handle with that id moves to completed_; false, and no change, if
\* there is none: it was never queued, or a worker has taken it.
Cancel(id) ==
    \E i \in DOMAIN queue :
        /\ queue[i].id = id /\ \A k \in 1 .. i - 1 : queue[k].id # id
        /\ queue' = RemoveAt(queue, i)
        /\ completed' = Append(completed, [queue[i] EXCEPT !.state = "Cancelled"])

\* Mutant of DrainCompleted: the vector is copied, not moved.
DrainCompletedCopy == UNCHANGED <<queue, completed>>

\* The caller gets completed_, which is left empty.
DrainCompleted == completed' = <<>> /\ UNCHANGED queue

============================================================================
