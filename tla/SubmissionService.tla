------------------------- MODULE SubmissionService -------------------------
(***************************************************************************)
(* The submission pipeline: SubmissionQueue and SubmissionWorkerPool       *)
(* (include/submission/submission_service.hpp), and what a worker does     *)
(* with a job, SubmissionService::evaluate: Compiler::compile, then        *)
(* TestRunner::run with Judge::evaluate on every test case.  Each run() of *)
(* the compiler or of the program is one step with a result from           *)
(* RunOutcomes.  The suite is its size; a program's output is whether it   *)
(* is the expected one.                                                    *)
(***************************************************************************)
EXTENDS WorkerPool, ExecutionResult

CONSTANTS
    SubmissionIds,   \* values of hash(solution_path) ^ clock; they may clash
    SuiteSize        \* testsuite.size() of each job

ASSUME SuiteAssumption == SuiteSize \in [Jobs -> Nat]

\* enum class Verdict, and a Verdict that nobody assigned
Verdicts == {"Accepted", "WrongAnswer", "RuntimeError", "TimeLimitExceeded",
             "MemoryLimitExceeded", "CompilationError", "InternalError"}
Unassigned == "unassigned"

vars == poolVars

----------------------------------------------------------------------------
\* Judge::evaluate

\* signal_number: SIGXCPU and SIGSEGV are the ones the judge knows; "other" is every
\* other signal of the program's own, and SIGKILL ends what was "killed".
Signals(o) == CASE o.wait = "signal" -> {"SIGXCPU", "SIGSEGV", "other"}
                [] o.wait = "killed" -> {"SIGKILL"}
                [] OTHER -> {"none"}

\* What a run of a test showed, for the properties.  "infrastructure" is a failure of
\* the judge's own; "overtime" is killed after the deadline, "unknownSignal" killed by
\* a signal that Judge::evaluate has no case for.
Evidence(o, signal, matches) ==
    CASE Infrastructure(o) -> "infrastructure"
      [] ~Infrastructure(o) /\ TerminatedBySignal(o) ->
           CASE o.tle -> "overtime"
             [] ~o.tle /\ signal = "SIGXCPU" -> "cpuLimit"
             [] ~o.tle /\ signal = "SIGSEGV" -> "segfault"
             [] OTHER -> "unknownSignal"
      [] ~Infrastructure(o) /\ ~TerminatedBySignal(o) /\ ExitsNonZero(o) -> "crashed"
      [] OTHER -> IF matches THEN "passed" ELSE "wrong"

\* Mutant of JudgeVerdict: the output is compared before the exit code is looked at.
JudgeVerdictByOutput(o, signal, matches) ==
    IF TerminatedBySignal(o)
    THEN IF o.tle THEN "TimeLimitExceeded" ELSE "RuntimeError"
    ELSE IF matches THEN "Accepted" ELSE "WrongAnswer"

\* The deadline counts only if a signal ended the program; for a signal that is neither
\* SIGXCPU nor SIGSEGV the verdict is never assigned.
JudgeVerdict(o, signal, matches) ==
    IF TerminatedBySignal(o)
    THEN CASE o.tle \/ signal = "SIGXCPU" -> "TimeLimitExceeded"
           [] ~o.tle /\ signal = "SIGSEGV" -> "RuntimeError"
           [] OTHER -> Unassigned
    ELSE CASE ExitsNonZero(o) -> "RuntimeError"
           [] ~ExitsNonZero(o) /\ ~matches -> "WrongAnswer"
           [] OTHER -> "Accepted"

\* verdict != Verdict::Accepted; comparing an unassigned verdict may give either.
MayDiffer(verdict) == verdict # "Accepted"
MayEqual(verdict)  == verdict \in {"Accepted", Unassigned}

----------------------------------------------------------------------------
\* SubmissionService::evaluate, by the thread that holds the job

NewResult == [compile |-> "none", runs |-> <<>>, failed |-> 0, verdict |-> Unassigned]

\* evaluate() returns the result, and the job is Finished whatever it is.
Returns(t, result) ==
    /\ pc' = [pc EXCEPT ![t] = "returned"]
    /\ held' = [held EXCEPT ![t].result = result, ![t].state = "Finished"]

\* What Compiler::compile makes of a run of g++.
Compiled(o) == IF Infrastructure(o) THEN "infrastructure"
               ELSE IF ExitsNonZero(o) THEN "rejected" ELSE "compiled"

Compile(t) ==
    /\ pc[t] = "taken"
    /\ \E o \in RunOutcomes :
         LET result == [held[t].result EXCEPT !.compile = Compiled(o)]
         IN  IF ExitsNonZero(o)
             THEN Returns(t, [result EXCEPT !.verdict = "CompilationError"])
             ELSE /\ pc' = [pc EXCEPT ![t] = "running"]
                  /\ held' = [held EXCEPT ![t].result = result]
    /\ UNCHANGED <<queueVars, submitted, collected, worker, batch, upto>>

\* Mutant of TestFailed: the loop goes on after a failed test.
TestFailedGoesOn(t, result, verdict) ==
    /\ held' = [held EXCEPT ![t].result =
         [result EXCEPT !.failed = Len(result.runs), !.verdict = verdict]]
    /\ UNCHANGED pc

\* TestRunner::run returns at the first verdict that is not Accepted, which becomes
\* the verdict of the submission.
TestFailed(t, result, verdict) ==
    Returns(t, [result EXCEPT !.failed = Len(result.runs), !.verdict = verdict])

\* One iteration of the loop in TestRunner::run; the ghost `runs` keeps what each test
\* showed, and its length is the index of the loop.
RunTest(t) ==
    /\ pc[t] = "running" /\ Len(held[t].result.runs) < SuiteSize[held[t].job]
    /\ \E o \in RunOutcomes, matches \in BOOLEAN :
         \E signal \in Signals(o) :
           LET verdict == JudgeVerdict(o, signal, matches)
               result == [held[t].result EXCEPT
                            !.runs = Append(@, Evidence(o, signal, matches))]
           IN  \/ MayDiffer(verdict) /\ TestFailed(t, result, verdict)
               \/ /\ MayEqual(verdict)
                  /\ held' = [held EXCEPT ![t].result = result] /\ UNCHANGED pc
    /\ UNCHANGED <<queueVars, submitted, collected, worker, batch, upto>>

\* No failed_test_index: Accepted.
AllPassed(t) ==
    /\ pc[t] = "running" /\ Len(held[t].result.runs) = SuiteSize[held[t].job]
    /\ Returns(t, IF held[t].result.failed = 0
                  THEN [held[t].result EXCEPT !.verdict = "Accepted"] ELSE held[t].result)
    /\ UNCHANGED <<queueVars, submitted, collected, worker, batch, upto>>

----------------------------------------------------------------------------
\* Clients of the queue, and threads that drain it

NewHandle(id, bounded) ==
    [job |-> submitted + 1, id |-> id, state |-> "Created", bounded |-> bounded,
     result |-> NewResult]

\* enqueue() does not look at max_pending_.
EnqueueSubmission ==
    NewJob /\ \E id \in SubmissionIds : Enqueue(NewHandle(id, FALSE))

TryEnqueueSubmission ==
    NewJob /\ \E id \in SubmissionIds : TryEnqueue(NewHandle(id, TRUE))

CancelSubmission   == CancelQueued
CollectSubmissions == CollectCompleted

StartEvaluating(t) == StartDrain(t)
TakeSubmission(t)  == TakeNext(t) \/ NothingToRun(t)
PublishVerdict(t)  == PublishResult(t)
NextBatch(t)       == EndOfBatch(t)

DrainStep(t) == \/ TakeSubmission(t) \/ Compile(t) \/ RunTest(t) \/ AllPassed(t)
                \/ PublishVerdict(t) \/ NextBatch(t)

Init == PoolInit

Next == \/ EnqueueSubmission \/ TryEnqueueSubmission
        \/ CancelSubmission \/ CollectSubmissions
        \/ \E t \in Drainers : StartEvaluating(t) \/ DrainStep(t)

Spec == Init /\ [][Next]_vars

----------------------------------------------------------------------------
\* Properties

Signs == {"passed", "wrong", "crashed", "overtime", "cpuLimit", "segfault",
          "unknownSignal", "infrastructure"}
Results == [compile : {"none", "compiled", "rejected", "infrastructure"},
            runs : Seq(Signs),
            failed : Nat, verdict : Verdicts \cup {Unassigned}]
Submissions == [job : Jobs, id : SubmissionIds, state : ExecutionStates,
                bounded : BOOLEAN, result : Results]

\* The types of the state; no more tests are run than the suite has.
TypeOK ==
    /\ PoolTypeOK(Submissions)
    /\ \A t \in Drainers : held[t] # NoHandle =>
         Len(held[t].result.runs) <= SuiteSize[held[t].job]

\* The results of evaluate(), waiting to be published or published.
Evaluated == {h \in ToSet(completed) \cup {held[t] : t \in Drainers} :
                h # NoHandle /\ h.state = "Finished"}

\* What a test may have shown that the loop of TestRunner::run goes on after: it ended
\* with exit code 0 and the expected output, or was killed by a signal for which
\* Judge::evaluate assigns no verdict and before the deadline.
GoesOn == {"passed", "unknownSignal"}

\* A submission is Accepted only if it compiled and every test of its suite was run and
\* passed, except that a test killed by an unknown signal may count as passed (which
\* StopsAtFirstNonAccepted is about).  So no test that was killed at the time limit, by
\* SIGXCPU or by SIGSEGV, crashed, gave a wrong answer or met a failure of the judge's
\* own infrastructure is ever taken for a success.
AcceptedMeansPassed ==
    \A h \in Evaluated : h.result.verdict = "Accepted" =>
        /\ h.result.compile = "compiled" /\ Len(h.result.runs) = SuiteSize[h.job]
        /\ \A i \in DOMAIN h.result.runs : h.result.runs[i] \in GoesOn

\* The verdict of a submission that compiled and is not Accepted is about the last test
\* that was run, the failed_test_index, which did not pass; it is TimeLimitExceeded just
\* if that test ran out of time.  The tests before it passed or were killed by an
\* unknown signal: the loop stops at the first test that failed in any other way.
FirstFailureDecides ==
    \A h \in Evaluated :
        h.result.compile = "compiled" /\ h.result.verdict # "Accepted" =>
          LET runs == h.result.runs
          IN  /\ runs # <<>> /\ h.result.failed = Len(runs)
              /\ runs[Len(runs)] # "passed"
              /\ h.result.verdict = "TimeLimitExceeded"
                   <=> runs[Len(runs)] \in {"overtime", "cpuLimit"}
              /\ \A i \in 1 .. Len(runs) - 1 : runs[i] \in GoesOn

\* What README.md says of TestRunner, that it "stops at the first non-accepted result":
\* a test that did not pass is the last one run, and fails the submission.
StopsAtFirstNonAccepted ==
    \A h \in Evaluated : \A i \in DOMAIN h.result.runs :
        h.result.runs[i] # "passed" => i = Len(h.result.runs) /\ h.result.failed = i

\* Clients that use tryEnqueue() never have more than max_pending_ jobs pending
\* between them, whatever workers and the clients of enqueue() do.
AdmissionBound ==
    MaxPending # 0 => Cardinality({h \in ToSet(queue) : h.bounded}) <= MaxPending

============================================================================
