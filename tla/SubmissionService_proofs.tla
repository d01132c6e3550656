---------------------- MODULE SubmissionService_proofs ----------------------
(***************************************************************************)
(* Theorems about SubmissionService, for any number of threads, workers,   *)
(* submissions and test cases.                                             *)
(***************************************************************************)
EXTENDS SubmissionService, WorkerPool_proofs

----------------------------------------------------------------------------
\* Records

\* Submissions are handles.
LEMMA SubmissionHandleSet == HandleSet(Submissions)
<1> SUFFICES ASSUME NEW h \in Submissions, NEW s \in {"Running", "Cancelled"}
             PROVE  /\ h.job \in Jobs /\ [h EXCEPT !.state = s] \in Submissions
                    /\ [h EXCEPT !.state = s].job = h.job
                    /\ [h EXCEPT !.state = s].state = s
  BY DEF HandleSet
<1>1. s \in ExecutionStates
  BY DEF ExecutionStates
<1> QED BY <1>1 DEF Submissions

\* The results of run(): the infrastructure fails only where no program has ended.
LEMMA OutcomeFacts ==
    ASSUME NEW o \in RunOutcomes
    PROVE  /\ o.wait \in {"exit0", "exit1", "signal", "killed", "none"}
           /\ Infrastructure(o) => o.wait = "none"
<1> DEFINE A == {Outcome("Finished", "Completed", w, FALSE) : w \in {"exit0", "exit1"}}
           B == {Outcome("Signaled", "Signaled", w, FALSE) : w \in {"signal", "killed"}}
           C == {Outcome("TimedOut", "TimedOut", w, TRUE) : w \in Fates}
           D == {Outcome("SandboxFailed", "SandboxFailure", "none", FALSE),
                 Outcome("RunnerFailed", "RunnerFailure", "none", FALSE)}
           E == {Outcome("Created", s, "none", late) :
                   s \in {"SandboxFailure", "RunnerFailure"}, late \in BOOLEAN}
<1>1. ASSUME NEW s, NEW e, NEW w, NEW b, o = Outcome(s, e, w, b)
      PROVE  o.wait = w /\ o.status = e
  BY <1>1 DEF Outcome
<1>2. CASE o \in A
  <2>1. PICK w \in {"exit0", "exit1"} : o = Outcome("Finished", "Completed", w, FALSE)
    BY <1>2
  <2> QED BY <1>1, <2>1 DEF Infrastructure
<1>3. CASE o \in B
  <2>1. PICK w \in {"signal", "killed"} : o = Outcome("Signaled", "Signaled", w, FALSE)
    BY <1>3
  <2> QED BY <1>1, <2>1 DEF Infrastructure
<1>4. CASE o \in C
  <2>1. PICK w \in Fates : o = Outcome("TimedOut", "TimedOut", w, TRUE)
    BY <1>4
  <2> QED BY <1>1, <2>1 DEF Infrastructure, Fates, ProgramFates
<1>5. CASE o \in D
  BY <1>1, <1>5
<1>6. CASE o \in E
  <2>1. o.wait = "none"
    <3>1. PICK s \in {"SandboxFailure", "RunnerFailure"}, late \in BOOLEAN :
            o = Outcome("Created", s, "none", late)
      BY <1>6
    <3> QED BY <3>1 DEF Outcome
  <2> QED BY <2>1
<1>7. RunOutcomes = A \cup B \cup C \cup D \cup E
  BY DEF RunOutcomes
<1> HIDE DEF A, B, C, D, E
<1> QED BY <1>2, <1>3, <1>4, <1>5, <1>6, <1>7

\* The signs that a test ran out of time.
OutOfTime == {"overtime", "cpuLimit"}

\* What the judge makes of a run, and what the run showed.
LEMMA JudgeFacts ==
    ASSUME NEW o \in RunOutcomes, NEW signal, NEW matches \in BOOLEAN, NEW v, NEW e,
           v = JudgeVerdict(o, signal, matches), e = Evidence(o, signal, matches)
    PROVE  /\ v \in Verdicts \cup {Unassigned} /\ e \in Signs
           /\ MayEqual(v) => e \in GoesOn
           /\ MayDiffer(v) => e # "passed"
           /\ v = "TimeLimitExceeded" <=> e \in OutOfTime
<1>1. /\ o.wait \in {"exit0", "exit1", "signal", "killed", "none"}
      /\ Infrastructure(o) => o.wait = "none"
  BY OutcomeFacts
<1>2. CASE TerminatedBySignal(o)
  <2>1. ~Infrastructure(o)
    BY <1>1, <1>2 DEF TerminatedBySignal
  <2>2. CASE o.tle \/ signal = "SIGXCPU"
    <3>1. e \in OutOfTime
      BY <1>2, <2>1, <2>2 DEF Evidence, OutOfTime
    <3>2. v = "TimeLimitExceeded"
      BY <1>2, <2>2 DEF JudgeVerdict
    <3> QED BY <3>1, <3>2 DEF Verdicts, MayEqual, MayDiffer, Unassigned, OutOfTime, Signs
  <2>3. CASE ~o.tle /\ signal = "SIGSEGV"
    <3>1. e = "segfault"
      BY <1>2, <2>1, <2>3 DEF Evidence
    <3>2. v = "RuntimeError"
      BY <1>2, <2>3 DEF JudgeVerdict
    <3> QED BY <3>1, <3>2 DEF Verdicts, MayEqual, MayDiffer, Unassigned, OutOfTime, Signs
  <2>4. CASE ~(o.tle \/ signal = "SIGXCPU") /\ signal # "SIGSEGV"
    <3>1. e = "unknownSignal"
      BY <1>2, <2>1, <2>4 DEF Evidence
    <3>2. v = Unassigned
      BY <1>2, <2>4 DEF JudgeVerdict
    <3> QED BY <3>1, <3>2 DEF Verdicts, MayEqual, MayDiffer, Unassigned, OutOfTime, Signs, GoesOn
  <2> QED BY <2>2, <2>3, <2>4
<1>3. CASE ~TerminatedBySignal(o) /\ ExitsNonZero(o)
  <2>1. e \in {"infrastructure", "crashed"}
    BY <1>3 DEF Evidence
  <2>2. v = "RuntimeError"
    BY <1>3 DEF JudgeVerdict
  <2> QED BY <2>1, <2>2 DEF Verdicts, MayEqual, MayDiffer, Unassigned, OutOfTime, Signs
<1>4. CASE ~TerminatedBySignal(o) /\ ~ExitsNonZero(o)
  <2>1. ~Infrastructure(o)
    BY <1>1, <1>4 DEF ExitsNonZero
  <2>2. e = IF matches THEN "passed" ELSE "wrong"
    BY <1>4, <2>1 DEF Evidence
  <2>3. v = IF matches THEN "Accepted" ELSE "WrongAnswer"
    BY <1>4 DEF JudgeVerdict
  <2> QED BY <2>2, <2>3 DEF Verdicts, MayEqual, MayDiffer, Unassigned, OutOfTime, Signs, GoesOn
<1> QED BY <1>2, <1>3, <1>4

\* What the compiler makes of a run.
LEMMA CompileFacts ==
    ASSUME NEW o \in RunOutcomes
    PROVE  Compiled(o) = IF ExitsNonZero(o)
                         THEN IF Infrastructure(o) THEN "infrastructure" ELSE "rejected"
                         ELSE "compiled"
<1>1. Infrastructure(o) => o.wait = "none"
  BY OutcomeFacts
<1> QED BY <1>1 DEF Compiled, ExitsNonZero

----------------------------------------------------------------------------
\* The inductive invariant

\* A result while the tests run: none has failed yet.
Passing(h) ==
    /\ h.result.compile = "compiled" /\ h.result.failed = 0 /\ h.result.verdict = Unassigned
    /\ Len(h.result.runs) <= SuiteSize[h.job]
    /\ \A i \in DOMAIN h.result.runs : h.result.runs[i] \in GoesOn

\* What AcceptedMeansPassed and FirstFailureDecides say of one submission.
Judged(h) ==
    /\ h.result.verdict = "Accepted" =>
         /\ h.result.compile = "compiled" /\ Len(h.result.runs) = SuiteSize[h.job]
         /\ \A i \in DOMAIN h.result.runs : h.result.runs[i] \in GoesOn
    /\ h.result.compile = "compiled" /\ h.result.verdict # "Accepted" =>
         /\ h.result.runs # <<>> /\ h.result.failed = Len(h.result.runs)
         /\ h.result.runs[Len(h.result.runs)] # "passed"
         /\ h.result.verdict = "TimeLimitExceeded" <=> h.result.runs[Len(h.result.runs)] \in OutOfTime
         /\ \A i \in 1 .. Len(h.result.runs) - 1 : h.result.runs[i] \in GoesOn

\* Where evaluate() is with the submission h that a thread at p holds.
Stage(p, h) ==
    /\ p = "taken" => h.state = "Running" /\ h.result = NewResult
    /\ p = "running" => h.state = "Running" /\ Passing(h)
    /\ p = "returned" => h.state = "Finished" /\ Judged(h)
                         /\ Len(h.result.runs) <= SuiteSize[h.job]

EvalInv ==
    /\ \A i \in DOMAIN queue : queue[i].result = NewResult
    /\ \A t \in Drainers : held[t] # NoHandle => Stage(pc[t], held[t])
    /\ \A i \in DOMAIN completed : completed[i].state = "Finished" => Judged(completed[i])

SubmissionInv == PoolInv(Submissions) /\ EvalInv

----------------------------------------------------------------------------
\* evaluate()

\* What the steps of evaluate() do: the thread holds the same job, further on.
Evaluates(t) ==
    \E h \in Submissions, p \in {"running", "returned"} :
        /\ h.job = held[t].job /\ h.state # "Cancelled" /\ Stage(p, h)
        /\ held' = [held EXCEPT ![t] = h] /\ pc' = [pc EXCEPT ![t] = p]

\* The submission a thread holds in evaluate().
LEMMA HeldInEvaluate ==
    ASSUME SubmissionInv, NEW t \in Drainers, pc[t] \in {"taken", "running"}
    PROVE  /\ held[t] \in Submissions /\ held[t].result \in Results
           /\ held[t].job \in Jobs /\ held[t].state = "Running"
           /\ SuiteSize[held[t].job] \in Nat /\ Stage(pc[t], held[t])
           /\ held \in [Drainers -> Submissions \cup {NoHandle}]
           /\ pc \in [Drainers -> {"idle", "next", "taken", "running", "returned"}]
<1>1. /\ held \in [Drainers -> Submissions \cup {NoHandle}]
      /\ pc \in [Drainers -> {"idle", "next", "taken", "running", "returned"}]
  BY DEF SubmissionInv, PoolInv, PoolTypeOK
<1>2. held[t] # NoHandle
  BY DEF SubmissionInv, PoolInv, PlaceInv, Holding
<1>3. held[t] \in Submissions /\ Stage(pc[t], held[t])
  BY <1>1, <1>2 DEF SubmissionInv, EvalInv
<1>4. held[t].result \in Results /\ held[t].job \in Jobs
  BY <1>3 DEF Submissions
<1>5. SuiteSize[held[t].job] \in Nat
  BY <1>4, SuiteAssumption
<1>6. held[t].state = "Running"
  BY <1>3 DEF Stage
<1> QED BY <1>1, <1>3, <1>4, <1>5, <1>6

\* The handle when evaluate() returns.
LEMMA ReturnsFacts ==
    ASSUME NEW t \in Drainers, held[t] \in Submissions, NEW r \in Results, Returns(t, r),
           held \in [Drainers -> Submissions \cup {NoHandle}]
    PROVE  \E h \in Submissions :
             /\ h.job = held[t].job /\ h.state = "Finished" /\ h.result = r
             /\ held' = [held EXCEPT ![t] = h] /\ pc' = [pc EXCEPT ![t] = "returned"]
<1> DEFINE h == [held[t] EXCEPT !.result = r, !.state = "Finished"]
<1>1. "Finished" \in ExecutionStates
  BY DEF ExecutionStates
<1>2. h \in Submissions /\ h.job = held[t].job /\ h.state = "Finished" /\ h.result = r
  BY <1>1 DEF Submissions
<1>3. held' = [held EXCEPT ![t] = h] /\ pc' = [pc EXCEPT ![t] = "returned"]
  BY DEF Returns
<1> QED BY <1>2, <1>3

\* Assigning to the result of a handle that stays Running.
LEMMA ResultFacts ==
    ASSUME NEW t \in Drainers, held[t] \in Submissions, NEW r \in Results,
           held \in [Drainers -> Submissions \cup {NoHandle}],
           held' = [held EXCEPT ![t].result = r]
    PROVE  \E h \in Submissions :
             /\ h.job = held[t].job /\ h.state = held[t].state /\ h.result = r
             /\ held' = [held EXCEPT ![t] = h]
<1> DEFINE h == [held[t] EXCEPT !.result = r]
<1>1. h \in Submissions /\ h.job = held[t].job /\ h.state = held[t].state /\ h.result = r
  BY DEF Submissions
<1>2. held' = [held EXCEPT ![t] = h]
  OBVIOUS
<1> QED BY <1>1, <1>2

\* Compiler::compile
LEMMA CompileStep ==
    ASSUME SubmissionInv, NEW t \in Drainers, Compile(t)
    PROVE  Evaluates(t)
<1>1. /\ pc[t] = "taken" /\ held[t] \in Submissions /\ held[t].result \in Results
      /\ held[t].state = "Running"
      /\ SuiteSize[held[t].job] \in Nat /\ held[t].result = NewResult
      /\ held \in [Drainers -> Submissions \cup {NoHandle}]
  BY HeldInEvaluate DEF Compile, Stage
<1>2. PICK o \in RunOutcomes :
        LET result == [held[t].result EXCEPT !.compile = Compiled(o)]
        IN  IF ExitsNonZero(o)
            THEN Returns(t, [result EXCEPT !.verdict = "CompilationError"])
            ELSE /\ pc' = [pc EXCEPT ![t] = "running"]
                 /\ held' = [held EXCEPT ![t].result = result]
  BY DEF Compile
<1> DEFINE r == [held[t].result EXCEPT !.compile = Compiled(o)]
<1>3. /\ r \in Results /\ r.runs = <<>> /\ r.failed = 0 /\ r.verdict = Unassigned
      /\ r.compile = Compiled(o)
  <2>1. Compiled(o) \in {"compiled", "rejected", "infrastructure"}
    BY CompileFacts
  <2>2. r \in Results
    BY <1>1, <2>1 DEF Results
  <2>3. /\ NewResult.runs = <<>> /\ NewResult.failed = 0 /\ NewResult.verdict = Unassigned
        /\ NewResult \in Results
    BY <1>1 DEF NewResult
  <2>4. /\ r.runs = held[t].result.runs /\ r.failed = held[t].result.failed
        /\ r.verdict = held[t].result.verdict /\ r.compile = Compiled(o)
    BY <1>1 DEF Results
  <2> QED BY <1>1, <2>2, <2>3, <2>4
<1>4. CASE ExitsNonZero(o)
  <2> DEFINE s == [r EXCEPT !.verdict = "CompilationError"]
  <2>1. /\ s \in Results /\ s.compile = Compiled(o) /\ s.runs = <<>>
        /\ s.verdict = "CompilationError"
    BY <1>3 DEF Results, Verdicts
  <2>2. Compiled(o) # "compiled"
    BY <1>4, CompileFacts
  <2>3. Returns(t, s)
    BY <1>2, <1>4
  <2> HIDE DEF s, r
  <2>4. PICK h \in Submissions :
          /\ h.job = held[t].job /\ h.state = "Finished" /\ h.result = s
          /\ held' = [held EXCEPT ![t] = h] /\ pc' = [pc EXCEPT ![t] = "returned"]
    BY <1>1, <2>1, <2>3, ReturnsFacts
  <2>5. Judged(h)
    BY <2>1, <2>2, <2>4 DEF Judged
  <2>6. Len(h.result.runs) = 0
    BY <2>1, <2>4
  <2>7. Stage("returned", h)
    BY <1>1, <2>4, <2>5, <2>6 DEF Stage
  <2> QED BY <2>4, <2>7 DEF Evaluates
<1>5. CASE ~ExitsNonZero(o)
  <2>1. Compiled(o) = "compiled"
    BY <1>5, CompileFacts
  <2>2. pc' = [pc EXCEPT ![t] = "running"] /\ held' = [held EXCEPT ![t].result = r]
    BY <1>2, <1>5
  <2> HIDE DEF r
  <2>3. PICK h \in Submissions :
          /\ h.job = held[t].job /\ h.state = held[t].state /\ h.result = r
          /\ held' = [held EXCEPT ![t] = h]
    BY <1>1, <1>3, <2>2, ResultFacts
  <2>4. Len(r.runs) = 0 /\ DOMAIN r.runs = {}
    BY <1>3
  <2>5. Passing(h)
    BY <1>1, <1>3, <2>1, <2>3, <2>4 DEF Passing
  <2>6. Stage("running", h)
    BY <1>1, <2>3, <2>5 DEF Stage
  <2> QED BY <1>1, <2>2, <2>3, <2>6 DEF Evaluates
<1> QED BY <1>4, <1>5

\* One iteration of TestRunner::run
LEMMA RunTestStep ==
    ASSUME SubmissionInv, NEW t \in Drainers, RunTest(t)
    PROVE  Evaluates(t)
<1> DEFINE old == held[t].result  size == SuiteSize[held[t].job]
<1>1. /\ pc[t] = "running" /\ held[t] \in Submissions /\ old \in Results
      /\ held[t].state = "Running" /\ size \in Nat /\ Passing(held[t])
      /\ held \in [Drainers -> Submissions \cup {NoHandle}]
      /\ pc \in [Drainers -> {"idle", "next", "taken", "running", "returned"}]
  BY HeldInEvaluate DEF RunTest, Stage
<1>2. Len(old.runs) < size
  BY DEF RunTest
<1>3. PICK o \in RunOutcomes, matches \in BOOLEAN : \E signal \in Signals(o) :
        LET verdict == JudgeVerdict(o, signal, matches)
            result == [held[t].result EXCEPT !.runs = Append(@, Evidence(o, signal, matches))]
        IN  \/ MayDiffer(verdict) /\ TestFailed(t, result, verdict)
            \/ /\ MayEqual(verdict)
               /\ held' = [held EXCEPT ![t].result = result] /\ UNCHANGED pc
  BY DEF RunTest
<1>a. PICK signal \in Signals(o) :
        LET verdict == JudgeVerdict(o, signal, matches)
            result == [held[t].result EXCEPT !.runs = Append(@, Evidence(o, signal, matches))]
        IN  \/ MayDiffer(verdict) /\ TestFailed(t, result, verdict)
            \/ /\ MayEqual(verdict)
               /\ held' = [held EXCEPT ![t].result = result] /\ UNCHANGED pc
  BY <1>3
<1> DEFINE e == Evidence(o, signal, matches)
           v == JudgeVerdict(o, signal, matches)
           r == [held[t].result EXCEPT !.runs = Append(@, e)]
<1>4. \/ MayDiffer(v) /\ TestFailed(t, r, v)
      \/ MayEqual(v) /\ held' = [held EXCEPT ![t].result = r] /\ UNCHANGED pc
  BY <1>a
<1>5. /\ v \in Verdicts \cup {Unassigned}
      /\ e \in Signs
      /\ MayEqual(v) => e \in GoesOn
      /\ MayDiffer(v) => e # "passed"
      /\ v = "TimeLimitExceeded" <=> e \in OutOfTime
  BY JudgeFacts
<1> HIDE DEF e, v
<1>6. /\ old.compile = "compiled" /\ old.failed = 0 /\ old.verdict = Unassigned
      /\ old.runs \in Seq(Signs)
      /\ \A i \in DOMAIN old.runs : old.runs[i] \in GoesOn
  BY <1>1 DEF Passing, Results
<1>7. /\ Append(old.runs, e) \in Seq(Signs)
      /\ Len(old.runs) \in Nat /\ DOMAIN old.runs = 1 .. Len(old.runs)
      /\ DOMAIN Append(old.runs, e) = 1 .. Len(old.runs) + 1
      /\ \A i \in DOMAIN old.runs : Append(old.runs, e)[i] = old.runs[i]
      /\ Append(old.runs, e)[Len(old.runs) + 1] = e
  <2>1. old.runs \in Seq(Signs) /\ e \in Signs
    BY <1>5, <1>6
  <2> HIDE DEF old
  <2> QED BY <2>1, AppendFacts
<1>8. Len(Append(old.runs, e)) = Len(old.runs) + 1
  BY <1>6, <1>5, AppendProperties
<1>9. /\ r \in Results /\ r.compile = "compiled" /\ r.failed = 0 /\ r.verdict = Unassigned
      /\ r.runs = Append(old.runs, e)
  BY <1>1, <1>6, <1>7 DEF Results
<1> HIDE DEF r
<1>10. CASE MayDiffer(v) /\ TestFailed(t, r, v)
  <2> DEFINE s == [r EXCEPT !.failed = Len(r.runs), !.verdict = v]
  <2>1. /\ s \in Results /\ s.compile = "compiled" /\ s.runs = r.runs /\ s.verdict = v
        /\ s.failed = Len(r.runs)
    <3>1. Len(r.runs) \in Nat
      BY <1>7, <1>8, <1>9
    <3> QED BY <1>5, <1>9, <3>1 DEF Results
  <2>2. Returns(t, s)
    BY <1>10 DEF TestFailed
  <2> HIDE DEF s
  <2>3. PICK h \in Submissions :
          /\ h.job = held[t].job /\ h.state = "Finished" /\ h.result = s
          /\ held' = [held EXCEPT ![t] = h] /\ pc' = [pc EXCEPT ![t] = "returned"]
    BY <1>1, <2>1, <2>2, ReturnsFacts
  <2>4. /\ Len(s.runs) = Len(old.runs) + 1 /\ s.runs[Len(s.runs)] = e
        /\ \A i \in 1 .. Len(s.runs) - 1 : s.runs[i] = old.runs[i] /\ i \in DOMAIN old.runs
    BY <1>7, <1>8, <1>9, <2>1
  <2>5. s.runs # <<>>
    <3>1. Len(s.runs) = Len(old.runs) + 1 /\ Len(old.runs) \in Nat
      BY <1>7, <2>4
    <3>2. Len(<<>>) = 0
      OBVIOUS
    <3> QED BY <3>1, <3>2
  <2>6. v # "Accepted" /\ e # "passed"
    BY <1>5, <1>10 DEF MayDiffer
  <2>7. Judged(h)
    BY <1>5, <1>6, <2>1, <2>3, <2>4, <2>5, <2>6 DEF Judged
  <2>8. Len(h.result.runs) <= SuiteSize[h.job]
    BY <1>1, <1>2, <1>7, <2>3, <2>4
  <2>9. Stage("returned", h)
    BY <2>3, <2>7, <2>8 DEF Stage
  <2> QED BY <2>3, <2>9 DEF Evaluates
<1>11. CASE MayEqual(v) /\ held' = [held EXCEPT ![t].result = r] /\ UNCHANGED pc
  <2>1. PICK h \in Submissions :
          /\ h.job = held[t].job /\ h.state = held[t].state /\ h.result = r
          /\ held' = [held EXCEPT ![t] = h]
    BY <1>1, <1>9, <1>11, ResultFacts
  <2>2. e \in GoesOn
    BY <1>5, <1>11
  <2>3. \A i \in DOMAIN r.runs : r.runs[i] \in GoesOn
    BY <1>6, <1>7, <1>9, <2>2
  <2>4. Len(r.runs) <= size
    BY <1>1, <1>2, <1>7, <1>8, <1>9
  <2>5. Passing(h)
    BY <1>9, <2>1, <2>3, <2>4 DEF Passing
  <2>6. Stage("running", h)
    BY <1>1, <2>1, <2>5 DEF Stage
  <2>7. pc' = [pc EXCEPT ![t] = "running"]
    BY <1>1, <1>11
  <2> QED BY <1>1, <2>1, <2>6, <2>7 DEF Evaluates
<1> QED BY <1>4, <1>10, <1>11

\* The end of TestRunner::run
LEMMA AllPassedStep ==
    ASSUME SubmissionInv, NEW t \in Drainers, AllPassed(t)
    PROVE  Evaluates(t)
<1> DEFINE old == held[t].result
           r == [held[t].result EXCEPT !.verdict = "Accepted"]
<1>1. /\ pc[t] = "running" /\ held[t] \in Submissions /\ old \in Results
      /\ Passing(held[t]) /\ SuiteSize[held[t].job] \in Nat
      /\ held \in [Drainers -> Submissions \cup {NoHandle}]
  BY HeldInEvaluate DEF AllPassed, Stage
<1>2. Len(old.runs) = SuiteSize[held[t].job] /\ Returns(t, r)
  BY <1>1 DEF AllPassed, Passing
<1>3. r \in Results /\ r.compile = old.compile /\ r.runs = old.runs /\ r.verdict = "Accepted"
  BY <1>1 DEF Results, Verdicts
<1> HIDE DEF r
<1>4. PICK h \in Submissions :
        /\ h.job = held[t].job /\ h.state = "Finished" /\ h.result = r
        /\ held' = [held EXCEPT ![t] = h] /\ pc' = [pc EXCEPT ![t] = "returned"]
  BY <1>1, <1>2, <1>3, ReturnsFacts
<1>5. Judged(h)
  BY <1>1, <1>2, <1>3, <1>4 DEF Judged, Passing
<1>6. Len(h.result.runs) <= SuiteSize[h.job]
  BY <1>1, <1>2, <1>3, <1>4
<1>7. Stage("returned", h)
  BY <1>4, <1>5, <1>6 DEF Stage
<1> QED BY <1>4, <1>7 DEF Evaluates

----------------------------------------------------------------------------
\* The pool

\* A job that is admitted has a result of its own, with nothing in it.
LEMMA AdmissionStep ==
    ASSUME SubmissionInv, EnqueueSubmission \/ TryEnqueueSubmission
    PROVE  /\ Admits(Submissions)
           /\ \E id \in SubmissionIds, bounded \in BOOLEAN :
                /\ queue' = Append(queue, NewHandle(id, bounded))
                /\ NewHandle(id, bounded) \in Submissions
                /\ NewHandle(id, bounded).result = NewResult
                /\ NewHandle(id, bounded).bounded = bounded
                /\ bounded /\ MaxPending # 0 => Len(queue) < MaxPending
           /\ UNCHANGED <<completed, pc, held>>
<1>1. PICK id \in SubmissionIds, b \in BOOLEAN :
        NewJob /\ Enqueue(NewHandle(id, b)) /\ (b /\ MaxPending # 0 => Len(queue) < MaxPending)
  BY DEF EnqueueSubmission, TryEnqueueSubmission, TryEnqueue
<1>2. submitted + 1 \in Jobs
  BY <1>1, PoolAssumption DEF NewJob, Jobs, SubmissionInv, PoolInv, PoolTypeOK
<1>3. NewResult \in Results
  <2>1. <<>> \in Seq(Signs)
    OBVIOUS
  <2> QED BY <2>1 DEF NewResult, Results
<1>4. "Created" \in ExecutionStates
  BY DEF ExecutionStates
<1>5. /\ NewHandle(id, b) \in Submissions /\ NewHandle(id, b).result = NewResult
      /\ NewHandle(id, b).bounded = b /\ NewHandle(id, b).job = submitted + 1
  BY <1>2, <1>3, <1>4 DEF NewHandle, Submissions
<1>6. Admits(Submissions)
  BY <1>1, <1>5 DEF Admits
<1>7. queue' = Append(queue, NewHandle(id, b)) /\ UNCHANGED <<completed, pc, held>>
  BY <1>1 DEF Enqueue, NewJob, drainVars
<1> QED BY <1>1, <1>5, <1>6, <1>7

\* Every step of the service is a step of a pool of submissions.
LEMMA ServicePoolStep ==
    ASSUME SubmissionInv, [Next]_vars
    PROVE  PoolStepOf(Submissions)
<1>1. CASE EnqueueSubmission \/ TryEnqueueSubmission
  BY <1>1, AdmissionStep DEF PoolStepOf
<1>2. CASE CancelSubmission \/ CollectSubmissions
  BY <1>2 DEF PoolStepOf, CancelSubmission, CollectSubmissions
<1>3. ASSUME NEW t \in Drainers, Compile(t) \/ RunTest(t) \/ AllPassed(t)
      PROVE  PoolStepOf(Submissions)
  <2>1. Evaluates(t)
    BY <1>3, CompileStep, RunTestStep, AllPassedStep
  <2>2. /\ pc[t] \in {"taken", "running"}
        /\ UNCHANGED <<queueVars, submitted, collected, worker, batch, upto>>
    BY <1>3 DEF Compile, RunTest, AllPassed
  <2>3. Works(t, Submissions)
    BY <2>1, <2>2 DEF Evaluates, Works
  <2> QED BY <2>3 DEF PoolStepOf, Drains
<1>4. ASSUME NEW t \in Drainers,
             StartEvaluating(t) \/ TakeSubmission(t) \/ PublishVerdict(t) \/ NextBatch(t)
      PROVE  PoolStepOf(Submissions)
  BY <1>4 DEF PoolStepOf, Drains, StartEvaluating, TakeSubmission, PublishVerdict, NextBatch
<1>5. CASE UNCHANGED vars
  BY <1>5 DEF vars, PoolStepOf
<1> QED BY <1>1, <1>2, <1>3, <1>4, <1>5 DEF Next, DrainStep

----------------------------------------------------------------------------
\* EvalInv

\* Taking a submission starts it.
LEMMA TakeEvalInv ==
    ASSUME SubmissionInv, NEW t \in Drainers, TakeNext(t), PoolStepOf(Submissions)
    PROVE  EvalInv'
<1>1. /\ held \in [Drainers -> Submissions \cup {NoHandle}] /\ queue \in Seq(Submissions)
      /\ pc \in [Drainers -> {"idle", "next", "taken", "running", "returned"}]
      /\ \A i \in DOMAIN queue : queue[i] \in Submissions
  BY HandleTypes, SubmissionHandleSet DEF SubmissionInv, PoolInv, PoolTypeOK
<1>2. PICK h \in ToSet(queue) : held' = [held EXCEPT ![t] = [h EXCEPT !.state = "Running"]]
  BY DEF TakeNext
<1>3. /\ pc' = [pc EXCEPT ![t] = "taken"] /\ completed' = completed /\ submitted' = submitted
  BY Taken, SubmissionHandleSet DEF TakeNext, SubmissionInv, PoolInv
<1>4. h \in Submissions /\ h.result = NewResult
  BY <1>1 DEF ToSet, SubmissionInv, EvalInv
<1> DEFINE g == [h EXCEPT !.state = "Running"]
<1>5. g.state = "Running" /\ g.result = NewResult
  BY <1>4 DEF Submissions
<1> HIDE DEF g
<1>6. \A u \in Drainers : /\ held'[u] = IF u = t THEN g ELSE held[u]
                         /\ pc'[u] = IF u = t THEN "taken" ELSE pc[u]
  BY <1>1, <1>2, <1>3 DEF g
<1>7. Stage("taken", g)
  BY <1>5 DEF Stage
<1>8. \A u \in Drainers : held'[u] # NoHandle => Stage(pc'[u], held'[u])
  BY <1>6, <1>7 DEF SubmissionInv, EvalInv
<1>9. \A i \in DOMAIN queue' : queue'[i].result = NewResult
  <2>1. \A i \in DOMAIN queue' : \E k \in DOMAIN queue : queue'[i] = queue[k]
    BY <1>3, QueueFrom, SubmissionHandleSet DEF SubmissionInv
  <2> QED BY <2>1 DEF SubmissionInv, EvalInv
<1> QED BY <1>3, <1>8, <1>9 DEF SubmissionInv, EvalInv, Stage, Passing, Judged

\* Publishing a submission that has been judged.
LEMMA PublishEvalInv ==
    ASSUME SubmissionInv, NEW t \in Drainers, PublishResult(t)
    PROVE  EvalInv'
<1>1. /\ pc[t] = "returned" /\ completed' = Append(completed, held[t])
      /\ held' = [held EXCEPT ![t] = NoHandle] /\ pc' = [pc EXCEPT ![t] = "next"]
      /\ queue' = queue
  BY DEF PublishResult, Complete
<1>2. /\ held \in [Drainers -> Submissions \cup {NoHandle}] /\ completed \in Seq(Submissions)
      /\ pc \in [Drainers -> {"idle", "next", "taken", "running", "returned"}]
  BY DEF SubmissionInv, PoolInv, PoolTypeOK
<1>3. held[t] # NoHandle /\ held[t] \in Submissions
  BY <1>1, <1>2 DEF SubmissionInv, PoolInv, PlaceInv, Holding
<1>4. Judged(held[t])
  BY <1>1, <1>3 DEF SubmissionInv, EvalInv, Stage
<1>5. \A i \in DOMAIN completed' :
        completed'[i] = held[t] \/ \E k \in DOMAIN completed : completed'[i] = completed[k]
  BY <1>1, <1>2, <1>3, AppendFacts
<1>6. \A i \in DOMAIN completed' : completed'[i].state = "Finished" => Judged(completed'[i])
  BY <1>4, <1>5 DEF SubmissionInv, EvalInv
<1>7. \A u \in Drainers : held'[u] # NoHandle => held'[u] = held[u] /\ pc'[u] = pc[u]
  BY <1>1, <1>2
<1>8. \A u \in Drainers : held'[u] # NoHandle => Stage(pc'[u], held'[u])
  BY <1>7 DEF SubmissionInv, EvalInv
<1> QED BY <1>1, <1>6, <1>8 DEF SubmissionInv, EvalInv, Stage, Passing, Judged

\* A step of evaluate().
LEMMA EvaluatesEvalInv ==
    ASSUME SubmissionInv, NEW t \in Drainers, Evaluates(t), UNCHANGED queueVars
    PROVE  EvalInv'
<1>1. /\ held \in [Drainers -> Submissions \cup {NoHandle}]
      /\ pc \in [Drainers -> {"idle", "next", "taken", "running", "returned"}]
  BY DEF SubmissionInv, PoolInv, PoolTypeOK
<1>2. PICK h \in Submissions, p \in {"running", "returned"} :
        Stage(p, h) /\ held' = [held EXCEPT ![t] = h] /\ pc' = [pc EXCEPT ![t] = p]
  BY DEF Evaluates
<1>3. \A u \in Drainers : /\ held'[u] = IF u = t THEN h ELSE held[u]
                         /\ pc'[u] = IF u = t THEN p ELSE pc[u]
  BY <1>1, <1>2
<1>4. \A u \in Drainers : held'[u] # NoHandle => Stage(pc'[u], held'[u])
  BY <1>2, <1>3 DEF SubmissionInv, EvalInv
<1>5. queue' = queue /\ completed' = completed
  BY DEF queueVars
<1> QED BY <1>4, <1>5 DEF SubmissionInv, EvalInv, Stage, Passing, Judged

\* The steps that change the queue or the completed submissions only.
LEMMA ClientEvalInv ==
    ASSUME SubmissionInv, PoolStepOf(Submissions),
           \/ EnqueueSubmission \/ TryEnqueueSubmission \/ CancelSubmission \/ CollectSubmissions
    PROVE  EvalInv'
<1>1. held' = held /\ pc' = pc
  BY DEF EnqueueSubmission, TryEnqueueSubmission, CancelSubmission, CollectSubmissions, NewJob,
     CancelQueued, CollectCompleted, drainVars
<1>2. \A u \in Drainers : held'[u] # NoHandle => Stage(pc'[u], held'[u])
  BY <1>1 DEF SubmissionInv, EvalInv
<1>3. queue \in Seq(Submissions) /\ completed \in Seq(Submissions)
  BY DEF SubmissionInv, PoolInv, PoolTypeOK
<1>4. CASE EnqueueSubmission \/ TryEnqueueSubmission
  <2>1. PICK h \in Submissions : queue' = Append(queue, h) /\ h.result = NewResult
    BY <1>4, AdmissionStep
  <2>2. completed' = completed
    BY <1>4, AdmissionStep
  <2>3. \A i \in DOMAIN queue' : queue'[i] = h \/ \E k \in DOMAIN queue : queue'[i] = queue[k]
    BY <1>3, <2>1, AppendFacts
  <2>4. \A i \in DOMAIN queue' : queue'[i].result = NewResult
    BY <2>1, <2>3 DEF SubmissionInv, EvalInv
  <2> QED BY <1>2, <2>2, <2>4 DEF SubmissionInv, EvalInv, Stage, Passing, Judged
<1>5. CASE CancelSubmission
  <2>1. CancelQueued
    BY <1>5 DEF CancelSubmission
  <2>2. PICK g \in Submissions : g.state = "Cancelled" /\ completed' = Append(completed, g)
    BY <2>1, CancelFacts, SubmissionHandleSet DEF SubmissionInv, PoolInv
  <2>3. \A i \in DOMAIN completed' :
          completed'[i] = g \/ \E k \in DOMAIN completed : completed'[i] = completed[k]
    BY <1>3, <2>2, AppendFacts
  <2>4. \A i \in DOMAIN completed' : completed'[i].state = "Finished" => Judged(completed'[i])
    BY <2>2, <2>3 DEF SubmissionInv, EvalInv
  <2>5. submitted' = submitted
    BY <2>1 DEF CancelQueued
  <2>6. \A i \in DOMAIN queue' : \E k \in DOMAIN queue : queue'[i] = queue[k]
    BY <2>5, QueueFrom, SubmissionHandleSet DEF SubmissionInv
  <2>7. \A i \in DOMAIN queue' : queue'[i].result = NewResult
    BY <2>6 DEF SubmissionInv, EvalInv
  <2> QED BY <1>2, <2>4, <2>7 DEF EvalInv, Stage, Passing, Judged
<1>6. CASE CollectSubmissions
  <2>1. queue' = queue /\ completed' = <<>>
    BY <1>6 DEF CollectSubmissions, CollectCompleted, DrainCompleted
  <2> QED BY <1>2, <2>1 DEF SubmissionInv, EvalInv, Stage, Passing, Judged
<1> QED BY <1>4, <1>5, <1>6

\* The steps between batches.
LEMMA IdleEvalInv ==
    ASSUME SubmissionInv, NEW t \in Drainers,
           StartDrain(t) \/ NothingToRun(t) \/ EndOfBatch(t)
    PROVE  EvalInv'
<1>1. UNCHANGED <<queue, completed, held>> /\ pc[t] \in {"idle", "next"}
  BY DEF StartDrain, NothingToRun, EndOfBatch, queueVars
<1>2. held[t] = NoHandle
  BY <1>1 DEF SubmissionInv, PoolInv, PlaceInv, Holding
<1>3. \A u \in Drainers : u # t => pc'[u] = pc[u]
  BY DEF StartDrain, NothingToRun, EndOfBatch, SubmissionInv, PoolInv, PoolTypeOK
<1>4. \A u \in Drainers : held'[u] # NoHandle => Stage(pc'[u], held'[u])
  BY <1>1, <1>2, <1>3 DEF SubmissionInv, EvalInv
<1> QED BY <1>1, <1>4 DEF SubmissionInv, EvalInv, Stage, Passing, Judged

\* SubmissionInv holds initially and is kept by every step.
LEMMA SubmissionInductive == Spec => []SubmissionInv
<1>1. Init => SubmissionInv
  BY PoolInitially, SubmissionHandleSet DEF Init, PoolInit, SubmissionInv, EvalInv
<1>2. SubmissionInv /\ [Next]_vars => SubmissionInv'
  <2> SUFFICES ASSUME SubmissionInv, [Next]_vars PROVE SubmissionInv'
    OBVIOUS
  <2>1. PoolStepOf(Submissions)
    BY ServicePoolStep
  <2>2. PoolInv(Submissions)'
    BY <2>1, PoolInductive, SubmissionHandleSet DEF SubmissionInv
  <2>3. CASE \/ EnqueueSubmission \/ TryEnqueueSubmission \/ CancelSubmission
             \/ CollectSubmissions
    BY <2>1, <2>2, <2>3, ClientEvalInv DEF SubmissionInv
  <2>4. ASSUME NEW t \in Drainers, StartEvaluating(t) \/ DrainStep(t) PROVE EvalInv'
    <3>1. CASE Compile(t) \/ RunTest(t) \/ AllPassed(t)
      <4>1. UNCHANGED queueVars
        BY <3>1 DEF Compile, RunTest, AllPassed
      <4> QED BY <3>1, <4>1, CompileStep, RunTestStep, AllPassedStep, EvaluatesEvalInv
    <3>2. CASE StartEvaluating(t) \/ TakeSubmission(t) \/ PublishVerdict(t) \/ NextBatch(t)
      BY <2>1, <3>2, IdleEvalInv, TakeEvalInv, PublishEvalInv
         DEF StartEvaluating, TakeSubmission, PublishVerdict, NextBatch
    <3> QED BY <2>4, <3>1, <3>2 DEF DrainStep
  <2>5. CASE UNCHANGED vars
    BY <2>2, <2>5 DEF vars, poolVars, SubmissionInv, EvalInv, Stage, Passing, Judged
  <2> QED BY <2>2, <2>3, <2>4, <2>5 DEF Next, SubmissionInv
<1> QED BY <1>1, <1>2, PTL DEF Spec

----------------------------------------------------------------------------
\* Theorems

\* Every variable has its type, and a worker runs no more tests than the suite has.
THEOREM SubmissionTypeCorrect == Spec => []TypeOK
<1>1. SubmissionInv => TypeOK
  <2> SUFFICES ASSUME SubmissionInv, NEW t \in Drainers, held[t] # NoHandle
               PROVE  Len(held[t].result.runs) <= SuiteSize[held[t].job]
    BY DEF SubmissionInv, PoolInv, TypeOK
  <2>1. held[t] \in Submissions
    BY DEF SubmissionInv, PoolInv, PoolTypeOK
  <2>2. SuiteSize[held[t].job] \in Nat
    BY <2>1, SuiteAssumption DEF Submissions
  <2>3. Stage(pc[t], held[t]) /\ pc[t] \in {"taken", "running", "returned"}
    BY DEF SubmissionInv, EvalInv, PoolInv, PoolTypeOK, PlaceInv, Holding
  <2>4. NewResult.runs = <<>>
    BY DEF NewResult
  <2> QED BY <2>2, <2>3, <2>4 DEF Stage, Passing
<1> QED BY <1>1, SubmissionInductive, PTL

\* What EvalInv says of the results that evaluate() has returned.
LEMMA EvaluatedJudged == SubmissionInv => \A h \in Evaluated : Judged(h)
<1> SUFFICES ASSUME SubmissionInv, NEW h \in Evaluated PROVE Judged(h)
  OBVIOUS
<1>1. h # NoHandle /\ h.state = "Finished"
  BY DEF Evaluated
<1>2. (\E i \in DOMAIN completed : h = completed[i]) \/ \E t \in Drainers : h = held[t]
  BY DEF Evaluated, ToSet
<1>3. CASE \E i \in DOMAIN completed : h = completed[i]
  BY <1>1, <1>3 DEF SubmissionInv, EvalInv
<1>4. CASE \E t \in Drainers : h = held[t]
  <2>1. PICK t \in Drainers : h = held[t]
    BY <1>4
  <2>2. Stage(pc[t], h) /\ pc[t] \in {"taken", "running", "returned"}
    BY <1>1, <2>1 DEF SubmissionInv, EvalInv, PoolInv, PoolTypeOK, PlaceInv, Holding
  <2> QED BY <1>1, <2>2 DEF Stage
<1> QED BY <1>2, <1>3, <1>4

\* An Accepted submission compiled, and every test of its suite was run and passed or was
\* killed, before the deadline, by a signal other than SIGXCPU and SIGSEGV; for any suite.
THEOREM AcceptedPassed == Spec => []AcceptedMeansPassed
<1>1. SubmissionInv => AcceptedMeansPassed
  BY EvaluatedJudged DEF AcceptedMeansPassed, Judged
<1> QED BY <1>1, SubmissionInductive, PTL

\* A submission that compiled and is not Accepted stopped at a test that did not pass, of
\* which its verdict is; every test before it passed or was killed by a signal that the
\* judge has no verdict for.
THEOREM FirstFailure == Spec => []FirstFailureDecides
<1>1. SubmissionInv => FirstFailureDecides
  BY EvaluatedJudged DEF FirstFailureDecides, Judged, OutOfTime
<1> QED BY <1>1, SubmissionInductive, PTL

\* The mapping to JobBoard, in every state of the service.
LEMMA SubmissionBoard == SubmissionInv => BoardFacts
BY BoardMap, SubmissionHandleSet DEF SubmissionInv

\* Every submission that was admitted is evaluated once, in order, or cancelled before a
\* worker takes it, and handed out once, although ids may clash.
THEOREM SubmissionsImplementJobBoard == Spec => ImplementsJobBoard
<1>1. Init => Board!Init
  BY BoardInitially DEF Init
<1>2. SubmissionInv /\ SubmissionInv' /\ BoardFacts /\ BoardFacts' /\ [Next]_vars
        => [Board!Next]_BoardStatus
  BY ServicePoolStep, BoardStep, SubmissionHandleSet DEF SubmissionInv
<1> QED BY <1>1, <1>2, SubmissionInductive, SubmissionBoard, PTL
        DEF Spec, ImplementsJobBoard, Board!Spec

\* drainAll() leaves nothing in the queue that was submitted before it was called.
THEOREM SubmissionDrainAllDrains == Spec => DrainAllDrains
<1>1. SubmissionInv /\ [Next]_vars
        => [\A t \in Drainers : pc[t] # "idle" /\ pc'[t] = "idle"
              => \A h \in ToSet(queue) : h.job > upto[t]]_poolVars
  BY ServicePoolStep, AllDrained, SubmissionHandleSet DEF SubmissionInv
<1> QED BY <1>1, SubmissionInductive, PTL DEF Spec, DrainAllDrains

----------------------------------------------------------------------------
\* Admission

BoundedPending == {h \in ToSet(queue) : h.bounded}

\* A sequence has no more elements than its length.
LEMMA ElementsOfSeq ==
    ASSUME NEW H, NEW q \in Seq(H)
    PROVE  IsFiniteSet(ToSet(q)) /\ Cardinality(ToSet(q)) \in Nat /\ Cardinality(ToSet(q)) <= Len(q)
<1>1. Len(q) \in Nat /\ DOMAIN q = 1 .. Len(q) /\ q \in [1 .. Len(q) -> ToSet(q)]
  BY LenProperties DEF ToSet
<1>2. q \in Surjection(1 .. Len(q), ToSet(q))
  BY <1>1 DEF Surjection, ToSet
<1>3. IsFiniteSet(1 .. Len(q)) /\ Cardinality(1 .. Len(q)) = Len(q)
  BY <1>1, FS_Interval
<1>4. IsFiniteSet(ToSet(q)) /\ Cardinality(ToSet(q)) <= Len(q)
  BY <1>2, <1>3, FS_Surjection
<1> QED BY <1>4, FS_CardinalityType

\* tryEnqueue() admits only below the limit; nothing else adds to what is bounded.
LEMMA AdmissionInductive ==
    ASSUME SubmissionInv, AdmissionBound, [Next]_vars
    PROVE  AdmissionBound'
<1> SUFFICES ASSUME MaxPending # 0
             PROVE  Cardinality(BoundedPending') <= MaxPending
  BY DEF AdmissionBound, BoundedPending
<1>1. MaxPending \in Nat /\ queue \in Seq(Submissions) /\ Cardinality(BoundedPending) <= MaxPending
  BY MaxPendingAssumption DEF AdmissionBound, BoundedPending, SubmissionInv, PoolInv, PoolTypeOK
<1> DEFINE m == Cardinality(BoundedPending)
<1>2. IsFiniteSet(BoundedPending) /\ m \in Nat /\ m <= Len(queue) /\ Len(queue) \in Nat
  <2>1. BoundedPending \in SUBSET ToSet(queue)
    BY DEF BoundedPending
  <2>2. /\ IsFiniteSet(ToSet(queue)) /\ Cardinality(ToSet(queue)) \in Nat
        /\ Cardinality(ToSet(queue)) <= Len(queue) /\ Len(queue) \in Nat
    BY <1>1, ElementsOfSeq, LenProperties
  <2>3. IsFiniteSet(BoundedPending) /\ m <= Cardinality(ToSet(queue))
    BY <2>1, <2>2, FS_Subset
  <2>4. m \in Nat
    BY <2>3, FS_CardinalityType
  <2> HIDE DEF m
  <2> QED BY <2>2, <2>3, <2>4
<1>3. CASE BoundedPending' \subseteq BoundedPending
  <2>1. Cardinality(BoundedPending') <= m /\ Cardinality(BoundedPending') \in Nat
    BY <1>2, <1>3, FS_Subset, FS_CardinalityType
  <2> HIDE DEF m
  <2> QED BY <1>1, <1>2, <2>1 DEF m
<1>4. CASE EnqueueSubmission \/ TryEnqueueSubmission
  <2>1. PICK h \in Submissions : /\ queue' = Append(queue, h)
                                 /\ h.bounded => Len(queue) < MaxPending
    BY <1>4, AdmissionStep
  <2>2. \A i \in DOMAIN queue' : queue'[i] = h \/ \E k \in DOMAIN queue : queue'[i] = queue[k]
    BY <1>1, <2>1, AppendFacts
  <2>3. \A g \in ToSet(queue') : g = h \/ g \in ToSet(queue)
    BY <2>2 DEF ToSet
  <2>4. CASE ~h.bounded
    BY <1>3, <2>3, <2>4 DEF BoundedPending
  <2>5. CASE h.bounded
    <3>1. BoundedPending' \in SUBSET (BoundedPending \cup {h})
      BY <2>3 DEF BoundedPending
    <3>2. IsFiniteSet(BoundedPending \cup {h}) /\ Cardinality(BoundedPending \cup {h}) \in {m, m + 1}
      BY <1>2, FS_AddElement
    <3>3. /\ Cardinality(BoundedPending') <= Cardinality(BoundedPending \cup {h})
          /\ Cardinality(BoundedPending') \in Nat
      BY <3>1, <3>2, FS_Subset, FS_CardinalityType
    <3>4. m < MaxPending
      BY <1>1, <1>2, <2>1, <2>5
    <3> HIDE DEF m
    <3> QED BY <1>1, <1>2, <3>2, <3>3, <3>4
  <2> QED BY <2>4, <2>5
<1>5. CASE submitted' = submitted
  <2>1. PoolStepOf(Submissions)
    BY ServicePoolStep
  <2>2. \A i \in DOMAIN queue' : \E k \in DOMAIN queue : queue'[i] = queue[k]
    BY <1>5, <2>1, QueueFrom, SubmissionHandleSet DEF SubmissionInv
  <2>3. BoundedPending' \subseteq BoundedPending
    BY <2>2 DEF BoundedPending, ToSet
  <2> QED BY <1>3, <2>3
<1>6. EnqueueSubmission \/ TryEnqueueSubmission \/ submitted' = submitted
  BY DEF Next, DrainStep, CancelSubmission, CancelQueued, CollectSubmissions, CollectCompleted,
     StartEvaluating, StartDrain, TakeSubmission, TakeNext, NothingToRun, Compile, RunTest,
     AllPassed, PublishVerdict, PublishResult, NextBatch, EndOfBatch, vars, poolVars
<1> QED BY <1>4, <1>5, <1>6

\* Whatever the number of clients, those that use tryEnqueue() have at most max_pending_
\* submissions pending between them.
THEOREM AdmissionIsBounded == Spec => []AdmissionBound
<1>1. Init => AdmissionBound
  <2> SUFFICES ASSUME Init PROVE AdmissionBound
    OBVIOUS
  <2>1. {h \in ToSet(queue) : h.bounded} = {}
    BY DEF Init, PoolInit, ToSet
  <2>2. Cardinality({h \in ToSet(queue) : h.bounded}) = 0
    BY <2>1, FS_EmptySet
  <2> QED BY <2>2, MaxPendingAssumption DEF AdmissionBound
<1>2. SubmissionInv /\ AdmissionBound /\ [Next]_vars => AdmissionBound'
  BY AdmissionInductive
<1> QED BY <1>1, <1>2, SubmissionInductive, PTL DEF Spec

============================================================================
