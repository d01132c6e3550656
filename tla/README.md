# A TLA+ model of the online judge

This directory holds TLA+ modules that model how the judge runs one submitted
program, how it queues and schedules executions and submissions, and how it comes to
a verdict, TLC configurations that check them on small instances, and TLAPS proofs
of theorems that hold for every value of the constants. `PROJECT.json` lists the
components, the runs, the mutants that show each property can fail, the source
lines every definition stands for, the hazards, the findings and the theorems.

Paths below are relative to the repository's `src/` (so `src/runner/...` is
`src/src/runner/...` in `PROJECT.json`).

## 1. Inventory

| Part | Source | State | Operations |
|---|---|---|---|
| ProcessRunner | `src/runner/process_runner.cpp` | open descriptors, `input_offset`, outputs, `termination_requested`, `submission_finished`, the result | `run()`: handshake, poll loop, deadline, two cleanup paths |
| Supervisor | same file, the `supervisor_pid == 0` branch | `termination_requested`, `startup_status_open`, forwarded status | prepare, create, monitor, terminate, report |
| Sandbox | `src/sandbox/sandbox.cpp` | `cgroup_path_`, `root_path_` | cgroup life cycle; child A; child B |
| Protocol | `src/common/sandbox_protocol.cpp` | none | messages on the control socket, records on the status pipe |
| Execution queue, scheduler, workers | `include/runner/execution_scheduler.hpp` | pending and completed handles | enqueue, dequeue, complete, cancel, drain |
| Submission queue, workers | `include/submission/submission_service.hpp` | the same for submissions | the same |
| SubmissionService, Compiler, TestRunner, Judge | `src/submission`, `src/compiler`, `src/testrunner`, `src/judge` | none | compile, run the suite, verdict |
| TestSuite, Verdict, `main` | `include/testcase`, `src/verdict`, `src/main.cpp` | data | access, text |

How the parts interact. `run()` forks a supervisor. The supervisor creates the
execution cgroup, forks child A, puts A into the cgroup and releases it through a
pipe. A enters the namespaces and forks child B, PID 1 of the new PID namespace,
which builds the file system view and execs the program. Five channels connect
them: the control socket (runner and supervisor, but A and B inherit the
supervisor's end, and A writes some failures to it), the status pipe (A and B to
the supervisor), the sync pipe, the three standard streams, and the cgroup, which
runner and supervisor both kill and remove. The queues call `run()` from workers;
the submission pipeline calls it for the compiler and for each test.

What is hard. Four processes share descriptors by inheritance, so an end of file
does not mean what it seems to; messages are two writes and interleave; A and B
are born while the supervisor acts; the deadline races the normal end; every
process may fail at every step and the others must still end, contain the program
and say what happened. What makes it correct: the program never runs outside the
cgroup, termination reaches it, nothing survives `run()`, the reported end is the
program's own, output is complete, failures are told apart, and `run()` returns.

`PROJECT.json` "hazards" lists these one by one with their lines.

## 2. Modules

| Module | Models |
|---|---|
| `Execution` | constants, all state variables, the kernel as `src/` uses it: liveness, inherited descriptors, cgroup membership, SIGKILL, writes to a closed stream |
| `Sandbox` | `setupCgroup`, `addProcessToCgroup`, `terminate`, `cleanupCgroup`; child A and child B from fork to exit; the submitted program |
| `Supervisor` | the supervisor from `prepareEnvironment` to `_exit` |
| `ProcessRunner` | `run()` in the judge process, the composition `Next`, the properties |
| `MCProcessRunner` | hosts and fault profiles for TLC |
| `ProcessRunner_proofs` | types, containment, termination, reaping |
| `Streams_proofs` | stdin offset and conservation of output |
| `ExecutionResult` | `struct ExecutionResult` and `RunOutcomes`, the contract between `run()` and what uses it |
| `StatusPipe`, `MCStatusPipe` | the status pipe byte by byte: `send_message`, `write_wait_status`, `read_status_pipe` |
| `JobBoard` | the abstract specification of a job queue with workers |
| `JobQueue` | `ExecutionQueue`; `SubmissionQueue` is the same code |
| `WorkerPool` | the worker pools' `drainOnce` and `drainAll` in several threads, the refinement mapping to `JobBoard` |
| `ExecutionId` | `generateExecutionId` on bit vectors |
| `ExecutionScheduler`, `MCExecutionScheduler` | the scheduler over `WorkerPool`: `submit`, `runNext`, what a `run()` does to the whole process |
| `SubmissionService`, `MCSubmissionService` | the submission queue over `WorkerPool`; `evaluate`, Compiler, TestRunner, Judge |
| `Outcome_proofs` | what `run()` returns: survivors, resources, the reported end, the contract |
| `StatusPipe_proofs` | framing of the status pipe |
| `WorkerPool_proofs` | lemmas about queue and pool for any set of handles: places of a job, the refinement of `JobBoard`, `drainAll` |
| `ExecutionScheduler_proofs` | refinement, `drainAll`, ids, nesting of the SIGPIPE guards |
| `SubmissionService_proofs` | refinement, `drainAll`, admission, verdicts |

How they are composed. `Execution`, `Sandbox`, `Supervisor` and `ProcessRunner` are
one execution with its four processes. `StatusPipe` looks into one of its channels:
what `Supervisor` does with a record in one step (`SupStatus`, `StageRead`) is shown
there to be what bytes arriving in pieces amount to. Above `run()` an execution is its
result: `OutcomeContract` says that `run()` returns only members of `RunOutcomes` (proved;
in `core` TLC reaches all fourteen), and the scheduler and the submission service
take every result from that set. `WorkerPool` holds what both pools share; the two
modules that extend it add what a worker does with the job it holds.

In the execution core one variable `rpc`, `spc`, `apc`, `bpc` per process says where it
is; an action is what a process does between two points at which another one can be
noticed (a system call on a shared object). The correspondence of every action to its
lines is in the "map".

Abstractions, and why they lose nothing the properties see:

- A message is a header and a payload, sent by two writes. The control socket is a
  sequence of 8-byte words, because A and the supervisor may interleave on it:
  Ready's payload is two words, SetupFailed's one. Terminated is the last thing ever
  sent, so its payload is one item. A word read in the wrong place is what its bytes
  say: the second word of Ready read as a header is no known type, a header read as a
  payload is a payload.
- The status pipe carries a tag and a status, a bare failure payload, or a failure
  with a header. The reader knows two kinds, and takes a header for a stage
  (`StageRead`).
- A wait status is exit 0, another exit code, a signal, or SIGKILL.
- stdin is counted in bytes with the width of `size_t` (`SizeMod`), because
  `input_offset` is unsigned and the EPIPE path adds -1 to it. stdout and stderr are
  counted in chunks of one `read()`.
- The deadline has passed or not (`late`). The bounded waits of one second are one
  step that may see the awaited condition or not.
- A host is the set of cgroup operations it denies with EPERM or EACCES: the code
  then clears `cgroup_path_` and goes on without a cgroup.
- A fault profile is the set of kinds of failure that may happen in a behaviour:
  `setup` (a setup call), `io` (poll, read, write, open), `busy` (rmdir stays EBUSY),
  `sup` and `childA` (killed from outside). Nothing has to happen.
- Mount, pivot_root, dup2, setrlimit and exec either all succeed or one fails; what
  matters is which stage it reports on which channel.
- EINTR loops, figures of resource usage and exit code values are left out.

Above `run()`:

- A member function of a queue holds the mutex from its first line to its last, and is
  one step. The repository creates no threads of its own; the mutex says that callers
  may, so `Drainers` are threads that call `drainAll()`, each on a pool of its own over
  the shared queue, and submitting, cancelling and collecting are steps of any thread.
- A handle has an id, a state and the number of the job it stands for. The number is
  not in the code: ids may clash (submission ids are a hash xored with a clock
  reading), numbers do not. `collected` counts how often a job was handed out. The
  request is left out, and so are results the queue does not look at.
- `run()` in `ExecutionScheduler` takes an id (a second one: the id of the handle is not
  the one in the cgroup's name) and sets SIGPIPE aside; `RunReturns` restores it.
- An id is a function from bit numbers to bits. Ids may clash, in the model as in the
  code: nothing is assumed of clock, counter and widths that would keep them apart. The
  ghosts `drawn` and `ticket` remember the value of the counter an id was made from.
- `MaxJobs` ends the submissions, which the code does not. What depends on it,
  `DrainReturns`, says so in its premise.
- A submission is the size of its suite; a test is whether the output matched. A signal
  is SIGXCPU, SIGSEGV, SIGKILL or another (`Signals`); for the last two, before the
  deadline, `Judge::evaluate` assigns no verdict, and comparing the unassigned verdict
  with Accepted may go either way. The ghost `runs` keeps what each test showed, with the
  kinds of signals told apart as the judge tells them apart (`Evidence`).
- Compiling changes nothing the judge sees. `run("g++", ...)` executes in the sandbox,
  whose root is a private directory with `/lib`, `/usr` and `/bin` read-only: the
  executable is looked up relative to the judge's directory, the source is not visible
  and `solution_exec` is not written next to it. So compiling is its result only.
- In `StatusPipe` a write is atomic (at most PIPE_BUF bytes), a read returns any part of
  what is there, integers have their four bytes, and A and B may be killed between two
  writes. A tells nothing on this pipe if it fails on the control socket (`AEnds`). A
  `read()` that fails with something other than EINTR is left out: the code then reports
  Error wherever it is.

External code (the kernel, the submitted program) is modelled from its use in `src/`
and marked external in the map. The program may write, read, exit or do nothing, in
any order.

## 3. Runs

Times are for two workers.

| Run | Expect | What it shows |
|---|---|---|
| `core` | pass | types, eight safety properties and three of liveness on five kinds of hosts under four fault profiles (390 000 states, 2 min 40 s) |
| `core_io` | pass | stream properties with input 3, buffer 2, two chunks per output stream and pipes of one chunk (2.2 million states, 1 min) |
| `scheduler` | pass | three executions, two draining threads (246 000 states, 3 min): refinement of `JobBoard`, `drainAll`, ids, SIGPIPE |
| `submission` | pass | two submissions, a queue bound of one, suites of two tests and of none (69 000 states, 15 s): verdicts, admission, refinement |
| `framing` | pass | the status pipe, all record shapes and deaths (1 200 states) |
| `output_lost` | violation | output still in the pipe is dropped when Terminated is handled |
| `setup_failure_masked` | violation | a setup failure is reported as a normal exit |
| `partial_setup_leak` | violation | cgroup and descriptors left by a setup failure |
| `cleanup_failure_hidden` | violation | RunnerFailure while the program is alive |
| `supervisor_death` | violation | `run()` never returns after the supervisor's death |
| `unjudged_signal` | violation | a test killed by a signal the judge has no case for is taken for Accepted |
| `stage_lost` | violation | the header of a setup failure is taken for its stage and error code |

The properties:

- `SupervisorReaped`, `NoSurvivor`, `SuccessReleasesResources`: the cleanup
  invariants of `docs/architecture.md` section 11. `NoSurvivor` is also checked on
  degraded hosts, where only the chain of `waitpid` calls establishes it; if A is
  killed from outside there, nothing reaches B, and the property does not claim it.
- `ExecContained`: the containment order of `docs/context.md`, for child B, which
  nobody attaches.
- `TerminationEffective`: after the supervisor acted on Terminate nothing of the
  workload is alive or born.
- `FaithfulExit`: the reported end is B's. It travels twice, through the status pipe
  and through A's own exit, and either may be lost to the race of poll and wait4.
- `CleanupReportSound`: where the result of `cleanup_after_failure` is used, it is
  right.
- `InputOffsetSane`, `OutputConserved`: the stream loop.
- `OutcomeContract`: `run()` returns a member of `RunOutcomes`. A state of Created, for
  which `isFinished` is false for ever, comes only with a failure of the judge's own.
- `Returns`, `DeadlineEnforced`: liveness where nothing is denied and the supervisor is
  not killed from outside, the second also without I/O errors, because a failed write of
  `cgroup.kill` is not repeated; `ReturnsAfterProgram`: liveness on every host and under
  every fault.
- `ImplementsJobBoard`: `JobBoard!Spec` under the mapping `BoardStatus`, which says of
  each job where it is: in the deque, on a worker's stack, in the vector, handed out.
  A job in no place or in two is "astray", which `JobBoard` has no step to. Hence no
  job is lost, run twice, both cancelled and run, started out of order or handed out
  twice. It is checked in `scheduler` with concurrent drainers and in `submission`
  with clashing ids, where `cancel` removes the first of two.
- `DrainAllDrains`: `drainAll()` does not return before everything submitted before the
  call has left the queue, although others take and add jobs. `BacklogServed`: that
  backlog does leave the queue, whatever is added behind it. `DrainReturns`:
  `drainAll()` returns once submitting is over; while it goes on, `while (batch != 0)`
  need not end, and no property claims that it does.
- `UniqueIds`: ids are told apart by the counter, through fields that overlap, from any
  thread and at any clock reading; they clash only for counter values that agree in the
  bits below the clock's, or in 1, which stands for 0. The ids of the run are so short
  that both happen.
- `OutermostGuardHolds`: see the proofs. It is what the code gives; a `run()` that
  started later loses the protection when the first one ends.
- `AcceptedMeansPassed`, `FirstFailureDecides`: a verdict is about what was run. A test
  that ran out of time, was ended by SIGXCPU or SIGSEGV, crashed, answered wrongly or met
  a failed sandbox is never passed over, and TimeLimitExceeded means that time ran out.
  Both tolerate one thing, a test killed before the deadline by a signal the judge has no
  case for, which is what `StopsAtFirstNonAccepted` finds; the second does not say which
  verdict a failed sandbox gets (see section 4).
- `AdmissionBound`: `tryEnqueue` keeps its bound next to clients of `enqueue`.
- `WholeRecords`, `FailureComesFirst`, `ErrorMeansTorn`, `ReaderReturns`: what the
  supervisor gets from the status pipe is one write, whole and the right one, and it is
  not left blocked in it. For `report_failure` that write is stage and error code; for
  `failSetup` it is the header, which `StageIdentified` finds.

Bounds. The execution is one; everything in it is finite except the streams. Input 1
(`core`) makes stdin open, close and break; input 3 with buffer 2 (`core_io`) has a
full and a partial chunk, and 8 for `SizeMod` makes -1 wrap to a value above the
input. Two chunks and a pipe of one make the program block on a full pipe. More
chunks repeat the same loop; the stream properties are proved without bound. Kinds of
faults are combined where the code makes them meet (A's death and EBUSY), else one
profile each, which keeps `core` small; `AllHosts` has each denied operation alone
(a host that denies mkdir denies the rest in effect) and kill with rmdir. Behaviours
end in `Returned`, so deadlock checking is on in every run: a state where nobody can
move although `run()` has not returned would be reported.

`scheduler`: three executions over pools of two workers and of one give full, partial
and empty batches, a second batch, and two overlapping `run()`s with a third job waiting
or cancelled; there is one result, since neither queue nor pool looks at it, and one clock
reading. Ids have two bits: the three executions draw six values of the counter, of which
1 and 5 agree in both bits, and the fields of 2 cancel out, so that ids clash, and `cancel`
meets clashing ids. After the third submission nobody submits, which is where
`DrainReturns` applies. `UniqueIds` was also checked with two readings and ids of four
bits for two executions (39 000 states).
`submission`: every result of `run()` for compiler and tests, two jobs, the
least that can clash, fill a queue of one and be judged in one batch; one draining
thread, because `evaluate` shares nothing between threads and the queue does so in
`scheduler`. `framing`: a wait status whose second byte is the tag, and the stage that
has the number of the message type.

Fairness. `FairSpec` assumes that the kernel schedules the runner, the supervisor, A and
B (before exec) and that the clock advances. Nothing is assumed of the program or of a
crash, and no fault is forced: a failure is either an alternative to a step that
succeeds, or, like `PollFails`, an action without fairness. On a host that denies
`cgroup.kill` a program that never ends is never stopped, by the design of the degraded
mode: `Returns` and `DeadlineEnforced` are about hosts that deny nothing, and leave the
supervisor's death to `supervisor_death`. In `scheduler` a thread that has called
`drainAll()` is scheduled and every `run()` returns, which is `Returns`; nobody has to
submit, cancel, collect or drain. In `framing` A, B's writes and the supervisor are
scheduled; the program need not end.

## 4. Findings

Each is a run whose one property states what a document or test says.

1. `output_lost`: `close_pipes()` on Terminated (line 1034) drops what stdout and
   stderr still hold. The test `CapturesLargeStdout` expects all of it.
2. `setup_failure_masked`: poll, then wait4 (line 386) without polling again; a record
   in between is lost and a failed setup is Completed with exit code 1.
3. `partial_setup_leak`: no `cleanupCgroup()` after a failed mkdtemp (line 191), and
   three pipe ends left open on every failure before Ready.
4. `cleanup_failure_hidden`: five callers discard `cleanup_after_failure()`.
5. `supervisor_death`: A holds the control socket open, so the runner neither sees the
   supervisor's death nor gets an answer to Terminate, and does not escalate.
6. `unjudged_signal`: for a signal that is neither SIGXCPU nor SIGSEGV, before the
   deadline, `Judge::evaluate` leaves `JudgeResult::verdict`, which has no initializer,
   unassigned. `TestRunner` may take it for Accepted and go on, while the repository's
   README says that it "stops at the first non-accepted result" (line 87).
7. `stage_lost`: `failSetup` writes a header to the status pipe, whose reader expects a
   bare payload: whatever failed, the supervisor learns of stage Namespace with error 8.
   The repository's README says that setup failures "identify the stage and underlying
   error code" (line 193).

Seen while modelling, without a run: `compile()` and the judge look at `exit_code`
alone, which is 1 after a sandbox or runner failure, so that a failed sandbox becomes
CompilationError or RuntimeError and `Verdict::InternalError` is never assigned, while
`docs/context.md` line 1135 says to treat infrastructure failures separately; `g++`
cannot work in the sandbox as `compile()` calls it (see section 2), so that every
submission is CompilationError unless the judge's directory holds a file `g++`;
`docs/context.md` line 495 wants one identity per execution, while a scheduled one has
two ids; a program that exits correctly at the deadline is TimedOut for the scheduler
and Accepted for the judge.

## 5. Proofs

Assumptions, all named, in the module that declares the constants, and evaluated by TLC
in every run of that module: `ConfigAssumption` in `Execution` (sizes are naturals, the
input fits in a `size_t`, buffer and pipe are not empty; hosts and fault profiles are
arbitrary sets of the operations and faults there are), `PoolAssumption` (every pool has
a worker; the default is two, and the constructor would accept none, with which
`drainAll()` does nothing), `MaxPendingAssumption`, `SuiteAssumption` (sizes are
naturals), `IdAssumption` (widths of the fields), `SchedulerAssumption` (`run()` keeps
its contract, which `ContractKept` proves) and `StatusPipeAssumption`. The last one says
that no setup stage has the number of the tag: the enum has eleven values.

| Theorem | States | Argument |
|---|---|---|
| `TypeCorrect` | `Spec => []TypeOK` (`ProcessRunner`) | inductive; one step per action, sequences and arithmetic split off |
| `ContainedExecution` | `Spec => []ExecContained` | `ContainmentInv` |
| `TerminationKills` | `Spec => []TerminationEffective` | `TerminationInv`, using `ContainmentInv` |
| `SupervisorAlwaysReaped` | `Spec => []SupervisorReaped` | `ReapInv` |
| `NobodySurvives` | `Spec => []NoSurvivor` | `OutcomeInv`: a success means Ended, Ended means reaped and dead |
| `ResourcesReleased` | `Spec => []SuccessReleasesResources` | `OutcomeInv` |
| `ExitIsFaithful` | `Spec => []FaithfulExit` | `OutcomeInv`, along the way of the status |
| `ContractKept` | `Spec => []OutcomeContract` | `OutcomeInv`, the result as it is built |
| `CleanupReportIsSound` | `Spec => []CleanupReportSound` | `OutcomeInv` and `ContainmentInv` |
| `InputNeverOverrun` | `Spec => []InputOffsetSane` | `StreamInv` |
| `OutputNeverLostWhileOpen` | `Spec => []OutputConserved` | `StreamInv` |
| `FramingTypeCorrect` | `Spec => []TypeOK` (`StatusPipe`) | inductive |
| `RecordsAreWhole`, `FailureIsFirst`, `ErrorIsTorn` | `Spec => []WholeRecords`, `[]FailureComesFirst`, `[]ErrorMeansTorn` | `WriterInv`, `ReaderInv` |
| `SchedulerImplementsJobBoard`, `SubmissionsImplementJobBoard` | `Spec => ImplementsJobBoard` | `PoolInv`, step by step |
| `SchedulerDrainAllDrains`, `SubmissionDrainAllDrains` | `Spec => DrainAllDrains` | `DrainInv` |
| `SchedulerTypeCorrect`, `IdsAreUnique` | `Spec => []TypeOK`, `[]UniqueIds` | `SchedulerInv` |
| `OutermostGuard` | `Spec => []OutermostGuardHolds` | `GuardInv` |
| `SubmissionTypeCorrect`, `AcceptedPassed`, `FirstFailure` | `Spec => []TypeOK`, `[]AcceptedMeansPassed`, `[]FirstFailureDecides` | `SubmissionInv` |
| `AdmissionIsBounded` | `Spec => []AdmissionBound` | the set of bounded handles grows only where the deque is short |

The strengthenings say why the code is right. Each was checked with TLC as an invariant
before it was proved, those of the core also with all faults in one behaviour and every
set of denied operations (7 million states).

Containment, termination, reaping. `ContainmentInv`: the release byte is what orders
things. It is written only after the attachment; A is past the sync pipe only if it was
written; B exists only if A was; and fork inherits the cgroup. `TerminationInv`:
`cgroup_path_` is still set while the supervisor monitors, so `terminate()` acts, and by
`ContainmentInv` its kill covers A and B; a dead A forks nobody. `ReapInv`:
`cleanup_before_ready` reaps before it touches the cgroup, and `submission_finished`
implies that `finish_supervisor_terminal` has run or is running. `StreamInv`: nothing has
moved before the fork, descriptors are only ever closed afterwards, and the -1 of the
EPIPE path is added together with the close.

The result of `run()`. `OutcomeInv` follows the end of the program up to the caller, one
part per channel, because no property of the result is inductive by itself. `ChildInv`: A
forwards only what it reaped, and a cgroup kill that hits A hits B. `StatusInv`: in the
status pipe nothing but B's wait status follows a tag, so a forwarded status is B's.
`WireInv`: in the control socket nothing but its payload follows the header of Terminated,
although A writes to the same socket, because A is reaped by then; and nobody is past
Ready unless the release byte was written. `EndedInv`: from the moment the supervisor is
about to send Terminated, A is reaped, B is dead, the cgroup is gone and what is sent is
B's end; where a cgroup operation is denied, B is dead because A waited for it. `FaithInv`:
a monitored A that is dead ended as B did, unless Terminate was sent, a setup stage
failed or A was killed. `ContainedInv`: what `cleanup_after_failure` takes for contained
has no process left. `ResultInv`: how the fields of the result and the descriptors depend
on where `run()` is. The parts need each other (`EndedInv` uses all but the last two), so
they are proved in one induction.

The status pipe. Induction over data is out of reach, and is not needed: at most four
writes are ever made, and the reader stops at the first failure. `WriterInv` says which
writes are still to come: B's report before its end, A's forwarded status after it.
`ReaderInv` splits by the first write. After a failure, buffer and pipe together begin
with that record, whatever follows; after a tag, they are the bytes of the status or
nothing, and nothing follows. The first byte tells the two apart since no failure begins
with the tag. That powers of 256 are positive, which the provers do not know, is a
conjunct of the assumption.

Queue and pools. `WorkerPool_proofs` is about any set of handles, and the scheduler and
the submission service each show that their steps are steps of it. `PlaceInv`: every
admitted job is in exactly one of the deque, a worker's hands, the vector or the past, and
the deque ascends in job numbers; then `BoardStatus` is never "astray" and each step maps
to a step of `JobBoard` or a stutter. `DrainInv`: a batch in which nothing was processed
found the deque empty, and what came later has higher numbers than the call's `upto`.
`IdInv`: live handles and `run()`s under way were drawn with different values of the
counter, all below the next one; the bits of an id below the clock's are those of its
value, unless the id is the 1 that replaces 0. So equal ids mean equal low bits.
`GuardInv`: at most one guard that is alive has found SIG_DFL,
because while there is one the disposition is SIG_IGN and every later guard finds that; so
a guard that ends gives SIG_DFL back only if it is that one. `EvalInv`: while the tests of
a submission run, none has shown anything but a pass or an unknown signal, because every
other sign gets a verdict that is not Accepted; and a published verdict is about what was
run.

Only model-checked: liveness under fairness, which is out of the prover's reach
(`Returns`, `ReturnsAfterProgram`, `DeadlineEnforced`, `BacklogServed`, `DrainReturns`,
`ReaderReturns`). That numbers less than 2^16 apart differ in one of 16 bits, which turns
`IdsAreUnique` into a bound on the number of ids, needs an induction and is not proved.
Every invariant and every
safety action property of the passing runs is proved.

## 6. Plan

Done: the execution core, the status pipe at byte level, queues, pools, scheduler and
submission pipeline; all their invariants and the refinement of `JobBoard` proved. Next:

1. What `JobBoard` promises, proved of `JobBoard` itself (each job is handed out at most
   once, a cancelled job never starts), so that clients can use it alone.
2. An abstract specification of the status pipe as a channel of records, refined by
   `StatusPipe`, to make the step from bytes to `SupStatus` a theorem.
3. The hazards that have a note instead of a property, where a module can reach them.

## 7. Not modelled

`main` (one call of `run()` and printing) and verdict text (`to_string` knows three of the
seven verdicts); `TestSuite` beyond its size (a vector that is filled before it is used and
read within bounds); `pendingCount` and `isFinished`, which change nothing; contents of
mounts and of `/proc`; resource limits as the kernel enforces them (they appear as a
signal); `rusage` figures; `read_setup_failure` and `Sandbox::isCgroupEmpty` (no caller);
`cleanupRoot` and `cleanupMounts` (declared, not defined: the temporary root of an
execution is never removed). Two executions are not composed process by process: their
four processes each and the descriptors that the later one inherits from the earlier are
out of TLC's reach, so that `ExecutionScheduler` knows a concurrent `run()` by its result,
its id and its SIGPIPE guard only. Milliseconds are not modelled, so that the narrowing of
the poll timeout to `int` is not; all limits in the repository are at most 60 s.
