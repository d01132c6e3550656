-------------------------- MODULE ExecutionResult --------------------------
(***************************************************************************)
(* struct ExecutionResult (include/common/execution_result.hpp): what      *)
(* ProcessRunner::run returns and the scheduler, the compiler, the test    *)
(* runner and the judge consume.                                           *)
(*                                                                         *)
(* RunOutcomes is the contract between them.  ProcessRunner is checked     *)
(* against it (OutcomeContract), and the modules above run() take every    *)
(* result from it, so that they are composed without running four          *)
(* processes per test case.                                                *)
(***************************************************************************)

\* enum class ExecutionState
ExecutionStates == {"Created", "Starting", "Running", "Finished", "TimedOut", "Signaled",
                    "Failed", "SandboxFailed", "RunnerFailed", "Cancelled"}

\* How a process ended: normally with code 0 or another, or by a signal;
\* "killed" is SIGKILL from cgroup.kill, kill() or outside.
ProgramFates == {"exit0", "exit1", "signal"}
Fates == ProgramFates \cup {"killed"}

\* The fields later components look at.  wait is the wait status that
\* finalize_status puts into exit_code, terminated_by_signal and signal_number;
\* "none" if it never ran, which leaves exit_code = 1 and no signal.
Outcome(state, status, wait, tle) ==
    [state |-> state, status |-> status, wait |-> wait, tle |-> tle]

\* The results run() returns.  A failure after Ready assigns the status only: the
\* state is still Created.
RunOutcomes ==
    {Outcome("Finished", "Completed", w, FALSE) : w \in {"exit0", "exit1"}} \cup
    {Outcome("Signaled", "Signaled", w, FALSE) : w \in {"signal", "killed"}} \cup
    {Outcome("TimedOut", "TimedOut", w, TRUE) : w \in Fates} \cup
    {Outcome("SandboxFailed", "SandboxFailure", "none", FALSE),
     Outcome("RunnerFailed", "RunnerFailure", "none", FALSE)} \cup
    {Outcome("Created", s, "none", late) :
        s \in {"SandboxFailure", "RunnerFailure"}, late \in BOOLEAN}

\* execution.exit_code # 0 and execution.terminated_by_signal
ExitsNonZero(o) == o.wait # "exit0"
TerminatedBySignal(o) == o.wait \in {"signal", "killed"}

\* The judge's own infrastructure failed, not the program.
Infrastructure(o) == o.status \in {"SandboxFailure", "RunnerFailure"}

============================================================================
