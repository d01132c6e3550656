--------------------------- MODULE ProcessRunner ---------------------------
(***************************************************************************)
(* ProcessRunner::run in the judge process (src/runner/process_runner.cpp) *)
(* composed with the supervisor, child A, child B and the program: one     *)
(* execution from fork to the returned ExecutionResult.                    *)
(***************************************************************************)
EXTENDS Supervisor

Init ==
    /\ denied \in Hosts /\ faults \in Profiles /\ late = FALSE
    /\ rpc = "start" /\ fds = {} /\ rev = {} /\ rterm = FALSE /\ finished = FALSE
    /\ rstatus = "none" /\ reports = FALSE /\ contained = FALSE
    /\ inOff = 0 /\ captured = [s \in Streams |-> 0]
    /\ result = [state |-> "Created", status |-> "RunnerFailure",
                 wait |-> "none", tle |-> FALSE]
    /\ spc = "none" /\ srev = {} /\ sterm = FALSE /\ statusOpen = TRUE
    /\ fwd = "none" /\ swait = "none" /\ failure = "None" /\ path = FALSE
    /\ apc = "none" /\ astat = "none" /\ bpc = "none" /\ bstat = "none"
    /\ failedAt = "None"
    /\ cgroup = FALSE /\ members = {} /\ root = FALSE
    /\ synced = FALSE /\ up = <<>> /\ down = 0 /\ spipe = <<>>
    /\ pipe = [s \in {"in"} \cup Streams |-> 0]
    /\ produced = [s \in Streams |-> 0]

\* The wall clock reaches the deadline.
Tick ==
    /\ ~late /\ late' = TRUE
    /\ UNCHANGED <<hostVars, runnerVars, supVars, childVars, cgVars, wireVars, streamVars>>

Return(state, status) ==
    /\ rpc' = "done"
    /\ result' = [result EXCEPT !.state = state, !.status = status]

----------------------------------------------------------------------------
\* The cgroup operations of the runner, on the path built from execution_id.

\* kill_execution_cgroup: an absent cgroup or a denied write counts as killed.
KillExecutionCgroup(ok) ==
    \/ ok  /\ (~cgroup \/ "kill" \in denied) /\ Kill({})
    \/ ok  /\ cgroup /\ "kill" \notin denied /\ Kill(LiveMembers)
    \/ ~ok /\ cgroup /\ "kill" \notin denied /\ "io" \in faults /\ Kill({})

\* Mutant of ExecutionCgroupEmpty: only whether cgroup.events can be read.
CgroupReadable(empty) == empty = cgroup

\* is_execution_cgroup_empty: cgroup.events of an absent cgroup cannot be read, and
\* that of a present one may fail to open or read; both count as not empty.
ExecutionCgroupEmpty(empty) ==
    \/ empty = (cgroup /\ LiveMembers = {})
    \/ ~empty /\ "io" \in faults

\* Mutant of KillAndReapSupervisor: SIGKILL without waitpid.
KillSupervisorOnly == spc' = IF SupAlive THEN "dead" ELSE spc

\* SIGKILL and waitpid of a supervisor that is not known to be dead.
KillAndReapSupervisor == spc' = "reaped"

\* cleanup_execution_cgroup
CleanupExecutionCgroup(ok) ==
    \/ ok  /\ (~cgroup \/ "rmdir" \in denied) /\ UNCHANGED cgroup
    \/ ok  /\ cgroup /\ "rmdir" \notin denied /\ LiveMembers = {} /\ cgroup' = FALSE
    \/ ~ok /\ cgroup /\ "rmdir" \notin denied
           /\ (LiveMembers # {} \/ "busy" \in faults) /\ UNCHANGED cgroup

----------------------------------------------------------------------------
\* Before Ready

\* socketpair, three pipes, fork; the parent closes control_socket[1].
Start ==
    /\ rpc = "start"
    /\ \/ rpc' = "ready" /\ spc' = "prepare"
          /\ fds' = RunnerEnds \cup ChildEnds /\ UNCHANGED result
       \/ "setup" \in faults /\ Return("RunnerFailed", "RunnerFailure")
          /\ UNCHANGED <<fds, spc>>
    /\ UNCHANGED <<hostVars, late, rev, rterm, finished, rstatus, reports, contained,
                   inOff, captured, srev, sterm, statusOpen, fwd, swait, failure, path,
                   childVars, cgVars, wireVars, streamVars>>

\* read() finds nothing and never will: every holder of control_socket[1] is gone.
\* A message of n words cannot be completed.
ControlEof(n) == Len(up) < n /\ ~ControlPeer

\* receive_message: the header, which says how many words follow, ...
ReceiveHeader ==
    /\ rpc = "ready"
    /\ \/ up # <<>> /\ up' = Tail(up)
          /\ rpc' = IF Head(up) = Header("Ready") THEN "readyPayload" ELSE "failedPayload"
       \/ ControlEof(1) /\ rpc' = "killSupervisor" /\ UNCHANGED up
    /\ UNCHANGED <<hostVars, late, fds, rev, rterm, finished, rstatus, reports, contained,
                   inOff, captured, result, supVars, childVars, cgVars, synced, down,
                   spipe, streamVars>>

\* ... and the payload.  Ready: the children's ends are closed, and stdin too if
\* there is no input.  SetupFailed: the control socket is closed.
ReceivePayload ==
    /\ \/ rpc = "readyPayload" /\ Len(up) > 1 /\ up' = Tail(Tail(up)) /\ rpc' = "loop"
          /\ fds' = fds \ (ChildEnds \cup (IF InputLen = 0 THEN {"in1"} ELSE {}))
       \/ rpc = "failedPayload" /\ up # <<>> /\ up' = Tail(up) /\ rpc' = "failedReap"
          /\ fds' = fds \ {"ctl0"}
       \/ /\ \/ rpc = "readyPayload" /\ ControlEof(2)
             \/ rpc = "failedPayload" /\ ControlEof(1)
          /\ rpc' = "killSupervisor" /\ UNCHANGED <<up, fds>>
    /\ UNCHANGED <<hostVars, late, rev, rterm, finished, rstatus, reports, contained,
                   inOff, captured, result, supVars, childVars, cgVars, synced, down,
                   spipe, streamVars>>

\* waitpid(supervisor) after SetupFailed.  The children's ends stay open.
ReapAfterSetupFailed ==
    /\ rpc = "failedReap" /\ spc = "dead" /\ spc' = "reaped"
    /\ fds' = fds \ RunnerEnds
    /\ Return("SandboxFailed", "SandboxFailure")
    /\ UNCHANGED <<hostVars, late, rev, rterm, finished, rstatus, reports, contained,
                   inOff, captured, srev, sterm, statusOpen, fwd, swait, failure, path,
                   childVars, cgVars, wireVars, streamVars>>

\* cleanup_before_ready: SIGKILL and waitpid the supervisor, kill the cgroup, wait
\* for it to empty, remove it; its result is ignored by every caller.
KillSupervisor ==
    /\ rpc = "killSupervisor" /\ rpc' = "killCgroup" /\ KillAndReapSupervisor
    /\ UNCHANGED <<hostVars, late, fds, rev, rterm, finished, rstatus, reports, contained,
                   inOff, captured, result, srev, sterm, statusOpen, fwd, swait, failure,
                   path, childVars, cgVars, wireVars, streamVars>>

KillCgroupBeforeReady ==
    /\ rpc = "killCgroup"
    /\ \E ok \in BOOLEAN :
         /\ KillExecutionCgroup(ok)
         /\ IF ok THEN rpc' = "awaitEmpty" /\ UNCHANGED <<fds, result>>
                  ELSE fds' = fds \ RunnerEnds /\ Return("SandboxFailed", "SandboxFailure")
    /\ UNCHANGED <<hostVars, late, rev, rterm, finished, rstatus, reports, contained,
                   inOff, captured, supVars, failedAt, cgVars, wireVars, streamVars>>

RemoveCgroupBeforeReady ==
    /\ rpc = "awaitEmpty"
    /\ \E empty, ok \in BOOLEAN :
         /\ ExecutionCgroupEmpty(empty)
         /\ IF empty THEN CleanupExecutionCgroup(ok) ELSE UNCHANGED cgroup
    /\ fds' = fds \ RunnerEnds
    /\ Return("SandboxFailed", "SandboxFailure")
    /\ UNCHANGED <<hostVars, late, rev, rterm, finished, rstatus, reports, contained,
                   inOff, captured, supVars, childVars, members, root, wireVars, streamVars>>

----------------------------------------------------------------------------
\* The main loop.  rev holds the events of the last poll(); those whose descriptor
\* is still open are handled in the order control, stdin, stdout, stderr.

FdOf == [ctl |-> "ctl0", in |-> "in1", inHup |-> "in1", out |-> "out0", err |-> "err0"]
Pending == {e \in rev : FdOf[e] \in fds}
StreamsOpen == fds \cap {"in1", "out0", "err0"} # {}

\* Mutant of DeadlineDue: the clock is only looked at while stdin is open.
DeadlineDueWithStdin == late /\ ~finished /\ ~rterm /\ "in1" \in fds

\* The condition of the first `if` of the loop.
DeadlineDue == late /\ ~finished /\ ~rterm

Pollable ==
    {e \in DOMAIN FdOf :
        /\ FdOf[e] \in fds
        /\ CASE e = "ctl"   -> up # <<>> \/ ~ControlPeer
             [] e = "in"    -> StdioPeer /\ pipe["in"] < PipeCap
             [] e = "inHup" -> ~StdioPeer
             [] OTHER       -> pipe[e] > 0 \/ ~StdioPeer}

\* Enter cleanup_after_failure from a caller that (r) does or does not turn its
\* result into result.status.
FailWith(r) == rpc' = "failure" /\ reports' = r

\* The deadline: send Terminate, once, and close stdin.
Deadline ==
    /\ rpc = "loop" /\ Pending = {} /\ DeadlineDue
    /\ IF ControlPeer
       THEN /\ down' = down + 1 /\ rterm' = TRUE
            /\ result' = [result EXCEPT !.tle = TRUE]
            /\ fds' = fds \ {"in1"} /\ UNCHANGED <<rpc, reports>>
       ELSE FailWith(FALSE) /\ UNCHANGED <<down, rterm, result, fds>>
    /\ UNCHANGED <<hostVars, late, rev, finished, rstatus, contained, inOff, captured,
                   supVars, childVars, cgVars, synced, up, spipe, streamVars>>

\* poll().  A timeout with no event changes nothing and is not a step.
Poll ==
    /\ rpc = "loop" /\ Pending = {} /\ ~DeadlineDue /\ (~finished \/ StreamsOpen)
    /\ Pollable # {} /\ rev' = Pollable
    /\ UNCHANGED <<hostVars, late, rpc, fds, rterm, finished, rstatus, reports, contained,
                   inOff, captured, result, supVars, childVars, cgVars, wireVars,
                   streamVars>>

\* poll() fails.  An action of its own, so that fairness never makes it happen.
PollFails ==
    /\ rpc = "loop" /\ Pending = {} /\ ~DeadlineDue /\ (~finished \/ StreamsOpen)
    /\ "io" \in faults /\ FailWith(TRUE)
    /\ UNCHANGED <<hostVars, late, fds, rev, rterm, finished, rstatus, contained, inOff,
                   captured, result, supVars, childVars, cgVars, wireVars, streamVars>>

\* The control event: a header of a known type, or EOF or anything else.
HandleControl ==
    /\ rpc = "loop" /\ "ctl" \in Pending /\ rev' = rev \ {"ctl"}
    /\ \/ up # <<>> /\ Head(up) = Header("SetupFailed") /\ up' = Tail(up)
          /\ rpc' = "lateFailedPayload" /\ UNCHANGED reports
       \/ up # <<>> /\ Head(up) = Header("Terminated") /\ up' = Tail(up)
          /\ rpc' = "terminatedPayload" /\ UNCHANGED reports
       \/ up # <<>> /\ Head(up) \notin {Header("SetupFailed"), Header("Terminated")}
          /\ up' = Tail(up) /\ FailWith(FALSE)
       \/ up = <<>> /\ FailWith(FALSE) /\ UNCHANGED up
    /\ UNCHANGED <<hostVars, late, fds, rterm, finished, rstatus, contained, inOff,
                   captured, result, supVars, childVars, cgVars, synced, down, spipe,
                   streamVars>>

\* SetupFailed after Ready: payload, waitpid(supervisor), close_pipes.  Only
\* result.status is assigned; result.state stays Created.
LateSetupFailed ==
    /\ rpc = "lateFailedPayload"
    /\ \/ up # <<>> /\ up' = Tail(up) /\ fds' = fds \ {"ctl0"}
          /\ rpc' = "lateFailedReap" /\ UNCHANGED reports
       \/ ControlEof(1) /\ FailWith(TRUE) /\ UNCHANGED <<up, fds>>
    /\ UNCHANGED <<hostVars, late, rev, rterm, finished, rstatus, contained, inOff,
                   captured, result, supVars, childVars, cgVars, synced, down, spipe,
                   streamVars>>

ReapAfterLateSetupFailed ==
    /\ rpc = "lateFailedReap" /\ spc = "dead" /\ spc' = "reaped"
    /\ fds' = fds \ RunnerEnds
    /\ Return(result.state, "SandboxFailure")
    /\ UNCHANGED <<hostVars, late, rev, rterm, finished, rstatus, reports, contained,
                   inOff, captured, srev, sterm, statusOpen, fwd, swait, failure, path,
                   childVars, cgVars, wireVars, streamVars>>

\* Terminated: payload, then finish_supervisor_terminal, finalize_status and
\* close_pipes, whatever is left in the pipes.
TerminatedReceived ==
    /\ rpc = "terminatedPayload"
    /\ \/ up # <<>> /\ up' = Tail(up) /\ rstatus' = Head(up).of /\ finished' = TRUE
          /\ fds' = fds \ {"ctl0"} /\ rpc' = "terminatedReap" /\ UNCHANGED reports
       \/ ControlEof(1) /\ FailWith(TRUE) /\ UNCHANGED <<up, rstatus, finished, fds>>
    /\ UNCHANGED <<hostVars, late, rev, rterm, contained, inOff, captured, result,
                   supVars, childVars, cgVars, synced, down, spipe, streamVars>>

ReapAfterTerminated ==
    /\ rpc = "terminatedReap" /\ spc = "dead" /\ spc' = "reaped" /\ rpc' = "loop"
    /\ result' = [result EXCEPT !.wait = rstatus]
    /\ fds' = fds \ {"in1", "out0", "err0"}
    /\ UNCHANGED <<hostVars, late, rev, rterm, finished, rstatus, reports, contained,
                   inOff, captured, srev, sterm, statusOpen, fwd, swait, failure, path,
                   childVars, cgVars, wireVars, streamVars>>

\* Mutant of StdinChunk: no min() with what remains.
WholeChunk == ChunkSize

\* std::min(remaining, IO_BUFFER_SIZE)
StdinChunk == IF InputLen - inOff < ChunkSize THEN InputLen - inOff ELSE ChunkSize

\* stdin: write the next chunk; EPIPE closes it, and -1 is added to input_offset.
HandleStdin ==
    /\ rpc = "loop" /\ "ctl" \notin Pending /\ Pending \cap {"in", "inHup"} # {}
    /\ rev' = rev \ {"in", "inHup"}
    /\ \/ /\ CASE "inHup" \in Pending ->
                    fds' = fds \ {"in1"} /\ UNCHANGED <<inOff, pipe>>
               [] "inHup" \notin Pending /\ StdioPeer ->
                    /\ pipe' = [pipe EXCEPT !["in"] = @ + 1]
                    /\ inOff' = (inOff + StdinChunk) % SizeMod
                    /\ fds' = IF inOff' = InputLen THEN fds \ {"in1"} ELSE fds
               [] OTHER ->
                    /\ inOff' = (inOff + SizeMod - 1) % SizeMod
                    /\ fds' = fds \ {"in1"} /\ UNCHANGED pipe
          /\ UNCHANGED <<rpc, reports>>
       \/ /\ "inHup" \notin Pending /\ "io" \in faults /\ FailWith(TRUE)
          /\ UNCHANGED <<inOff, pipe, fds>>
    /\ UNCHANGED <<hostVars, late, rterm, finished, rstatus, contained, captured, result,
                   supVars, childVars, cgVars, wireVars, produced>>

\* Mutant of ReadChunk: what is read from stderr is appended to stdout_output.
ReadChunkIntoStdout(s) ==
    /\ pipe' = [pipe EXCEPT ![s] = @ - 1]
    /\ captured' = [captured EXCEPT !["out"] = @ + 1]

\* read() and append
ReadChunk(s) ==
    /\ pipe' = [pipe EXCEPT ![s] = @ - 1]
    /\ captured' = [captured EXCEPT ![s] = @ + 1]

\* stdout, then stderr: read a chunk; EOF closes it.
HandleStream(s) ==
    /\ rpc = "loop" /\ s \in Pending
    /\ Pending \subseteq (IF s = "out" THEN {"out", "err"} ELSE {"err"})
    /\ rev' = rev \ {s}
    /\ \/ /\ IF pipe[s] > 0
             THEN ReadChunk(s) /\ UNCHANGED fds
             ELSE fds' = fds \ {ReadEnd[s]} /\ UNCHANGED <<pipe, captured>>
          /\ UNCHANGED <<rpc, reports>>
       \/ "io" \in faults /\ FailWith(TRUE) /\ UNCHANGED <<pipe, captured, fds>>
    /\ UNCHANGED <<hostVars, late, rterm, finished, rstatus, contained, inOff, result,
                   supVars, childVars, cgVars, wireVars, produced>>

\* Mutant of Finish: the signal is looked at before wall_time_limit_exceeded.
FinishSignalFirst ==
    /\ rpc = "loop" /\ Pending = {} /\ finished /\ ~StreamsOpen
    /\ CASE rstatus \in {"signal", "killed"} -> Return("Signaled", "Signaled")
         [] rstatus \notin {"signal", "killed"} /\ result.tle -> Return("TimedOut", "TimedOut")
         [] OTHER -> Return("Finished", "Completed")
    /\ UNCHANGED <<hostVars, late, fds, rev, rterm, finished, rstatus, reports, contained,
                   inOff, captured, supVars, childVars, cgVars, wireVars, streamVars>>

\* Finished and every stream closed: the result.
Finish ==
    /\ rpc = "loop" /\ Pending = {} /\ finished /\ ~StreamsOpen
    /\ CASE result.tle -> Return("TimedOut", "TimedOut")
         [] ~result.tle /\ rstatus \in {"signal", "killed"} -> Return("Signaled", "Signaled")
         [] OTHER -> Return("Finished", "Completed")
    /\ UNCHANGED <<hostVars, late, fds, rev, rterm, finished, rstatus, reports, contained,
                   inOff, captured, supVars, childVars, cgVars, wireVars, streamVars>>

----------------------------------------------------------------------------
\* cleanup_after_failure

\* Close stdin, ask the supervisor to terminate.
FailureStart ==
    /\ rpc = "failure" /\ rpc' = "failureWait"
    /\ IF "ctl0" \in fds /\ ControlPeer
       THEN down' = down + 1 /\ rterm' = TRUE /\ fds' = fds \ {"in1"}
       ELSE fds' = fds \ {"in1", "ctl0"} /\ UNCHANGED <<down, rterm>>
    /\ UNCHANGED <<hostVars, late, rev, finished, rstatus, reports, contained, inOff,
                   captured, result, supVars, childVars, cgVars, synced, up, spipe, streamVars>>

\* Wait up to a second for it to exit.
FailureWait ==
    /\ rpc = "failureWait" /\ rpc' = "failureKill"
    /\ spc' = IF SupAlive THEN spc ELSE "reaped"
    /\ UNCHANGED <<hostVars, late, fds, rev, rterm, finished, rstatus, reports, contained,
                   inOff, captured, result, srev, sterm, statusOpen, fwd, swait, failure,
                   path, childVars, cgVars, wireVars, streamVars>>

\* Kill the cgroup.
FailureKill ==
    /\ rpc = "failureKill"
    /\ \E ok \in BOOLEAN :
         KillExecutionCgroup(ok) /\ rpc' = IF ok THEN "failureEmpty" ELSE "failureReap"
    /\ UNCHANGED <<hostVars, late, fds, rev, rterm, finished, rstatus, reports, contained,
                   inOff, captured, result, supVars, failedAt, cgVars, wireVars, streamVars>>

\* Wait up to a second for it to be empty.
FailureEmpty ==
    /\ rpc = "failureEmpty" /\ rpc' = "failureReap"
    /\ \E empty \in BOOLEAN : ExecutionCgroupEmpty(empty) /\ contained' = empty
    /\ UNCHANGED <<hostVars, late, fds, rev, rterm, finished, rstatus, reports, inOff,
                   captured, result, supVars, childVars, cgVars, wireVars, streamVars>>

\* SIGKILL and waitpid the supervisor if it was not reaped; remove the cgroup if
\* it was contained; close what is open.
FailureReap ==
    /\ rpc = "failureReap" /\ KillAndReapSupervisor
    /\ fds' = fds \ RunnerEnds
    /\ \E removed \in BOOLEAN :
         /\ IF contained THEN CleanupExecutionCgroup(removed)
                         ELSE ~removed /\ UNCHANGED cgroup
         /\ Return(result.state, IF reports /\ ~removed THEN "SandboxFailure"
                                                       ELSE "RunnerFailure")
    /\ UNCHANGED <<hostVars, late, rev, rterm, finished, rstatus, reports, contained,
                   inOff, captured, srev, sterm, statusOpen, fwd, swait, failure, path,
                   childVars, members, root, wireVars, streamVars>>

RunnerStep ==
    \/ Start \/ ReceiveHeader \/ ReceivePayload \/ ReapAfterSetupFailed
    \/ KillSupervisor \/ KillCgroupBeforeReady \/ RemoveCgroupBeforeReady
    \/ Deadline \/ Poll \/ HandleControl \/ LateSetupFailed \/ ReapAfterLateSetupFailed
    \/ TerminatedReceived \/ ReapAfterTerminated \/ HandleStdin
    \/ (\E s \in Streams : HandleStream(s)) \/ Finish
    \/ FailureStart \/ FailureWait \/ FailureKill \/ FailureEmpty \/ FailureReap

RunnerNext == RunnerStep \/ PollFails

\* run() has returned and every process it started has ended.
Returned == rpc = "done" /\ ~SupAlive /\ ~AAlive /\ ~BAlive /\ UNCHANGED vars

Next == \/ Tick \/ RunnerNext \/ SupNext \/ SupCrash
        \/ ChildANext \/ ChildACrash \/ ChildBNext \/ ProgramNext \/ Returned

Spec == Init /\ [][Next]_vars

\* The kernel schedules every runnable process and the clock advances.  Nothing is
\* assumed of the submitted program, nor of a crash.
Fairness == /\ WF_vars(Tick) /\ WF_vars(RunnerStep) /\ WF_vars(SupNext)
            /\ WF_vars(ChildANext) /\ WF_vars(ChildBNext)
FairSpec == Spec /\ Fairness

----------------------------------------------------------------------------
\* Properties

RunnerStates == {"start", "ready", "readyPayload", "failedPayload", "failedReap",
    "killSupervisor", "killCgroup", "awaitEmpty", "loop", "lateFailedPayload",
    "lateFailedReap", "terminatedPayload", "terminatedReap", "failure", "failureWait",
    "failureKill", "failureEmpty", "failureReap", "done"}
SupervisorStates == {"none", "prepare", "fork", "attach", "release", "nochild", "ready",
    "readyPayload", "poll", "events", "terminated", "terminatedPayload", "failedWait",
    "failed", "failedPayload", "fail", "failKill", "dead", "reaped"}
ChildAStates == {"none", "sync", "setup", "ctlHeader", "ctlPayload", "stHeader",
    "stPayload", "waitB", "fwdTag", "fwdStatus", "fail", "exit", "dead", "reaped"}
ChildBStates == {"none", "setup", "fsHeader", "fsPayload", "raw", "fail", "running",
    "dead", "reaped"}
MaybeFate == Fates \cup {"none"}
MessageTypes == {"Ready", "SetupFailed", "Terminated"}

\* A word of the control socket carries any of these, a record of the status pipe
\* what its kind says.
Tokens == MessageTypes \cup {"WaitStatus"} \cup Stages \cup MaybeFate
Words == [kind : {"header", "pids", "id", "failed", "terminated"}, of : Tokens]
StatusRecords == {Header("SetupFailed"), Tag} \cup [kind : {"failed"}, of : Stages]
                   \cup [kind : {"status"}, of : MaybeFate]
Results ==
    [state : {"Created", "Finished", "TimedOut", "Signaled", "SandboxFailed",
              "RunnerFailed"},
     status : {"Completed", "TimedOut", "Signaled", "SandboxFailure", "RunnerFailure"},
     wait : Tokens, tle : BOOLEAN]

\* The types of the state of one run().  (That a supervisor never takes half of a
\* forwarded wait status for a setup stage is more than a type, hence MaybeFate.)
TypeOK ==
    /\ denied \in Hosts /\ faults \in Profiles /\ late \in BOOLEAN
    /\ rpc \in RunnerStates /\ spc \in SupervisorStates
    /\ apc \in ChildAStates /\ bpc \in ChildBStates
    /\ fds \subseteq RunnerEnds \cup ChildEnds
    /\ rev \subseteq DOMAIN FdOf /\ srev \subseteq {"ctl", "status"}
    /\ rterm \in BOOLEAN /\ finished \in BOOLEAN /\ reports \in BOOLEAN
    /\ contained \in BOOLEAN /\ sterm \in BOOLEAN /\ statusOpen \in BOOLEAN
    /\ path \in BOOLEAN /\ cgroup \in BOOLEAN /\ root \in BOOLEAN /\ synced \in BOOLEAN
    /\ rstatus \in Tokens /\ fwd \in Tokens /\ swait \in Tokens
    /\ astat \in MaybeFate /\ bstat \in MaybeFate
    /\ failure \in Stages \cup MaybeFate /\ failedAt \in Stages
    /\ result \in Results
    /\ members \subseteq {"A", "B"}
    /\ up \in Seq(Words) /\ spipe \in Seq(StatusRecords) /\ down \in Nat
    /\ inOff \in 0 .. SizeMod - 1
    /\ pipe \in [{"in"} \cup Streams -> Nat]
    /\ captured \in [Streams -> Nat] /\ produced \in [Streams -> Nat]

Succeeded == rpc = "done" /\ result.status \in {"Completed", "Signaled", "TimedOut"}

\* "every child is reaped": whatever path run() returns by, normal, setup failure,
\* cleanup_before_ready or cleanup_after_failure, it leaves no supervisor behind,
\* running or zombie.
SupervisorReaped == rpc = "done" => spc \in {"none", "reaped"}

\* "The Submission must never be allowed to continue into the execution path
\* before containment has been established": where the host lets the judge create
\* and populate cgroups, child B is in the execution cgroup from its fork on,
\* although nobody ever writes B's pid to cgroup.procs and A forks it concurrently
\* with the supervisor.
ExecContained ==
    bpc # "none" /\ denied \cap {"mkdir", "procs"} = {} => "B" \in members

\* Once the supervisor has acted on Terminate (terminate() returned true), neither
\* A nor B is alive, and A cannot fork B afterwards.
TerminationEffective ==
    sterm /\ denied \cap {"mkdir", "procs", "kill"} = {} => ~AAlive /\ ~BAlive

\* "no submission process remains": a result that claims the program ended means
\* that it did, even on hosts that deny cgroup operations.  A killed from outside
\* is survived only through the cgroup.
NoSurvivor ==
    Succeeded /\ ("childA" \in faults => denied = {}) => apc = "reaped" /\ ~BAlive

\* "execution FDs are closed", "execution cgroup is cleaned": a successful result
\* leaves no descriptor open and, where nothing is denied, no cgroup.
SuccessReleasesResources ==
    Succeeded => fds = {} /\ (denied = {} => ~cgroup)

\* The reported cause of the end is B's, through A's forwarding, the status pipe,
\* the supervisor's own wait4 and the Terminated message: neither a lost record
\* nor a race between poll and wait4 replaces it.
FaithfulExit ==
    /\ Succeeded /\ ~result.tle /\ failedAt = "None" /\ "childA" \notin faults
    => /\ result.wait = bstat
       /\ result.status = "Signaled" <=> bstat \in {"signal", "killed"}

\* cleanup_after_failure's result, where its caller looks at it: RunnerFailure (not
\* SandboxFailure) means the workload is contained.
CleanupReportSound ==
    /\ rpc = "done" /\ reports /\ result.status = "RunnerFailure"
    /\ denied \cap {"mkdir", "procs"} = {}
    => ~AAlive /\ ~BAlive

\* What run() returns is one of the results the scheduler, the compiler and the
\* judge are modelled against: a wait status is reported only together with a
\* status that says the program ended, a deadline that passed is never reported as
\* Completed or Signaled, and no message read in the wrong place becomes a result.
OutcomeContract == rpc = "done" => result \in RunOutcomes

\* While stdin is open there is input left to write, so the unsigned subtraction
\* input.size() - input_offset never wraps: not even after the EPIPE path has
\* added -1 to input_offset.
InputOffsetSane == "in1" \in fds => inOff < InputLen \/ InputLen = 0

\* No chunk of stdout or stderr is lost, duplicated or invented while the runner
\* has the stream open.
OutputConserved ==
    \A s \in Streams : ReadEnd[s] \in fds => captured[s] + pipe[s] = produced[s]

\* Where the host lets the judge kill a cgroup, run() returns, whatever the program
\* does, within the deadline and the retries, unless the supervisor is killed from
\* outside (SupervisorFailureHandled).
Returns == (denied = {} /\ "sup" \notin faults) => <>(rpc = "done")

\* On every host, run() returns once the program has ended: also where terminate()
\* answers true and kills nothing, a late Terminate or a process that was never put
\* into the cgroup does not keep the runner waiting.
ReturnsAfterProgram == (bpc \in {"dead", "reaped"}) ~> (rpc = "done")

\* The wall-clock limit is enforced where the host lets the judge kill a cgroup, the
\* supervisor is not killed from outside and no I/O of the judge fails (a failed write of
\* cgroup.kill is not retried): once the deadline has passed in the main loop, the program stops running, whether or not
\* it cooperates.
DeadlineEnforced ==
    (rpc = "loop" /\ late /\ denied = {} /\ faults \cap {"io", "sup"} = {}) ~> ~BAlive

----------------------------------------------------------------------------
\* What the repository's documents and tests say, and the code does not do.

\* tests/runner/process_runner_test.cpp, CapturesLargeStdout.
CapturesAllOutput == Succeeded /\ result.status = "Completed" => captured = produced

\* "This prevents an infrastructure failure such as a failed mount from being
\* confused with a user program that simply exited with a non-zero status."
SetupFailureReported == Succeeded => failedAt = "None" \/ result.tle

\* "A failure after partial setup must roll back resources already created."
PartialSetupRolledBack ==
    rpc = "done" /\ result.state = "SandboxFailed" => ~cgroup /\ fds = {}

\* docs/architecture.md, on supervisor failure: "contain/kill execution cgroup", "verify
\* workload termination", "kill/reap Supervisor if necessary".
SupervisorFailureHandled == (spc = "dead" /\ denied = {}) ~> (rpc = "done")

\* "Cleanup failure must remain observable."
CleanupFailureObservable ==
    rpc = "done" /\ result.status = "RunnerFailure" => ~AAlive /\ ~BAlive
============================================================================
