----------------------------- MODULE Supervisor -----------------------------
(***************************************************************************)
(* The supervisor: the `supervisor_pid == 0` branch of ProcessRunner::run  *)
(* (src/runner/process_runner.cpp) with the parts of                       *)
(* Sandbox::createExecutionProcess that run in it.                         *)
(***************************************************************************)
EXTENDS Sandbox

\* prepareEnvironment: the cgroup, then the temporary root directory.
PrepareEnvironment ==
    /\ spc = "prepare"
    /\ \E made \in BOOLEAN :
         /\ SetupCgroup(made)
         /\ \/ made /\ spc' = "fork" /\ root' = TRUE /\ UNCHANGED <<failure, failedAt>>
            \/ made /\ "setup" \in faults /\ spc' = "failed" /\ UNCHANGED root
               /\ failure' = "Filesystem" /\ failedAt' = "Filesystem"
            \/ ~made /\ spc' = "failed" /\ UNCHANGED root
               /\ failure' = "Cgroup" /\ failedAt' = "Cgroup"
    /\ UNCHANGED <<hostVars, late, runnerVars, srev, sterm, statusOpen, fwd, swait,
                   apc, astat, bpc, bstat, members, wireVars, streamVars>>

\* pipe, pipe, fcntl, fork of A
ForkChildA ==
    /\ spc = "fork"
    /\ \/ spc' = "attach" /\ apc' = "sync"
       \/ "setup" \in faults /\ spc' = "nochild" /\ UNCHANGED apc
    /\ UNCHANGED <<hostVars, late, runnerVars, srev, sterm, statusOpen, fwd, swait,
                   failure, path, astat, bpc, bstat, failedAt, cgVars, wireVars, streamVars>>

\* cleanup_failed_child: SIGKILL and waitpid.
ReapChildA ==
    /\ apc' = "reaped"
    /\ astat' = IF AAlive THEN "killed" ELSE astat

AttachChildA ==
    /\ spc = "attach"
    /\ \E ok \in BOOLEAN :
         /\ AddProcessToCgroup(ok)
         /\ IF ok THEN spc' = "release" /\ UNCHANGED <<apc, astat>>
                  ELSE spc' = "nochild" /\ ReapChildA
    /\ UNCHANGED <<hostVars, late, runnerVars, srev, sterm, statusOpen, fwd, swait,
                   failure, bpc, bstat, failedAt, cgroup, root, wireVars, streamVars>>

\* Write the byte A waits for; EPIPE if A is dead.
ReleaseChildA ==
    /\ spc = "release"
    /\ IF AAlive THEN spc' = "ready" /\ synced' = TRUE /\ UNCHANGED <<apc, astat>>
                 ELSE spc' = "nochild" /\ ReapChildA /\ UNCHANGED synced
    /\ UNCHANGED <<hostVars, late, runnerVars, srev, sterm, statusOpen, fwd, swait,
                   failure, path, bpc, bstat, failedAt, cgVars, up, down, spipe, streamVars>>

\* createExecutionProcess returned no process: clean the cgroup and exit.
NoChild ==
    /\ spc = "nochild" /\ spc' = "dead"
    /\ \E ok \in BOOLEAN : CleanupCgroup(ok)
    /\ UNCHANGED <<hostVars, late, runnerVars, srev, sterm, statusOpen, fwd, swait,
                   failure, childVars, members, root, wireVars, streamVars>>

\* send_message(Ready): header, then payload.  EPIPE is a supervisor failure.
SendReady ==
    /\ \/ /\ spc = "ready" /\ SendUp(<<Header("Ready")>>)
          /\ spc' = IF "ctl0" \in fds THEN "readyPayload" ELSE "fail"
       \/ /\ spc = "readyPayload" /\ SendUp(ReadyPayload)
          /\ spc' = IF "ctl0" \in fds THEN "poll" ELSE "fail"
    /\ UNCHANGED <<hostVars, late, runnerVars, srev, sterm, statusOpen, fwd, swait,
                   failure, path, childVars, cgVars, synced, down, spipe, streamVars>>

----------------------------------------------------------------------------
\* The monitor loop, `while(!submission_finished)`.

\* poll() for at most 10 ms: a snapshot of what is readable, possibly nothing.
SupReadable ==
    (IF down > 0 \/ "ctl0" \notin fds THEN {"ctl"} ELSE {}) \cup
    (IF statusOpen /\ (spipe # <<>> \/ ~StatusWriter) THEN {"status"} ELSE {})
SupPoll ==
    /\ spc = "poll"
    /\ \/ spc' = "events" /\ srev' = SupReadable
       \/ "io" \in faults /\ spc' = "fail" /\ UNCHANGED srev
    /\ UNCHANGED <<hostVars, late, runnerVars, sterm, statusOpen, fwd, swait, failure,
                   path, childVars, cgVars, wireVars, streamVars>>

\* A control event: Terminate, once; or EOF.
SupControl ==
    /\ spc = "events" /\ "ctl" \in srev
    /\ srev' = srev \ {"ctl"}
    /\ \/ /\ down = 0 /\ spc' = "fail" /\ UNCHANGED <<down, sterm, path>> /\ Kill({})
       \/ /\ down > 0 /\ down' = down - 1 /\ sterm
          /\ UNCHANGED <<spc, sterm, path>> /\ Kill({})
       \/ /\ down > 0 /\ down' = down - 1 /\ ~sterm
          /\ \E ok \in BOOLEAN :
               /\ Terminate(ok) /\ sterm' = ok
               /\ spc' = IF ok THEN "events" ELSE "failKill"
    /\ UNCHANGED <<hostVars, late, runnerVars, statusOpen, fwd, swait, failure,
                   failedAt, cgVars, synced, up, spipe, streamVars>>

\* Mutant of StageRead: the header is taken for a stage of its own.
StageReadRaw(record) == record.of

\* read_status_pipe takes the first 8 bytes that do not start with the tag as a
\* SandboxSetupFailedPayload.  failSetup's header {SetupFailed, 8} read that way
\* is failed_stage = 1 (Namespace), error_code = 8.
StageRead(record) == IF record.kind = "header" THEN "Namespace" ELSE record.of

\* A status event: EOF, a forwarded wait status, half of one, a setup failure.
SupStatus ==
    /\ spc = "events" /\ "ctl" \notin srev /\ "status" \in srev
    /\ srev' = srev \ {"status"}
    /\ \/ /\ spipe = <<>> /\ statusOpen' = FALSE
          /\ UNCHANGED <<spc, spipe, fwd, failure>>
       \/ /\ Len(spipe) > 1 /\ Head(spipe) = Tag
          /\ fwd' = spipe[2].of /\ spipe' = Tail(Tail(spipe))
          /\ UNCHANGED <<spc, statusOpen, failure>>
       \/ /\ spipe = <<Tag>> /\ ~StatusWriter /\ spc' = "fail"
          /\ spipe' = <<>> /\ UNCHANGED <<statusOpen, fwd, failure>>
       \/ /\ spipe # <<>> /\ Head(spipe) # Tag
          /\ failure' = StageRead(Head(spipe)) /\ spipe' = Tail(spipe)
          /\ statusOpen' = FALSE /\ spc' = "failedWait" /\ UNCHANGED fwd
    /\ UNCHANGED <<hostVars, late, runnerVars, sterm, swait, path, childVars, cgVars,
                   synced, up, down, streamVars>>

\* wait4(A, WNOHANG): back to poll while A runs; once it is dead, the status to
\* report is the forwarded one if there is one, and the cgroup must go.
SupWait ==
    /\ spc = "events" /\ srev = {}
    /\ \/ /\ apc # "dead" /\ spc' = "poll"
          /\ UNCHANGED <<apc, swait, statusOpen, path, cgroup>>
       \/ /\ apc = "dead" /\ apc' = "reaped" /\ statusOpen' = FALSE
          /\ swait' = IF fwd = "none" THEN astat ELSE fwd
          /\ \E ok \in BOOLEAN :
               CleanupCgroup(ok) /\ spc' = IF ok THEN "terminated" ELSE "dead"
    /\ UNCHANGED <<hostVars, late, runnerVars, srev, sterm, fwd, failure, astat, bpc,
                   bstat, failedAt, members, root, wireVars, streamVars>>

\* send_message(Terminated), then exit.
SendTerminated ==
    /\ \/ spc = "terminated" /\ spc' = "terminatedPayload"
          /\ SendUp(<<Header("Terminated")>>)
       \/ spc = "terminatedPayload" /\ spc' = "dead" /\ SendUp(TerminatedPayload(swait))
    /\ UNCHANGED <<hostVars, late, runnerVars, srev, sterm, statusOpen, fwd, swait,
                   failure, path, childVars, cgVars, synced, down, spipe, streamVars>>

\* After a failure record: blocking wait4(A), then the cgroup must go.
FailedWait ==
    /\ spc = "failedWait" /\ apc = "dead" /\ apc' = "reaped"
    /\ \E ok \in BOOLEAN : CleanupCgroup(ok) /\ spc' = IF ok THEN "failed" ELSE "dead"
    /\ UNCHANGED <<hostVars, late, runnerVars, srev, sterm, statusOpen, fwd, swait,
                   failure, astat, bpc, bstat, failedAt, members, root, wireVars, streamVars>>

\* send_message(SetupFailed), from prepareEnvironment or from the loop, then exit.
SendFailed ==
    /\ \/ spc = "failed" /\ spc' = "failedPayload" /\ SendUp(<<Header("SetupFailed")>>)
       \/ spc = "failedPayload" /\ spc' = "dead" /\ SendUp(FailedPayload(failure))
    /\ UNCHANGED <<hostVars, late, runnerVars, srev, sterm, statusOpen, fwd, swait,
                   failure, path, childVars, cgVars, synced, down, spipe, streamVars>>

\* cleanup_supervisor_failure: terminate() unless that was attempted, ignoring
\* its result; then SIGKILL to A, wait4(A) and exit.  The cgroup stays.
SupFail ==
    /\ spc = "fail" /\ spc' = "failKill"
    /\ IF sterm THEN Kill({}) /\ UNCHANGED path
                ELSE \E ok \in BOOLEAN : Terminate(ok)
    /\ UNCHANGED <<hostVars, late, runnerVars, srev, sterm, statusOpen, fwd, swait,
                   failure, failedAt, cgVars, wireVars, streamVars>>

SupFailKill ==
    /\ spc = "failKill" /\ spc' = "dead" /\ statusOpen' = FALSE
    /\ ReapChildA
    /\ UNCHANGED <<hostVars, late, runnerVars, srev, sterm, fwd, swait, failure, path,
                   bpc, bstat, failedAt, cgVars, wireVars, streamVars>>

\* The supervisor is killed from outside.
SupCrash ==
    /\ "sup" \in faults /\ SupAlive /\ spc' = "dead"
    /\ UNCHANGED <<hostVars, late, runnerVars, srev, sterm, statusOpen, fwd, swait,
                   failure, path, childVars, cgVars, wireVars, streamVars>>

SupNext == \/ PrepareEnvironment \/ ForkChildA \/ AttachChildA \/ ReleaseChildA
           \/ NoChild \/ SendReady \/ SupPoll \/ SupControl \/ SupStatus \/ SupWait
           \/ SendTerminated \/ FailedWait \/ SendFailed \/ SupFail \/ SupFailKill

============================================================================
