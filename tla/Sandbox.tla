------------------------------ MODULE Sandbox ------------------------------
(***************************************************************************)
(* class Sandbox (src/sandbox/sandbox.cpp).  The operations the supervisor *)
(* calls are operators with their bool result as a parameter; the code     *)
(* that runs in child A and child B is a set of actions.                   *)
(*                                                                         *)
(* A host that denies a cgroup operation (EPERM, EACCES) does not make it  *)
(* fail: cgroup_path_ is cleared, and from then on every cgroup operation  *)
(* of this object succeeds without doing anything.                         *)
(***************************************************************************)
EXTENDS Execution

\* setupCgroup: mkdir of the execution cgroup.  EEXIST and other errors fail.
SetupCgroup(ok) ==
    \/ ok  /\ "mkdir" \in denied /\ UNCHANGED <<path, cgroup>>
    \/ ok  /\ "mkdir" \notin denied /\ path' = TRUE /\ cgroup' = TRUE
    \/ ~ok /\ "mkdir" \notin denied /\ "setup" \in faults /\ UNCHANGED <<path, cgroup>>

\* addProcessToCgroup(A): write A's pid to cgroup.procs.
AddProcessToCgroup(ok) ==
    \/ ok  /\ ~path /\ UNCHANGED <<path, members>>
    \/ ok  /\ path /\ "procs" \in denied /\ path' = FALSE /\ UNCHANGED members
    \/ ok  /\ path /\ "procs" \notin denied /\ members' = {"A"} /\ UNCHANGED path
    \/ ~ok /\ path /\ "procs" \notin denied /\ "io" \in faults
           /\ UNCHANGED <<path, members>>

\* Mutant of Terminate: the result of the write to cgroup.kill is not checked.
TerminateUnchecked(ok) ==
    /\ ok
    /\ \/ ~path /\ Kill({}) /\ UNCHANGED path
       \/ path /\ "kill" \in denied /\ Kill({}) /\ path' = FALSE
       \/ path /\ "kill" \notin denied /\ Kill(LiveMembers) /\ UNCHANGED path
       \/ path /\ "kill" \notin denied /\ "io" \in faults /\ Kill({}) /\ UNCHANGED path

\* terminate(): write "1" to cgroup.kill.
Terminate(ok) ==
    \/ ok  /\ ~path /\ Kill({}) /\ UNCHANGED path
    \/ ok  /\ path /\ "kill" \in denied /\ Kill({}) /\ path' = FALSE
    \/ ok  /\ path /\ "kill" \notin denied /\ Kill(LiveMembers) /\ UNCHANGED path
    \/ ~ok /\ path /\ "kill" \notin denied /\ "io" \in faults
           /\ Kill({}) /\ UNCHANGED path

\* Mutant of CleanupCgroup: EBUSY after the last retry is reported as success.
CleanupCgroupUnchecked(ok) ==
    /\ ok
    /\ \/ ~path /\ UNCHANGED <<path, cgroup>>
       \/ path /\ "rmdir" \notin denied /\ LiveMembers = {}
          /\ path' = FALSE /\ cgroup' = FALSE
       \/ path /\ ("rmdir" \in denied \/ LiveMembers # {} \/ "busy" \in faults)
          /\ path' = FALSE /\ UNCHANGED cgroup

\* cleanupCgroup(): rmdir, retried on EBUSY.  A populated cgroup stays busy.
CleanupCgroup(ok) ==
    \/ ok  /\ ~path /\ UNCHANGED <<path, cgroup>>
    \/ ok  /\ path /\ "rmdir" \in denied /\ path' = FALSE /\ UNCHANGED cgroup
    \/ ok  /\ path /\ "rmdir" \notin denied /\ LiveMembers = {}
           /\ path' = FALSE /\ cgroup' = FALSE
    \/ ~ok /\ path /\ "rmdir" \notin denied
           /\ (LiveMembers # {} \/ "busy" \in faults)
           /\ UNCHANGED <<path, cgroup>>

----------------------------------------------------------------------------
\* Child A, from fork to _exit: createExecutionProcess, `pid == 0`.

\* Mutant of ChildASync: A does not wait for the supervisor's byte.
ChildASyncUnblocked ==
    /\ apc = "sync" /\ apc' = "setup" /\ UNCHANGED astat
    /\ UNCHANGED <<hostVars, late, runnerVars, supVars, bpc, bstat, failedAt,
                   cgVars, wireVars, streamVars>>

\* Blocked on the sync pipe until the supervisor has attached it to the cgroup;
\* EOF (the supervisor is gone) makes it exit.
ChildASync ==
    /\ apc = "sync"
    /\ \/ synced /\ apc' = "setup" /\ UNCHANGED astat
       \/ ~synced /\ ~SupAlive /\ apc' = "dead" /\ astat' = "exit1"
    /\ UNCHANGED <<hostVars, late, runnerVars, supVars, bpc, bstat, failedAt,
                   cgVars, wireVars, streamVars>>

\* setupUserNamespace, unshare, mount and fork of B all succeed.
ChildASetup ==
    /\ apc = "setup"
    /\ apc' = "waitB" /\ bpc' = "setup"
    /\ members' = IF "A" \in members THEN members \cup {"B"} ELSE members
    /\ UNCHANGED <<hostVars, late, runnerVars, supVars, astat, bstat, failedAt,
                   cgroup, root, wireVars, streamVars>>

\* One of them fails.  failSetup writes to the descriptor it is given: the
\* control socket for the identity maps and the root bind mount, the status
\* pipe for the others.
SetupFailures == {<<"ctlHeader", "Identity">>, <<"ctlHeader", "Filesystem">>,
                  <<"stHeader", "Filesystem">>, <<"stHeader", "Namespace">>}
ChildASetupFails ==
    /\ apc = "setup" /\ "setup" \in faults
    /\ \E f \in SetupFailures : apc' = f[1] /\ failedAt' = f[2]
    /\ UNCHANGED <<hostVars, late, runnerVars, supVars, astat, bpc, bstat,
                   cgVars, wireVars, streamVars>>

\* failSetup is send_message: a header, then a payload.
ChildAReports ==
    /\ \/ /\ apc = "ctlHeader" /\ apc' = "ctlPayload"
          /\ SendUp(<<Header("SetupFailed")>>) /\ UNCHANGED spipe
       \/ /\ apc = "ctlPayload" /\ apc' = "fail"
          /\ SendUp(FailedPayload(failedAt)) /\ UNCHANGED spipe
       \/ /\ apc = "stHeader" /\ apc' = "stPayload"
          /\ SendStatus(Header("SetupFailed")) /\ UNCHANGED up
       \/ /\ apc = "stPayload" /\ apc' = "fail"
          /\ SendStatus(FailedPayload(failedAt)[1]) /\ UNCHANGED up
    /\ UNCHANGED <<hostVars, late, runnerVars, supVars, astat, bpc, bstat, failedAt,
                   cgVars, synced, down, streamVars>>

\* waitpid(child_b)
ChildAWait ==
    /\ apc = "waitB" /\ bpc = "dead"
    /\ apc' = "fwdTag" /\ bpc' = "reaped"
    /\ UNCHANGED <<hostVars, late, runnerVars, supVars, astat, bstat, failedAt,
                   cgVars, wireVars, streamVars>>

\* write_wait_status: a tag byte, then the int; then close(status_fd).
ChildAForward ==
    /\ \/ apc = "fwdTag" /\ apc' = "fwdStatus" /\ SendStatus(Tag)
       \/ apc = "fwdStatus" /\ apc' = "exit" /\ SendStatus(WaitStatus(bstat))
    /\ UNCHANGED <<hostVars, late, runnerVars, supVars, astat, bpc, bstat, failedAt,
                   cgVars, synced, up, down, streamVars>>

\* Mutant of ChildAExit: A exits with EXIT_FAILURE whatever B did, relying on the
\* forwarded record alone.
ChildAExitPlain ==
    /\ apc \in {"fail", "exit"}
    /\ apc' = "dead" /\ astat' = "exit1"
    /\ UNCHANGED <<hostVars, late, runnerVars, supVars, bpc, bstat, failedAt,
                   cgVars, wireVars, streamVars>>

\* Mutant of ChildAExit: the signal A raises to end the way B ended is still blocked,
\* and A pauses for ever.
ChildAExitPauses ==
    /\ apc = "fail" \/ (apc = "exit" /\ bstat \notin {"signal", "killed"})
    /\ apc' = "dead"
    /\ astat' = IF apc = "fail" THEN "exit1" ELSE bstat
    /\ UNCHANGED <<hostVars, late, runnerVars, supVars, bpc, bstat, failedAt,
                   cgVars, wireVars, streamVars>>

\* _exit: with EXIT_FAILURE after a failed setup, else the way B ended.
ChildAExit ==
    /\ apc \in {"fail", "exit"}
    /\ apc' = "dead"
    /\ astat' = IF apc = "fail" THEN "exit1" ELSE bstat
    /\ UNCHANGED <<hostVars, late, runnerVars, supVars, bpc, bstat, failedAt,
                   cgVars, wireVars, streamVars>>

\* A is killed from outside.  B, its child, lives on.
ChildACrash ==
    /\ "childA" \in faults /\ AAlive
    /\ apc' = "dead" /\ astat' = "killed"
    /\ UNCHANGED <<hostVars, late, runnerVars, supVars, bpc, bstat, failedAt,
                   cgVars, wireVars, streamVars>>

ChildANext == \/ ChildASync \/ ChildASetup \/ ChildASetupFails \/ ChildAReports
              \/ ChildAWait \/ ChildAForward \/ ChildAExit

----------------------------------------------------------------------------
\* Child B: finalizeExecutionEnvironment, then execute.

\* Every mount, dup2 and setrlimit succeeds and exec replaces the image.
ChildBExec ==
    /\ bpc = "setup" /\ bpc' = "running"
    /\ UNCHANGED <<hostVars, late, runnerVars, supVars, apc, astat, bstat, failedAt,
                   cgVars, wireVars, streamVars>>

\* finalizeExecutionEnvironment reports with failSetup (header and payload),
\* execute with report_failure (the payload alone).
ChildBSetupFails ==
    /\ bpc = "setup" /\ "setup" \in faults
    /\ \/ bpc' = "fsHeader" /\ failedAt' = "Filesystem"
       \/ bpc' = "raw" /\ failedAt' \in {"StandardIO", "ResourceLimit", "Exec"}
    /\ UNCHANGED <<hostVars, late, runnerVars, supVars, apc, astat, bstat,
                   cgVars, wireVars, streamVars>>

ChildBReports ==
    /\ \/ /\ bpc = "fsHeader" /\ bpc' = "fsPayload"
          /\ SendStatus(Header("SetupFailed"))
       \/ /\ bpc \in {"fsPayload", "raw"} /\ bpc' = "fail"
          /\ SendStatus(FailedPayload(failedAt)[1])
    /\ UNCHANGED <<hostVars, late, runnerVars, supVars, apc, astat, bstat, failedAt,
                   cgVars, synced, up, down, streamVars>>

ChildBExit ==
    /\ bpc = "fail" /\ bpc' = "dead" /\ bstat' = "exit1"
    /\ UNCHANGED <<hostVars, late, runnerVars, supVars, apc, astat, failedAt,
                   cgVars, wireVars, streamVars>>

ChildBNext == ChildBExec \/ ChildBSetupFails \/ ChildBReports \/ ChildBExit

\* The submitted program: external code, free to do any of this in any order,
\* and to stop doing anything.
ProgramWrite(s) ==
    /\ bpc = "running" /\ produced[s] < MaxOut
    /\ ReadEnd[s] \in fds /\ pipe[s] < PipeCap
    /\ produced' = [produced EXCEPT ![s] = @ + 1]
    /\ pipe' = [pipe EXCEPT ![s] = @ + 1]
    /\ UNCHANGED <<hostVars, late, runnerVars, supVars, childVars, cgVars, wireVars>>

ProgramRead ==
    /\ bpc = "running" /\ pipe["in"] > 0
    /\ pipe' = [pipe EXCEPT !["in"] = @ - 1]
    /\ UNCHANGED <<hostVars, late, runnerVars, supVars, childVars, cgVars, wireVars,
                   produced>>

ProgramExit ==
    /\ bpc = "running" /\ bpc' = "dead" /\ bstat' \in ProgramFates
    /\ UNCHANGED <<hostVars, late, runnerVars, supVars, apc, astat, failedAt,
                   cgVars, wireVars, streamVars>>

ProgramNext == (\E s \in Streams : ProgramWrite(s)) \/ ProgramRead \/ ProgramExit

============================================================================
