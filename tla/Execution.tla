----------------------------- MODULE Execution -----------------------------
(***************************************************************************)
(* The state shared by the four processes of one ProcessRunner::run():     *)
(*                                                                         *)
(*   runner      the judge process, inside run()                           *)
(*   supervisor  its fork, outside the execution cgroup                    *)
(*   child A     the supervisor's fork: enters the namespaces, waits for B *)
(*   child B     A's fork, PID 1 of the new PID namespace: becomes the     *)
(*               submitted program with exec                               *)
(*                                                                         *)
(* and the kernel objects between them: the control socket, the status and *)
(* sync pipes, stdin/stdout/stderr, the execution cgroup.  The kernel is   *)
(* external code, modelled from how src/ uses it.                          *)
(***************************************************************************)
EXTENDS Naturals, Sequences, ExecutionResult

CONSTANTS
    Hosts,     \* host profiles: each the set of cgroup operations the host denies
    Profiles,  \* fault profiles: each the set of kinds of failure that may happen
    InputLen,  \* input.size() of the submission's stdin, in bytes
    ChunkSize, \* IO_BUFFER_SIZE
    SizeMod,   \* 2^w for a size_t of w bits
    MaxOut,    \* bound: chunks the program writes to each of stdout and stderr
    PipeCap    \* capacity of a pipe, in chunks

\* The cgroup operations that fail with EPERM or EACCES on an unprivileged host.
CgroupOps == {"mkdir", "procs", "kill", "rmdir"}

\* setup: a sandbox setup step fails.  io: poll, read, write or open fails.
\* busy: rmdir of the cgroup keeps failing with EBUSY.  sup, childA: that
\* process is killed from outside (OOM killer, operator).
FaultKinds == {"setup", "io", "busy", "sup", "childA"}

ASSUME ConfigAssumption ==
    /\ Hosts \subseteq SUBSET CgroupOps
    /\ Profiles \subseteq SUBSET FaultKinds
    /\ InputLen \in Nat
    /\ ChunkSize \in Nat \ {0}
    /\ SizeMod \in Nat
    /\ InputLen < SizeMod
    /\ MaxOut \in Nat
    /\ PipeCap \in Nat \ {0}

VARIABLES
    denied, faults,    \* the host and fault profile of this behaviour
    late,              \* the wall-clock deadline has passed
    \* ---- runner
    rpc,               \* where run() is
    fds,               \* descriptors of this execution open in the judge process
    rev,               \* revents of the last poll()
    rterm,             \* termination_requested
    finished,          \* submission_finished
    rstatus,           \* status: the wait status received in Terminated
    reports,           \* the failure path turns cleanup_ok into a status
    contained,         \* execution_contained
    inOff,             \* input_offset
    captured,          \* chunks appended to stdout_output / stderr_output
    result,            \* the ExecutionResult
    \* ---- supervisor
    spc, srev,
    sterm,             \* termination_requested
    statusOpen,        \* startup_status_open
    fwd,               \* forwarded_child_status, "none" without one
    swait,             \* the wait status it will report in Terminated
    failure,           \* the SetupFailed stage it will report
    path,              \* Sandbox::cgroup_path_ is not empty
    \* ---- child A and child B
    apc, astat,
    bpc, bstat,
    failedAt,          \* the setup stage that really failed, "None" if none did
    \* ---- kernel
    cgroup, members,   \* the execution cgroup exists; processes put into it
    root,              \* the mkdtemp directory exists
    synced,            \* the release byte was written to the sync pipe
    up,                \* control socket, towards the runner: 8-byte words
    down,              \* control socket, towards the supervisor: Terminate messages
    spipe,             \* status pipe: records
    pipe,              \* chunks buffered in stdin, stdout, stderr
    produced           \* chunks the program wrote to stdout, stderr

hostVars   == <<denied, faults>>
runnerVars == <<rpc, fds, rev, rterm, finished, rstatus, reports, contained,
                inOff, captured, result>>
supVars    == <<spc, srev, sterm, statusOpen, fwd, swait, failure, path>>
childVars  == <<apc, astat, bpc, bstat, failedAt>>
cgVars     == <<cgroup, members, root>>
wireVars   == <<synced, up, down, spipe>>
streamVars == <<pipe, produced>>

vars == <<denied, faults, late, rpc, fds, rev, rterm, finished, rstatus, reports,
          contained, inOff, captured, result, spc, srev, sterm, statusOpen, fwd,
          swait, failure, path, apc, astat, bpc, bstat, failedAt, cgroup, members,
          root, synced, up, down, spipe, pipe, produced>>

----------------------------------------------------------------------------
Stages == {"None", "Namespace", "Filesystem", "Identity", "Cgroup",
           "StandardIO", "ResourceLimit", "Exec"}

Streams == {"out", "err"}
ReadEnd == [out |-> "out0", err |-> "err0"]

\* The descriptors run() opens for itself.  It closes ctl1 right after the fork,
\* and the children's ends of the pipes only once Ready has arrived.
RunnerEnds == {"ctl0", "in1", "out0", "err0"}
ChildEnds  == {"in0", "out1", "err1"}

\* The control socket is a byte stream: a message is a header of one word and a
\* payload (Ready: 2 words, SetupFailed: 1; Terminated's is always written
\* unopposed and is one item here).
Header(type)  == [kind |-> "header", of |-> type]
ReadyPayload  == <<[kind |-> "pids", of |-> "Ready"], [kind |-> "id", of |-> "Ready"]>>
FailedPayload(stage) == <<[kind |-> "failed", of |-> stage]>>
TerminatedPayload(fate) == <<[kind |-> "terminated", of |-> fate]>>
Tag           == [kind |-> "tag", of |-> "WaitStatus"]
WaitStatus(fate) == [kind |-> "status", of |-> fate]

----------------------------------------------------------------------------
\* Processes and the descriptors they hold
SupAlive  == spc \notin {"none", "dead", "reaped"}
AAlive    == apc \notin {"none", "dead", "reaped"}
BAlive    == bpc \notin {"none", "dead", "reaped"}
BeforeExec == bpc \in {"setup", "fsHeader", "fsPayload", "raw", "fail"}

\* control_socket[1] is inherited by A and B; B loses it at exec (SOCK_CLOEXEC),
\* A never execs and keeps it for life.
ControlPeer == SupAlive \/ AAlive \/ BeforeExec
\* The children's ends of stdin, stdout and stderr.
StdioPeer == SupAlive \/ AAlive \/ BAlive
\* The write end of the status pipe (FD_CLOEXEC) and its read end.
StatusWriter == (AAlive /\ apc # "exit") \/ BeforeExec
StatusReader == SupAlive /\ statusOpen

LiveMembers == {p \in members : (p = "A" /\ AAlive) \/ (p = "B" /\ BAlive)}

\* SIGKILL to the processes of the set P.
Kill(P) ==
    /\ apc' = IF "A" \in P THEN "dead" ELSE apc
    /\ astat' = IF "A" \in P THEN "killed" ELSE astat
    /\ bpc' = IF "B" \in P THEN "dead" ELSE bpc
    /\ bstat' = IF "B" \in P THEN "killed" ELSE bstat

\* A write() on a stream whose other end is closed fails with EPIPE (SIGPIPE is
\* ignored by SigpipeGuard, and the children inherit that).
SendUp(words) == up' = IF "ctl0" \in fds THEN up \o words ELSE up
SendStatus(record) == spipe' = IF StatusReader THEN Append(spipe, record) ELSE spipe

============================================================================
