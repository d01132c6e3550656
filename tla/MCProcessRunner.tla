-------------------------- MODULE MCProcessRunner --------------------------
(***************************************************************************)
(* Small instances of ProcessRunner for TLC.                               *)
(***************************************************************************)
EXTENDS ProcessRunner

\* A privileged host, and hosts that deny some of the cgroup operations.
PrivilegedHost == {{}}
AllHosts == {{}, {"mkdir"}, {"procs"}, {"kill"}, {"kill", "rmdir"}}

\* A kind of failure may happen, it need not: a profile has the behaviours of
\* every smaller one.
SafetyFaults == {{"setup"}, {"io"}, {"sup"}, {"busy", "childA"}}
IoFaults == {{"io"}}
NoFault == {{}}
SetupFault == {{"setup"}}
SupervisorFault == {{"sup"}}
ChildFault == {{"io", "childA"}}
============================================================================
