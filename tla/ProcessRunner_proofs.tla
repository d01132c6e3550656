------------------------ MODULE ProcessRunner_proofs ------------------------
(***************************************************************************)
(* Proofs about ProcessRunner for every host, fault profile, input length  *)
(* and bound: type correctness, containment, termination and reaping.      *)
(***************************************************************************)
EXTENDS ProcessRunner, Integers, TLAPS

\* The host lets the judge create and populate cgroups.
Attachable == denied \cap {"mkdir", "procs"} = {}

\* Where the supervisor is before the release byte, and while it may still act on
\* Terminate.
Early == {"none", "prepare", "fork", "attach", "release"}
Monitoring == {"ready", "readyPayload", "poll", "events"}

\* The release byte is what orders attachment before B's fork: it is written after
\* the attachment, A passes setup only with it, and B exists only after that.
ContainmentInv ==
    /\ spc \in Early => ~synced
    /\ spc \in Monitoring => synced
    /\ sterm => synced
    /\ AAlive /\ apc # "sync" => synced
    /\ bpc # "none" => synced
    /\ spc \in {"fork", "attach"} /\ "mkdir" \notin denied => path
    /\ spc = "release" /\ Attachable => "A" \in members
    /\ synced /\ Attachable => "A" \in members
    /\ bpc # "none" /\ Attachable => "B" \in members

\* cgroup_path_ is still set when Terminate arrives, so terminate() acts.
TerminationInv ==
    /\ spc \in {"release"} \cup Monitoring /\ denied \cap {"mkdir", "procs", "kill"} = {}
         => path
    /\ TerminationEffective

\* cleanup_before_ready reaps before it kills the cgroup; submission_finished is set
\* just before finish_supervisor_terminal.
ReapInv ==
    /\ rpc = "start" => spc = "none"
    /\ rpc \in {"killCgroup", "awaitEmpty"} => spc = "reaped"
    /\ finished => rpc = "terminatedReap" \/ spc = "reaped"
    /\ SupervisorReaped

USE DEF hostVars, runnerVars, supVars, childVars, cgVars, wireVars, streamVars

----------------------------------------------------------------------------
containmentVars == <<denied, spc, sterm, path, apc, bpc, members, synced>>

\* ContainmentInv depends on these variables alone.
LEMMA ContainmentStutter ==
    ASSUME ContainmentInv, UNCHANGED containmentVars
    PROVE  ContainmentInv'
  BY DEF ContainmentInv, containmentVars, AAlive, Attachable

\* The steps of child A, child B, the program and the clock keep ContainmentInv:
\* A leaves the sync pipe only with the release byte, and forks B into its cgroup.
LEMMA ChildContainment ==
    ASSUME ContainmentInv,
           ChildANext \/ ChildACrash \/ ChildBNext \/ ProgramNext \/ Tick \/ Returned
    PROVE  ContainmentInv'
<1>1. CASE ChildASync
  BY <1>1 DEF ContainmentInv, ChildASync, AAlive, Attachable, Early, Monitoring
<1>2. CASE ChildASetup
  BY <1>2 DEF ContainmentInv, ChildASetup, AAlive, Attachable, Early, Monitoring
<1>3. CASE ChildASetupFails
  BY <1>3 DEF ContainmentInv, ChildASetupFails, SetupFailures, AAlive, Attachable,
              Early, Monitoring
<1>4. CASE ChildAReports \/ ChildAWait \/ ChildAForward
  BY <1>4 DEF ContainmentInv, ChildAReports, ChildAWait, ChildAForward, AAlive,
              Attachable, Early, Monitoring
<1>5. CASE ChildAExit \/ ChildACrash
  BY <1>5 DEF ContainmentInv, ChildAExit, ChildACrash, AAlive, Attachable, Early,
              Monitoring
<1>6. CASE ChildBNext
  BY <1>6 DEF ContainmentInv, ChildBNext, ChildBExec, ChildBSetupFails, ChildBReports,
              ChildBExit, AAlive, Attachable, Early, Monitoring
<1>7. CASE ProgramNext \/ Tick \/ Returned
  BY <1>7 DEF ContainmentInv, ProgramNext, ProgramWrite, ProgramRead, ProgramExit,
              Tick, Returned, vars, AAlive, Attachable, Early, Monitoring
<1> QED BY <1>1, <1>2, <1>3, <1>4, <1>5, <1>6, <1>7 DEF ChildANext

\* The supervisor's steps keep it: attachment comes before the release byte, and a
\* monitoring supervisor never goes back.
LEMMA SupContainment ==
    ASSUME ContainmentInv, SupNext \/ SupCrash
    PROVE  ContainmentInv'
<1>1. CASE PrepareEnvironment
  BY <1>1 DEF ContainmentInv, PrepareEnvironment, SetupCgroup, AAlive, Attachable,
              Early, Monitoring
<1>2. CASE ForkChildA
  BY <1>2 DEF ContainmentInv, ForkChildA, AAlive, Attachable, Early, Monitoring
<1>3. CASE AttachChildA
  BY <1>3 DEF ContainmentInv, AttachChildA, AddProcessToCgroup, ReapChildA, AAlive,
              Attachable, Early, Monitoring
<1>4. CASE ReleaseChildA
  BY <1>4 DEF ContainmentInv, ReleaseChildA, ReapChildA, AAlive, Attachable, Early,
              Monitoring
<1>5. CASE NoChild \/ FailedWait
  BY <1>5 DEF ContainmentInv, NoChild, FailedWait, CleanupCgroup, AAlive, Attachable,
              Early, Monitoring
<1>6. CASE SendReady \/ SendTerminated \/ SendFailed
  BY <1>6 DEF ContainmentInv, SendReady, SendTerminated, SendFailed, AAlive,
              Attachable, Early, Monitoring
<1>7. CASE SupPoll
  BY <1>7 DEF ContainmentInv, SupPoll, AAlive, Attachable, Early, Monitoring
<1>8. CASE SupControl
  BY <1>8 DEF ContainmentInv, SupControl, Terminate, Kill, LiveMembers, BAlive,
     AAlive, Attachable, Early, Monitoring
<1>9. CASE SupStatus
  BY <1>9 DEF ContainmentInv, SupStatus, AAlive, Attachable, Early, Monitoring
<1>10. CASE SupWait
  BY <1>10 DEF ContainmentInv, SupWait, CleanupCgroup, AAlive, Attachable, Early,
               Monitoring
<1>11. CASE SupFail
  BY <1>11 DEF ContainmentInv, SupFail, Terminate, Kill, LiveMembers, BAlive, AAlive,
     Attachable, Early, Monitoring
<1>12. CASE SupFailKill \/ SupCrash
  BY <1>12 DEF ContainmentInv, SupFailKill, SupCrash, ReapChildA, AAlive, Attachable,
               Early, Monitoring
<1> QED BY <1>1, <1>2, <1>3, <1>4, <1>5, <1>6, <1>7, <1>8, <1>9, <1>10, <1>11, <1>12
           DEF SupNext

\* The runner's steps keep it: they end the supervisor or kill, and start nothing.
LEMMA RunnerContainment ==
    ASSUME ContainmentInv, RunnerNext, rpc = "start" => spc = "none"
    PROVE  ContainmentInv'
<1>1. CASE Start
  BY <1>1 DEF ContainmentInv, Start, AAlive, Attachable, Early, Monitoring
<1>2. CASE ReceiveHeader \/ ReceivePayload
  BY <1>2 DEF ContainmentInv, ReceiveHeader, ReceivePayload, AAlive, Attachable,
              Early, Monitoring
<1>3. CASE ReapAfterSetupFailed \/ KillSupervisor
  BY <1>3 DEF ContainmentInv, ReapAfterSetupFailed, KillSupervisor,
              KillAndReapSupervisor, AAlive, Attachable, Early, Monitoring
<1>4. CASE KillCgroupBeforeReady
  BY <1>4 DEF ContainmentInv, KillCgroupBeforeReady, KillExecutionCgroup, Kill,
     LiveMembers, BAlive, AAlive, Attachable, Early, Monitoring
<1>5. CASE RemoveCgroupBeforeReady
  BY <1>5 DEF ContainmentInv, RemoveCgroupBeforeReady, AAlive, Attachable, Early,
              Monitoring
<1>6. CASE Deadline \/ Poll \/ PollFails \/ HandleControl \/ LateSetupFailed \/ TerminatedReceived
  <2>1. UNCHANGED containmentVars
    BY <1>6 DEF containmentVars, Deadline, Poll, PollFails, HandleControl, LateSetupFailed,
                TerminatedReceived
  <2> QED BY <2>1, ContainmentStutter
<1>7. CASE ReapAfterLateSetupFailed
  BY <1>7 DEF ContainmentInv, ReapAfterLateSetupFailed, AAlive, Attachable, Early,
              Monitoring
<1>8. CASE ReapAfterTerminated
  BY <1>8 DEF ContainmentInv, ReapAfterTerminated, AAlive, Attachable, Early,
     Monitoring
<1>9. CASE HandleStdin
  BY <1>9 DEF ContainmentInv, HandleStdin, AAlive, Attachable, Early, Monitoring
<1>10. CASE \E s \in Streams : HandleStream(s)
  BY <1>10 DEF ContainmentInv, HandleStream, AAlive, Attachable, Early, Monitoring
<1>11. CASE Finish \/ FailureStart
  BY <1>11 DEF ContainmentInv, Finish, FailureStart, AAlive, Attachable, Early,
               Monitoring
<1>12. CASE FailureWait
  BY <1>12 DEF ContainmentInv, FailureWait, AAlive, Attachable, Early, Monitoring
<1>13. CASE FailureKill
  BY <1>13 DEF ContainmentInv, FailureKill, KillExecutionCgroup, Kill, LiveMembers,
     BAlive, AAlive, Attachable, Early, Monitoring
<1>14. CASE FailureEmpty \/ FailureReap
  BY <1>14 DEF ContainmentInv, FailureEmpty, FailureReap, KillAndReapSupervisor,
               AAlive, Attachable, Early, Monitoring
<1> QED BY <1>1, <1>2, <1>3, <1>4, <1>5, <1>6, <1>7, <1>8, <1>9, <1>10, <1>11, <1>12,
           <1>13, <1>14 DEF RunnerNext, RunnerStep
----------------------------------------------------------------------------
\* A step of the other processes keeps ReapInv: a supervisor that is reaped takes no
\* step, and nothing but the runner reaps it.
LEMMA OthersReap ==
    ASSUME ReapInv, \/ SupNext \/ SupCrash \/ ChildANext \/ ChildACrash \/ ChildBNext
                    \/ ProgramNext \/ Tick \/ Returned
    PROVE  ReapInv'
<1>1. CASE SupNext
  BY <1>1 DEF ReapInv, SupervisorReaped, SupNext, PrepareEnvironment, ForkChildA,
              AttachChildA, ReleaseChildA, NoChild, SendReady, SupPoll, SupControl,
              SupStatus, SupWait, SendTerminated, FailedWait, SendFailed, SupFail,
              SupFailKill
<1>2. CASE SupCrash
  BY <1>2 DEF ReapInv, SupervisorReaped, SupCrash, SupAlive
<1>3. CASE ChildANext \/ ChildACrash
  BY <1>3 DEF ReapInv, SupervisorReaped, ChildANext, ChildASync, ChildASetup,
              ChildASetupFails, ChildAReports, ChildAWait, ChildAForward, ChildAExit,
              ChildACrash
<1>4. CASE ChildBNext \/ ProgramNext
  BY <1>4 DEF ReapInv, SupervisorReaped, ChildBNext, ChildBExec, ChildBSetupFails,
              ChildBReports, ChildBExit, ProgramNext, ProgramWrite, ProgramRead,
              ProgramExit
<1>5. CASE Tick \/ Returned
  BY <1>5 DEF ReapInv, SupervisorReaped, Tick, Returned, vars
<1> QED BY <1>1, <1>2, <1>3, <1>4, <1>5

\* The runner's steps keep it: every path to "done" has waited for the supervisor.
LEMMA RunnerReap ==
    ASSUME ReapInv, RunnerNext
    PROVE  ReapInv'
<1>1. CASE Start
  BY <1>1 DEF ReapInv, SupervisorReaped, Start, Return
<1>2. CASE ReceiveHeader \/ ReceivePayload
  BY <1>2 DEF ReapInv, SupervisorReaped, ReceiveHeader, ReceivePayload
<1>3. CASE ReapAfterSetupFailed
  BY <1>3 DEF ReapInv, SupervisorReaped, ReapAfterSetupFailed, Return
<1>4. CASE KillSupervisor
  BY <1>4 DEF ReapInv, SupervisorReaped, KillSupervisor, KillAndReapSupervisor
<1>5. CASE KillCgroupBeforeReady
  BY <1>5 DEF ReapInv, SupervisorReaped, KillCgroupBeforeReady, Return
<1>6. CASE RemoveCgroupBeforeReady
  BY <1>6 DEF ReapInv, SupervisorReaped, RemoveCgroupBeforeReady, Return
<1>7. CASE Deadline
  BY <1>7 DEF ReapInv, SupervisorReaped, Deadline, FailWith
<1>8. CASE Poll \/ PollFails
  BY <1>8 DEF ReapInv, SupervisorReaped, Poll, PollFails, FailWith
<1>9. CASE HandleControl
  BY <1>9 DEF ReapInv, SupervisorReaped, HandleControl, FailWith
<1>10. CASE LateSetupFailed
  BY <1>10 DEF ReapInv, SupervisorReaped, LateSetupFailed, FailWith
<1>11. CASE ReapAfterLateSetupFailed
  BY <1>11 DEF ReapInv, SupervisorReaped, ReapAfterLateSetupFailed, Return
<1>12. CASE TerminatedReceived
  BY <1>12 DEF ReapInv, SupervisorReaped, TerminatedReceived, FailWith
<1>13. CASE ReapAfterTerminated
  BY <1>13 DEF ReapInv, SupervisorReaped, ReapAfterTerminated
<1>14. CASE HandleStdin
  BY <1>14 DEF ReapInv, SupervisorReaped, HandleStdin, FailWith
<1>15. CASE \E s \in Streams : HandleStream(s)
  BY <1>15 DEF ReapInv, SupervisorReaped, HandleStream, FailWith
<1>16. CASE Finish
  BY <1>16 DEF ReapInv, SupervisorReaped, Finish, Return
<1>17. CASE FailureStart
  BY <1>17 DEF ReapInv, SupervisorReaped, FailureStart
<1>18. CASE FailureWait
  BY <1>18 DEF ReapInv, SupervisorReaped, FailureWait
<1>19. CASE FailureKill \/ FailureEmpty
  BY <1>19 DEF ReapInv, SupervisorReaped, FailureKill, FailureEmpty
<1>20. CASE FailureReap
  BY <1>20 DEF ReapInv, SupervisorReaped, FailureReap, KillAndReapSupervisor, Return
<1> QED BY <1>1, <1>2, <1>3, <1>4, <1>5, <1>6, <1>7, <1>8, <1>9, <1>10, <1>11, <1>12,
           <1>13, <1>14, <1>15, <1>16, <1>17, <1>18, <1>19, <1>20 DEF RunnerNext, RunnerStep
----------------------------------------------------------------------------
\* Every path of run() to its return reaps the supervisor it forked, for every host
\* and every combination of faults.
THEOREM SupervisorAlwaysReaped == Spec => []SupervisorReaped
<1>1. Init => ReapInv
  BY DEF Init, ReapInv, SupervisorReaped
<1>2. ReapInv /\ [Next]_vars => ReapInv'
  <2> SUFFICES ASSUME ReapInv, [Next]_vars PROVE ReapInv'
    OBVIOUS
  <2>1. CASE RunnerNext
    BY <2>1, RunnerReap
  <2>2. CASE \/ SupNext \/ SupCrash \/ ChildANext \/ ChildACrash \/ ChildBNext
             \/ ProgramNext \/ Tick \/ Returned
    BY <2>2, OthersReap
  <2>3. CASE UNCHANGED vars
    BY <2>3 DEF vars, ReapInv, SupervisorReaped
  <2> QED BY <2>1, <2>2, <2>3 DEF Next
<1>3. ReapInv => SupervisorReaped
  BY DEF ReapInv
<1> QED BY <1>1, <1>2, <1>3, PTL DEF Spec

\* ReapInv and ContainmentInv together are inductive.
LEMMA ContainmentInductive == Spec => [](ReapInv /\ ContainmentInv)
<1>1. Init => ReapInv /\ ContainmentInv
  BY DEF Init, ReapInv, SupervisorReaped, ContainmentInv, AAlive, Early, Monitoring,
         Attachable
<1>2. ReapInv /\ ContainmentInv /\ [Next]_vars => (ReapInv /\ ContainmentInv)'
  <2> SUFFICES ASSUME ReapInv, ContainmentInv, [Next]_vars
               PROVE  ReapInv' /\ ContainmentInv'
    OBVIOUS
  <2>1. CASE RunnerNext
    BY <2>1, RunnerReap, RunnerContainment DEF ReapInv
  <2>2. CASE SupNext \/ SupCrash
    BY <2>2, OthersReap, SupContainment
  <2>3. CASE ChildANext \/ ChildACrash \/ ChildBNext \/ ProgramNext \/ Tick \/ Returned
    BY <2>3, OthersReap, ChildContainment
  <2>4. CASE UNCHANGED vars
    <3>1. ReapInv'
      BY <2>4 DEF vars, ReapInv, SupervisorReaped
    <3>2. UNCHANGED containmentVars
      BY <2>4 DEF vars, containmentVars
    <3> QED BY <3>1, <3>2, ContainmentStutter
  <2> QED BY <2>1, <2>2, <2>3, <2>4 DEF Next
<1> QED BY <1>1, <1>2, PTL DEF Spec

\* Where the host allows it, child B, and so the submitted program, is in the
\* execution cgroup for its whole life.
THEOREM ContainedExecution == Spec => []ExecContained
<1>1. ContainmentInv => ExecContained
  BY DEF ContainmentInv, ExecContained, Attachable
<1> QED BY <1>1, ContainmentInductive, PTL
----------------------------------------------------------------------------
terminationVars == <<denied, spc, path, sterm, apc, bpc>>

\* TerminationInv depends on these variables alone.
LEMMA TerminationStutter ==
    ASSUME TerminationInv, UNCHANGED terminationVars
    PROVE  TerminationInv'
  BY DEF TerminationInv, TerminationEffective, terminationVars, AAlive, BAlive

\* No step of child A or child B revives a dead process: A forks B only while alive.
LEMMA ChildTermination ==
    ASSUME TerminationInv,
           ChildANext \/ ChildACrash \/ ChildBNext \/ ProgramNext \/ Tick \/ Returned
    PROVE  TerminationInv'
<1>1. CASE ChildASync \/ ChildASetup
  BY <1>1 DEF TerminationInv, TerminationEffective, ChildASync, ChildASetup, AAlive,
              BAlive, Monitoring
<1>2. CASE ChildASetupFails
  BY <1>2 DEF TerminationInv, TerminationEffective, ChildASetupFails, SetupFailures,
              AAlive, BAlive, Monitoring
<1>3. CASE ChildAReports \/ ChildAWait \/ ChildAForward
  BY <1>3 DEF TerminationInv, TerminationEffective, ChildAReports, ChildAWait,
              ChildAForward, AAlive, BAlive, Monitoring
<1>4. CASE ChildAExit \/ ChildACrash
  BY <1>4 DEF TerminationInv, TerminationEffective, ChildAExit, ChildACrash, AAlive,
              BAlive, Monitoring
<1>5. CASE ChildBNext
  BY <1>5 DEF TerminationInv, TerminationEffective, ChildBNext, ChildBExec,
              ChildBSetupFails, ChildBReports, ChildBExit, AAlive, BAlive, Monitoring
<1>6. CASE ProgramNext \/ Tick \/ Returned
  BY <1>6 DEF TerminationInv, TerminationEffective, ProgramNext, ProgramWrite,
              ProgramRead, ProgramExit, Tick, Returned, vars, AAlive, BAlive,
              Monitoring
<1> QED BY <1>1, <1>2, <1>3, <1>4, <1>5, <1>6 DEF ChildANext

\* The supervisor acts on Terminate while cgroup_path_ is set and both processes are
\* members; and it forks A only before it could have read Terminate.
LEMMA SupTermination ==
    ASSUME TerminationInv, ContainmentInv, SupNext \/ SupCrash
    PROVE  TerminationInv'
<1>1. CASE PrepareEnvironment
  BY <1>1 DEF TerminationInv, TerminationEffective, ContainmentInv,
              PrepareEnvironment, AAlive, BAlive, Attachable, Early, Monitoring
<1>2. CASE ForkChildA
  BY <1>2 DEF TerminationInv, TerminationEffective, ContainmentInv, ForkChildA,
              AAlive, BAlive, Attachable, Early, Monitoring
<1>3. CASE AttachChildA
  BY <1>3 DEF TerminationInv, TerminationEffective, ContainmentInv, AttachChildA,
              AddProcessToCgroup, ReapChildA, AAlive, BAlive, Attachable, Early,
              Monitoring
<1>4. CASE ReleaseChildA
  BY <1>4 DEF TerminationInv, TerminationEffective, ContainmentInv, ReleaseChildA,
              ReapChildA, AAlive, BAlive, Attachable, Early, Monitoring
<1>5. CASE NoChild \/ FailedWait
  BY <1>5 DEF TerminationInv, TerminationEffective, ContainmentInv, NoChild,
              FailedWait, AAlive, BAlive, Attachable, Early, Monitoring
<1>6. CASE SendReady \/ SendTerminated \/ SendFailed
  BY <1>6 DEF TerminationInv, TerminationEffective, ContainmentInv, SendReady,
              SendTerminated, SendFailed, AAlive, BAlive, Attachable, Early,
              Monitoring
<1>7. CASE SupPoll
  BY <1>7 DEF TerminationInv, TerminationEffective, ContainmentInv, SupPoll, AAlive,
              BAlive, Attachable, Early, Monitoring
<1>8. CASE SupControl
  BY <1>8 DEF TerminationInv, TerminationEffective, ContainmentInv, SupControl,
              Terminate, Kill, LiveMembers, AAlive, BAlive, Attachable, Early,
              Monitoring
<1>9. CASE SupStatus
  BY <1>9 DEF TerminationInv, TerminationEffective, ContainmentInv, SupStatus, AAlive,
              BAlive, Attachable, Early, Monitoring
<1>10. CASE SupWait
  BY <1>10 DEF TerminationInv, TerminationEffective, ContainmentInv, SupWait, AAlive,
               BAlive, Attachable, Early, Monitoring
<1>11. CASE SupFail
  BY <1>11 DEF TerminationInv, TerminationEffective, ContainmentInv, SupFail,
               Terminate, Kill, AAlive, BAlive, Attachable, Early, Monitoring
<1>12. CASE SupFailKill \/ SupCrash
  BY <1>12 DEF TerminationInv, TerminationEffective, ContainmentInv, SupFailKill,
               SupCrash, ReapChildA, AAlive, BAlive, Attachable, Early, Monitoring
<1> QED BY <1>1, <1>2, <1>3, <1>4, <1>5, <1>6, <1>7, <1>8, <1>9, <1>10, <1>11, <1>12
           DEF SupNext

\* The runner kills and reaps, and forks only the supervisor.
LEMMA RunnerTermination ==
    ASSUME TerminationInv, RunnerNext
    PROVE  TerminationInv'
<1>1. CASE Start
  BY <1>1 DEF TerminationInv, TerminationEffective, Start, AAlive, BAlive, Monitoring
<1>2. CASE ReapAfterSetupFailed \/ KillSupervisor
  BY <1>2 DEF TerminationInv, TerminationEffective, ReapAfterSetupFailed,
              KillSupervisor, KillAndReapSupervisor, AAlive, BAlive, Monitoring
<1>3. CASE KillCgroupBeforeReady
  BY <1>3 DEF TerminationInv, TerminationEffective, KillCgroupBeforeReady,
              KillExecutionCgroup, Kill, AAlive, BAlive, Monitoring
<1>4. CASE ReapAfterLateSetupFailed
  BY <1>4 DEF TerminationInv, TerminationEffective, ReapAfterLateSetupFailed, AAlive,
              BAlive, Monitoring
<1>5. CASE ReapAfterTerminated
  BY <1>5 DEF TerminationInv, TerminationEffective, ReapAfterTerminated, AAlive,
              BAlive, Monitoring
<1>6. CASE FailureWait
  BY <1>6 DEF TerminationInv, TerminationEffective, FailureWait, AAlive, BAlive,
              Monitoring
<1>7. CASE FailureKill
  BY <1>7 DEF TerminationInv, TerminationEffective, FailureKill, KillExecutionCgroup,
              Kill, AAlive, BAlive, Monitoring
<1>8. CASE FailureReap
  BY <1>8 DEF TerminationInv, TerminationEffective, FailureReap,
              KillAndReapSupervisor, AAlive, BAlive, Monitoring
<1>9. CASE \/ ReceiveHeader \/ ReceivePayload \/ RemoveCgroupBeforeReady \/ Deadline
          \/ Poll \/ PollFails \/ HandleControl \/ LateSetupFailed \/ TerminatedReceived
  <2>1. UNCHANGED terminationVars
    BY <1>9 DEF terminationVars, ReceiveHeader, ReceivePayload,
       RemoveCgroupBeforeReady, Deadline, Poll, PollFails, HandleControl, LateSetupFailed,
       TerminatedReceived
  <2> QED BY <2>1, TerminationStutter
<1>10. CASE \/ HandleStdin \/ (\E s \in Streams : HandleStream(s)) \/ Finish
           \/ FailureStart \/ FailureEmpty
  <2>1. UNCHANGED terminationVars
    BY <1>10 DEF terminationVars, HandleStdin, HandleStream, Finish, FailureStart,
                 FailureEmpty
  <2> QED BY <2>1, TerminationStutter
<1> QED BY <1>1, <1>2, <1>3, <1>4, <1>5, <1>6, <1>7, <1>8, <1>9, <1>10 DEF RunnerNext, RunnerStep

\* TerminationInv holds in every reachable state.
LEMMA TerminationInductive == Spec => []TerminationInv
<1>1. Init => TerminationInv
  BY DEF Init, TerminationInv, TerminationEffective, Monitoring
<1>2. TerminationInv /\ ContainmentInv /\ [Next]_vars => TerminationInv'
  <2> SUFFICES ASSUME TerminationInv, ContainmentInv, [Next]_vars PROVE TerminationInv'
    OBVIOUS
  <2>1. CASE RunnerNext
    BY <2>1, RunnerTermination
  <2>2. CASE SupNext \/ SupCrash
    BY <2>2, SupTermination
  <2>3. CASE ChildANext \/ ChildACrash \/ ChildBNext \/ ProgramNext \/ Tick \/ Returned
    BY <2>3, ChildTermination
  <2>4. CASE UNCHANGED vars
    BY <2>4, TerminationStutter DEF vars, terminationVars
  <2> QED BY <2>1, <2>2, <2>3, <2>4 DEF Next
<1> QED BY <1>1, <1>2, ContainmentInductive, PTL DEF Spec

\* Once the supervisor has acted on Terminate on a host that allows cgroup.kill, no
\* process of the workload is alive, then or later.
THEOREM TerminationKills == Spec => []TerminationEffective
<1>1. TerminationInv => TerminationEffective
  BY DEF TerminationInv
<1> QED BY <1>1, TerminationInductive, PTL
----------------------------------------------------------------------------
\* Consuming the first item of a stream leaves a stream.
LEMMA TailOnce ==
    ASSUME NEW S, NEW q \in Seq(S), q # <<>>
    PROVE  Tail(q) \in Seq(S) /\ Head(q) \in S
OBVIOUS

\* So does consuming two.
LEMMA TailTwice ==
    ASSUME NEW S, NEW q \in Seq(S), Len(q) > 1
    PROVE  Tail(Tail(q)) \in Seq(S)
<1>1. q # <<>>
  OBVIOUS
<1>2. Tail(q) \in Seq(S) /\ Len(Tail(q)) = Len(q) - 1
  BY <1>1
<1>3. Len(q) \in Nat
  OBVIOUS
<1>4. Len(Tail(q)) > 0
  BY <1>2, <1>3
<1>5. Tail(q) # <<>>
  <2> DEFINE r == Tail(q)
  <2>1. r \in Seq(S) /\ Len(r) > 0
    BY <1>2, <1>4
  <2> HIDE DEF r
  <2>2. r # <<>>
    BY <2>1
  <2> QED BY <2>2 DEF r
<1> QED BY <1>2, <1>5

\* What the processes send has the type of the stream it is sent on.
LEMMA SentTypes ==
    /\ \A t \in MessageTypes : Header(t) \in Words
    /\ Header("SetupFailed") \in StatusRecords /\ Tag \in StatusRecords
    /\ ReadyPayload \in Seq(Words)
    /\ \A g \in Stages \cup MaybeFate : FailedPayload(g) \in Seq(Words)
    /\ \A g \in Stages : FailedPayload(g)[1] \in StatusRecords
    /\ \A t \in Tokens : TerminatedPayload(t) \in Seq(Words)
    /\ \A f \in MaybeFate : WaitStatus(f) \in StatusRecords
  BY DEF Header, Words, Tokens, MessageTypes, StatusRecords, Tag, ReadyPayload,
         FailedPayload, TerminatedPayload, WaitStatus

\* Sending keeps the type of the control socket, ...
LEMMA SendUpType ==
    ASSUME NEW w \in Seq(Words), up \in Seq(Words), SendUp(w)
    PROVE  up' \in Seq(Words)
<1>1. up \o w \in Seq(Words)
  OBVIOUS
<1> QED BY <1>1 DEF SendUp

\* ... and of the status pipe.
LEMMA SendStatusType ==
    ASSUME NEW r \in StatusRecords, spipe \in Seq(StatusRecords), SendStatus(r)
    PROVE  spipe' \in Seq(StatusRecords)
<1>1. Append(spipe, r) \in Seq(StatusRecords)
  OBVIOUS
<1> QED BY <1>1 DEF SendStatus

\* The steps of child A, child B, the program and the clock keep the types.
LEMMA ChildTypes ==
    ASSUME TypeOK,
           ChildANext \/ ChildACrash \/ ChildBNext \/ ProgramNext \/ Tick \/ Returned
    PROVE  TypeOK'
<1>1. CASE ChildASync
  BY <1>1 DEF TypeOK, ChildASync, ChildAStates, MaybeFate, Fates, ProgramFates
<1>2. CASE ChildASetup
  BY <1>2 DEF TypeOK, ChildASetup, ChildAStates, ChildBStates
<1>3. CASE ChildASetupFails
  BY <1>3 DEF TypeOK, ChildASetupFails, SetupFailures, ChildAStates, Stages
<1>4. CASE ChildAReports
  <2>1. failedAt \in Stages /\ up \in Seq(Words) /\ spipe \in Seq(StatusRecords)
    BY DEF TypeOK
  <2>2. up' \in Seq(Words) /\ spipe' \in Seq(StatusRecords)
    <3>1. CASE apc = "ctlHeader"
      <4>1. <<Header("SetupFailed")>> \in Seq(Words)
        BY SentTypes DEF MessageTypes
      <4> QED BY <1>4, <2>1, <3>1, <4>1, SendUpType DEF ChildAReports
    <3>2. CASE apc = "ctlPayload"
      BY <1>4, <2>1, <3>2, SentTypes, SendUpType DEF ChildAReports
    <3>3. CASE apc = "stHeader" \/ apc = "stPayload"
      BY <1>4, <2>1, <3>3, SentTypes, SendStatusType DEF ChildAReports
    <3> QED BY <1>4, <3>1, <3>2, <3>3 DEF ChildAReports
  <2> QED BY <1>4, <2>2 DEF TypeOK, ChildAReports, ChildAStates
<1>5. CASE ChildAWait
  BY <1>5 DEF TypeOK, ChildAWait, ChildAStates, ChildBStates
<1>6. CASE ChildAForward
  <2>1. bstat \in MaybeFate /\ spipe \in Seq(StatusRecords)
    BY DEF TypeOK
  <2>2. /\ Tag \in StatusRecords /\ WaitStatus(bstat) \in StatusRecords
        /\ SendStatus(Tag) \/ SendStatus(WaitStatus(bstat))
    BY <1>6, <2>1, SentTypes DEF ChildAForward
  <2>3. spipe' \in Seq(StatusRecords)
    BY <2>1, <2>2, SendStatusType
  <2>4. apc' \in ChildAStates
    BY <1>6 DEF ChildAForward, ChildAStates
  <2> QED BY <1>6, <2>3, <2>4 DEF TypeOK, ChildAForward
<1>7. CASE ChildAExit
  BY <1>7 DEF TypeOK, ChildAExit, ChildAStates, MaybeFate, Fates, ProgramFates
<1>8. CASE ChildACrash
  BY <1>8 DEF TypeOK, ChildACrash, ChildAStates, MaybeFate, Fates, ProgramFates
<1>9. CASE ChildBExec
  BY <1>9 DEF TypeOK, ChildBExec, ChildBStates
<1>10. CASE ChildBSetupFails
  BY <1>10 DEF TypeOK, ChildBSetupFails, ChildBStates, Stages
<1>11. CASE ChildBReports
  <2>1. failedAt \in Stages /\ spipe \in Seq(StatusRecords)
    BY DEF TypeOK
  <2>2. spipe' \in Seq(StatusRecords)
    BY <1>11, <2>1, SentTypes, SendStatusType DEF ChildBReports
  <2> QED BY <1>11, <2>2 DEF TypeOK, ChildBReports, ChildBStates
<1>12. CASE ChildBExit
  BY <1>12 DEF TypeOK, ChildBExit, ChildBStates, MaybeFate, Fates, ProgramFates
<1>13. CASE \E s \in Streams : ProgramWrite(s)
  BY <1>13 DEF TypeOK, ProgramWrite, Streams
<1>14. CASE ProgramRead
  BY <1>14 DEF TypeOK, ProgramRead
<1>15. CASE ProgramExit
  BY <1>15 DEF TypeOK, ProgramExit, ChildBStates, MaybeFate, Fates
<1>16. CASE Tick
  BY <1>16 DEF TypeOK, Tick
<1>17. CASE Returned
  BY <1>17 DEF TypeOK, Returned, vars
<1> QED BY <1>1, <1>2, <1>3, <1>4, <1>5, <1>6, <1>7, <1>8, <1>9, <1>10, <1>11, <1>12,
           <1>13, <1>14, <1>15, <1>16, <1>17 DEF ChildANext, ChildBNext, ProgramNext
\* A kill leaves the children in the states they may be in.
LEMMA KillTypes ==
    ASSUME NEW P, TypeOK, Kill(P)
    PROVE  /\ apc' \in ChildAStates /\ astat' \in MaybeFate
           /\ bpc' \in ChildBStates /\ bstat' \in MaybeFate
  BY DEF Kill, TypeOK, ChildAStates, ChildBStates, MaybeFate, Fates

\* The supervisor's steps keep the types.
LEMMA SupTypes ==
    ASSUME TypeOK, SupNext \/ SupCrash
    PROVE  TypeOK'
<1>1. CASE PrepareEnvironment
  <2>1. /\ path' \in BOOLEAN /\ cgroup' \in BOOLEAN
    BY <1>1 DEF TypeOK, PrepareEnvironment, SetupCgroup
  <2>2. /\ spc' \in SupervisorStates /\ root' \in BOOLEAN
        /\ failure' \in Stages \cup MaybeFate /\ failedAt' \in Stages
    BY <1>1 DEF TypeOK, PrepareEnvironment, SupervisorStates, Stages
  <2> QED BY <1>1, <2>1, <2>2 DEF TypeOK, PrepareEnvironment
<1>2. CASE ForkChildA
  <2>1. /\ spc' \in SupervisorStates /\ apc' \in ChildAStates
    BY <1>2 DEF TypeOK, ForkChildA, SupervisorStates, ChildAStates
  <2> QED BY <1>2, <2>1 DEF TypeOK, ForkChildA
<1>3. CASE AttachChildA
  <2>1. /\ apc' \in ChildAStates /\ astat' \in MaybeFate
    BY <1>3 DEF TypeOK, AttachChildA, ReapChildA, ChildAStates, MaybeFate, Fates
  <2>2. /\ spc' \in SupervisorStates /\ path' \in BOOLEAN
        /\ members' \subseteq {"A", "B"}
    BY <1>3 DEF TypeOK, AttachChildA, AddProcessToCgroup, SupervisorStates
  <2> QED BY <1>3, <2>1, <2>2 DEF TypeOK, AttachChildA
<1>4. CASE ReleaseChildA
  <2>1. /\ apc' \in ChildAStates /\ astat' \in MaybeFate
    BY <1>4 DEF TypeOK, ReleaseChildA, ReapChildA, ChildAStates, MaybeFate, Fates
  <2>2. /\ spc' \in SupervisorStates /\ synced' \in BOOLEAN
    BY <1>4 DEF TypeOK, ReleaseChildA, SupervisorStates
  <2> QED BY <1>4, <2>1, <2>2 DEF TypeOK, ReleaseChildA
<1>5. CASE NoChild
  <2>1. /\ spc' \in SupervisorStates /\ path' \in BOOLEAN /\ cgroup' \in BOOLEAN
    BY <1>5 DEF TypeOK, NoChild, CleanupCgroup, SupervisorStates
  <2> QED BY <1>5, <2>1 DEF TypeOK, NoChild
<1>6. CASE SendReady
  <2>1. up' \in Seq(Words)
    <3>1. up \in Seq(Words) /\ swait \in Tokens /\ failure \in Stages \cup MaybeFate
      BY DEF TypeOK
    <3>2. CASE spc = "ready"
      <4>1. <<Header("Ready")>> \in Seq(Words)
        BY SentTypes DEF MessageTypes
      <4> QED BY <1>6, <3>1, <3>2, <4>1, SendUpType DEF SendReady
    <3>3. CASE spc = "readyPayload"
      BY <1>6, <3>1, <3>3, SentTypes, SendUpType DEF SendReady
    <3> QED BY <1>6, <3>2, <3>3 DEF SendReady
  <2>2. spc' \in SupervisorStates
    BY <1>6 DEF TypeOK, SendReady, SupervisorStates
  <2> QED BY <1>6, <2>1, <2>2 DEF TypeOK, SendReady
<1>7. CASE SupPoll
  <2>1. SupReadable \subseteq {"ctl", "status"}
    BY DEF SupReadable
  <2>2. /\ spc' \in SupervisorStates /\ srev' \subseteq {"ctl", "status"}
    BY <1>7, <2>1 DEF TypeOK, SupPoll, SupervisorStates
  <2> QED BY <1>7, <2>1, <2>2 DEF TypeOK, SupPoll
<1>8. CASE SupControl
  <2>1. /\ apc' \in ChildAStates /\ astat' \in MaybeFate
        /\ bpc' \in ChildBStates /\ bstat' \in MaybeFate
    BY <1>8, KillTypes DEF SupControl, Terminate
  <2>2. /\ spc' \in SupervisorStates /\ path' \in BOOLEAN /\ sterm' \in BOOLEAN
    BY <1>8 DEF TypeOK, SupControl, Terminate, SupervisorStates
  <2>3. /\ down' \in Nat /\ srev' \subseteq {"ctl", "status"}
    BY <1>8 DEF TypeOK, SupControl
  <2> QED BY <1>8, <2>1, <2>2, <2>3 DEF TypeOK, SupControl
<1>9. CASE SupStatus
  <2>1. /\ fwd' \in Tokens /\ spipe' \in Seq(StatusRecords)
        /\ failure' \in Stages \cup MaybeFate
    <3>1. spipe \in Seq(StatusRecords) /\ fwd \in Tokens
          /\ failure \in Stages \cup MaybeFate
      BY DEF TypeOK
    <3>2. \/ spipe' \in {spipe, <<>>} /\ fwd' = fwd /\ failure' = failure
          \/ /\ Len(spipe) > 1 /\ Head(spipe) = Tag /\ failure' = failure
             /\ fwd' = spipe[2].of /\ spipe' = Tail(Tail(spipe))
          \/ /\ spipe # <<>> /\ Head(spipe) # Tag /\ fwd' = fwd
             /\ failure' = StageRead(Head(spipe)) /\ spipe' = Tail(spipe)
      BY <1>9 DEF SupStatus
    <3>3. ASSUME Len(spipe) > 1
          PROVE  spipe[2].of \in Tokens /\ Tail(Tail(spipe)) \in Seq(StatusRecords)
      <4>1. spipe[2] \in StatusRecords
        BY <3>1, <3>3
      <4>2. spipe[2].of \in Tokens
        BY <4>1 DEF StatusRecords, Header, Tag, Tokens, MessageTypes
      <4> QED BY <3>1, <3>3, <4>2, TailTwice
    <3>4. ASSUME spipe # <<>>, Head(spipe) # Tag
          PROVE  /\ StageRead(Head(spipe)) \in Stages \cup MaybeFate
                 /\ Tail(spipe) \in Seq(StatusRecords)
      <4>1. Head(spipe) \in StatusRecords /\ Tail(spipe) \in Seq(StatusRecords)
        BY <3>1, <3>4, TailOnce
      <4>2. StageRead(Head(spipe)) \in Stages \cup MaybeFate
        BY <3>4, <4>1 DEF StatusRecords, Header, Tag, StageRead, Stages
      <4> QED BY <4>1, <4>2
    <3>5. <<>> \in Seq(StatusRecords)
      OBVIOUS
    <3> QED BY <3>1, <3>2, <3>3, <3>4, <3>5
  <2>2. /\ spc' \in SupervisorStates /\ srev' \subseteq {"ctl", "status"}
        /\ statusOpen' \in BOOLEAN
    BY <1>9 DEF TypeOK, SupStatus, SupervisorStates
  <2> QED BY <1>9, <2>1, <2>2 DEF TypeOK, SupStatus
<1>10. CASE SupWait
  <2>1. /\ spc' \in SupervisorStates /\ apc' \in ChildAStates
        /\ statusOpen' \in BOOLEAN /\ path' \in BOOLEAN /\ cgroup' \in BOOLEAN
    BY <1>10 DEF TypeOK, SupWait, CleanupCgroup, SupervisorStates, ChildAStates
  <2>2. swait' \in Tokens
    BY <1>10 DEF TypeOK, SupWait, Tokens
  <2> QED BY <1>10, <2>1, <2>2 DEF TypeOK, SupWait
<1>11. CASE SendTerminated
  <2>1. up' \in Seq(Words)
    <3>1. up \in Seq(Words) /\ swait \in Tokens /\ failure \in Stages \cup MaybeFate
      BY DEF TypeOK
    <3>2. CASE spc = "terminated"
      <4>1. <<Header("Terminated")>> \in Seq(Words)
        BY SentTypes DEF MessageTypes
      <4> QED BY <1>11, <3>1, <3>2, <4>1, SendUpType DEF SendTerminated
    <3>3. CASE spc = "terminatedPayload"
      BY <1>11, <3>1, <3>3, SentTypes, SendUpType DEF SendTerminated
    <3> QED BY <1>11, <3>2, <3>3 DEF SendTerminated
  <2>2. spc' \in SupervisorStates
    BY <1>11 DEF TypeOK, SendTerminated, SupervisorStates
  <2> QED BY <1>11, <2>1, <2>2 DEF TypeOK, SendTerminated
<1>12. CASE FailedWait
  <2>1. /\ spc' \in SupervisorStates /\ apc' \in ChildAStates /\ path' \in BOOLEAN
        /\ cgroup' \in BOOLEAN
    BY <1>12 DEF TypeOK, FailedWait, CleanupCgroup, SupervisorStates, ChildAStates
  <2> QED BY <1>12, <2>1 DEF TypeOK, FailedWait
<1>13. CASE SendFailed
  <2>1. up' \in Seq(Words)
    <3>1. up \in Seq(Words) /\ swait \in Tokens /\ failure \in Stages \cup MaybeFate
      BY DEF TypeOK
    <3>2. CASE spc = "failed"
      <4>1. <<Header("SetupFailed")>> \in Seq(Words)
        BY SentTypes DEF MessageTypes
      <4> QED BY <1>13, <3>1, <3>2, <4>1, SendUpType DEF SendFailed
    <3>3. CASE spc = "failedPayload"
      BY <1>13, <3>1, <3>3, SentTypes, SendUpType DEF SendFailed
    <3> QED BY <1>13, <3>2, <3>3 DEF SendFailed
  <2>2. spc' \in SupervisorStates
    BY <1>13 DEF TypeOK, SendFailed, SupervisorStates
  <2> QED BY <1>13, <2>1, <2>2 DEF TypeOK, SendFailed
<1>14. CASE SupFail
  <2>1. /\ apc' \in ChildAStates /\ astat' \in MaybeFate
        /\ bpc' \in ChildBStates /\ bstat' \in MaybeFate
    BY <1>14, KillTypes DEF SupFail, Terminate
  <2>2. /\ spc' \in SupervisorStates /\ path' \in BOOLEAN
    BY <1>14 DEF TypeOK, SupFail, Terminate, SupervisorStates
  <2> QED BY <1>14, <2>1, <2>2 DEF TypeOK, SupFail
<1>15. CASE SupFailKill
  <2>1. /\ apc' \in ChildAStates /\ astat' \in MaybeFate
    BY <1>15 DEF TypeOK, SupFailKill, ReapChildA, ChildAStates, MaybeFate, Fates
  <2>2. /\ spc' \in SupervisorStates /\ statusOpen' \in BOOLEAN
    BY <1>15 DEF TypeOK, SupFailKill, SupervisorStates
  <2> QED BY <1>15, <2>1, <2>2 DEF TypeOK, SupFailKill
<1>16. CASE SupCrash
  <2>1. spc' \in SupervisorStates
    BY <1>16 DEF TypeOK, SupCrash, SupervisorStates
  <2> QED BY <1>16, <2>1 DEF TypeOK, SupCrash
<1> QED BY <1>1, <1>2, <1>3, <1>4, <1>5, <1>6, <1>7, <1>8, <1>9, <1>10, <1>11, <1>12,
           <1>13, <1>14, <1>15, <1>16 DEF SupNext

\* The runner's steps keep the types.
LEMMA RunnerTypes ==
    ASSUME TypeOK, RunnerNext
    PROVE  TypeOK'
<1>1. CASE Start
  <2>1. /\ rpc' \in RunnerStates /\ result' \in Results
    BY <1>1 DEF TypeOK, Start, Return, Results, RunnerStates
  <2>2. /\ fds' \subseteq RunnerEnds \cup ChildEnds /\ spc' \in SupervisorStates
    BY <1>1 DEF TypeOK, Start, SupervisorStates
  <2> QED BY <1>1, <2>1, <2>2 DEF TypeOK, Start
<1>2. CASE ReceiveHeader
  <2>1. rpc' \in RunnerStates
    BY <1>2 DEF TypeOK, ReceiveHeader, RunnerStates
  <2>2. up \in Seq(Words)
    BY DEF TypeOK
  <2>3. up' \in Seq(Words)
    <3>1. (up' = Tail(up) /\ up # <<>>) \/ up' = up
      BY <1>2 DEF ReceiveHeader
    <3> QED BY <2>2, <3>1, TailOnce
  <2> QED BY <1>2, <2>1, <2>3 DEF TypeOK, ReceiveHeader
<1>3. CASE ReceivePayload
  <2>1. /\ rpc' \in RunnerStates /\ fds' \subseteq RunnerEnds \cup ChildEnds
    BY <1>3 DEF TypeOK, ReceivePayload, RunnerStates
  <2>2. up \in Seq(Words)
    BY DEF TypeOK
  <2>3. up' \in Seq(Words)
    <3>1. \/ up' = Tail(Tail(up)) /\ Len(up) > 1
          \/ up' = Tail(up) /\ up # <<>>
          \/ up' = up
      BY <1>3 DEF ReceivePayload
    <3> QED BY <2>2, <3>1, TailOnce, TailTwice
  <2> QED BY <1>3, <2>1, <2>3 DEF TypeOK, ReceivePayload
<1>4. CASE ReapAfterSetupFailed
  <2>1. /\ rpc' \in RunnerStates /\ result' \in Results
    BY <1>4 DEF TypeOK, ReapAfterSetupFailed, Return, Results, RunnerStates
  <2>2. /\ fds' \subseteq RunnerEnds \cup ChildEnds /\ spc' \in SupervisorStates
    BY <1>4 DEF TypeOK, ReapAfterSetupFailed, SupervisorStates
  <2> QED BY <1>4, <2>1, <2>2 DEF TypeOK, ReapAfterSetupFailed
<1>5. CASE KillSupervisor
  <2>1. /\ rpc' \in RunnerStates /\ spc' \in SupervisorStates
    BY <1>5 DEF TypeOK, KillSupervisor, KillAndReapSupervisor, RunnerStates,
                SupervisorStates
  <2> QED BY <1>5, <2>1 DEF TypeOK, KillSupervisor
<1>6. CASE KillCgroupBeforeReady
  <2>1. /\ apc' \in ChildAStates /\ astat' \in MaybeFate
        /\ bpc' \in ChildBStates /\ bstat' \in MaybeFate
    BY <1>6, KillTypes DEF KillCgroupBeforeReady, KillExecutionCgroup
  <2>2. /\ rpc' \in RunnerStates /\ fds' \subseteq RunnerEnds \cup ChildEnds
    BY <1>6 DEF TypeOK, KillCgroupBeforeReady, Return, RunnerStates
  <2>3. result' \in Results
    BY <1>6 DEF TypeOK, KillCgroupBeforeReady, Return, Results
  <2> QED BY <1>6, <2>1, <2>2, <2>3 DEF TypeOK, KillCgroupBeforeReady
<1>7. CASE RemoveCgroupBeforeReady
  <2>1. cgroup' \in BOOLEAN
    BY <1>7 DEF TypeOK, RemoveCgroupBeforeReady, CleanupExecutionCgroup
  <2>2. /\ rpc' \in RunnerStates /\ fds' \subseteq RunnerEnds \cup ChildEnds
        /\ result' \in Results
    BY <1>7 DEF TypeOK, RemoveCgroupBeforeReady, Return, Results, RunnerStates
  <2> QED BY <1>7, <2>1, <2>2 DEF TypeOK, RemoveCgroupBeforeReady
<1>8. CASE Deadline
  <2>1. /\ rpc' \in RunnerStates /\ reports' \in BOOLEAN /\ rterm' \in BOOLEAN
        /\ fds' \subseteq RunnerEnds \cup ChildEnds
    BY <1>8 DEF TypeOK, Deadline, FailWith, RunnerStates
  <2>2. down' \in Nat
    <3>1. down' = down + 1 \/ down' = down
      BY <1>8 DEF Deadline
    <3>2. down \in Nat
      BY DEF TypeOK
    <3> QED BY <3>1, <3>2
  <2>3. result' \in Results
    <3>1. result \in Results
      BY DEF TypeOK
    <3>2. [result EXCEPT !.tle = TRUE] \in Results
      BY <3>1 DEF Results
    <3> QED BY <1>8, <3>1, <3>2 DEF Deadline
  <2> QED BY <1>8, <2>1, <2>2, <2>3 DEF TypeOK, Deadline
<1>9. CASE Poll
  <2>1. Pollable \subseteq DOMAIN FdOf
    BY DEF Pollable
  <2> QED BY <1>9, <2>1 DEF TypeOK, Poll
<1>23. CASE PollFails
  <2>1. rpc' \in RunnerStates /\ reports' \in BOOLEAN
    BY <1>23 DEF PollFails, FailWith, RunnerStates
  <2> QED BY <1>23, <2>1 DEF TypeOK, PollFails
<1>10. CASE HandleControl
  <2>1. /\ rpc' \in RunnerStates /\ reports' \in BOOLEAN
        /\ rev' \subseteq DOMAIN FdOf
    BY <1>10 DEF TypeOK, HandleControl, FailWith, RunnerStates
  <2>2. up \in Seq(Words)
    BY DEF TypeOK
  <2>3. up' \in Seq(Words)
    <3>1. (up' = Tail(up) /\ up # <<>>) \/ up' = up
      BY <1>10 DEF HandleControl
    <3> QED BY <2>2, <3>1, TailOnce
  <2> QED BY <1>10, <2>1, <2>3 DEF TypeOK, HandleControl
<1>11. CASE LateSetupFailed
  <2>1. /\ rpc' \in RunnerStates /\ reports' \in BOOLEAN
        /\ fds' \subseteq RunnerEnds \cup ChildEnds
    BY <1>11 DEF TypeOK, LateSetupFailed, FailWith, RunnerStates
  <2>2. up \in Seq(Words)
    BY DEF TypeOK
  <2>3. up' \in Seq(Words)
    <3>1. (up' = Tail(up) /\ up # <<>>) \/ up' = up
      BY <1>11 DEF LateSetupFailed
    <3> QED BY <2>2, <3>1, TailOnce
  <2> QED BY <1>11, <2>1, <2>3 DEF TypeOK, LateSetupFailed
<1>12. CASE ReapAfterLateSetupFailed
  <2>1. /\ rpc' \in RunnerStates /\ result' \in Results
    BY <1>12 DEF TypeOK, ReapAfterLateSetupFailed, Return, Results, RunnerStates
  <2>2. /\ fds' \subseteq RunnerEnds \cup ChildEnds /\ spc' \in SupervisorStates
    BY <1>12 DEF TypeOK, ReapAfterLateSetupFailed, SupervisorStates
  <2> QED BY <1>12, <2>1, <2>2 DEF TypeOK, ReapAfterLateSetupFailed
<1>13. CASE TerminatedReceived
  <2>1. /\ rpc' \in RunnerStates /\ reports' \in BOOLEAN
        /\ fds' \subseteq RunnerEnds \cup ChildEnds /\ finished' \in BOOLEAN
    BY <1>13 DEF TypeOK, TerminatedReceived, FailWith, RunnerStates
  <2>2. up \in Seq(Words) /\ rstatus \in Tokens
    BY DEF TypeOK
  <2>3. up' \in Seq(Words) /\ rstatus' \in Tokens
    <3>1. CASE up # <<>>
      <4>1. Tail(up) \in Seq(Words) /\ Head(up) \in Words
        BY <2>2, <3>1, TailOnce
      <4>2. Head(up).of \in Tokens
        BY <4>1 DEF Words
      <4> QED BY <1>13, <2>2, <4>1, <4>2 DEF TerminatedReceived
    <3>2. CASE up = <<>>
      BY <1>13, <2>2, <3>2 DEF TerminatedReceived
    <3> QED BY <3>1, <3>2
  <2> QED BY <1>13, <2>1, <2>3 DEF TypeOK, TerminatedReceived
<1>14. CASE ReapAfterTerminated
  <2>1. /\ rpc' \in RunnerStates /\ spc' \in SupervisorStates
        /\ fds' \subseteq RunnerEnds \cup ChildEnds
    BY <1>14 DEF TypeOK, ReapAfterTerminated, RunnerStates, SupervisorStates
  <2>2. result' \in Results
    BY <1>14 DEF TypeOK, ReapAfterTerminated, Results
  <2> QED BY <1>14, <2>1, <2>2 DEF TypeOK, ReapAfterTerminated
<1>15. CASE HandleStdin
  <2>1. /\ rpc' \in RunnerStates /\ reports' \in BOOLEAN
        /\ rev' \subseteq DOMAIN FdOf /\ fds' \subseteq RunnerEnds \cup ChildEnds
    BY <1>15 DEF TypeOK, HandleStdin, FailWith, RunnerStates
  <2>2. pipe' \in [{"in"} \cup Streams -> Nat]
    <3>1. pipe \in [{"in"} \cup Streams -> Nat]
      BY DEF TypeOK
    <3>2. [pipe EXCEPT !["in"] = @ + 1] \in [{"in"} \cup Streams -> Nat]
      BY <3>1
    <3>3. pipe' = pipe \/ pipe' = [pipe EXCEPT !["in"] = @ + 1]
      BY <1>15 DEF HandleStdin
    <3> QED BY <3>1, <3>2, <3>3
  <2>3. inOff' \in 0 .. SizeMod - 1
    <3>1. /\ inOff \in 0 .. SizeMod - 1 /\ SizeMod \in Nat /\ InputLen < SizeMod
          /\ InputLen \in Nat /\ ChunkSize \in Nat
      BY ConfigAssumption DEF TypeOK
    <3>2. StdinChunk \in Int
      BY <3>1 DEF StdinChunk
    <3>3. SizeMod > 0
      BY <3>1
    <3>4. \A k \in Int : k % SizeMod \in 0 .. SizeMod - 1
      BY <3>1, <3>3
    <3>5. inOff + StdinChunk \in Int /\ inOff + SizeMod - 1 \in Int
      BY <3>1, <3>2
    <3>6. \/ inOff' = inOff \/ inOff' = (inOff + StdinChunk) % SizeMod
          \/ inOff' = (inOff + SizeMod - 1) % SizeMod
      BY <1>15 DEF HandleStdin
    <3> QED BY <3>1, <3>4, <3>5, <3>6
  <2> QED BY <1>15, <2>1, <2>2, <2>3 DEF TypeOK, HandleStdin
<1>16. CASE \E s \in Streams : HandleStream(s)
  <2>1. /\ rpc' \in RunnerStates /\ reports' \in BOOLEAN
        /\ rev' \subseteq DOMAIN FdOf /\ fds' \subseteq RunnerEnds \cup ChildEnds
    BY <1>16 DEF TypeOK, HandleStream, FailWith, RunnerStates, ReadChunk
  <2>2. /\ pipe' \in [{"in"} \cup Streams -> Nat] /\ captured' \in [Streams -> Nat]
    <3>1. pipe \in [{"in"} \cup Streams -> Nat] /\ captured \in [Streams -> Nat]
      BY DEF TypeOK
    <3>2. PICK s \in Streams : HandleStream(s)
      BY <1>16
    <3>3. \/ pipe' = pipe /\ captured' = captured
          \/ pipe[s] > 0 /\ ReadChunk(s)
      BY <3>2 DEF HandleStream
    <3>4. CASE pipe[s] > 0 /\ ReadChunk(s)
      <4>1. pipe[s] - 1 \in Nat /\ captured[s] + 1 \in Nat
        BY <3>1, <3>4
      <4> QED BY <3>1, <3>4, <4>1 DEF ReadChunk
    <3> QED BY <3>1, <3>3, <3>4
  <2> QED BY <1>16, <2>1, <2>2 DEF TypeOK, HandleStream
<1>17. CASE Finish
  <2>1. \/ Return("TimedOut", "TimedOut") \/ Return("Signaled", "Signaled")
        \/ Return("Finished", "Completed")
    BY <1>17 DEF Finish
  <2>2. result \in Results
    BY DEF TypeOK
  <2>3. rpc' \in RunnerStates /\ result' \in Results
    BY <2>1, <2>2 DEF Return, Results, RunnerStates
  <2> QED BY <1>17, <2>3 DEF TypeOK, Finish
<1>18. CASE FailureStart
  <2>1. /\ rpc' \in RunnerStates /\ fds' \subseteq RunnerEnds \cup ChildEnds
        /\ rterm' \in BOOLEAN
    BY <1>18 DEF TypeOK, FailureStart, RunnerStates
  <2>2. down' \in Nat
    BY <1>18 DEF TypeOK, FailureStart
  <2> QED BY <1>18, <2>1, <2>2 DEF TypeOK, FailureStart
<1>19. CASE FailureWait
  <2>1. /\ rpc' \in RunnerStates /\ spc' \in SupervisorStates
    BY <1>19 DEF TypeOK, FailureWait, RunnerStates, SupervisorStates
  <2> QED BY <1>19, <2>1 DEF TypeOK, FailureWait
<1>20. CASE FailureKill
  <2>1. /\ apc' \in ChildAStates /\ astat' \in MaybeFate
        /\ bpc' \in ChildBStates /\ bstat' \in MaybeFate
    BY <1>20, KillTypes DEF FailureKill, KillExecutionCgroup
  <2>2. rpc' \in RunnerStates
    BY <1>20 DEF TypeOK, FailureKill, RunnerStates
  <2> QED BY <1>20, <2>1, <2>2 DEF TypeOK, FailureKill
<1>21. CASE FailureEmpty
  <2>1. /\ rpc' \in RunnerStates /\ contained' \in BOOLEAN
    BY <1>21 DEF TypeOK, FailureEmpty, ExecutionCgroupEmpty, RunnerStates
  <2> QED BY <1>21, <2>1 DEF TypeOK, FailureEmpty
<1>22. CASE FailureReap
  <2>1. /\ rpc' \in RunnerStates /\ result' \in Results
    BY <1>22 DEF TypeOK, FailureReap, Return, Results, RunnerStates
  <2>2. /\ fds' \subseteq RunnerEnds \cup ChildEnds /\ spc' \in SupervisorStates
        /\ cgroup' \in BOOLEAN
    BY <1>22 DEF TypeOK, FailureReap, KillAndReapSupervisor, CleanupExecutionCgroup,
                 SupervisorStates
  <2> QED BY <1>22, <2>1, <2>2 DEF TypeOK, FailureReap
<1> QED BY <1>1, <1>2, <1>3, <1>4, <1>5, <1>6, <1>7, <1>8, <1>9, <1>10, <1>11, <1>12,
           <1>13, <1>14, <1>15, <1>16, <1>17, <1>18, <1>19, <1>20, <1>21, <1>22,
           <1>23 DEF RunnerNext, RunnerStep

\* Type correctness, for every value of the constants.
THEOREM TypeCorrect == Spec => []TypeOK
<1>1. Init => TypeOK
  <2> SUFFICES ASSUME Init PROVE TypeOK
    OBVIOUS
  <2>1. up \in Seq(Words) /\ spipe \in Seq(StatusRecords)
    BY DEF Init
  <2>2. inOff \in 0 .. SizeMod - 1
    BY ConfigAssumption DEF Init
  <2>3. result \in Results /\ rstatus \in Tokens /\ fwd \in Tokens /\ swait \in Tokens
    BY DEF Init, Results, Tokens, MaybeFate
  <2> QED BY <2>1, <2>2, <2>3 DEF Init, TypeOK, RunnerStates, SupervisorStates,
             ChildAStates, ChildBStates, MaybeFate, Stages
<1>2. TypeOK /\ [Next]_vars => TypeOK'
  <2> SUFFICES ASSUME TypeOK, [Next]_vars PROVE TypeOK'
    OBVIOUS
  <2>1. CASE RunnerNext
    BY <2>1, RunnerTypes
  <2>2. CASE SupNext \/ SupCrash
    BY <2>2, SupTypes
  <2>3. CASE ChildANext \/ ChildACrash \/ ChildBNext \/ ProgramNext \/ Tick \/ Returned
    BY <2>3, ChildTypes
  <2>4. CASE UNCHANGED vars
    BY <2>4 DEF vars, TypeOK
  <2> QED BY <2>1, <2>2, <2>3, <2>4 DEF Next
<1> QED BY <1>1, <1>2, PTL DEF Spec
============================================================================
