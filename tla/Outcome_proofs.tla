--------------------------- MODULE Outcome_proofs ---------------------------
(***************************************************************************)
(* Proofs about what ProcessRunner::run returns, for every host and every  *)
(* combination of faults: no survivor, released resources, the program's   *)
(* own end as the reported one, and the contract with the modules above.   *)
(***************************************************************************)
EXTENDS ProcessRunner_proofs

----------------------------------------------------------------------------
\* The inductive invariant, in its parts

\* A forks B after its own setup and reaps it before it forwards anything; B is in
\* the cgroup whenever A is, so that one write to cgroup.kill ends both.
Unforked == {"none", "sync", "setup", "ctlHeader", "ctlPayload", "stHeader", "stPayload",
             "fail"}
Forwarding == {"fwdTag", "fwdStatus", "exit"}
ChildInv ==
    /\ spc \in {"none", "prepare", "fork"} => apc = "none"
    /\ apc \in Unforked => bpc = "none"
    /\ apc \in Forwarding => bpc = "reaped"
    /\ bpc = "reaped" => apc \in Forwarding \cup {"dead", "reaped"}
    /\ bpc \in {"dead", "reaped"} => bstat \in Fates
    /\ apc = "dead" => astat \in Fates
    /\ "A" \in members /\ bpc # "none" => "B" \in members
    /\ "childA" \notin faults /\ apc = "dead" => ~BAlive

\* In the status pipe, nothing but B's wait status follows a tag.
StatusInv ==
    /\ \A i \in 1 .. Len(spipe) : spipe[i] = Tag =>
         /\ bpc = "reaped" /\ apc \in {"fwdStatus", "exit", "dead", "reaped"}
         /\ apc = "fwdStatus" => i = Len(spipe)
         /\ \A j \in i + 1 .. Len(spipe) : spipe[j] = WaitStatus(bstat)
    /\ fwd # "none" => bpc = "reaped" /\ fwd = bstat

\* In the control socket, nothing but its payload follows the header of Terminated,
\* although A writes to the same socket: the supervisor has reaped A by then.
Terminal == {"terminatedPayload", "dead", "reaped"}
TerminatedWord == [kind |-> "terminated", of |-> swait]
BeforeReady == {"start", "ready", "failedPayload", "failedReap", "killSupervisor",
                "killCgroup", "awaitEmpty"}
WireInv ==
    /\ \A i \in 1 .. Len(up) : up[i] = Header("Terminated") =>
         spc \in Terminal /\ \A j \in i + 1 .. Len(up) : up[j] = TerminatedWord
    /\ rpc = "terminatedPayload" =>
         spc \in Terminal /\ \A j \in 1 .. Len(up) : up[j] = TerminatedWord
    /\ \A i \in 1 .. Len(up) : up[i] = Header("Ready") => synced
    /\ rpc \notin BeforeReady \cup {"done"} => synced

\* Terminated has been sent, or is about to be.
Ended ==
    \/ spc \in {"terminated", "terminatedPayload"}
    \/ \E i \in 1 .. Len(up) : up[i] = Header("Terminated")
    \/ rpc \in {"terminatedPayload", "terminatedReap"}
    \/ finished

\* run() has given up on the program.
Failing == {"failure", "failureWait", "failureKill", "failureEmpty", "failureReap"}
Doomed == \/ rpc \in {"killSupervisor", "killCgroup", "awaitEmpty"} \cup Failing
          \/ rpc = "done" /\ ~Succeeded

\* Nothing but the program itself has ended B.
Undisturbed ==
    ~result.tle /\ ~Doomed /\ failedAt = "None" /\ "childA" \notin faults

\* A supervisor that reports Terminated has reaped A and removed the cgroup, and what
\* it reports is how B ended.
EndedFacts ==
    /\ apc = "reaped" /\ swait \in Fates /\ spc \in {"terminated"} \cup Terminal
    /\ denied = {} => ~cgroup
    /\ ("childA" \in faults => denied = {}) => ~BAlive
    /\ Undisturbed => swait = bstat
EndedInv == Ended => EndedFacts

\* A dead A ended the way B did, unless someone asked for its termination.
DeadAsB == Undisturbed /\ spc \in Monitoring /\ apc = "dead" => astat = bstat
FailureNamed ==
    apc \in {"ctlHeader", "ctlPayload", "stHeader", "stPayload", "fail"} => failedAt # "None"
TerminateMeant == down > 0 => result.tle \/ Doomed
FaithInv == DeadAsB /\ FailureNamed /\ TerminateMeant

\* What cleanup_after_failure takes for contained has no process left.
ContainedInv == contained /\ Attachable => synced /\ ~AAlive /\ ~BAlive

\* The result as run() builds it.
ResultInv ==
    /\ rpc # "done" => result.state = "Created" /\ result.status = "RunnerFailure"
    /\ rpc \in BeforeReady \cup {"readyPayload"} => ~result.tle
    /\ ~finished => result.wait = "none"
    /\ finished => /\ rpc \in {"terminatedReap", "loop", "done"}
                   /\ rstatus = swait /\ "ctl0" \notin fds
    /\ rpc = "terminatedReap" => finished
    /\ finished /\ rpc # "terminatedReap" => fds = {} /\ result.wait = rstatus
    /\ rpc \notin BeforeReady \cup {"readyPayload", "done"} => fds \subseteq RunnerEnds
    /\ reports => rpc \in Failing \cup {"done"}
    /\ rpc = "done" => /\ result \in RunOutcomes
                       /\ Succeeded => finished
                       /\ reports /\ result.status = "RunnerFailure" => contained

USE DEF hostVars, runnerVars, supVars, childVars, cgVars, wireVars, streamVars

----------------------------------------------------------------------------
\* The children

childInvVars == <<faults, spc, apc, astat, bpc, bstat, members>>

\* ChildInv depends on these variables alone.
LEMMA ChildStutter ==
    ASSUME ChildInv, UNCHANGED childInvVars
    PROVE  ChildInv'
  BY DEF ChildInv, childInvVars, BAlive

\* SIGKILL to the members of the cgroup keeps ChildInv: it never kills A and leaves a B
\* that A had forked.
LEMMA KillChildren ==
    ASSUME ChildInv, Kill(LiveMembers) \/ Kill({}), UNCHANGED <<faults, members>>,
           spc' = spc \/ spc' \notin {"none", "prepare", "fork"}
    PROVE  ChildInv'
<1>1. CASE Kill({})
  <2>1. UNCHANGED <<apc, astat, bpc, bstat>>
    BY <1>1 DEF Kill
  <2> QED BY <2>1 DEF ChildInv, BAlive
<1>2. CASE Kill(LiveMembers)
  <2>1. "A" \in LiveMembers <=> "A" \in members /\ AAlive
    BY DEF LiveMembers
  <2>2. "B" \in LiveMembers <=> "B" \in members /\ BAlive
    BY DEF LiveMembers
  <2>3. CASE ~("A" \in members /\ AAlive) /\ ~("B" \in members /\ BAlive)
    BY <1>2, <2>1, <2>2, <2>3 DEF Kill, ChildInv, BAlive
  <2>4. CASE ("A" \in members /\ AAlive) /\ ~("B" \in members /\ BAlive)
    <3>1. apc' = "dead" /\ astat' = "killed" /\ bpc' = bpc /\ bstat' = bstat
      BY <1>2, <2>1, <2>2, <2>4 DEF Kill
    <3>2. ~BAlive
      BY <2>4 DEF ChildInv, BAlive
    <3> QED BY <3>1, <3>2, <2>4 DEF ChildInv, BAlive, AAlive, Fates, Unforked, Forwarding
  <2>5. CASE ~("A" \in members /\ AAlive) /\ ("B" \in members /\ BAlive)
    <3>1. apc' = apc /\ astat' = astat /\ bpc' = "dead" /\ bstat' = "killed"
      BY <1>2, <2>1, <2>2, <2>5 DEF Kill
    <3> QED BY <3>1, <2>5 DEF ChildInv, BAlive, AAlive, Fates, Unforked, Forwarding
  <2>6. CASE ("A" \in members /\ AAlive) /\ ("B" \in members /\ BAlive)
    <3>1. apc' = "dead" /\ astat' = "killed" /\ bpc' = "dead" /\ bstat' = "killed"
      BY <1>2, <2>1, <2>2, <2>6 DEF Kill
    <3> QED BY <3>1, <2>6 DEF ChildInv, BAlive, AAlive, Fates, Unforked, Forwarding
  <2> QED BY <2>3, <2>4, <2>5, <2>6
<1> QED BY <1>1, <1>2

\* The children's own steps keep ChildInv.
LEMMA ChildrenChild ==
    ASSUME ChildInv, ContainmentInv,
           ChildANext \/ ChildACrash \/ ChildBNext \/ ProgramNext \/ Tick \/ Returned
    PROVE  ChildInv'
<1> USE DEF ChildInv, BAlive, Unforked, Forwarding
<1>1. CASE ChildASync
  BY <1>1 DEF ChildASync, Fates, ProgramFates
<1>2. CASE ChildASetup
  BY <1>2 DEF ChildASetup
<1>3. CASE ChildASetupFails
  BY <1>3 DEF ChildASetupFails, SetupFailures
<1>4. CASE ChildAReports \/ ChildAWait \/ ChildAForward
  BY <1>4 DEF ChildAReports, ChildAWait, ChildAForward
<1>5. CASE ChildAExit
  BY <1>5 DEF ChildAExit, Fates, ProgramFates
<1>6. CASE ChildACrash
  BY <1>6 DEF ChildACrash, AAlive, Fates
<1>7. CASE ChildBNext
  BY <1>7 DEF ChildBNext, ChildBExec, ChildBSetupFails, ChildBReports, ChildBExit, Fates,
              ProgramFates
<1>8. CASE ProgramExit
  BY <1>8 DEF ProgramExit, Fates
<1>9. CASE (\E s \in Streams : ProgramWrite(s)) \/ ProgramRead \/ Tick \/ Returned
  BY <1>9 DEF ProgramWrite, ProgramRead, Tick, Returned, vars
<1> QED BY <1>1, <1>2, <1>3, <1>4, <1>5, <1>6, <1>7, <1>8, <1>9 DEF ChildANext, ProgramNext

\* The supervisor's steps keep it.
LEMMA SupChild ==
    ASSUME ChildInv, ContainmentInv, SupNext \/ SupCrash
    PROVE  ChildInv'
<1>1. CASE SupControl \/ SupFail
  <2>1. Kill(LiveMembers) \/ Kill({})
    BY <1>1 DEF SupControl, SupFail, Terminate
  <2>2. UNCHANGED <<faults, members>> /\ (spc' = spc \/ spc' \notin {"none", "prepare", "fork"})
    BY <1>1 DEF SupControl, SupFail
  <2> QED BY <2>1, <2>2, KillChildren
<1> USE DEF ChildInv, BAlive, Unforked, Forwarding
<1>2. CASE PrepareEnvironment
  BY <1>2 DEF PrepareEnvironment
<1>3. CASE ForkChildA
  BY <1>3 DEF ForkChildA
<1>4. CASE AttachChildA
  <2>1. bpc = "none"
    BY <1>4 DEF AttachChildA, ContainmentInv, Early
  <2> QED BY <1>4, <2>1 DEF AttachChildA, AddProcessToCgroup, ReapChildA
<1>5. CASE ReleaseChildA
  <2>1. bpc = "none"
    BY <1>5 DEF ReleaseChildA, ContainmentInv, Early
  <2> QED BY <1>5, <2>1 DEF ReleaseChildA, ReapChildA
<1>6. CASE NoChild \/ SendReady \/ SupPoll \/ SupStatus \/ SendTerminated \/ SendFailed
  BY <1>6 DEF NoChild, SendReady, SupPoll, SupStatus, SendTerminated, SendFailed
<1>7. CASE SupWait \/ FailedWait
  BY <1>7 DEF SupWait, FailedWait
<1>8. CASE SupFailKill \/ SupCrash
  BY <1>8 DEF SupFailKill, SupCrash, ReapChildA, SupAlive
<1> QED BY <1>1, <1>2, <1>3, <1>4, <1>5, <1>6, <1>7, <1>8 DEF SupNext

\* The runner's steps keep it.
LEMMA RunnerChild ==
    ASSUME ChildInv, ReapInv, RunnerNext
    PROVE  ChildInv'
<1>1. CASE KillCgroupBeforeReady \/ FailureKill
  <2>1. Kill(LiveMembers) \/ Kill({})
    BY <1>1 DEF KillCgroupBeforeReady, FailureKill, KillExecutionCgroup
  <2>2. UNCHANGED <<faults, members, spc>>
    BY <1>1 DEF KillCgroupBeforeReady, FailureKill
  <2> QED BY <2>1, <2>2, KillChildren
<1>2. CASE Start
  BY <1>2 DEF Start, ChildInv, BAlive, ReapInv
<1>3. CASE \/ ReapAfterSetupFailed \/ KillSupervisor \/ ReapAfterLateSetupFailed
           \/ ReapAfterTerminated \/ FailureWait \/ FailureReap
  <2>1. UNCHANGED <<faults, apc, astat, bpc, bstat, members>> /\ spc' \in {spc, "reaped"}
    BY <1>3 DEF ReapAfterSetupFailed, KillSupervisor, ReapAfterLateSetupFailed,
         ReapAfterTerminated, FailureWait, FailureReap, KillAndReapSupervisor
  <2> QED BY <2>1 DEF ChildInv, BAlive
<1>4. CASE \/ ReceiveHeader \/ ReceivePayload \/ RemoveCgroupBeforeReady \/ Deadline \/ Poll
           \/ PollFails \/ HandleControl \/ LateSetupFailed \/ TerminatedReceived
           \/ HandleStdin \/ (\E s \in Streams : HandleStream(s)) \/ Finish \/ FailureStart
           \/ FailureEmpty
  <2>1. UNCHANGED childInvVars
    BY <1>4 DEF childInvVars, ReceiveHeader, ReceivePayload, RemoveCgroupBeforeReady,
         Deadline, Poll, PollFails, HandleControl, LateSetupFailed, TerminatedReceived,
         HandleStdin, HandleStream, Finish, FailureStart, FailureEmpty
  <2> QED BY <2>1, ChildStutter
<1> QED BY <1>1, <1>2, <1>3, <1>4 DEF RunnerNext, RunnerStep

----------------------------------------------------------------------------
\* The status pipe

\* A step that leaves the pipe alone, does not touch a reaped B and does not bring A
\* back keeps StatusInv.
LEMMA StatusKept ==
    ASSUME StatusInv, UNCHANGED <<spipe, fwd>>,
           bpc = "reaped" => UNCHANGED <<bpc, bstat>>,
           apc' = apc \/ apc' \in {"dead", "reaped"}
             \/ apc \notin {"fwdStatus", "exit", "dead", "reaped"}
    PROVE  StatusInv'
<1> DEFINE Past == {"fwdStatus", "exit", "dead", "reaped"}
<1>1. apc \in Past => apc' \in Past /\ (apc' = "fwdStatus" => apc = "fwdStatus")
  OBVIOUS
<1>2. Tag' = Tag /\ WaitStatus(bstat)' = WaitStatus(bstat') /\ Len(spipe)' = Len(spipe)
  BY DEF Tag, WaitStatus
<1>3. ASSUME NEW i \in 1 .. Len(spipe), spipe[i] = Tag
      PROVE  /\ bpc' = "reaped" /\ apc' \in Past /\ (apc' = "fwdStatus" => i = Len(spipe))
             /\ \A j \in i + 1 .. Len(spipe) : spipe[j] = WaitStatus(bstat')
  BY <1>1, <1>3 DEF StatusInv
<1>4. fwd # "none" => bpc' = "reaped" /\ fwd = bstat'
  BY DEF StatusInv
<1> QED BY <1>3, <1>4 DEF StatusInv

\* A record from a child whose B is not reaped, or a wait status after a tag, keeps it.
LEMMA StatusAppend ==
    ASSUME StatusInv, spipe \in Seq(StatusRecords), NEW r, r \in StatusRecords, r # Tag,
           spipe' = Append(spipe, r), UNCHANGED <<fwd, bpc, bstat>>,
           \/ bpc # "reaped"
           \/ apc = "fwdStatus" /\ apc' = "exit" /\ r = WaitStatus(bstat)
    PROVE  StatusInv'
<1> DEFINE n == Len(spipe)
<1>1. n \in Nat /\ Len(spipe') = n + 1 /\ spipe'[n + 1] = r
      /\ \A i \in 1 .. n : spipe'[i] = spipe[i]
  OBVIOUS
<1> HIDE DEF n
<1>2. n = Len(spipe)
  BY DEF n
<1>3. ASSUME NEW i \in 1 .. n + 1, spipe'[i] = Tag
      PROVE  i \in 1 .. n /\ spipe[i] = Tag
  BY <1>1, <1>3 DEF Tag
<1>4. ASSUME NEW i \in 1 .. n + 1, spipe'[i] = Tag
      PROVE  /\ bpc' = "reaped" /\ apc' = "exit" /\ i = n
             /\ \A j \in i + 1 .. n + 1 : spipe'[j] = WaitStatus(bstat')
  <2>1. i \in 1 .. n /\ spipe[i] = Tag
    BY <1>3, <1>4
  <2>2. bpc = "reaped" /\ apc = "fwdStatus" /\ i = n /\ apc' = "exit" /\ r = WaitStatus(bstat)
    BY <1>2, <2>1 DEF StatusInv
  <2>3. WaitStatus(bstat') = WaitStatus(bstat)
    OBVIOUS
  <2> QED BY <1>1, <2>2, <2>3
<1>5. Tag' = Tag
  BY DEF Tag
<1> QED BY <1>1, <1>4, <1>5 DEF StatusInv

\* The children's steps keep StatusInv: A writes the tag once B is reaped and nobody
\* else writes, and the wait status right after it.
LEMMA ChildrenStatus ==
    ASSUME StatusInv, ChildInv, TypeOK,
           ChildANext \/ ChildACrash \/ ChildBNext \/ ProgramNext \/ Tick \/ Returned
    PROVE  StatusInv'
<1>0. spipe \in Seq(StatusRecords) /\ failedAt \in Stages /\ bstat \in MaybeFate
  BY DEF TypeOK
<1>1. /\ Header("SetupFailed") \in StatusRecords /\ Header("SetupFailed") # Tag
      /\ FailedPayload(failedAt)[1] \in StatusRecords /\ FailedPayload(failedAt)[1] # Tag
      /\ WaitStatus(bstat) \in StatusRecords /\ WaitStatus(bstat) # Tag
  BY <1>0 DEF Header, Tag, FailedPayload, WaitStatus, StatusRecords
<1>2. CASE ChildAReports
  <2>1. bpc # "reaped" /\ apc \notin {"fwdStatus", "exit", "dead", "reaped"}
    BY <1>2 DEF ChildAReports, ChildInv, Unforked
  <2>2. UNCHANGED <<fwd, bpc, bstat>>
    BY <1>2 DEF ChildAReports
  <2>3. CASE spipe' = spipe
    BY <2>1, <2>2, <2>3, StatusKept
  <2>4. CASE \E r \in {Header("SetupFailed"), FailedPayload(failedAt)[1]} :
               spipe' = Append(spipe, r)
    BY <1>0, <1>1, <2>1, <2>2, <2>4, StatusAppend
  <2> QED BY <1>2, <2>3, <2>4 DEF ChildAReports, SendStatus
<1>3. CASE ChildAForward
  <2>1. UNCHANGED <<fwd, bpc, bstat>> /\ bpc = "reaped"
    BY <1>3 DEF ChildAForward, ChildInv, Forwarding
  <2>2. CASE apc = "fwdTag" /\ apc' = "fwdStatus" /\ spipe' = Append(spipe, Tag)
    <3> DEFINE n == Len(spipe)
    <3>1. /\ n \in Nat /\ Len(spipe') = n + 1 /\ spipe'[n + 1] = Tag
          /\ \A i \in 1 .. n : spipe'[i] = spipe[i]
      BY <1>0, <2>2
    <3>2. \A i \in 1 .. n : spipe[i] # Tag
      BY <2>2 DEF StatusInv
    <3>3. Tag' = Tag
      BY DEF Tag
    <3> HIDE DEF n
    <3>4. \A i \in 1 .. n + 1 : spipe'[i] = Tag => i = n + 1
      BY <3>1, <3>2
    <3> QED BY <2>1, <2>2, <3>1, <3>3, <3>4 DEF StatusInv
  <2>3. CASE apc = "fwdStatus" /\ apc' = "exit" /\ spipe' = Append(spipe, WaitStatus(bstat))
    BY <1>0, <1>1, <2>1, <2>3, StatusAppend
  <2>4. CASE apc = "fwdTag" /\ spipe' = spipe
    BY <2>1, <2>4, StatusKept
  <2>5. CASE apc = "fwdStatus" /\ apc' = "exit" /\ spipe' = spipe
    BY <2>1, <2>5 DEF StatusInv, Tag, WaitStatus
  <2> QED BY <1>3, <2>2, <2>3, <2>4, <2>5 DEF ChildAForward, SendStatus
<1>4. CASE ChildBReports
  <2>1. bpc \notin {"reaped"} /\ UNCHANGED <<fwd, bstat, apc>> /\ bpc' # "reaped"
    BY <1>4 DEF ChildBReports
  <2>2. fwd = "none" /\ \A i \in 1 .. Len(spipe) : spipe[i] # Tag
    BY <2>1 DEF StatusInv
  <2>3. ASSUME NEW r \in StatusRecords, r # Tag, spipe' = Append(spipe, r)
        PROVE  StatusInv'
    <3> DEFINE n == Len(spipe)
    <3>1. /\ n \in Nat /\ Len(spipe') = n + 1 /\ spipe'[n + 1] = r
          /\ \A i \in 1 .. n : spipe'[i] = spipe[i]
      BY <1>0, <2>3
    <3> HIDE DEF n
    <3>2. \A i \in 1 .. n : spipe[i] # Tag
      BY <2>2 DEF n
    <3>3. \A i \in 1 .. n + 1 : spipe'[i] # Tag
      BY <2>3, <3>1, <3>2
    <3>4. Tag' = Tag
      BY DEF Tag
    <3> QED BY <2>1, <2>2, <3>1, <3>3, <3>4 DEF StatusInv
  <2>4. CASE spipe' = spipe
    BY <2>1, <2>4, StatusKept
  <2>5. \/ spipe' = spipe \/ spipe' = Append(spipe, Header("SetupFailed"))
        \/ spipe' = Append(spipe, FailedPayload(failedAt)[1])
    BY <1>4 DEF ChildBReports, SendStatus
  <2> QED BY <1>1, <2>3, <2>4, <2>5
<1>5. CASE ChildASync \/ ChildASetup \/ ChildASetupFails
  <2>1. /\ bpc = "none" /\ UNCHANGED <<spipe, fwd>>
        /\ apc \notin {"fwdStatus", "exit", "dead", "reaped"}
    BY <1>5 DEF ChildASync, ChildASetup, ChildASetupFails, ChildInv, Unforked
  <2> QED BY <2>1, StatusKept
<1>6. CASE ChildAWait
  <2>1. UNCHANGED <<spipe, fwd>> /\ bpc # "reaped" /\ apc = "waitB"
    BY <1>6 DEF ChildAWait
  <2> QED BY <2>1, StatusKept
<1>7. CASE ChildAExit \/ ChildACrash
  <2>1. UNCHANGED <<spipe, fwd, bpc, bstat>> /\ apc' = "dead"
    BY <1>7 DEF ChildAExit, ChildACrash
  <2> QED BY <2>1, StatusKept
<1>8. CASE ChildBExec \/ ChildBSetupFails \/ ChildBExit \/ ProgramExit
  <2>1. UNCHANGED <<spipe, fwd, apc>> /\ bpc # "reaped"
    BY <1>8 DEF ChildBExec, ChildBSetupFails, ChildBExit, ProgramExit
  <2> QED BY <2>1, StatusKept
<1>9. CASE (\E s \in Streams : ProgramWrite(s)) \/ ProgramRead \/ Tick \/ Returned
  <2>1. UNCHANGED <<spipe, fwd, apc, bpc, bstat>>
    BY <1>9 DEF ProgramWrite, ProgramRead, Tick, Returned, vars
  <2> QED BY <2>1, StatusKept
<1> QED BY <1>2, <1>3, <1>4, <1>5, <1>6, <1>7, <1>8, <1>9 DEF ChildANext, ChildBNext,
           ProgramNext

\* SIGKILL leaves a reaped B and a dead A as they are.
LEMMA KillStatus ==
    ASSUME StatusInv, Kill(LiveMembers) \/ Kill({}), UNCHANGED <<spipe, fwd>>
    PROVE  StatusInv'
<1>1. bpc = "reaped" => UNCHANGED <<bpc, bstat>>
  BY DEF Kill, LiveMembers, BAlive
<1>2. apc' = apc \/ apc' = "dead"
  BY DEF Kill
<1> QED BY <1>1, <1>2, StatusKept

\* The supervisor's steps keep it: what it takes after a tag is B's wait status.
LEMMA SupStatusInv ==
    ASSUME StatusInv, TypeOK, ContainmentInv, ChildInv, SupNext \/ SupCrash
    PROVE  StatusInv'
<1>1. CASE SupControl \/ SupFail
  <2>1. Kill(LiveMembers) \/ Kill({})
    BY <1>1 DEF SupControl, SupFail, Terminate
  <2>2. UNCHANGED <<spipe, fwd>>
    BY <1>1 DEF SupControl, SupFail
  <2> QED BY <2>1, <2>2, KillStatus
<1>2. CASE SupStatus
  <2>0. spipe \in Seq(StatusRecords) /\ UNCHANGED <<apc, bpc, bstat>>
    BY <1>2 DEF SupStatus, TypeOK
  <2>1. CASE spipe = <<>> /\ UNCHANGED <<spipe, fwd>>
    BY <2>0, <2>1, StatusKept
  <2>2. CASE Len(spipe) > 1 /\ Head(spipe) = Tag /\ fwd' = spipe[2].of /\ spipe' = Tail(Tail(spipe))
    <3>1. 1 \in 1 .. Len(spipe) /\ spipe[1] = Tag /\ 2 \in 1 + 1 .. Len(spipe)
      BY <2>0, <2>2
    <3>2. /\ bpc = "reaped" /\ apc \in {"fwdStatus", "exit", "dead", "reaped"}
          /\ \A j \in 1 + 1 .. Len(spipe) : spipe[j] = WaitStatus(bstat)
      BY <3>1 DEF StatusInv
    <3>3. fwd' = bstat
      BY <2>2, <3>1, <3>2 DEF WaitStatus
    <3>4. \A i \in 1 .. Len(spipe') : spipe'[i] = spipe[i + 2] /\ i + 2 \in 2 .. Len(spipe)
      BY <2>0, <2>2
    <3>5. \A i \in 1 .. Len(spipe') : spipe'[i] # Tag
      BY <3>2, <3>4 DEF WaitStatus, Tag
    <3>6. Tag' = Tag
      BY DEF Tag
    <3> QED BY <2>0, <3>2, <3>3, <3>5, <3>6 DEF StatusInv
  <2>3. CASE spipe' = <<>> /\ fwd' = fwd
    BY <2>0, <2>3 DEF StatusInv
  <2>4. CASE spipe # <<>> /\ spipe' = Tail(spipe) /\ fwd' = fwd
    <3>1. /\ Len(spipe) \in Nat /\ Len(spipe') = Len(spipe) - 1
          /\ \A i \in 1 .. Len(spipe') : spipe'[i] = spipe[i + 1] /\ i + 1 \in 1 .. Len(spipe)
      BY <2>0, <2>4
    <3>2. ASSUME NEW i \in 1 .. Len(spipe'), spipe'[i] = Tag
          PROVE  /\ bpc = "reaped" /\ apc \in {"fwdStatus", "exit", "dead", "reaped"}
                 /\ apc = "fwdStatus" => i = Len(spipe')
                 /\ \A j \in i + 1 .. Len(spipe') : spipe'[j] = WaitStatus(bstat)
      <4>1. i + 1 \in 1 .. Len(spipe) /\ spipe[i + 1] = Tag /\ i \in Nat
        BY <3>1, <3>2
      <4>2. /\ bpc = "reaped" /\ apc \in {"fwdStatus", "exit", "dead", "reaped"}
            /\ apc = "fwdStatus" => i + 1 = Len(spipe)
            /\ \A j \in (i + 1) + 1 .. Len(spipe) : spipe[j] = WaitStatus(bstat)
        BY <4>1 DEF StatusInv
      <4>3. \A j \in i + 1 .. Len(spipe') : j + 1 \in (i + 1) + 1 .. Len(spipe) /\ j \in 1 .. Len(spipe')
        BY <3>1, <4>1
      <4>4. apc = "fwdStatus" => i = Len(spipe')
        BY <3>1, <4>1, <4>2
      <4>5. \A j \in i + 1 .. Len(spipe') : spipe'[j] = WaitStatus(bstat)
        BY <3>1, <4>2, <4>3
      <4> QED BY <4>2, <4>4, <4>5
    <3>3. Tag' = Tag
      BY DEF Tag
    <3>4. fwd # "none" => bpc = "reaped" /\ fwd = bstat
      BY DEF StatusInv
    <3>5. WaitStatus(bstat)' = WaitStatus(bstat)
      BY <2>0 DEF WaitStatus
    <3> QED BY <2>0, <2>4, <3>2, <3>3, <3>4, <3>5 DEF StatusInv
  <2> QED BY <1>2, <2>1, <2>2, <2>3, <2>4 DEF SupStatus
<1>3. CASE ForkChildA
  <2>1. apc = "none" /\ bpc = "none" /\ UNCHANGED <<spipe, fwd>>
    BY <1>3 DEF ForkChildA, ChildInv, Unforked
  <2> QED BY <2>1, StatusKept
<1>4. CASE AttachChildA \/ ReleaseChildA \/ SupFailKill \/ SupWait \/ FailedWait
  <2>1. UNCHANGED <<spipe, fwd, bpc, bstat>> /\ (apc' = apc \/ apc' = "reaped")
    BY <1>4 DEF AttachChildA, ReleaseChildA, SupFailKill, ReapChildA, SupWait, FailedWait
  <2> QED BY <2>1, StatusKept
<1>5. CASE \/ PrepareEnvironment \/ NoChild \/ SendReady \/ SupPoll \/ SendTerminated
           \/ SendFailed \/ SupCrash
  <2>1. UNCHANGED <<spipe, fwd, apc, bpc, bstat>>
    BY <1>5 DEF PrepareEnvironment, NoChild, SendReady, SupPoll, SendTerminated, SendFailed,
         SupCrash
  <2> QED BY <2>1, StatusKept
<1> QED BY <1>1, <1>2, <1>3, <1>4, <1>5 DEF SupNext

\* The runner does not touch the status pipe.
LEMMA RunnerStatus ==
    ASSUME StatusInv, RunnerNext
    PROVE  StatusInv'
<1>1. CASE KillCgroupBeforeReady \/ FailureKill
  <2>1. Kill(LiveMembers) \/ Kill({})
    BY <1>1 DEF KillCgroupBeforeReady, FailureKill, KillExecutionCgroup
  <2>2. UNCHANGED <<spipe, fwd>>
    BY <1>1 DEF KillCgroupBeforeReady, FailureKill
  <2> QED BY <2>1, <2>2, KillStatus
<1>2. CASE ~(KillCgroupBeforeReady \/ FailureKill)
  <2>1. UNCHANGED <<spipe, fwd, apc, bpc, bstat>>
    BY <1>2 DEF RunnerNext, RunnerStep, Start, ReceiveHeader, ReceivePayload,
         ReapAfterSetupFailed, KillSupervisor, RemoveCgroupBeforeReady, Deadline, Poll,
         PollFails, HandleControl, LateSetupFailed, ReapAfterLateSetupFailed,
         TerminatedReceived, ReapAfterTerminated, HandleStdin, HandleStream, Finish,
         FailureStart, FailureWait, FailureEmpty, FailureReap
  <2> QED BY <2>1, StatusKept
<1> QED BY <1>1, <1>2

----------------------------------------------------------------------------
\* The control socket

\* A step that takes k words off the socket, or none, keeps WireInv if it starts no
\* new Terminated.
LEMMA WireKept ==
    ASSUME WireInv, up \in Seq(Words), NEW k \in 0 .. 2, k <= Len(up),
           Len(up') = Len(up) - k, \A i \in 1 .. Len(up') : up'[i] = up[i + k],
           spc \in Terminal => spc' \in Terminal /\ swait' = swait,
           synced => synced',
           rpc' = "terminatedPayload" =>
             (rpc = "terminatedPayload" /\ k = 0) \/ (k = 1 /\ up[1] = Header("Terminated")),
           rpc' \notin BeforeReady \cup {"done"} =>
             rpc \notin BeforeReady \cup {"done"} \/ synced'
    PROVE  WireInv'
<1> DEFINE T == Header("Terminated")
           R == Header("Ready")
           W == TerminatedWord
           n == Len(up)
           m == Len(up')
<1>1. n \in Nat /\ m \in Nat /\ m = n - k /\ k \in Nat
  OBVIOUS
<1>2. \A i \in 1 .. m : i + k \in 1 .. n /\ up'[i] = up[i + k]
  BY <1>1
<1>3. /\ \A i \in 1 .. n : up[i] = T =>
           spc \in Terminal /\ \A j \in i + 1 .. n : up[j] = W
      /\ rpc = "terminatedPayload" => spc \in Terminal /\ \A j \in 1 .. n : up[j] = W
      /\ \A i \in 1 .. n : up[i] = R => synced
      /\ rpc \notin BeforeReady \cup {"done"} => synced
  BY DEF WireInv
<1>4. swait' = swait => TerminatedWord' = W
  BY DEF TerminatedWord
<1> HIDE DEF T, R, W, n, m
<1>5. ASSUME NEW i \in 1 .. m, up'[i] = T
      PROVE  spc' \in Terminal /\ \A j \in i + 1 .. m : up'[j] = TerminatedWord'
  <2>1. i + k \in 1 .. n /\ up[i + k] = T
    BY <1>2, <1>5
  <2>2. spc \in Terminal /\ \A j \in (i + k) + 1 .. n : up[j] = W
    BY <1>3, <2>1
  <2>3. \A j \in i + 1 .. m : j \in 1 .. m /\ j + k \in (i + k) + 1 .. n
    BY <1>1
  <2>4. \A j \in i + 1 .. m : up'[j] = W
    BY <1>2, <2>2, <2>3
  <2> QED BY <1>4, <2>2, <2>4
<1>6. ASSUME rpc' = "terminatedPayload"
      PROVE  spc' \in Terminal /\ \A j \in 1 .. m : up'[j] = TerminatedWord'
  <2>1. CASE rpc = "terminatedPayload" /\ k = 0
    <3>1. \A j \in 1 .. m : up'[j] = W
      BY <1>1, <1>2, <1>3, <2>1
    <3> QED BY <1>3, <1>4, <2>1, <3>1
  <2>2. CASE k = 1 /\ up[1] = T /\ k # 0
    <3>1. 1 \in 1 .. n
      BY <1>1, <2>2
    <3>2. spc \in Terminal /\ \A j \in 1 + 1 .. n : up[j] = W
      BY <1>3, <2>2, <3>1
    <3>3. \A j \in 1 .. m : j + 1 \in 1 + 1 .. n
      BY <1>1, <2>2
    <3>4. \A j \in 1 .. m : up'[j] = W
      BY <1>2, <2>2, <3>2, <3>3
    <3> QED BY <1>4, <3>2, <3>4
  <2> QED BY <1>6, <2>1, <2>2 DEF T
<1>7. \A i \in 1 .. m : up'[i] = R => synced'
  BY <1>2, <1>3
<1>8. rpc' \notin BeforeReady \cup {"done"} => synced'
  BY <1>3
<1>9. T' = T /\ R' = R
  BY DEF T, R, Header
<1> QED BY <1>5, <1>6, <1>7, <1>8 DEF WireInv, T, R, m, Header

\* A step that leaves the socket alone.
LEMMA WireStutter ==
    ASSUME WireInv, up \in Seq(Words), up' = up,
           spc \in Terminal => spc' \in Terminal /\ swait' = swait,
           synced => synced',
           rpc' = "terminatedPayload" => rpc = "terminatedPayload",
           rpc' \notin BeforeReady \cup {"done"} =>
             rpc \notin BeforeReady \cup {"done"} \/ synced'
    PROVE  WireInv'
<1>1. /\ 0 \in 0 .. 2 /\ 0 <= Len(up) /\ Len(up') = Len(up) - 0
      /\ \A i \in 1 .. Len(up') : up'[i] = up[i + 0]
  OBVIOUS
<1>2. rpc' = "terminatedPayload" =>
        (rpc = "terminatedPayload" /\ 0 = 0) \/ (0 = 1 /\ up[1] = Header("Terminated"))
  OBVIOUS
<1> QED BY <1>1, <1>2, WireKept, Zenon

\* A step that takes one word.
LEMMA WireTake ==
    ASSUME WireInv, up \in Seq(Words), up # <<>>, up' = Tail(up),
           spc \in Terminal => spc' \in Terminal /\ swait' = swait,
           synced => synced',
           rpc' = "terminatedPayload" => Head(up) = Header("Terminated"),
           rpc' \notin BeforeReady \cup {"done"} =>
             rpc \notin BeforeReady \cup {"done"} \/ synced'
    PROVE  WireInv'
<1>1. /\ 1 \in 0 .. 2 /\ 1 <= Len(up) /\ Len(up') = Len(up) - 1 /\ Head(up) = up[1]
      /\ \A i \in 1 .. Len(up') : up'[i] = up[i + 1]
  OBVIOUS
<1>2. rpc' = "terminatedPayload" =>
        (rpc = "terminatedPayload" /\ 1 = 0) \/ (1 = 1 /\ up[1] = Header("Terminated"))
  BY <1>1
<1> QED BY <1>1, <1>2, WireKept, Zenon

\* A write: of anything but Terminated while none is in the socket, of the header of
\* Terminated, or of its payload.
LEMMA WireAppend ==
    ASSUME WireInv, up \in Seq(Words), NEW words, words \in Seq(Words), up' = up \o words,
           rpc' = rpc, synced' = synced,
           \A i \in 1 .. Len(words) : words[i] = Header("Ready") => synced,
           \/ /\ \A i \in 1 .. Len(up) : up[i] # Header("Terminated")
              /\ rpc # "terminatedPayload"
              /\ \/ \A i \in 1 .. Len(words) : words[i] # Header("Terminated")
                 \/ Len(words) = 1 /\ spc' \in Terminal
           \/ /\ words = <<TerminatedWord>> /\ swait' = swait
              /\ spc \in Terminal => spc' \in Terminal
    PROVE  WireInv'
<1> DEFINE T == Header("Terminated")
           R == Header("Ready")
           W == TerminatedWord
           n == Len(up)
           k == Len(words)
           m == Len(up')
<1>1. n \in Nat /\ k \in Nat /\ m = n + k
  OBVIOUS
<1>2. \A i \in 1 .. m : (i \in 1 .. n /\ up'[i] = up[i])
                     \/ (i - n \in 1 .. k /\ i > n /\ up'[i] = words[i - n])
  BY <1>1
<1>3. /\ \A i \in 1 .. n : up[i] = T =>
           spc \in Terminal /\ \A j \in i + 1 .. n : up[j] = W
      /\ rpc = "terminatedPayload" => spc \in Terminal /\ \A j \in 1 .. n : up[j] = W
      /\ \A i \in 1 .. n : up[i] = R => synced
      /\ rpc \notin BeforeReady \cup {"done"} => synced
  BY DEF WireInv
<1>4. \A i \in 1 .. k : words[i] = R => synced
  OBVIOUS
<1>5. \A i \in 1 .. m : up'[i] = R => synced'
  BY <1>2, <1>3, <1>4
<1>6. ASSUME \A i \in 1 .. n : up[i] # T, rpc # "terminatedPayload",
             (\A i \in 1 .. k : words[i] # T) \/ (k = 1 /\ spc' \in Terminal)
      PROVE  /\ \A i \in 1 .. m : up'[i] = T =>
                   spc' \in Terminal /\ \A j \in i + 1 .. m : up'[j] = TerminatedWord'
             /\ rpc' # "terminatedPayload"
  <2> HIDE DEF T, n, k, m
  <2>1. CASE \A i \in 1 .. k : words[i] # T
    <3>1. \A i \in 1 .. m : up'[i] # T
      BY <1>2, <1>6, <2>1
    <3> QED BY <1>6, <3>1
  <2>2. CASE k = 1 /\ spc' \in Terminal
    <3>1. \A i \in 1 .. m : up'[i] = T => i > n
      BY <1>1, <1>2, <1>6
    <3>2. \A i \in 1 .. m : i > n => (i = m /\ \A j \in i + 1 .. m : FALSE)
      BY <1>1, <2>2
    <3> QED BY <1>6, <2>2, <3>1, <3>2
  <2> QED BY <1>6, <2>1, <2>2
<1>7. ASSUME words = <<W>>, swait' = swait, spc \in Terminal => spc' \in Terminal
      PROVE  /\ \A i \in 1 .. m : up'[i] = T =>
                   spc' \in Terminal /\ \A j \in i + 1 .. m : up'[j] = TerminatedWord'
             /\ rpc' = "terminatedPayload" =>
                   spc' \in Terminal /\ \A j \in 1 .. m : up'[j] = TerminatedWord'
  <2>1. k = 1 /\ words[1] = W
    BY <1>7
  <2>2. TerminatedWord' = W
    BY <1>7 DEF TerminatedWord
  <2>3. W # T
    BY DEF TerminatedWord, Header
  <2> HIDE DEF T, W, n, k, m
  <2>4. \A i \in 1 .. m : (i \in 1 .. n /\ up'[i] = up[i]) \/ (i > n /\ up'[i] = W)
    <3>1. \A i \in 1 .. m : i - n \in 1 .. k => i - n = 1
      BY <1>1, <2>1
    <3> QED BY <1>2, <2>1, <3>1
  <2>5. ASSUME NEW i \in 1 .. m, up'[i] = T
        PROVE  spc' \in Terminal /\ \A j \in i + 1 .. m : up'[j] = W
    <3>1. i \in 1 .. n /\ up[i] = T
      BY <2>3, <2>4, <2>5
    <3>2. spc \in Terminal /\ \A j \in i + 1 .. n : up[j] = W
      BY <1>3, <3>1
    <3>3. \A j \in i + 1 .. m : j \in 1 .. m /\ (j \in 1 .. n => j \in i + 1 .. n)
      BY <1>1
    <3>4. \A j \in i + 1 .. m : up'[j] = W
      BY <2>4, <3>2, <3>3
    <3> QED BY <1>7, <3>2, <3>4
  <2>6. rpc = "terminatedPayload" => \A j \in 1 .. m : up'[j] = W
    BY <1>3, <2>4
  <2> QED BY <1>3, <1>7, <2>2, <2>5, <2>6
<1>8. rpc' \notin BeforeReady \cup {"done"} => synced'
  BY <1>3
<1>9. T' = T /\ R' = R
  BY DEF Header
<1> QED
  <2>1. /\ \A i \in 1 .. m : up'[i] = T =>
             spc' \in Terminal /\ \A j \in i + 1 .. m : up'[j] = TerminatedWord'
        /\ rpc' = "terminatedPayload" =>
             spc' \in Terminal /\ \A j \in 1 .. m : up'[j] = TerminatedWord'
    BY <1>6, <1>7
  <2> QED BY <2>1, <1>5, <1>8 DEF WireInv, Header

\* What the processes write is made of words, and only the supervisor writes Ready and
\* Terminated.
LEMMA WrittenWords ==
    ASSUME TypeOK
    PROVE  /\ <<Header("SetupFailed")>> \in Seq(Words) /\ <<Header("Ready")>> \in Seq(Words)
           /\ <<Header("Terminated")>> \in Seq(Words) /\ ReadyPayload \in Seq(Words)
           /\ FailedPayload(failedAt) \in Seq(Words) /\ FailedPayload(failure) \in Seq(Words)
           /\ TerminatedPayload(swait) \in Seq(Words)
           /\ \A i \in 1 .. Len(<<Header("SetupFailed")>>) :
                <<Header("SetupFailed")>>[i] \notin {Header("Ready"), Header("Terminated")}
           /\ \A i \in 1 .. Len(FailedPayload(failedAt)) :
                FailedPayload(failedAt)[i] \notin {Header("Ready"), Header("Terminated")}
           /\ \A i \in 1 .. Len(FailedPayload(failure)) :
                FailedPayload(failure)[i] \notin {Header("Ready"), Header("Terminated")}
           /\ \A i \in 1 .. Len(ReadyPayload) :
                ReadyPayload[i] \notin {Header("Ready"), Header("Terminated")}
<1>1. failedAt \in Stages /\ failure \in Stages \cup MaybeFate /\ swait \in Tokens
  BY DEF TypeOK
<1>2. /\ <<Header("SetupFailed")>> \in Seq(Words) /\ <<Header("Ready")>> \in Seq(Words)
      /\ <<Header("Terminated")>> \in Seq(Words)
  BY SentTypes DEF MessageTypes
<1>3. /\ ReadyPayload \in Seq(Words) /\ FailedPayload(failedAt) \in Seq(Words)
      /\ FailedPayload(failure) \in Seq(Words) /\ TerminatedPayload(swait) \in Seq(Words)
  BY <1>1, SentTypes
<1>4. \A i \in 1 .. Len(<<Header("SetupFailed")>>) :
        <<Header("SetupFailed")>>[i] \notin {Header("Ready"), Header("Terminated")}
  BY DEF Header
<1>5. \A x : \A i \in 1 .. Len(FailedPayload(x)) :
        FailedPayload(x)[i] \notin {Header("Ready"), Header("Terminated")}
  BY DEF Header, FailedPayload
<1>6. \A i \in 1 .. Len(ReadyPayload) :
        ReadyPayload[i] \notin {Header("Ready"), Header("Terminated")}
  BY DEF Header, ReadyPayload
<1> QED BY <1>2, <1>3, <1>4, <1>5, <1>6

\* A write of words that are neither header keeps WireInv while Terminated is not out.
LEMMA WirePlain ==
    ASSUME WireInv, TypeOK, EndedInv, NEW words, words \in Seq(Words), SendUp(words),
           \A i \in 1 .. Len(words) : words[i] \notin {Header("Ready"), Header("Terminated")},
           rpc' = rpc, synced' = synced, swait' = swait,
           apc # "reaped" \/ spc \notin {"terminated"} \cup Terminal,
           spc \in Terminal => spc' \in Terminal
    PROVE  WireInv'
<1>1. up \in Seq(Words)
  BY DEF TypeOK
<1>2. ~Ended
  BY DEF EndedInv, EndedFacts
<1>3. /\ \A i \in 1 .. Len(up) : up[i] # Header("Terminated")
      /\ rpc # "terminatedPayload"
  BY <1>2 DEF Ended
<1>4. /\ \A i \in 1 .. Len(words) : words[i] = Header("Ready") => synced
      /\ \A i \in 1 .. Len(words) : words[i] # Header("Terminated")
  OBVIOUS
<1>5. CASE up' = up \o words
  BY <1>1, <1>3, <1>4, <1>5, WireAppend
<1>6. CASE up' = up
  <2>1. /\ spc \in Terminal => spc' \in Terminal /\ swait' = swait
        /\ synced => synced'
        /\ rpc' = "terminatedPayload" => rpc = "terminatedPayload"
        /\ rpc' \notin BeforeReady \cup {"done"} =>
             rpc \notin BeforeReady \cup {"done"} \/ synced'
    OBVIOUS
  <2> QED BY <1>1, <1>6, <2>1, WireStutter, Zenon
<1> QED BY <1>5, <1>6 DEF SendUp

\* The children's steps keep WireInv: A writes to the socket only while it is alive, and
\* the supervisor writes Terminated only once it has reaped A.
LEMMA ChildrenWire ==
    ASSUME WireInv, TypeOK, EndedInv,
           ChildANext \/ ChildACrash \/ ChildBNext \/ ProgramNext \/ Tick \/ Returned
    PROVE  WireInv'
<1>1. CASE ChildAReports
  <2>1. UNCHANGED <<spc, rpc, synced, swait>> /\ apc # "reaped"
    BY <1>1 DEF ChildAReports
  <2>2. CASE SendUp(<<Header("SetupFailed")>>)
    BY <2>1, <2>2, WrittenWords, WirePlain
  <2>3. CASE SendUp(FailedPayload(failedAt))
    BY <2>1, <2>3, WrittenWords, WirePlain
  <2>4. CASE up' = up
    <3>1. up \in Seq(Words)
      BY DEF TypeOK
    <3> QED BY <2>1, <2>4, <3>1, WireStutter
  <2> QED BY <1>1, <2>2, <2>3, <2>4 DEF ChildAReports
<1>2. CASE ~ChildAReports
  <2>1. UNCHANGED <<up, spc, rpc, synced, swait>>
    BY <1>2 DEF ChildANext, ChildASync, ChildASetup, ChildASetupFails, ChildAWait,
         ChildAForward, ChildAExit, ChildACrash, ChildBNext, ChildBExec, ChildBSetupFails,
         ChildBReports, ChildBExit, ProgramNext, ProgramWrite, ProgramRead, ProgramExit,
         Tick, Returned, vars
  <2>2. up \in Seq(Words)
    BY DEF TypeOK
  <2> QED BY <2>1, <2>2, WireStutter
<1> QED BY <1>1, <1>2

\* The supervisor's steps keep it.
LEMMA SupWire ==
    ASSUME WireInv, TypeOK, EndedInv, ContainmentInv, SupNext \/ SupCrash
    PROVE  WireInv'
<1>0. up \in Seq(Words)
  BY DEF TypeOK
<1>1. CASE SendReady
  <2>1. UNCHANGED <<rpc, synced, swait>> /\ spc \in {"ready", "readyPayload"}
    BY <1>1 DEF SendReady
  <2>2. synced
    BY <2>1 DEF ContainmentInv, Monitoring
  <2>3. spc \notin {"terminated"} \cup Terminal
    BY <2>1 DEF Terminal
  <2>4. CASE SendUp(ReadyPayload)
    BY <2>1, <2>3, <2>4, WrittenWords, WirePlain
  <2>5. CASE up' = up
    BY <1>0, <2>1, <2>3, <2>5, WireStutter
  <2>6. CASE up' = up \o <<Header("Ready")>>
    <3>1. ~Ended
      BY <2>3 DEF EndedInv, EndedFacts
    <3>2. /\ \A i \in 1 .. Len(up) : up[i] # Header("Terminated")
          /\ rpc # "terminatedPayload"
      BY <3>1 DEF Ended
    <3>3. \A i \in 1 .. Len(<<Header("Ready")>>) : <<Header("Ready")>>[i] # Header("Terminated")
      BY DEF Header
    <3>4. \A i \in 1 .. Len(<<Header("Ready")>>) : <<Header("Ready")>>[i] = Header("Ready") => synced
      BY <2>2
    <3> QED BY <1>0, <2>1, <2>6, <3>2, <3>3, <3>4, WrittenWords, WireAppend
  <2> QED BY <1>1, <2>4, <2>5, <2>6 DEF SendReady, SendUp
<1>2. CASE SendFailed
  <2>1. UNCHANGED <<rpc, synced, swait>> /\ spc \in {"failed", "failedPayload"}
    BY <1>2 DEF SendFailed
  <2>2. spc \notin {"terminated"} \cup Terminal
    BY <2>1 DEF Terminal
  <2>3. SendUp(<<Header("SetupFailed")>>) \/ SendUp(FailedPayload(failure))
    BY <1>2 DEF SendFailed
  <2>4. CASE SendUp(<<Header("SetupFailed")>>)
    BY <2>1, <2>2, <2>4, WrittenWords, WirePlain
  <2>5. CASE SendUp(FailedPayload(failure))
    BY <2>1, <2>2, <2>5, WrittenWords, WirePlain
  <2> QED BY <2>3, <2>4, <2>5
<1>3. CASE SendTerminated
  <2>1. UNCHANGED <<rpc, synced, swait>> /\ (spc \in Terminal => spc' \in Terminal)
    BY <1>3 DEF SendTerminated, Terminal
  <2>2. CASE up' = up
    <3>1. /\ spc \in Terminal => spc' \in Terminal /\ swait' = swait
          /\ synced => synced'
          /\ rpc' = "terminatedPayload" => rpc = "terminatedPayload"
          /\ rpc' \notin BeforeReady \cup {"done"} =>
               rpc \notin BeforeReady \cup {"done"} \/ synced'
      BY <2>1
    <3> QED BY <1>0, <2>2, <3>1, WireStutter, Zenon
  <2>3. CASE spc = "terminated" /\ spc' = "terminatedPayload" /\ up' = up \o <<Header("Terminated")>>
    <3>1. spc \notin Terminal /\ spc' \in Terminal
      BY <2>3 DEF Terminal
    <3>2. /\ \A i \in 1 .. Len(up) : up[i] # Header("Terminated")
          /\ rpc # "terminatedPayload"
      BY <3>1 DEF WireInv
    <3>3. /\ Len(<<Header("Terminated")>>) = 1
          /\ \A i \in 1 .. Len(<<Header("Terminated")>>) :
               <<Header("Terminated")>>[i] = Header("Ready") => synced
      BY DEF Header
    <3> QED BY <1>0, <2>1, <2>3, <3>1, <3>2, <3>3, WrittenWords, WireAppend
  <2>4. CASE up' = up \o TerminatedPayload(swait)
    <3>1. TerminatedPayload(swait) = <<TerminatedWord>>
      BY DEF TerminatedPayload, TerminatedWord
    <3>2. <<TerminatedWord>> \in Seq(Words)
      BY <3>1, WrittenWords
    <3>3. \A i \in 1 .. Len(<<TerminatedWord>>) :
            <<TerminatedWord>>[i] = Header("Ready") => synced
      BY DEF Header, TerminatedWord
    <3>4. up' = up \o <<TerminatedWord>>
      BY <2>4, <3>1
    <3> QED BY <1>0, <2>1, <3>2, <3>3, <3>4, WireAppend
  <2> QED BY <1>3, <2>2, <2>3, <2>4 DEF SendTerminated, SendUp
<1>4. CASE ReleaseChildA
  <2>1. UNCHANGED <<up, rpc, swait>> /\ spc \notin Terminal
    BY <1>4 DEF ReleaseChildA, Terminal
  <2>2. synced => synced'
    BY <1>4 DEF ReleaseChildA
  <2> QED BY <1>0, <2>1, <2>2, WireStutter
<1>5. CASE ~(SendReady \/ SendFailed \/ SendTerminated \/ ReleaseChildA)
  <2>1. UNCHANGED <<up, rpc, synced>>
    BY <1>5 DEF SupNext, PrepareEnvironment, ForkChildA, AttachChildA, NoChild, SupPoll,
         SupControl, SupStatus, SupWait, FailedWait, SupFail, SupFailKill, SupCrash
  <2>2. spc \in Terminal => spc' \in Terminal /\ swait' = swait
    BY <1>5 DEF SupNext, PrepareEnvironment, ForkChildA, AttachChildA, NoChild, SupPoll,
         SupControl, SupStatus, SupWait, FailedWait, SupFail, SupFailKill, SupCrash, Terminal
  <2> QED BY <1>0, <2>1, <2>2, WireStutter
<1> QED BY <1>1, <1>2, <1>3, <1>4, <1>5

\* The runner's steps keep it: run() waits for the payload only after it has read the
\* header, and passes Ready only after the release byte.
LEMMA RunnerWire ==
    ASSUME WireInv, TypeOK, ReapInv, RunnerNext
    PROVE  WireInv'
<1>0. up \in Seq(Words)
  BY DEF TypeOK
<1>1. CASE ReceiveHeader
  <2>1. UNCHANGED <<spc, swait, synced>> /\ rpc' # "terminatedPayload"
    BY <1>1 DEF ReceiveHeader
  <2>2. CASE up # <<>> /\ up' = Tail(up) /\ rpc' \notin BeforeReady
    <3>1. Head(up) = Header("Ready") /\ Head(up) = up[1] /\ 1 \in 1 .. Len(up)
      BY <1>0, <1>1, <2>2 DEF ReceiveHeader, BeforeReady
    <3>2. synced
      BY <3>1 DEF WireInv
    <3> QED BY <1>0, <2>1, <2>2, <3>2, WireTake
  <2>3. CASE up # <<>> /\ up' = Tail(up) /\ rpc' \in BeforeReady
    BY <1>0, <2>1, <2>3, WireTake
  <2>4. CASE up' = up /\ rpc' = "killSupervisor"
    BY <1>0, <2>1, <2>4, WireStutter DEF BeforeReady
  <2> QED BY <1>1, <2>2, <2>3, <2>4 DEF ReceiveHeader
<1>2. CASE ReceivePayload
  <2>1. /\ UNCHANGED <<spc, swait, synced>> /\ rpc' # "terminatedPayload"
        /\ rpc' \notin BeforeReady => rpc \notin BeforeReady \cup {"done"}
    BY <1>2 DEF ReceivePayload, BeforeReady
  <2>2. CASE up # <<>> /\ up' = Tail(up)
    BY <1>0, <2>1, <2>2, WireTake
  <2>3. CASE up' = up
    BY <1>0, <2>1, <2>3, WireStutter
  <2>4. CASE Len(up) > 1 /\ up' = Tail(Tail(up))
    <3>1. /\ 2 \in 0 .. 2 /\ 2 <= Len(up) /\ Len(up') = Len(up) - 2
          /\ \A i \in 1 .. Len(up') : up'[i] = up[i + 2]
      <4> DEFINE t == Tail(up)
      <4>1. /\ t \in Seq(Words) /\ t # <<>> /\ Len(t) = Len(up) - 1 /\ Len(up) \in Nat
            /\ \A i \in 1 .. Len(t) : t[i] = up[i + 1]
        BY <1>0, <2>4
      <4>2. up' = Tail(t)
        BY <2>4
      <4> HIDE DEF t
      <4>3. Len(up') = Len(t) - 1 /\ \A i \in 1 .. Len(up') : up'[i] = t[i + 1] /\ i + 1 \in 1 .. Len(t)
        BY <4>1, <4>2
      <4>4. \A i \in 1 .. Len(up') : up'[i] = up[(i + 1) + 1] /\ (i + 1) + 1 = i + 2
        BY <4>1, <4>3
      <4>5. Len(up') = Len(up) - 2 /\ 2 <= Len(up)
        BY <2>4, <4>1, <4>3
      <4> QED BY <4>4, <4>5
    <3>2. /\ spc \in Terminal => spc' \in Terminal /\ swait' = swait
          /\ synced => synced'
          /\ rpc' = "terminatedPayload" =>
               (rpc = "terminatedPayload" /\ 2 = 0) \/ (2 = 1 /\ up[1] = Header("Terminated"))
          /\ rpc' \notin BeforeReady \cup {"done"} =>
               rpc \notin BeforeReady \cup {"done"} \/ synced'
      BY <2>1
    <3> QED BY <1>0, <3>1, <3>2, WireKept, Zenon
  <2> QED BY <1>2, <2>2, <2>3, <2>4 DEF ReceivePayload
<1>3. CASE HandleControl
  <2>1. /\ UNCHANGED <<spc, swait, synced>> /\ rpc \notin BeforeReady \cup {"done"}
        /\ rpc # "terminatedPayload"
        /\ rpc' = "terminatedPayload" => up # <<>> /\ Head(up) = Header("Terminated")
    BY <1>3 DEF HandleControl, BeforeReady, FailWith
  <2>2. CASE up # <<>> /\ up' = Tail(up)
    BY <1>0, <2>1, <2>2, WireTake
  <2>3. CASE up' = up /\ rpc' # "terminatedPayload"
    BY <1>0, <2>1, <2>3, WireStutter
  <2>4. (up # <<>> /\ up' = Tail(up)) \/ (up' = up /\ rpc' = "failure")
    BY <1>3 DEF HandleControl, FailWith
  <2> QED BY <2>2, <2>3, <2>4
<1>4. CASE LateSetupFailed \/ TerminatedReceived
  <2>1. /\ UNCHANGED <<spc, swait, synced>> /\ rpc \notin BeforeReady \cup {"done"}
        /\ rpc' # "terminatedPayload"
    BY <1>4 DEF LateSetupFailed, TerminatedReceived, BeforeReady, FailWith
  <2>2. CASE up # <<>> /\ up' = Tail(up)
    BY <1>0, <2>1, <2>2, WireTake
  <2>3. CASE up' = up
    BY <1>0, <2>1, <2>3, WireStutter
  <2> QED BY <1>4, <2>2, <2>3 DEF LateSetupFailed, TerminatedReceived
<1>5. CASE Start
  <2>1. UNCHANGED <<up, swait, synced>> /\ spc = "none" /\ rpc' \in {"ready", "done"}
    BY <1>5 DEF Start, Return, ReapInv
  <2>2. spc \notin Terminal /\ rpc' \in BeforeReady \cup {"done"} /\ rpc' # "terminatedPayload"
    BY <2>1 DEF Terminal, BeforeReady
  <2> QED BY <1>0, <2>1, <2>2, WireStutter
<1>6. CASE \/ ReapAfterSetupFailed \/ KillSupervisor \/ KillCgroupBeforeReady
           \/ RemoveCgroupBeforeReady \/ ReapAfterLateSetupFailed \/ ReapAfterTerminated
  <2>1. /\ UNCHANGED <<up, swait, synced>> /\ (spc' = spc \/ spc' = "reaped")
        /\ rpc' # "terminatedPayload"
        /\ rpc' \notin BeforeReady \cup {"done"} => rpc \notin BeforeReady \cup {"done"}
    BY <1>6 DEF ReapAfterSetupFailed, KillSupervisor, KillAndReapSupervisor,
         KillCgroupBeforeReady, RemoveCgroupBeforeReady, ReapAfterLateSetupFailed,
         ReapAfterTerminated, Return, BeforeReady
  <2>2. spc \in Terminal => spc' \in Terminal
    BY <2>1 DEF Terminal
  <2> QED BY <1>0, <2>1, <2>2, WireStutter
<1>7. CASE \/ Deadline \/ Poll \/ PollFails \/ HandleStdin \/ (\E s \in Streams : HandleStream(s))
           \/ Finish \/ FailureStart \/ FailureWait \/ FailureKill \/ FailureEmpty \/ FailureReap
  <2>1. /\ UNCHANGED <<up, swait, synced>> /\ (spc' = spc \/ spc' = "reaped")
        /\ rpc \in {"loop"} \cup Failing
        /\ rpc' \in {"loop", "done"} \cup Failing
    BY <1>7 DEF Deadline, Poll, PollFails, HandleStdin, HandleStream, Finish, FailureStart,
         FailureWait, FailureKill, FailureEmpty, FailureReap, KillAndReapSupervisor, Return,
         FailWith, Failing
  <2>2. /\ rpc \notin BeforeReady \cup {"done"} /\ rpc' # "terminatedPayload"
        /\ spc \in Terminal => spc' \in Terminal
    BY <2>1 DEF Terminal, BeforeReady, Failing
  <2> QED BY <1>0, <2>1, <2>2, WireStutter
<1> QED BY <1>1, <1>2, <1>3, <1>4, <1>5, <1>6, <1>7 DEF RunnerNext, RunnerStep

----------------------------------------------------------------------------
\* Terminated

\* What run() has written into the result: the fields Return and finalize_status leave
\* alone, and the ones they assign.
LEMMA ReturnFields ==
    ASSUME TypeOK, NEW state, NEW status, Return(state, status)
    PROVE  /\ rpc' = "done" /\ result'.state = state /\ result'.status = status
           /\ result'.wait = result.wait /\ result'.tle = result.tle
<1>1. result \in Results
  BY DEF TypeOK
<1> QED BY <1>1 DEF Return, Results

\* run() never comes back from a failure path, nor does it forget a deadline.
LEMMA DoomStays ==
    ASSUME TypeOK, Next
    PROVE  /\ result.tle => result'.tle
           /\ Doomed => Doomed'
           /\ faults' = faults /\ (failedAt' = "None" => failedAt = "None")
<1>1. CASE ~RunnerNext
  <2>1. UNCHANGED <<rpc, result, faults>> /\ (failedAt' = "None" => failedAt = "None")
    BY <1>1 DEF Next, Tick, Returned, vars, SupNext, PrepareEnvironment, ForkChildA,
         AttachChildA, ReleaseChildA, NoChild, SendReady, SupPoll, SupControl, SupStatus,
         SupWait, SendTerminated, FailedWait, SendFailed, SupFail, SupFailKill, SupCrash,
         ChildANext, ChildASync, ChildASetup, ChildASetupFails, SetupFailures,
         ChildAReports, ChildAWait, ChildAForward, ChildAExit, ChildACrash, ChildBNext,
         ChildBExec, ChildBSetupFails, ChildBReports, ChildBExit, ProgramNext,
         ProgramWrite, ProgramRead, ProgramExit
  <2> QED BY <2>1 DEF Doomed, Succeeded
<1>2. CASE RunnerNext
  <2>1. UNCHANGED <<faults, failedAt>>
    BY <1>2 DEF RunnerNext, RunnerStep, Start, ReceiveHeader, ReceivePayload,
         ReapAfterSetupFailed, KillSupervisor, KillCgroupBeforeReady,
         RemoveCgroupBeforeReady, Deadline, Poll, PollFails, HandleControl, LateSetupFailed,
         ReapAfterLateSetupFailed, TerminatedReceived, ReapAfterTerminated, HandleStdin,
         HandleStream, Finish, FailureStart, FailureWait, FailureKill, FailureEmpty,
         FailureReap
  <2>2. result \in Results /\ rpc # "done"
    BY <1>2 DEF TypeOK, RunnerNext, RunnerStep, Start, ReceiveHeader, ReceivePayload,
         ReapAfterSetupFailed, KillSupervisor, KillCgroupBeforeReady,
         RemoveCgroupBeforeReady, Deadline, Poll, PollFails, HandleControl, LateSetupFailed,
         ReapAfterLateSetupFailed, TerminatedReceived, ReapAfterTerminated, HandleStdin,
         HandleStream, Finish, FailureStart, FailureWait, FailureKill, FailureEmpty,
         FailureReap
  <2>3. result.tle => result'.tle
    <3>1. CASE \/ Start \/ ReapAfterSetupFailed \/ KillCgroupBeforeReady
               \/ RemoveCgroupBeforeReady \/ ReapAfterLateSetupFailed \/ Finish \/ FailureReap
      <4>1. result' = result \/ \E state, status : Return(state, status)
        BY <3>1 DEF Start, ReapAfterSetupFailed, KillCgroupBeforeReady,
             RemoveCgroupBeforeReady, ReapAfterLateSetupFailed, Finish, FailureReap
      <4> QED BY <4>1, ReturnFields
    <3>2. CASE Deadline \/ ReapAfterTerminated
      <4>1. \/ result' = result \/ result' = [result EXCEPT !.tle = TRUE]
            \/ result' = [result EXCEPT !.wait = rstatus]
        BY <3>2 DEF Deadline, ReapAfterTerminated
      <4> QED BY <2>2, <4>1 DEF Results
    <3>3. CASE ~(\/ Start \/ ReapAfterSetupFailed \/ KillCgroupBeforeReady
                 \/ RemoveCgroupBeforeReady \/ ReapAfterLateSetupFailed \/ Finish
                 \/ FailureReap \/ Deadline \/ ReapAfterTerminated)
      <4>1. result' = result
        BY <1>2, <3>3 DEF RunnerNext, RunnerStep, ReceiveHeader, ReceivePayload,
             KillSupervisor, Poll, PollFails, HandleControl, LateSetupFailed,
             TerminatedReceived, HandleStdin, HandleStream, FailureStart, FailureWait,
             FailureKill, FailureEmpty
      <4> QED BY <4>1
    <3> QED BY <3>1, <3>2, <3>3
  <2>4. ASSUME Doomed PROVE Doomed'
    <3>1. rpc \in {"killSupervisor", "killCgroup", "awaitEmpty"} \cup Failing
      BY <2>2, <2>4 DEF Doomed
    <3>2. CASE \E state : \E status \in {"SandboxFailure", "RunnerFailure"} : Return(state, status)
      <4>1. rpc' = "done" /\ result'.status \in {"SandboxFailure", "RunnerFailure"}
        BY <3>2, ReturnFields
      <4> QED BY <4>1 DEF Doomed, Succeeded
    <3>3. CASE rpc' \in {"killSupervisor", "killCgroup", "awaitEmpty"} \cup Failing
      BY <3>3 DEF Doomed
    <3>4. \/ KillSupervisor \/ KillCgroupBeforeReady \/ RemoveCgroupBeforeReady
          \/ FailureStart \/ FailureWait \/ FailureKill \/ FailureEmpty \/ FailureReap
      BY <1>2, <3>1 DEF Failing, RunnerNext, RunnerStep, Start, ReceiveHeader, ReceivePayload,
         ReapAfterSetupFailed, Deadline, Poll, PollFails, HandleControl, LateSetupFailed,
         ReapAfterLateSetupFailed, TerminatedReceived, ReapAfterTerminated, HandleStdin,
         HandleStream, Finish
    <3>5. \/ rpc' \in {"killSupervisor", "killCgroup", "awaitEmpty"} \cup Failing
          \/ Return("SandboxFailed", "SandboxFailure")
          \/ Return(result.state, "SandboxFailure") \/ Return(result.state, "RunnerFailure")
      BY <3>4 DEF Failing, KillSupervisor, KillCgroupBeforeReady, RemoveCgroupBeforeReady,
           FailureStart, FailureWait, FailureKill, FailureEmpty, FailureReap
    <3> QED BY <3>2, <3>3, <3>5
  <2> QED BY <2>1, <2>3, <2>4
<1> QED BY <1>1, <1>2

\* No step undoes a disturbance.
LEMMA DisturbedStays ==
    ASSUME TypeOK, Next, Undisturbed'
    PROVE  Undisturbed
  BY DoomStays DEF Undisturbed

\* A step that does not start Terminated, bring back a process or the cgroup, or touch
\* what is reported keeps EndedInv.
LEMMA EndedKept ==
    ASSUME EndedInv, Ended' => Ended, UNCHANGED <<denied, faults>>,
           Undisturbed' => Undisturbed,
           Ended => /\ apc' = apc /\ swait' = swait
                    /\ spc' \in {"terminated"} \cup Terminal
                    /\ cgroup' => cgroup
                    /\ BAlive' => BAlive
                    /\ bstat' = bstat \/ BAlive
    PROVE  EndedInv'
<1> SUFFICES ASSUME Ended' PROVE EndedFacts'
  BY DEF EndedInv
<1>1. EndedFacts
  BY DEF EndedInv
<1>2. denied' = {} => ~cgroup'
  BY <1>1 DEF EndedFacts
<1>3. ("childA" \in faults' => denied' = {}) => ~BAlive'
  BY <1>1 DEF EndedFacts
<1>4. Undisturbed' => swait' = bstat'
  <2> SUFFICES ASSUME Undisturbed' PROVE swait' = bstat'
    OBVIOUS
  <2>1. Undisturbed /\ "childA" \notin faults
    BY DEF Undisturbed
  <2> QED BY <1>1, <2>1 DEF EndedFacts
<1> QED BY <1>1, <1>2, <1>3, <1>4 DEF EndedFacts

\* The header of Terminated is in the socket.
TerminatedSent == \E i \in 1 .. Len(up) : up[i] = Header("Terminated")

\* Writing other words, or taking words off the socket, puts no Terminated into it.
LEMMA NoNewTerminated ==
    ASSUME up \in Seq(Words), TerminatedSent',
           \/ up' = up
           \/ up # <<>> /\ up' = Tail(up)
           \/ Len(up) > 1 /\ up' = Tail(Tail(up))
           \/ \E words \in Seq(Words) :
                /\ \A i \in 1 .. Len(words) : words[i] # Header("Terminated")
                /\ SendUp(words)
    PROVE  TerminatedSent
<1>0. PICK i \in 1 .. Len(up') : up'[i] = Header("Terminated")
  BY DEF TerminatedSent, Header
<1>1. CASE up' = up
  BY <1>0, <1>1 DEF TerminatedSent
<1>2. CASE up # <<>> /\ up' = Tail(up)
  <2>1. up'[i] = up[i + 1] /\ i + 1 \in 1 .. Len(up)
    BY <1>0, <1>2
  <2> QED BY <1>0, <2>1 DEF TerminatedSent
<1>3. CASE Len(up) > 1 /\ up' = Tail(Tail(up))
  <2> DEFINE t == Tail(up)
  <2>1. /\ t \in Seq(Words) /\ t # <<>> /\ Len(t) = Len(up) - 1 /\ Len(up) \in Nat
        /\ \A k \in 1 .. Len(t) : t[k] = up[k + 1]
    BY <1>3
  <2>2. up' = Tail(t)
    BY <1>3
  <2> HIDE DEF t
  <2>3. up'[i] = t[i + 1] /\ i + 1 \in 1 .. Len(t)
    BY <1>0, <2>1, <2>2
  <2>4. up'[i] = up[(i + 1) + 1] /\ (i + 1) + 1 \in 1 .. Len(up)
    BY <2>1, <2>3
  <2> QED BY <1>0, <2>4 DEF TerminatedSent
<1>4. ASSUME NEW words \in Seq(Words), SendUp(words),
             \A k \in 1 .. Len(words) : words[k] # Header("Terminated")
      PROVE  TerminatedSent
  <2>1. CASE up' = up
    BY <1>1, <2>1
  <2>2. CASE up' = up \o words
    <3>1. \/ i \in 1 .. Len(up) /\ up'[i] = up[i]
          \/ i - Len(up) \in 1 .. Len(words) /\ up'[i] = words[i - Len(up)]
      BY <1>0, <2>2
    <3> QED BY <1>0, <1>4, <3>1 DEF TerminatedSent
  <2> QED BY <1>4, <2>1, <2>2 DEF SendUp
<1> QED BY <1>1, <1>2, <1>3, <1>4

\* A step that changes nothing of what Ended looks at but takes or writes other words.
LEMMA EndedBack ==
    ASSUME Ended', TerminatedSent' => TerminatedSent,
           spc' \in {"terminated", "terminatedPayload"} =>
             spc \in {"terminated", "terminatedPayload"},
           rpc' \in {"terminatedPayload", "terminatedReap"} =>
             rpc \in {"terminatedPayload", "terminatedReap"} \/ TerminatedSent,
           finished' => finished \/ rpc = "terminatedPayload"
    PROVE  Ended
<1>1. \/ spc' \in {"terminated", "terminatedPayload"} \/ TerminatedSent'
      \/ rpc' \in {"terminatedPayload", "terminatedReap"} \/ finished'
  BY DEF Ended, TerminatedSent
<1>2. Ended <=> \/ spc \in {"terminated", "terminatedPayload"} \/ TerminatedSent
                \/ rpc \in {"terminatedPayload", "terminatedReap"} \/ finished
  BY DEF Ended, TerminatedSent
<1> QED BY <1>1, <1>2

\* The children's steps keep EndedInv: A takes none, and B none that changes how it
\* ended unless it outlived A.
LEMMA ChildrenEnded ==
    ASSUME EndedInv, TypeOK, Next,
           ChildANext \/ ChildACrash \/ ChildBNext \/ ProgramNext \/ Tick \/ Returned
    PROVE  EndedInv'
<1>1. UNCHANGED <<denied, faults, spc, rpc, finished, swait, cgroup>>
  BY DEF ChildANext, ChildASync, ChildASetup, ChildASetupFails, ChildAReports, ChildAWait,
     ChildAForward, ChildAExit, ChildACrash, ChildBNext, ChildBExec, ChildBSetupFails,
     ChildBReports, ChildBExit, ProgramNext, ProgramWrite, ProgramRead, ProgramExit, Tick,
     Returned, vars
<1>2. Undisturbed' => Undisturbed
  BY DisturbedStays
<1>3. \/ up' = up \/ SendUp(<<Header("SetupFailed")>>) \/ SendUp(FailedPayload(failedAt))
  BY DEF ChildANext, ChildASync, ChildASetup, ChildASetupFails, ChildAReports, ChildAWait,
     ChildAForward, ChildAExit, ChildACrash, ChildBNext, ChildBExec, ChildBSetupFails,
     ChildBReports, ChildBExit, ProgramNext, ProgramWrite, ProgramRead, ProgramExit, Tick,
     Returned, vars
<1>4. TerminatedSent' => TerminatedSent
  <2>1. up \in Seq(Words)
    BY DEF TypeOK
  <2>2. /\ <<Header("SetupFailed")>> \in Seq(Words) /\ FailedPayload(failedAt) \in Seq(Words)
        /\ \A i \in 1 .. Len(<<Header("SetupFailed")>>) :
             <<Header("SetupFailed")>>[i] # Header("Terminated")
        /\ \A i \in 1 .. Len(FailedPayload(failedAt)) :
             FailedPayload(failedAt)[i] # Header("Terminated")
    BY WrittenWords
  <2> QED BY <1>3, <2>1, <2>2, NoNewTerminated
<1>5. Ended' => Ended
  BY <1>1, <1>4, EndedBack
<1>6. Ended => apc = "reaped" /\ spc \in {"terminated"} \cup Terminal
  BY DEF EndedInv, EndedFacts
<1>7. apc = "reaped" => apc' = apc /\ (BAlive' => BAlive) /\ (bstat' = bstat \/ BAlive)
  <2>1. CASE ChildANext \/ ChildACrash
    BY <2>1 DEF ChildANext, ChildASync, ChildASetup, ChildASetupFails, ChildAReports,
       ChildAWait, ChildAForward, ChildAExit, ChildACrash, AAlive
  <2>2. CASE ChildBNext \/ ProgramNext
    BY <2>2 DEF ChildBNext, ChildBExec, ChildBSetupFails, ChildBReports, ChildBExit,
       ProgramNext, ProgramWrite, ProgramRead, ProgramExit, BAlive
  <2>3. CASE Tick \/ Returned
    BY <2>3 DEF Tick, Returned, vars, BAlive
  <2> QED BY <2>1, <2>2, <2>3
<1> QED BY <1>1, <1>2, <1>5, <1>6, <1>7, EndedKept

\* The supervisor's steps keep it: it decides to report Terminated once A is dead and
\* the cgroup is gone.
LEMMA SupEnded ==
    ASSUME EndedInv, FaithInv, TypeOK, ChildInv, StatusInv, ContainmentInv, TerminationInv,
           WireInv, Next, SupNext \/ SupCrash
    PROVE  EndedInv'
<1>0. up \in Seq(Words) /\ UNCHANGED <<denied, faults, rpc, finished, result>>
  BY DEF TypeOK, SupNext, PrepareEnvironment, ForkChildA, AttachChildA, ReleaseChildA,
     NoChild, SendReady, SupPoll, SupControl, SupStatus, SupWait, SendTerminated, FailedWait,
     SendFailed, SupFail, SupFailKill, SupCrash
<1>1. Undisturbed' => Undisturbed
  BY DisturbedStays
<1>2. CASE SupWait
  <2>0. spc = "events" /\ up' = up /\ UNCHANGED <<bpc, bstat, astat, members, failedAt>>
    BY <1>2 DEF SupWait
  <2>1. ~Ended
    BY <2>0 DEF EndedInv, EndedFacts, Terminal
  <2>2. CASE spc' # "terminated"
    <3>1. spc' \notin {"terminated", "terminatedPayload"}
      BY <1>2, <2>2 DEF SupWait
    <3>2. ~Ended'
      BY <1>0, <2>0, <2>1, <3>1 DEF Ended
    <3> QED BY <3>2 DEF EndedInv
  <2>3. CASE spc' = "terminated"
    <3>1. /\ apc = "dead" /\ apc' = "reaped" /\ CleanupCgroup(TRUE)
          /\ swait' = IF fwd = "none" THEN astat ELSE fwd
      BY <1>2, <2>3 DEF SupWait
    <3>2. swait' \in Fates
      BY <3>1 DEF ChildInv, StatusInv
    <3>3. denied = {} => ~cgroup' /\ LiveMembers = {}
      <4>1. denied = {} => path
        BY <2>0 DEF TerminationInv, Monitoring
      <4> QED BY <3>1, <4>1 DEF CleanupCgroup
    <3>4. ("childA" \in faults => denied = {}) => ~BAlive
      <4>1. "childA" \notin faults => ~BAlive
        BY <3>1 DEF ChildInv
      <4>2. denied = {} /\ BAlive => "B" \in LiveMembers
        BY DEF ContainmentInv, Attachable, LiveMembers, BAlive
      <4> QED BY <3>3, <4>1, <4>2
    <3>5. BAlive' <=> BAlive
      BY <2>0 DEF BAlive
    <3>6. Undisturbed' => swait' = bstat'
      <4>1. Undisturbed' => astat = bstat
        BY <1>1, <2>0, <3>1 DEF FaithInv, DeadAsB, Monitoring
      <4> QED BY <2>0, <3>1, <4>1 DEF StatusInv
    <3> QED BY <1>0, <2>3, <3>1, <3>2, <3>3, <3>4, <3>5, <3>6 DEF EndedInv, EndedFacts
  <2> QED BY <2>2, <2>3
<1>3. CASE SendTerminated
  <2>1. Ended
    BY <1>3 DEF SendTerminated, Ended
  <2>2. /\ UNCHANGED <<apc, swait, cgroup, bpc, bstat>>
        /\ spc' \in {"terminated"} \cup Terminal
    BY <1>3 DEF SendTerminated, Terminal
  <2> QED BY <1>0, <1>1, <2>1, <2>2, EndedKept DEF BAlive
<1>4. CASE ~(SupWait \/ SendTerminated)
  <2>1. /\ spc' \notin {"terminated"}
        /\ spc' = "terminatedPayload" => spc = "terminatedPayload"
    BY <1>4 DEF SupNext, PrepareEnvironment, ForkChildA, AttachChildA, ReleaseChildA,
       NoChild, SendReady, SupPoll, SupControl, SupStatus, FailedWait, SendFailed, SupFail,
       SupFailKill, SupCrash
  <2>2. \/ up' = up \/ SendUp(<<Header("SetupFailed")>>) \/ SendUp(FailedPayload(failure))
        \/ SendUp(<<Header("Ready")>>) \/ SendUp(ReadyPayload)
    BY <1>4 DEF SupNext, PrepareEnvironment, ForkChildA, AttachChildA, ReleaseChildA,
       NoChild, SendReady, SupPoll, SupControl, SupStatus, FailedWait, SendFailed, SupFail,
       SupFailKill, SupCrash
  <2>3. TerminatedSent' => TerminatedSent
    <3>1. /\ <<Header("SetupFailed")>> \in Seq(Words) /\ FailedPayload(failure) \in Seq(Words)
          /\ <<Header("Ready")>> \in Seq(Words) /\ ReadyPayload \in Seq(Words)
          /\ \A i \in 1 .. Len(<<Header("SetupFailed")>>) :
               <<Header("SetupFailed")>>[i] # Header("Terminated")
          /\ \A i \in 1 .. Len(FailedPayload(failure)) :
               FailedPayload(failure)[i] # Header("Terminated")
          /\ \A i \in 1 .. Len(ReadyPayload) : ReadyPayload[i] # Header("Terminated")
      BY WrittenWords
    <3>2. \A i \in 1 .. Len(<<Header("Ready")>>) : <<Header("Ready")>>[i] # Header("Terminated")
      BY DEF Header
    <3> QED BY <1>0, <2>2, <3>1, <3>2, NoNewTerminated
  <2>4. Ended' => Ended
    BY <1>0, <2>1, <2>3, EndedBack
  <2>5. Ended => SupCrash
    <3>1. Ended => spc \in {"terminated"} \cup Terminal
      BY DEF EndedInv, EndedFacts
    <3> QED BY <1>4, <3>1 DEF Terminal, SupNext, PrepareEnvironment, ForkChildA,
       AttachChildA, ReleaseChildA, NoChild, SendReady, SupPoll, SupControl, SupStatus,
       FailedWait, SendFailed, SupFail, SupFailKill
  <2>6. SupCrash => /\ UNCHANGED <<apc, swait, cgroup, bpc, bstat>>
                    /\ spc' \in {"terminated"} \cup Terminal
    BY DEF SupCrash, Terminal
  <2> QED BY <1>0, <1>1, <2>4, <2>5, <2>6, EndedKept DEF BAlive
<1> QED BY <1>2, <1>3, <1>4

\* The runner's steps keep it: it only reads Terminated, kills and removes.
LEMMA RunnerEnded ==
    ASSUME EndedInv, TypeOK, ReapInv, Next, RunnerNext
    PROVE  EndedInv'
<1> USE DEF RunnerNext, RunnerStep, Start, ReceiveHeader, ReceivePayload,
     ReapAfterSetupFailed, KillSupervisor, KillCgroupBeforeReady,
     RemoveCgroupBeforeReady, Deadline, Poll, PollFails, HandleControl, LateSetupFailed,
     ReapAfterLateSetupFailed, TerminatedReceived, ReapAfterTerminated, HandleStdin,
     HandleStream, Finish, FailureStart, FailureWait, FailureKill, FailureEmpty,
     FailureReap
<1>0. up \in Seq(Words) /\ UNCHANGED <<denied, faults, swait>>
  BY DEF TypeOK
<1>1. Undisturbed' => Undisturbed
  BY DisturbedStays
<1>2. \/ up' = up
      \/ up # <<>> /\ up' = Tail(up)
      \/ Len(up) > 1 /\ up' = Tail(Tail(up))
  OBVIOUS
<1>3. TerminatedSent' => TerminatedSent
  BY <1>0, <1>2, NoNewTerminated
<1>4. spc' = spc \/ spc' = "reaped" \/ (Start /\ spc = "none" /\ spc' = "prepare")
  BY DEF KillAndReapSupervisor, ReapInv
<1>5. rpc' \in {"terminatedPayload", "terminatedReap"} =>
        \/ rpc \in {"terminatedPayload", "terminatedReap"}
        \/ up # <<>> /\ Head(up) = Header("Terminated")
  BY DEF Return, FailWith
<1>6. finished' => finished \/ rpc = "terminatedPayload"
  OBVIOUS
<1> HIDE DEF Start
<1>7. up # <<>> /\ Head(up) = Header("Terminated") => TerminatedSent
  <2>1. up # <<>> => 1 \in 1 .. Len(up) /\ Head(up) = up[1]
    BY <1>0
  <2> QED BY <2>1 DEF TerminatedSent
<1>8. Ended' => Ended
  BY <1>3, <1>4, <1>5, <1>6, <1>7, EndedBack
<1>9. Ended => apc = "reaped" /\ spc \in {"terminated"} \cup Terminal
  BY DEF EndedInv, EndedFacts
<1>10. UNCHANGED <<apc, bpc, bstat>> \/ Kill({}) \/ Kill(LiveMembers)
  BY DEF KillExecutionCgroup, Start
<1>11. apc = "reaped" => apc' = apc /\ (BAlive' => BAlive) /\ (bstat' = bstat \/ BAlive)
  BY <1>10 DEF Kill, LiveMembers, AAlive, BAlive
<1>12. cgroup' => cgroup
  BY DEF CleanupExecutionCgroup, Start
<1>13. Ended => spc' \in {"terminated"} \cup Terminal
  BY <1>4, <1>9 DEF Terminal
<1> QED BY <1>0, <1>1, <1>8, <1>9, <1>11, <1>12, <1>13, EndedKept

----------------------------------------------------------------------------
\* How B ended

\* A setup that failed has a stage.
LEMMA FailureNamedStep ==
    ASSUME FaithInv, TypeOK, Next
    PROVE  FailureNamed'
<1>1. failedAt' = "None" => failedAt = "None"
  BY DoomStays
<1>2. apc' \in {"ctlHeader", "ctlPayload", "stHeader", "stPayload", "fail"} =>
        \/ apc \in {"ctlHeader", "ctlPayload", "stHeader", "stPayload", "fail"}
        \/ failedAt' # "None"
  <2>1. CASE RunnerNext
    <3>1. apc' = apc \/ apc' = "dead"
      BY <2>1 DEF RunnerNext, RunnerStep, Start, ReceiveHeader, ReceivePayload,
         ReapAfterSetupFailed, KillSupervisor, KillCgroupBeforeReady, KillExecutionCgroup,
         Kill, RemoveCgroupBeforeReady, Deadline, Poll, PollFails, HandleControl,
         LateSetupFailed, ReapAfterLateSetupFailed, TerminatedReceived, ReapAfterTerminated,
         HandleStdin, HandleStream, Finish, FailureStart, FailureWait, FailureKill,
         FailureEmpty, FailureReap
    <3> QED BY <3>1
  <2>2. CASE SupNext \/ SupCrash
    <3>1. apc' = apc \/ apc' \in {"sync", "dead", "reaped"}
      BY <2>2 DEF SupNext, PrepareEnvironment, ForkChildA, AttachChildA, ReleaseChildA,
         ReapChildA, NoChild, SendReady, SupPoll, SupControl, Terminate, Kill, SupStatus,
         SupWait, SendTerminated, FailedWait, SendFailed, SupFail, SupFailKill, SupCrash
    <3> QED BY <3>1
  <2>3. CASE ChildANext \/ ChildACrash
    BY <2>3 DEF ChildANext, ChildASync, ChildASetup, ChildASetupFails, SetupFailures,
       ChildAReports, ChildAWait, ChildAForward, ChildAExit, ChildACrash
  <2>4. CASE ChildBNext \/ ProgramNext \/ Tick \/ Returned
    BY <2>4 DEF ChildBNext, ChildBExec, ChildBSetupFails, ChildBReports, ChildBExit,
       ProgramNext, ProgramWrite, ProgramRead, ProgramExit, Tick, Returned, vars
  <2> QED BY <2>1, <2>2, <2>3, <2>4 DEF Next
<1> QED BY <1>1, <1>2 DEF FaithInv, FailureNamed

\* Terminate is on its way only after a deadline or in a failure path.
LEMMA TerminateMeantStep ==
    ASSUME FaithInv, TypeOK, Next
    PROVE  TerminateMeant'
<1>0. down \in Nat /\ result \in Results
  BY DEF TypeOK
<1>1. CASE Deadline
  <2>1. \/ down' = down
        \/ result' = [result EXCEPT !.tle = TRUE]
    BY <1>1 DEF Deadline
  <2>2. result' = [result EXCEPT !.tle = TRUE] => result'.tle
    BY <1>0 DEF Results
  <2> QED BY <2>1, <2>2, DoomStays DEF FaithInv, TerminateMeant
<1>2. CASE FailureStart
  <2>1. rpc' = "failureWait"
    BY <1>2 DEF FailureStart
  <2> QED BY <2>1 DEF TerminateMeant, Doomed, Failing
<1>3. CASE SupControl
  <2>1. down' > 0 => down > 0
    <3>1. down' = down \/ (down > 0 /\ down' = down - 1)
      BY <1>3 DEF SupControl
    <3> QED BY <1>0, <3>1
  <2> QED BY <2>1, DoomStays DEF FaithInv, TerminateMeant
<1>4. CASE ~(Deadline \/ FailureStart \/ SupControl)
  <2>1. down' = down
    <3>1. CASE RunnerNext
      BY <1>4, <3>1 DEF RunnerNext, RunnerStep, Start, ReceiveHeader, ReceivePayload,
         ReapAfterSetupFailed, KillSupervisor, KillCgroupBeforeReady,
         RemoveCgroupBeforeReady, Poll, PollFails, HandleControl, LateSetupFailed,
         ReapAfterLateSetupFailed, TerminatedReceived, ReapAfterTerminated, HandleStdin,
         HandleStream, Finish, FailureWait, FailureKill, FailureEmpty, FailureReap
    <3>2. CASE SupNext \/ SupCrash
      BY <1>4, <3>2 DEF SupNext, PrepareEnvironment, ForkChildA, AttachChildA, ReleaseChildA,
         NoChild, SendReady, SupPoll, SupStatus, SupWait, SendTerminated, FailedWait,
         SendFailed, SupFail, SupFailKill, SupCrash
    <3>3. CASE ChildANext \/ ChildACrash \/ ChildBNext \/ ProgramNext \/ Tick \/ Returned
      BY <3>3 DEF ChildANext, ChildASync, ChildASetup, ChildASetupFails, ChildAReports,
         ChildAWait, ChildAForward, ChildAExit, ChildACrash, ChildBNext, ChildBExec,
         ChildBSetupFails, ChildBReports, ChildBExit, ProgramNext, ProgramWrite,
         ProgramRead, ProgramExit, Tick, Returned, vars
    <3> QED BY <3>1, <3>2, <3>3 DEF Next
  <2> QED BY <2>1, DoomStays DEF FaithInv, TerminateMeant
<1> QED BY <1>1, <1>2, <1>3, <1>4

\* A that died undisturbed died the way B did, and B does not change any more.
LEMMA DeadAsBStep ==
    ASSUME FaithInv, TypeOK, ChildInv, Next
    PROVE  DeadAsB'
<1> SUFFICES ASSUME Undisturbed', spc' \in Monitoring, apc' = "dead"
             PROVE  astat' = bstat'
  BY DEF DeadAsB
<1>0. Undisturbed /\ "childA" \notin faults /\ failedAt = "None" /\ ~result.tle /\ ~Doomed
  BY DisturbedStays DEF Undisturbed
<1>1. ~(down > 0)
  BY <1>0 DEF FaithInv, TerminateMeant
<1>2. CASE UNCHANGED <<apc, astat, bstat>> /\ spc \in Monitoring
  BY <1>0, <1>2 DEF FaithInv, DeadAsB
<1>3. CASE RunnerNext
  <2>1. rpc \notin {"killCgroup", "failureKill"}
    BY <1>0 DEF Doomed, Failing
  <2>2. UNCHANGED <<apc, astat, bstat>> /\ (spc' \in {spc, "reaped", "prepare"})
    BY <1>3, <2>1 DEF RunnerNext, RunnerStep, Start, ReceiveHeader, ReceivePayload,
       ReapAfterSetupFailed, KillSupervisor, KillAndReapSupervisor, KillCgroupBeforeReady,
       RemoveCgroupBeforeReady, Deadline, Poll, PollFails, HandleControl, LateSetupFailed,
       ReapAfterLateSetupFailed, TerminatedReceived, ReapAfterTerminated, HandleStdin,
       HandleStream, Finish, FailureStart, FailureWait, FailureKill, FailureEmpty,
       FailureReap
  <2> QED BY <1>2, <2>2 DEF Monitoring
<1>4. CASE SupNext \/ SupCrash
  <2>1. CASE SupControl
    <3>1. spc \in Monitoring /\ Kill({})
      BY <1>1, <2>1 DEF SupControl, Monitoring
    <3> QED BY <1>2, <3>1 DEF Kill
  <2>2. CASE ReleaseChildA
    BY <2>2 DEF ReleaseChildA, AAlive, Monitoring
  <2>3. CASE ~(SupControl \/ ReleaseChildA)
    <3>1. UNCHANGED <<astat, bstat>> /\ (apc' = apc \/ apc' # "dead") /\ spc \in Monitoring
      BY <1>4, <2>3 DEF Monitoring, SupNext, PrepareEnvironment, ForkChildA, AttachChildA,
         ReapChildA, NoChild, SendReady, SupPoll, SupStatus, SupWait, SendTerminated,
         FailedWait, SendFailed, SupFail, SupFailKill, SupCrash
    <3> QED BY <1>2, <3>1
  <2> QED BY <2>1, <2>2, <2>3
<1>5. CASE ChildANext \/ ChildACrash
  <2>1. spc' = spc /\ spc \in Monitoring
    BY <1>5 DEF ChildANext, ChildASync, ChildASetup, ChildASetupFails, ChildAReports,
       ChildAWait, ChildAForward, ChildAExit, ChildACrash
  <2>2. CASE ChildASync
    BY <2>1, <2>2 DEF ChildASync, SupAlive, Monitoring
  <2>3. CASE ChildAExit
    BY <1>0, <2>3 DEF ChildAExit, FaithInv, FailureNamed
  <2>4. CASE ChildACrash
    BY <1>0, <2>4 DEF ChildACrash
  <2>5. CASE ChildASetup \/ ChildASetupFails \/ ChildAReports \/ ChildAWait \/ ChildAForward
    BY <2>5 DEF ChildASetup, ChildASetupFails, SetupFailures, ChildAReports, ChildAWait,
       ChildAForward
  <2> QED BY <1>5, <2>2, <2>3, <2>4, <2>5 DEF ChildANext
<1>6. CASE ChildBNext \/ ProgramNext \/ Tick \/ Returned
  <2>1. UNCHANGED <<apc, astat, spc>> /\ (bstat' = bstat \/ BAlive)
    BY <1>6 DEF ChildBNext, ChildBExec, ChildBSetupFails, ChildBReports, ChildBExit, BAlive,
       ProgramNext, ProgramWrite, ProgramRead, ProgramExit, Tick, Returned, vars
  <2>2. ~BAlive
    BY <1>0, <2>1 DEF ChildInv
  <2> QED BY <1>2, <2>1, <2>2
<1> QED BY <1>3, <1>4, <1>5, <1>6 DEF Next

\* FaithInv is kept by every step.
LEMMA FaithStep ==
    ASSUME FaithInv, TypeOK, ChildInv, Next
    PROVE  FaithInv'
<1>1. FailureNamed' /\ TerminateMeant' /\ DeadAsB'
  BY FailureNamedStep, TerminateMeantStep, DeadAsBStep
<1> QED BY <1>1 DEF FaithInv

----------------------------------------------------------------------------
\* The result

\* An empty cgroup stays empty: A was attached before it could fork, and nobody forks A
\* again.
LEMMA ContainedStep ==
    ASSUME ContainedInv, ContainmentInv, WireInv, Next
    PROVE  ContainedInv'
<1>1. CASE FailureEmpty
  <2>1. /\ UNCHANGED <<denied, apc, bpc, synced>> /\ rpc = "failureEmpty"
        /\ contained' => cgroup /\ LiveMembers = {}
    BY <1>1 DEF FailureEmpty, ExecutionCgroupEmpty
  <2>2. synced
    BY <2>1 DEF WireInv, BeforeReady
  <2>3. Attachable => "A" \in members /\ (bpc # "none" => "B" \in members)
    BY <2>2 DEF ContainmentInv
  <2>4. Attachable /\ LiveMembers = {} => ~AAlive /\ ~BAlive
    BY <2>3 DEF LiveMembers, BAlive
  <2> QED BY <2>1, <2>2, <2>4 DEF ContainedInv, Attachable, AAlive, BAlive
<1>2. CASE ~FailureEmpty
  <2>1. CASE RunnerNext
    <3>1. UNCHANGED <<denied, contained, synced>>
      BY <1>2, <2>1 DEF RunnerNext, RunnerStep, Start, ReceiveHeader, ReceivePayload,
         ReapAfterSetupFailed, KillSupervisor, KillCgroupBeforeReady,
         RemoveCgroupBeforeReady, Deadline, Poll, PollFails, HandleControl, LateSetupFailed,
         ReapAfterLateSetupFailed, TerminatedReceived, ReapAfterTerminated, HandleStdin,
         HandleStream, Finish, FailureStart, FailureWait, FailureKill, FailureReap
    <3>2. UNCHANGED <<apc, bpc>> \/ Kill({}) \/ Kill(LiveMembers)
      BY <1>2, <2>1 DEF RunnerNext, RunnerStep, Start, ReceiveHeader, ReceivePayload,
         ReapAfterSetupFailed, KillSupervisor, KillCgroupBeforeReady, KillExecutionCgroup,
         RemoveCgroupBeforeReady, Deadline, Poll, PollFails, HandleControl, LateSetupFailed,
         ReapAfterLateSetupFailed, TerminatedReceived, ReapAfterTerminated, HandleStdin,
         HandleStream, Finish, FailureStart, FailureWait, FailureKill, FailureReap
    <3>3. (AAlive' => AAlive) /\ (BAlive' => BAlive)
      BY <3>2 DEF Kill, AAlive, BAlive
    <3> QED BY <3>1, <3>3 DEF ContainedInv, Attachable
  <2>2. CASE SupNext \/ SupCrash
    <3>1. UNCHANGED <<denied, contained>> /\ (synced => synced')
      BY <2>2 DEF SupNext, PrepareEnvironment, ForkChildA, AttachChildA, ReleaseChildA,
         NoChild, SendReady, SupPoll, SupControl, SupStatus, SupWait, SendTerminated,
         FailedWait, SendFailed, SupFail, SupFailKill, SupCrash
    <3>2. bpc' = bpc \/ bpc' = "dead"
      BY <2>2 DEF SupNext, PrepareEnvironment, ForkChildA, AttachChildA, ReleaseChildA,
         NoChild, SendReady, SupPoll, SupControl, Terminate, Kill, SupStatus, SupWait,
         SendTerminated, FailedWait, SendFailed, SupFail, SupFailKill, SupCrash
    <3>3. apc' = apc \/ apc' \in {"dead", "reaped"} \/ spc = "fork"
      BY <2>2 DEF SupNext, PrepareEnvironment, ForkChildA, AttachChildA, ReleaseChildA,
         ReapChildA, NoChild, SendReady, SupPoll, SupControl, Terminate, Kill, SupStatus,
         SupWait, SendTerminated, FailedWait, SendFailed, SupFail, SupFailKill, SupCrash
    <3>4. spc = "fork" => ~synced
      BY DEF ContainmentInv, Early
    <3> QED BY <3>1, <3>2, <3>3, <3>4 DEF ContainedInv, Attachable, AAlive, BAlive
  <2>3. CASE ChildANext \/ ChildACrash
    <3>1. AAlive /\ UNCHANGED <<denied, contained>>
      BY <2>3 DEF ChildANext, ChildASync, ChildASetup, ChildASetupFails, ChildAReports,
         ChildAWait, ChildAForward, ChildAExit, ChildACrash, AAlive
    <3> QED BY <3>1 DEF ContainedInv, Attachable
  <2>4. CASE ChildBNext \/ ProgramNext
    <3>1. BAlive /\ UNCHANGED <<denied, contained>>
      BY <2>4 DEF ChildBNext, ChildBExec, ChildBSetupFails, ChildBReports, ChildBExit,
         ProgramNext, ProgramWrite, ProgramRead, ProgramExit, BAlive
    <3> QED BY <3>1 DEF ContainedInv, Attachable
  <2>5. CASE Tick \/ Returned
    BY <2>5 DEF Tick, Returned, vars, ContainedInv, Attachable, AAlive, BAlive
  <2> QED BY <2>1, <2>2, <2>3, <2>4, <2>5 DEF Next
<1> QED BY <1>1, <1>2

\* The other processes do not touch the result, nor what the supervisor reported.
LEMMA OthersResult ==
    ASSUME ResultInv, EndedInv,
           \/ SupNext \/ SupCrash \/ ChildANext \/ ChildACrash \/ ChildBNext
           \/ ProgramNext \/ Tick \/ Returned
    PROVE  ResultInv'
<1>1. UNCHANGED <<rpc, fds, finished, rstatus, reports, contained, result>>
  BY DEF Tick, Returned, vars, SupNext, PrepareEnvironment, ForkChildA, AttachChildA,
     ReleaseChildA, NoChild, SendReady, SupPoll, SupControl, SupStatus, SupWait,
     SendTerminated, FailedWait, SendFailed, SupFail, SupFailKill, SupCrash, ChildANext,
     ChildASync, ChildASetup, ChildASetupFails, ChildAReports, ChildAWait, ChildAForward,
     ChildAExit, ChildACrash, ChildBNext, ChildBExec, ChildBSetupFails, ChildBReports,
     ChildBExit, ProgramNext, ProgramWrite, ProgramRead, ProgramExit
<1>2. spc # "events" => swait' = swait
  BY DEF Tick, Returned, vars, SupNext, PrepareEnvironment, ForkChildA, AttachChildA,
     ReleaseChildA, NoChild, SendReady, SupPoll, SupControl, SupStatus, SupWait,
     SendTerminated, FailedWait, SendFailed, SupFail, SupFailKill, SupCrash, ChildANext,
     ChildASync, ChildASetup, ChildASetupFails, ChildAReports, ChildAWait, ChildAForward,
     ChildAExit, ChildACrash, ChildBNext, ChildBExec, ChildBSetupFails, ChildBReports,
     ChildBExit, ProgramNext, ProgramWrite, ProgramRead, ProgramExit
<1>3. finished => swait' = swait
  BY <1>2 DEF EndedInv, EndedFacts, Ended, Terminal
<1> QED BY <1>1, <1>3 DEF ResultInv, Succeeded

\* A record with the fields of an outcome is that outcome.
LEMMA OutcomeOf ==
    ASSUME NEW r \in Results
    PROVE  r = Outcome(r.state, r.status, r.wait, r.tle)
  BY DEF Results, Outcome

\* The outcomes, listed.
LEMMA OutcomesListed ==
    /\ Outcome("SandboxFailed", "SandboxFailure", "none", FALSE) \in RunOutcomes
    /\ Outcome("RunnerFailed", "RunnerFailure", "none", FALSE) \in RunOutcomes
    /\ \A b \in BOOLEAN : \A s \in {"SandboxFailure", "RunnerFailure"} :
         Outcome("Created", s, "none", b) \in RunOutcomes
    /\ \A w \in Fates : Outcome("TimedOut", "TimedOut", w, TRUE) \in RunOutcomes
    /\ \A w \in {"signal", "killed"} : Outcome("Signaled", "Signaled", w, FALSE) \in RunOutcomes
    /\ \A w \in {"exit0", "exit1"} : Outcome("Finished", "Completed", w, FALSE) \in RunOutcomes
<1> DEFINE A == {Outcome("Finished", "Completed", w, FALSE) : w \in {"exit0", "exit1"}}
           B == {Outcome("Signaled", "Signaled", w, FALSE) : w \in {"signal", "killed"}}
           C == {Outcome("TimedOut", "TimedOut", w, TRUE) : w \in Fates}
           D == {Outcome("SandboxFailed", "SandboxFailure", "none", FALSE),
                 Outcome("RunnerFailed", "RunnerFailure", "none", FALSE)}
           E == {Outcome("Created", s, "none", b) :
                   s \in {"SandboxFailure", "RunnerFailure"}, b \in BOOLEAN}
<1>1. RunOutcomes = A \cup B \cup C \cup D \cup E
  BY DEF RunOutcomes
<1>2. \A w \in {"exit0", "exit1"} : Outcome("Finished", "Completed", w, FALSE) \in A
  OBVIOUS
<1>3. \A w \in {"signal", "killed"} : Outcome("Signaled", "Signaled", w, FALSE) \in B
  OBVIOUS
<1>4. \A w \in Fates : Outcome("TimedOut", "TimedOut", w, TRUE) \in C
  OBVIOUS
<1>5. /\ Outcome("SandboxFailed", "SandboxFailure", "none", FALSE) \in D
      /\ Outcome("RunnerFailed", "RunnerFailure", "none", FALSE) \in D
  OBVIOUS
<1>6. \A b \in BOOLEAN : \A s \in {"SandboxFailure", "RunnerFailure"} :
        Outcome("Created", s, "none", b) \in E
  OBVIOUS
<1> HIDE DEF A, B, C, D, E
<1> QED BY <1>1, <1>2, <1>3, <1>4, <1>5, <1>6

\* While the loop handles an event, or gives up, Terminated has not been received.
LEMMA Unfinished ==
    ASSUME ResultInv, TypeOK,
           \/ rpc \notin {"terminatedReap", "loop", "done"}
           \/ rpc = "loop" /\ (Pending # {} \/ StreamsOpen)
    PROVE  ~finished /\ result.wait = "none"
<1>1. fds = {} => Pending = {} /\ ~StreamsOpen
  BY DEF Pending, StreamsOpen
<1> QED BY <1>1 DEF ResultInv

\* A step of run() on its way, before Terminated.
LEMMA ResultKept ==
    ASSUME ResultInv, ~finished, rpc # "done", rpc' # "done",
           UNCHANGED <<finished, result>>,
           rpc' \in BeforeReady \cup {"readyPayload"} =>
             rpc \in BeforeReady \cup {"readyPayload"},
           rpc' # "terminatedReap",
           rpc' \notin BeforeReady \cup {"readyPayload"} => fds' \subseteq RunnerEnds,
           reports' => rpc' \in Failing
    PROVE  ResultInv'
  BY DEF ResultInv

\* A failure is returned with no wait status: before Ready with a state of its own, after
\* it with the state still Created.
LEMMA FailureReturned ==
    ASSUME ResultInv, TypeOK, TypeOK', rpc # "done", ~finished,
           UNCHANGED <<finished, reports, contained>>,
           NEW state, NEW status, Return(state, status),
           \/ rpc \in BeforeReady /\ state = "SandboxFailed" /\ status = "SandboxFailure"
           \/ rpc \in BeforeReady /\ state = "RunnerFailed" /\ status = "RunnerFailure"
           \/ state = result.state /\ status \in {"SandboxFailure", "RunnerFailure"},
           reports /\ status = "RunnerFailure" => contained
    PROVE  ResultInv'
<1>1. /\ rpc' = "done" /\ result'.state = state /\ result'.status = status
      /\ result'.wait = result.wait /\ result'.tle = result.tle
  BY ReturnFields
<1>2. result'.wait = "none"
  BY <1>1 DEF ResultInv
<1>3. result' = Outcome(state, status, "none", result'.tle) /\ result'.tle \in BOOLEAN
  <2>1. result' \in Results
    BY DEF TypeOK, Results, Tokens, MaybeFate, Fates, ProgramFates, MessageTypes, Stages
  <2>2. result' = Outcome(result'.state, result'.status, result'.wait, result'.tle)
    BY <2>1, OutcomeOf
  <2> QED BY <1>1, <1>2, <2>1, <2>2 DEF Results
<1>4. result' \in RunOutcomes
  <2>1. CASE rpc \in BeforeReady /\ state = "SandboxFailed" /\ status = "SandboxFailure"
    <3>1. result'.tle = FALSE
      BY <1>1, <1>3, <2>1 DEF ResultInv
    <3> QED BY <1>3, <2>1, <3>1, OutcomesListed
  <2>2. CASE rpc \in BeforeReady /\ state = "RunnerFailed" /\ status = "RunnerFailure"
    <3>1. result'.tle = FALSE
      BY <1>1, <1>3, <2>2 DEF ResultInv
    <3> QED BY <1>3, <2>2, <3>1, OutcomesListed
  <2>3. CASE state = result.state /\ status \in {"SandboxFailure", "RunnerFailure"}
    <3>1. state = "Created"
      BY <2>3 DEF ResultInv
    <3> QED BY <1>3, <2>3, <3>1, OutcomesListed
  <2> QED BY <2>1, <2>2, <2>3
<1>5. ~Succeeded'
  BY <1>1 DEF Succeeded
<1>6. RunOutcomes' = RunOutcomes
  BY DEF RunOutcomes, Outcome, Fates, ProgramFates
<1>7. "done" \notin BeforeReady \cup {"readyPayload"}
  BY DEF BeforeReady
<1> QED BY <1>1, <1>2, <1>4, <1>5, <1>7 DEF ResultInv

\* The steps of run() up to Ready keep ResultInv.
LEMMA ResultBeforeReady ==
    ASSUME ResultInv, TypeOK, TypeOK',
           \/ Start \/ ReceiveHeader \/ ReceivePayload \/ ReapAfterSetupFailed
           \/ KillSupervisor \/ KillCgroupBeforeReady \/ RemoveCgroupBeforeReady
    PROVE  ResultInv'
<1>1. /\ rpc \in BeforeReady \cup {"readyPayload"}
      /\ rpc \notin {"terminatedReap", "loop", "done"} \cup Failing
      /\ UNCHANGED <<finished, reports, contained>>
  BY DEF Start, ReceiveHeader, ReceivePayload, ReapAfterSetupFailed, KillSupervisor,
     KillCgroupBeforeReady, RemoveCgroupBeforeReady, BeforeReady, Failing
<1>2. ~finished /\ ~reports
  BY <1>1, Unfinished DEF ResultInv
<1>3. CASE rpc' # "done"
  <2>1. UNCHANGED result
    BY <1>3 DEF Start, ReceiveHeader, ReceivePayload, ReapAfterSetupFailed, KillSupervisor,
       KillCgroupBeforeReady, RemoveCgroupBeforeReady, Return
  <2>2. rpc' \in BeforeReady \cup {"readyPayload", "loop"}
    BY <1>3 DEF Start, ReceiveHeader, ReceivePayload, ReapAfterSetupFailed, KillSupervisor,
       KillCgroupBeforeReady, RemoveCgroupBeforeReady, Return, BeforeReady
  <2>3. rpc' = "loop" => fds' \subseteq RunnerEnds
    <3>1. rpc' = "loop" =>
            fds' = fds \ (ChildEnds \cup (IF InputLen = 0 THEN {"in1"} ELSE {}))
      BY DEF Start, ReceiveHeader, ReceivePayload, ReapAfterSetupFailed, KillSupervisor,
         KillCgroupBeforeReady, RemoveCgroupBeforeReady, Return
    <3>2. fds \subseteq RunnerEnds \cup ChildEnds
      BY DEF TypeOK
    <3> QED BY <3>1, <3>2
  <2>4. rpc' # "terminatedReap"
    BY <2>2 DEF BeforeReady
  <2> QED BY <1>1, <1>2, <1>3, <2>1, <2>2, <2>3, <2>4, ResultKept
<1>4. CASE rpc' = "done"
  <2>1. \/ Return("RunnerFailed", "RunnerFailure") \/ Return("SandboxFailed", "SandboxFailure")
    BY <1>4 DEF Start, ReceiveHeader, ReceivePayload, ReapAfterSetupFailed, KillSupervisor,
       KillCgroupBeforeReady, RemoveCgroupBeforeReady
  <2>2. rpc \in BeforeReady
    BY <1>4 DEF Start, ReceiveHeader, ReceivePayload, ReapAfterSetupFailed, KillSupervisor,
       KillCgroupBeforeReady, RemoveCgroupBeforeReady, BeforeReady
  <2> QED BY <1>1, <1>2, <2>1, <2>2, FailureReturned
<1> QED BY <1>3, <1>4

\* The steps of the main loop that do not receive Terminated keep it.
LEMMA ResultInLoop ==
    ASSUME ResultInv, TypeOK, TypeOK',
           \/ Poll \/ PollFails \/ HandleControl \/ LateSetupFailed
           \/ HandleStdin \/ (\E s \in Streams : HandleStream(s))
    PROVE  ResultInv'
<1>1. \/ rpc = "lateFailedPayload"
      \/ rpc = "loop" /\ (Pending # {} \/ StreamsOpen \/ ~finished)
  BY DEF Poll, PollFails, HandleControl, LateSetupFailed, HandleStdin, HandleStream
<1>2. ~finished
  BY <1>1, Unfinished
<1>3. UNCHANGED <<finished, result>>
  BY DEF Poll, PollFails, HandleControl, LateSetupFailed, HandleStdin, HandleStream
<1>4. rpc' \in {"loop", "lateFailedPayload", "lateFailedReap", "terminatedPayload", "failure"}
  BY <1>1 DEF Poll, PollFails, HandleControl, LateSetupFailed, HandleStdin, HandleStream,
     FailWith
<1>5. reports' => reports \/ rpc' = "failure"
  BY DEF Poll, PollFails, HandleControl, LateSetupFailed, HandleStdin, HandleStream, FailWith
<1>6. ~reports /\ fds \subseteq RunnerEnds
  BY <1>1 DEF ResultInv, BeforeReady, Failing
<1>7. fds' \subseteq fds
  BY DEF Poll, PollFails, HandleControl, LateSetupFailed, HandleStdin, HandleStream, ReadChunk
<1>8. rpc' \notin BeforeReady \cup {"readyPayload", "done", "terminatedReap"}
  BY <1>4 DEF BeforeReady
<1>9. rpc # "done" /\ (reports' => rpc' \in Failing)
  BY <1>1, <1>5, <1>6 DEF Failing
<1>10. fds' \subseteq RunnerEnds
  BY <1>6, <1>7
<1> QED BY <1>2, <1>3, <1>8, <1>9, <1>10, ResultKept

\* The deadline only sets the flag.
LEMMA ResultDeadline ==
    ASSUME ResultInv, TypeOK, Deadline
    PROVE  ResultInv'
<1>1. rpc = "loop" /\ ~finished /\ UNCHANGED <<finished, rstatus, swait, contained>>
  BY DEF Deadline, DeadlineDue
<1>2. ~reports /\ fds \subseteq RunnerEnds
  BY <1>1 DEF ResultInv, BeforeReady, Failing
<1>3. CASE rpc' = "loop"
  <2>1. /\ result' = [result EXCEPT !.tle = TRUE] /\ fds' = fds \ {"in1"}
        /\ UNCHANGED <<rpc, reports>>
    BY <1>3 DEF Deadline, FailWith
  <2>2. result \in Results
    BY DEF TypeOK
  <2>3. /\ result'.state = result.state /\ result'.status = result.status
        /\ result'.wait = result.wait
    BY <2>1, <2>2 DEF Results
  <2>4. "loop" \notin BeforeReady \cup {"readyPayload"}
    BY DEF BeforeReady
  <2> QED BY <1>1, <1>2, <2>1, <2>3, <2>4 DEF ResultInv
<1>4. CASE rpc' # "loop"
  <2>1. rpc' = "failure" /\ UNCHANGED <<result, fds>>
    BY <1>1, <1>4 DEF Deadline, FailWith
  <2>2. "failure" \in Failing /\ "failure" \notin BeforeReady \cup {"readyPayload"}
    BY DEF Failing, BeforeReady
  <2> QED BY <1>1, <1>2, <2>1, <2>2, ResultKept
<1> QED BY <1>3, <1>4

\* Terminated: the status received is the one the supervisor reported, and the loop goes
\* on with every descriptor closed.
LEMMA ResultTerminated ==
    ASSUME ResultInv, WireInv, TypeOK, TerminatedReceived \/ ReapAfterTerminated
    PROVE  ResultInv'
<1>0. result \in Results /\ up \in Seq(Words)
  BY DEF TypeOK
<1>1. CASE TerminatedReceived
  <2>1. rpc = "terminatedPayload" /\ UNCHANGED <<result, swait>>
    BY <1>1 DEF TerminatedReceived
  <2>2. ~finished /\ ~reports /\ fds \subseteq RunnerEnds
    BY <2>1 DEF ResultInv, BeforeReady, Failing
  <2>3. CASE rpc' = "terminatedReap"
    <3>1. /\ up # <<>> /\ rstatus' = Head(up).of /\ finished' = TRUE
          /\ fds' = fds \ {"ctl0"} /\ reports' = reports
      BY <1>1, <2>3 DEF TerminatedReceived, FailWith
    <3>2. Head(up) = up[1] /\ 1 \in 1 .. Len(up)
      BY <1>0, <3>1
    <3>3. rstatus' = swait
      BY <2>1, <3>1, <3>2 DEF WireInv, TerminatedWord
    <3>4. "terminatedReap" \notin BeforeReady \cup {"readyPayload", "done"}
      BY DEF BeforeReady
    <3> QED BY <2>1, <2>2, <2>3, <3>1, <3>3, <3>4 DEF ResultInv
  <2>4. CASE rpc' # "terminatedReap"
    <3>1. rpc' = "failure" /\ UNCHANGED <<finished, fds>>
      BY <1>1, <2>4 DEF TerminatedReceived, FailWith
    <3>2. "failure" \in Failing /\ "failure" \notin BeforeReady \cup {"readyPayload"}
      BY DEF Failing, BeforeReady
    <3> QED BY <2>1, <2>2, <3>1, <3>2, ResultKept
  <2> QED BY <2>3, <2>4
<1>2. CASE ReapAfterTerminated
  <2>1. /\ rpc = "terminatedReap" /\ rpc' = "loop" /\ UNCHANGED <<finished, rstatus, swait, reports>>
        /\ result' = [result EXCEPT !.wait = rstatus] /\ fds' = fds \ {"in1", "out0", "err0"}
    BY <1>2 DEF ReapAfterTerminated
  <2>2. finished /\ rstatus = swait /\ "ctl0" \notin fds /\ fds \subseteq RunnerEnds /\ ~reports
    BY <2>1 DEF ResultInv, BeforeReady, Failing
  <2>3. fds' = {}
    BY <2>1, <2>2 DEF RunnerEnds
  <2>4. /\ result'.state = result.state /\ result'.status = result.status
        /\ result'.wait = rstatus
    BY <1>0, <2>1 DEF Results
  <2>5. "loop" \notin BeforeReady \cup {"readyPayload"}
    BY DEF BeforeReady
  <2> QED BY <2>1, <2>2, <2>3, <2>4, <2>5 DEF ResultInv
<1> QED BY <1>1, <1>2

\* The result of a program that ended is one of the contract.
LEMMA ResultFinish ==
    ASSUME ResultInv, EndedInv, TypeOK, TypeOK', Finish
    PROVE  ResultInv'
<1>1. /\ rpc = "loop" /\ finished /\ UNCHANGED <<finished, rstatus, swait, fds, reports, contained>>
      /\ rpc' = "done"
  BY DEF Finish, Return
<1>2. /\ fds = {} /\ result.wait = rstatus /\ rstatus = swait /\ ~reports
  BY <1>1 DEF ResultInv, Failing
<1>3. rstatus \in Fates
  BY <1>1, <1>2 DEF EndedInv, EndedFacts, Ended
<1>4. result \in Results /\ result' \in Results
  <2>1. Results' = Results
    BY DEF Results, Tokens, MaybeFate, Fates, ProgramFates, MessageTypes, Stages
  <2> QED BY <2>1 DEF TypeOK
<1>5. result.tle \in BOOLEAN
  BY <1>4 DEF Results
<1>6. \/ result.tle /\ Return("TimedOut", "TimedOut")
      \/ ~result.tle /\ rstatus \in {"signal", "killed"} /\ Return("Signaled", "Signaled")
      \/ ~result.tle /\ rstatus \notin {"signal", "killed"} /\ Return("Finished", "Completed")
  BY DEF Finish
<1>7. result' = Outcome(result'.state, result'.status, result'.wait, result'.tle)
  BY <1>4, OutcomeOf
<1>8. result'.wait = rstatus /\ result'.tle = result.tle
  BY <1>2, <1>6, ReturnFields
<1>9. result' \in RunOutcomes
  <2>1. CASE result.tle /\ Return("TimedOut", "TimedOut")
    <3>1. result' = Outcome("TimedOut", "TimedOut", rstatus, TRUE)
      BY <1>5, <1>7, <1>8, <2>1, ReturnFields
    <3> QED BY <1>3, <3>1, OutcomesListed
  <2>2. CASE ~result.tle /\ rstatus \in {"signal", "killed"} /\ Return("Signaled", "Signaled")
    <3>1. result' = Outcome("Signaled", "Signaled", rstatus, FALSE)
      BY <1>5, <1>7, <1>8, <2>2, ReturnFields
    <3> QED BY <2>2, <3>1, OutcomesListed
  <2>3. CASE ~result.tle /\ rstatus \notin {"signal", "killed"} /\ Return("Finished", "Completed")
    <3>1. result' = Outcome("Finished", "Completed", rstatus, FALSE)
      BY <1>5, <1>7, <1>8, <2>3, ReturnFields
    <3>2. rstatus \in {"exit0", "exit1"}
      BY <1>3, <2>3 DEF Fates, ProgramFates
    <3> QED BY <3>1, <3>2, OutcomesListed
  <2> QED BY <1>6, <2>1, <2>2, <2>3
<1>10. "done" \notin BeforeReady \cup {"readyPayload"}
  BY DEF BeforeReady
<1> QED BY <1>1, <1>2, <1>8, <1>9, <1>10 DEF ResultInv

\* The failure paths: the result keeps its state and gets a status.
LEMMA ResultFailing ==
    ASSUME ResultInv, TypeOK, TypeOK',
           \/ ReapAfterLateSetupFailed \/ FailureStart \/ FailureWait \/ FailureKill
           \/ FailureEmpty \/ FailureReap
    PROVE  ResultInv'
<1>1. rpc \in {"lateFailedReap"} \cup Failing /\ UNCHANGED <<finished, reports>>
  BY DEF ReapAfterLateSetupFailed, FailureStart, FailureWait, FailureKill, FailureEmpty,
     FailureReap, Failing
<1>2. rpc \notin BeforeReady \cup {"readyPayload", "terminatedReap", "loop", "done"}
  BY <1>1 DEF BeforeReady, Failing
<1>3. ~finished /\ fds \subseteq RunnerEnds
  BY <1>2, Unfinished DEF ResultInv
<1>4. CASE FailureStart \/ FailureWait \/ FailureKill \/ FailureEmpty
  <2>1. rpc' \in Failing /\ UNCHANGED result /\ fds' \subseteq fds
    BY <1>4 DEF FailureStart, FailureWait, FailureKill, FailureEmpty, Failing
  <2>2. rpc' \notin BeforeReady \cup {"readyPayload", "terminatedReap", "done"}
    BY <2>1 DEF BeforeReady, Failing
  <2>3. fds' \subseteq RunnerEnds
    BY <1>3, <2>1
  <2> QED BY <1>1, <1>2, <1>3, <2>1, <2>2, <2>3, ResultKept
<1>5. CASE ReapAfterLateSetupFailed
  <2>1. Return(result.state, "SandboxFailure") /\ UNCHANGED contained
    BY <1>5 DEF ReapAfterLateSetupFailed
  <2> QED BY <1>1, <1>2, <1>3, <2>1, FailureReturned
<1>6. CASE FailureReap
  <2>1. /\ UNCHANGED contained
        /\ \/ Return(result.state, "SandboxFailure")
           \/ Return(result.state, "RunnerFailure") /\ (reports => contained)
    BY <1>6 DEF FailureReap
  <2> QED BY <1>1, <1>2, <1>3, <2>1, FailureReturned
<1> QED BY <1>4, <1>5, <1>6

----------------------------------------------------------------------------
\* The invariant is inductive, together with ReapInv, ContainmentInv, TerminationInv
\* and TypeOK.

OutcomeInv == /\ ChildInv /\ StatusInv /\ WireInv /\ EndedInv /\ FaithInv
              /\ ContainedInv /\ ResultInv

\* A step of the runner keeps the result as run() builds it.
LEMMA RunnerResult ==
    ASSUME ResultInv, EndedInv, WireInv, TypeOK, TypeOK', RunnerNext
    PROVE  ResultInv'
<1>1. CASE \/ Start \/ ReceiveHeader \/ ReceivePayload \/ ReapAfterSetupFailed
           \/ KillSupervisor \/ KillCgroupBeforeReady \/ RemoveCgroupBeforeReady
  BY <1>1, ResultBeforeReady
<1>2. CASE \/ Poll \/ PollFails \/ HandleControl \/ LateSetupFailed
           \/ HandleStdin \/ (\E s \in Streams : HandleStream(s))
  BY <1>2, ResultInLoop
<1>3. CASE Deadline
  BY <1>3, ResultDeadline
<1>4. CASE TerminatedReceived \/ ReapAfterTerminated
  BY <1>4, ResultTerminated
<1>5. CASE Finish
  BY <1>5, ResultFinish
<1>6. CASE \/ ReapAfterLateSetupFailed \/ FailureStart \/ FailureWait \/ FailureKill
           \/ FailureEmpty \/ FailureReap
  BY <1>6, ResultFailing
<1> QED BY <1>1, <1>2, <1>3, <1>4, <1>5, <1>6 DEF RunnerNext, RunnerStep

outcomeVars == <<denied, faults, rpc, fds, finished, rstatus, reports, contained, result,
                 spc, fwd, swait, apc, astat, bpc, bstat, failedAt, cgroup, members,
                 synced, up, down, spipe>>

\* The parts of the invariant depend on these variables alone.
LEMMA OutcomeStutter ==
    ASSUME OutcomeInv, UNCHANGED outcomeVars
    PROVE  OutcomeInv'
<1> USE DEF outcomeVars
<1>1. ChildInv'
  BY DEF OutcomeInv, ChildInv, BAlive
<1>2. StatusInv'
  BY DEF OutcomeInv, StatusInv
<1>3. WireInv'
  BY DEF OutcomeInv, WireInv, TerminatedWord
<1>4. Undisturbed' = Undisturbed /\ Doomed' = Doomed /\ Succeeded' = Succeeded
  BY DEF Undisturbed, Doomed, Succeeded
<1>5. EndedInv'
  BY <1>4 DEF OutcomeInv, EndedInv, Ended, EndedFacts, BAlive
<1>6. FaithInv'
  BY <1>4 DEF OutcomeInv, FaithInv, DeadAsB, FailureNamed, TerminateMeant
<1>7. ContainedInv'
  BY DEF OutcomeInv, ContainedInv, AAlive, BAlive, Attachable
<1>8. ResultInv'
  BY <1>4 DEF OutcomeInv, ResultInv
<1> QED BY <1>1, <1>2, <1>3, <1>5, <1>6, <1>7, <1>8 DEF OutcomeInv

\* OutcomeInv holds in every reachable state.
LEMMA OutcomeInductive == Spec => []OutcomeInv
<1>1. Init => OutcomeInv
  <2> SUFFICES ASSUME Init PROVE OutcomeInv
    OBVIOUS
  <2>1. Len(up) = 0 /\ Len(spipe) = 0
    BY DEF Init
  <2>2. ChildInv
    BY DEF Init, ChildInv, Unforked, Forwarding, BAlive
  <2>3. StatusInv
    BY <2>1 DEF Init, StatusInv
  <2>4. WireInv
    BY <2>1 DEF Init, WireInv, BeforeReady
  <2>5. EndedInv
    BY <2>1 DEF Init, EndedInv, Ended
  <2>6. FaithInv
    BY DEF Init, FaithInv, DeadAsB, FailureNamed, TerminateMeant
  <2>7. ContainedInv
    BY DEF Init, ContainedInv
  <2>8. ResultInv
    BY DEF Init, ResultInv, BeforeReady
  <2> QED BY <2>2, <2>3, <2>4, <2>5, <2>6, <2>7, <2>8 DEF OutcomeInv
<1>2. /\ OutcomeInv /\ TypeOK /\ TypeOK' /\ ReapInv /\ ContainmentInv /\ TerminationInv
      /\ [Next]_vars
      => OutcomeInv'
  <2> SUFFICES ASSUME OutcomeInv, TypeOK, TypeOK', ReapInv, ContainmentInv, TerminationInv,
                      [Next]_vars
               PROVE  OutcomeInv'
    OBVIOUS
  <2>1. CASE UNCHANGED vars
    BY <2>1, OutcomeStutter DEF vars, outcomeVars
  <2>2. CASE Next
    <3>1. ChildInv /\ StatusInv /\ WireInv /\ EndedInv /\ FaithInv /\ ContainedInv /\ ResultInv
      BY DEF OutcomeInv
    <3>2. FaithInv' /\ ContainedInv'
      BY <2>2, <3>1, FaithStep, ContainedStep
    <3>3. CASE RunnerNext
      BY <2>2, <3>1, <3>2, <3>3, RunnerChild, RunnerStatus, RunnerWire, RunnerEnded,
         RunnerResult DEF OutcomeInv
    <3>4. CASE SupNext \/ SupCrash
      BY <2>2, <3>1, <3>2, <3>4, SupChild, SupStatusInv, SupWire, SupEnded, OthersResult
         DEF OutcomeInv
    <3>5. CASE ChildANext \/ ChildACrash \/ ChildBNext \/ ProgramNext \/ Tick \/ Returned
      BY <2>2, <3>1, <3>2, <3>5, ChildrenChild, ChildrenStatus, ChildrenWire, ChildrenEnded,
         OthersResult DEF OutcomeInv
    <3> QED BY <2>2, <3>3, <3>4, <3>5 DEF Next
  <2> QED BY <2>1, <2>2
<1> QED BY <1>1, <1>2, TypeCorrect, ContainmentInductive, TerminationInductive, PTL DEF Spec

----------------------------------------------------------------------------
\* What run() returns

\* Every result of run() is one of the outcomes that the scheduler, the compiler, the
\* test runner and the judge are modelled against.
THEOREM ContractKept == Spec => []OutcomeContract
<1>1. OutcomeInv => OutcomeContract
  BY DEF OutcomeInv, ResultInv, OutcomeContract
<1> QED BY <1>1, OutcomeInductive, PTL

\* A result that says the program ended was built from a Terminated message.
LEMMA SuccessEnded ==
    ASSUME OutcomeInv, Succeeded
    PROVE  EndedFacts /\ finished /\ fds = {} /\ result.wait = swait
<1>1. rpc = "done"
  BY DEF Succeeded
<1>2. finished
  BY <1>1 DEF OutcomeInv, ResultInv
<1>3. EndedFacts
  BY <1>2 DEF OutcomeInv, EndedInv, Ended
<1>4. fds = {} /\ result.wait = swait
  BY <1>1, <1>2 DEF OutcomeInv, ResultInv
<1> QED BY <1>2, <1>3, <1>4

\* A result that says the program ended leaves no descriptor of run() open and, where
\* nothing is denied, no cgroup.
THEOREM ResourcesReleased == Spec => []SuccessReleasesResources
<1>1. OutcomeInv => SuccessReleasesResources
  BY SuccessEnded DEF SuccessReleasesResources, EndedFacts
<1> QED BY <1>1, OutcomeInductive, PTL

\* A result that says the program ended means that A is reaped and B is dead, on every
\* host, unless A was killed from outside where cgroup operations are denied.
THEOREM NobodySurvives == Spec => []NoSurvivor
<1>1. OutcomeInv => NoSurvivor
  BY SuccessEnded DEF NoSurvivor, EndedFacts
<1> QED BY <1>1, OutcomeInductive, PTL

\* Among the outcomes of a program that ended within its time, Signaled is the status
\* of those a signal ended.
LEMMA SignaledOutcomes ==
    ASSUME NEW o \in RunOutcomes, ~o.tle, o.status \in {"Completed", "Signaled", "TimedOut"}
    PROVE  o.status = "Signaled" <=> o.wait \in {"signal", "killed"}
<1> DEFINE A == {Outcome("Finished", "Completed", w, FALSE) : w \in {"exit0", "exit1"}}
           B == {Outcome("Signaled", "Signaled", w, FALSE) : w \in {"signal", "killed"}}
           C == {Outcome("TimedOut", "TimedOut", w, TRUE) : w \in Fates}
           D == {Outcome("SandboxFailed", "SandboxFailure", "none", FALSE),
                 Outcome("RunnerFailed", "RunnerFailure", "none", FALSE)}
           E == {Outcome("Created", s, "none", b) :
                   s \in {"SandboxFailure", "RunnerFailure"}, b \in BOOLEAN}
<1>1. CASE o \in A
  <2>1. PICK w \in {"exit0", "exit1"} : o = Outcome("Finished", "Completed", w, FALSE)
    BY <1>1
  <2> QED BY <2>1 DEF Outcome
<1>2. CASE o \in B
  <2>1. PICK w \in {"signal", "killed"} : o = Outcome("Signaled", "Signaled", w, FALSE)
    BY <1>2
  <2> QED BY <2>1 DEF Outcome
<1>3. CASE o \in C
  <2>1. PICK w \in Fates : o = Outcome("TimedOut", "TimedOut", w, TRUE)
    BY <1>3
  <2> QED BY <2>1 DEF Outcome
<1>4. CASE o \in D
  BY <1>4 DEF Outcome
<1>5. CASE o \in E
  <2>1. PICK s \in {"SandboxFailure", "RunnerFailure"}, b \in BOOLEAN :
          o = Outcome("Created", s, "none", b)
    BY <1>5
  <2> QED BY <2>1 DEF Outcome
<1>6. RunOutcomes = A \cup B \cup C \cup D \cup E
  BY DEF RunOutcomes
<1> HIDE DEF A, B, C, D, E
<1> QED BY <1>1, <1>2, <1>3, <1>4, <1>5, <1>6

\* The reported cause of the end is B's own, through A's forwarding, the status pipe, the
\* supervisor's wait4 and the Terminated message.
THEOREM ExitIsFaithful == Spec => []FaithfulExit
<1>1. OutcomeInv => FaithfulExit
  <2> SUFFICES ASSUME OutcomeInv, Succeeded, ~result.tle, failedAt = "None",
                      "childA" \notin faults
               PROVE  /\ result.wait = bstat
                      /\ result.status = "Signaled" <=> bstat \in {"signal", "killed"}
    BY DEF FaithfulExit
  <2>1. rpc = "done" /\ result.status \in {"Completed", "Signaled", "TimedOut"}
    BY DEF Succeeded
  <2>2. ~Doomed
    BY <2>1 DEF Doomed, Failing
  <2>3. result.wait = bstat
    BY <2>2, SuccessEnded DEF Undisturbed, EndedFacts
  <2>4. result \in RunOutcomes
    BY <2>1 DEF OutcomeInv, ResultInv
  <2>5. result.status = "Signaled" <=> result.wait \in {"signal", "killed"}
    BY <2>1, <2>4, SignaledOutcomes
  <2> QED BY <2>3, <2>5
<1> QED BY <1>1, OutcomeInductive, PTL

\* Where the caller of cleanup_after_failure looks at its result, RunnerFailure means that
\* neither A nor B is alive, if the judge may create and populate cgroups.
THEOREM CleanupReportIsSound == Spec => []CleanupReportSound
<1>1. OutcomeInv => CleanupReportSound
  BY DEF OutcomeInv, ResultInv, ContainedInv, Attachable, CleanupReportSound
<1> QED BY <1>1, OutcomeInductive, PTL

============================================================================
