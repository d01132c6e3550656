--------------------------- MODULE Streams_proofs ---------------------------
(***************************************************************************)
(* Proofs about the three standard streams of ProcessRunner: the input     *)
(* offset never passes the end of the input, and no chunk of output is     *)
(* lost, duplicated or attributed to the other stream while run() reads.   *)
(***************************************************************************)
EXTENDS ProcessRunner_proofs

\* Before the fork nothing is open and nothing has moved; afterwards descriptors
\* are only ever closed.
StreamInv ==
    /\ rpc = "start" => /\ fds = {} /\ inOff = 0
                        /\ \A s \in Streams :
                             captured[s] = 0 /\ pipe[s] = 0 /\ produced[s] = 0
    /\ InputOffsetSane
    /\ OutputConserved

USE DEF hostVars, runnerVars, supVars, childVars, cgVars, wireVars, streamVars

----------------------------------------------------------------------------
\* A step that moves no data, opens nothing and does not go back to the beginning.
LEMMA StreamQuiet ==
    ASSUME StreamInv, rpc' = rpc \/ rpc' # "start", fds' \subseteq fds, inOff' = inOff,
           \A s \in Streams : /\ captured'[s] = captured[s] /\ pipe'[s] = pipe[s]
                              /\ produced'[s] = produced[s]
    PROVE  StreamInv'
  BY DEF StreamInv, InputOffsetSane, OutputConserved

\* The supervisor, the children and the clock do not touch the runner's side.
LEMMA OthersStreams ==
    ASSUME StreamInv, \/ SupNext \/ SupCrash \/ ChildANext \/ ChildACrash \/ ChildBNext
                      \/ Tick \/ Returned
    PROVE  StreamInv'
<1>1. /\ UNCHANGED <<rpc, fds, inOff, captured, pipe, produced>>
  <2>1. CASE SupNext \/ SupCrash
    BY <2>1 DEF SupNext, SupCrash, PrepareEnvironment, ForkChildA, AttachChildA,
         ReleaseChildA, NoChild, SendReady, SupPoll, SupControl, SupStatus, SupWait,
         SendTerminated, FailedWait, SendFailed, SupFail, SupFailKill
  <2>2. CASE ChildANext \/ ChildACrash
    BY <2>2 DEF ChildANext, ChildACrash, ChildASync, ChildASetup, ChildASetupFails,
         ChildAReports, ChildAWait, ChildAForward, ChildAExit
  <2>3. CASE ChildBNext \/ Tick \/ Returned
    BY <2>3 DEF ChildBNext, ChildBExec, ChildBSetupFails, ChildBReports, ChildBExit,
         Tick, Returned, vars
  <2> QED BY <2>1, <2>2, <2>3
<1> QED BY <1>1, StreamQuiet

\* The program writes only where the runner still reads, and counts what it writes.
LEMMA ProgramStreams ==
    ASSUME TypeOK, StreamInv, ProgramNext
    PROVE  StreamInv'
<1>0. /\ pipe \in [{"in"} \cup Streams -> Nat]
      /\ produced \in [Streams -> Nat] /\ captured \in [Streams -> Nat]
  BY DEF TypeOK
<1>1. CASE \E s \in Streams : ProgramWrite(s)
  <2>1. PICK s \in Streams : ProgramWrite(s)
    BY <1>1
  <2>2. rpc # "start"
    BY <2>1 DEF StreamInv, ProgramWrite
  <2>3. /\ UNCHANGED <<rpc, fds, inOff, captured>>
        /\ produced' = [produced EXCEPT ![s] = @ + 1]
        /\ pipe' = [pipe EXCEPT ![s] = @ + 1]
    BY <2>1 DEF ProgramWrite
  <2>4. InputOffsetSane'
    BY <2>3 DEF StreamInv, InputOffsetSane
  <2>5. OutputConserved'
    BY <1>0, <2>3 DEF StreamInv, OutputConserved
  <2> QED BY <2>2, <2>3, <2>4, <2>5 DEF StreamInv
<1>2. CASE ProgramRead
  <2>1. \A s \in Streams : pipe'[s] = pipe[s]
    BY <1>0, <1>2 DEF ProgramRead, Streams
  <2>2. UNCHANGED <<rpc, fds, inOff, captured, produced>>
    BY <1>2 DEF ProgramRead
  <2> QED BY <2>1, <2>2, StreamQuiet
<1>3. CASE ProgramExit
  <2>1. UNCHANGED <<rpc, fds, inOff, captured, pipe, produced>>
    BY <1>3 DEF ProgramExit
  <2> QED BY <2>1, StreamQuiet
<1> QED BY <1>1, <1>2, <1>3 DEF ProgramNext

\* A write of at most what remains stays within the input, and does not wrap; the
\* -1 of the EPIPE path is added to the offset of a stream that is closed.
LEMMA StdinStreams ==
    ASSUME TypeOK, StreamInv, HandleStdin
    PROVE  StreamInv'
<1>0. /\ inOff \in Nat /\ InputLen \in Nat /\ ChunkSize \in Nat \ {0}
      /\ SizeMod \in Nat /\ InputLen < SizeMod
  BY ConfigAssumption DEF TypeOK
<1>1. pipe \in [{"in"} \cup Streams -> Nat]
  BY DEF TypeOK
<1>2. rpc = "loop" /\ rpc' \in {"loop", "failure"} /\ UNCHANGED <<captured, produced>>
  BY DEF HandleStdin, FailWith
<1>3. "in1" \in fds
  BY DEF HandleStdin, Pending, FdOf
<1>4. \A s \in Streams : pipe'[s] = pipe[s]
  <2>1. pipe' = pipe \/ pipe' = [pipe EXCEPT !["in"] = @ + 1]
    BY DEF HandleStdin
  <2> QED BY <1>1, <2>1 DEF Streams
<1>5. fds' \subseteq fds
  BY DEF HandleStdin
<1>6. InputOffsetSane'
  <2>1. CASE "in1" \notin fds' \/ InputLen = 0
    BY <2>1 DEF InputOffsetSane
  <2>2. CASE "in1" \in fds' /\ InputLen # 0
    <3>1. \/ inOff' = inOff
          \/ inOff' = (inOff + StdinChunk) % SizeMod /\ inOff' # InputLen
      BY <2>2 DEF HandleStdin
    <3>2. inOff < InputLen
      BY <1>3, <2>2 DEF StreamInv, InputOffsetSane
    <3>3. StdinChunk \in Nat /\ inOff + StdinChunk <= InputLen
      BY <1>0, <3>2 DEF StdinChunk
    <3>4. (inOff + StdinChunk) % SizeMod = inOff + StdinChunk
      BY <1>0, <3>3
    <3>5. inOff' < InputLen
      BY <1>0, <3>1, <3>2, <3>3, <3>4
    <3> QED BY <3>5 DEF InputOffsetSane
  <2> QED BY <2>1, <2>2
<1>7. OutputConserved'
  BY <1>2, <1>4, <1>5 DEF StreamInv, OutputConserved
<1> QED BY <1>2, <1>6, <1>7 DEF StreamInv

\* A chunk read moves from the pipe to the output of the same stream.
LEMMA ReadStreams ==
    ASSUME TypeOK, StreamInv, NEW s \in Streams, HandleStream(s)
    PROVE  StreamInv'
<1>0. /\ pipe \in [{"in"} \cup Streams -> Nat]
      /\ produced \in [Streams -> Nat] /\ captured \in [Streams -> Nat]
  BY DEF TypeOK
<1>1. rpc = "loop" /\ rpc' \in {"loop", "failure"} /\ UNCHANGED <<inOff, produced>>
  BY DEF HandleStream, FailWith
<1>2. fds' \subseteq fds
  BY DEF HandleStream
<1>3. \/ pipe' = pipe /\ captured' = captured
      \/ pipe[s] > 0 /\ ReadChunk(s)
  BY DEF HandleStream
<1>4. \A t \in Streams : captured'[t] + pipe'[t] = captured[t] + pipe[t]
  <2>1. CASE pipe[s] > 0 /\ ReadChunk(s)
    <3>1. pipe' = [pipe EXCEPT ![s] = pipe[s] - 1]
          /\ captured' = [captured EXCEPT ![s] = captured[s] + 1]
      BY <2>1 DEF ReadChunk
    <3>2. \A t \in Streams : pipe[t] \in Nat /\ captured[t] \in Nat
      BY <1>0
    <3>3. pipe'[s] = pipe[s] - 1 /\ captured'[s] = captured[s] + 1
      BY <1>0, <3>1
    <3>4. \A t \in Streams \ {s} : pipe'[t] = pipe[t] /\ captured'[t] = captured[t]
      BY <1>0, <3>1
    <3> QED BY <3>2, <3>3, <3>4
  <2> QED BY <1>3, <2>1
<1>5. OutputConserved'
  BY <1>1, <1>2, <1>4 DEF StreamInv, OutputConserved
<1>6. InputOffsetSane'
  BY <1>1, <1>2 DEF StreamInv, InputOffsetSane
<1> QED BY <1>1, <1>5, <1>6 DEF StreamInv

\* Every other step of the runner closes descriptors or leaves them alone.
LEMMA RunnerStreams ==
    ASSUME TypeOK, StreamInv, RunnerNext
    PROVE  StreamInv'
<1>1. CASE Start
  <2>1. /\ rpc' # "start" /\ rpc = "start"
        /\ UNCHANGED <<inOff, captured, pipe, produced>>
    BY <1>1 DEF Start, Return
  <2>2. InputLen \in Nat
    BY ConfigAssumption
  <2>3. InputOffsetSane' /\ OutputConserved'
    BY <2>1, <2>2 DEF StreamInv, InputOffsetSane, OutputConserved
  <2> QED BY <2>1, <2>3 DEF StreamInv
<1>2. CASE HandleStdin
  BY <1>2, StdinStreams
<1>3. CASE \E s \in Streams : HandleStream(s)
  BY <1>3, ReadStreams
<1>4. CASE \/ ReceiveHeader \/ ReceivePayload \/ ReapAfterSetupFailed \/ KillSupervisor
           \/ KillCgroupBeforeReady \/ RemoveCgroupBeforeReady
  <2>1. /\ rpc' # "start" /\ fds' \subseteq fds
        /\ UNCHANGED <<inOff, captured, pipe, produced>>
    BY <1>4 DEF ReceiveHeader, ReceivePayload, ReapAfterSetupFailed, KillSupervisor,
         KillCgroupBeforeReady, RemoveCgroupBeforeReady, Return
  <2> QED BY <2>1, StreamQuiet
<1>5. CASE \/ Deadline \/ Poll \/ PollFails \/ HandleControl \/ LateSetupFailed
           \/ ReapAfterLateSetupFailed \/ TerminatedReceived \/ ReapAfterTerminated
           \/ Finish
  <2>1. /\ rpc' = rpc \/ rpc' # "start"
        /\ fds' \subseteq fds /\ UNCHANGED <<inOff, captured, pipe, produced>>
    BY <1>5 DEF Deadline, Poll, PollFails, HandleControl, LateSetupFailed,
         ReapAfterLateSetupFailed, TerminatedReceived, ReapAfterTerminated, Finish,
         Return, FailWith
  <2> QED BY <2>1, StreamQuiet
<1>6. CASE FailureStart \/ FailureWait \/ FailureKill \/ FailureEmpty \/ FailureReap
  <2>1. /\ rpc' # "start" /\ fds' \subseteq fds
        /\ UNCHANGED <<inOff, captured, pipe, produced>>
    BY <1>6 DEF FailureStart, FailureWait, FailureKill, FailureEmpty, FailureReap,
         Return
  <2> QED BY <2>1, StreamQuiet
<1> QED BY <1>1, <1>2, <1>3, <1>4, <1>5, <1>6 DEF RunnerNext, RunnerStep

\* The stream invariant holds throughout, for every input length, buffer size and
\* pipe capacity.
LEMMA StreamInductive == Spec => []StreamInv
<1>1. Init => StreamInv
  BY DEF Init, StreamInv, InputOffsetSane, OutputConserved
<1>2. TypeOK /\ StreamInv /\ [Next]_vars => StreamInv'
  <2> SUFFICES ASSUME TypeOK, StreamInv, [Next]_vars PROVE StreamInv'
    OBVIOUS
  <2>1. CASE RunnerNext
    BY <2>1, RunnerStreams
  <2>2. CASE ProgramNext
    BY <2>2, ProgramStreams
  <2>3. CASE \/ SupNext \/ SupCrash \/ ChildANext \/ ChildACrash \/ ChildBNext
             \/ Tick \/ Returned
    BY <2>3, OthersStreams
  <2>4. CASE UNCHANGED vars
    BY <2>4, StreamQuiet DEF vars
  <2> QED BY <2>1, <2>2, <2>3, <2>4 DEF Next
<1> QED BY <1>1, <1>2, TypeCorrect, PTL DEF Spec

\* The unsigned subtraction input.size() - input_offset never wraps, whatever the
\* size of the input, of IO_BUFFER_SIZE and of size_t.
THEOREM InputNeverOverrun == Spec => []InputOffsetSane
<1>1. StreamInv => InputOffsetSane
  BY DEF StreamInv
<1> QED BY <1>1, StreamInductive, PTL

\* While a stream is open, what was captured and what is still in the pipe are
\* together exactly what the program wrote.
THEOREM OutputNeverLostWhileOpen == Spec => []OutputConserved
<1>1. StreamInv => OutputConserved
  BY DEF StreamInv
<1> QED BY <1>1, StreamInductive, PTL
============================================================================
