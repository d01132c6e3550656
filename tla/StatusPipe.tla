---------------------------- MODULE StatusPipe ----------------------------
(***************************************************************************)
(* The status pipe at the level of bytes (src/common/sandbox_protocol.cpp, *)
(* src/sandbox/sandbox.cpp): children A and B write records of different   *)
(* shapes, unframed, to the supervisor's read_status_pipe.  The other      *)
(* modules take a record off the pipe in one step (Supervisor's SupStatus, *)
(* with StageRead); here it arrives in pieces, and writers die between     *)
(* their writes.                                                           *)
(*                                                                         *)
(* A write of at most PIPE_BUF bytes is atomic, so that each write_all is  *)
(* one write; a read returns any part of what is there, and a call that    *)
(* EINTR ends is repeated and changes nothing.  Left out: a read() that    *)
(* fails otherwise, which a pipe gives no cause for, and which the code    *)
(* reports as Error at any place.                                          *)
(***************************************************************************)
EXTENDS Naturals, Sequences, SequencesExt

CONSTANTS
    IntBytes,        \* sizeof(int), and of an enum
    Stages,          \* numbers of SandboxSetupStage that are reported
    ErrorCodes,      \* errno values
    WaitStatuses     \* wait statuses of B

\* No stage has the number of the tag: the enum has fewer than 255 values.  (That the
\* powers of 256 are positive is arithmetic, which the provers lack.)
ASSUME StatusPipeAssumption ==
    /\ IntBytes \in Nat \ {0} /\ Stages \subseteq 0 .. 254
    /\ ErrorCodes \subseteq Nat /\ WaitStatuses \subseteq Nat
    /\ \A i \in 1 .. IntBytes : 256^(i - 1) > 0

VARIABLES
    apc, bpc,        \* A: start, waiting, writing, dead; B: none, setup, writing,
                     \* running, dead
    calls,           \* the writes A and B have still to make
    wait,            \* wait status of B
    pipe,            \* bytes in the pipe
    phase, buffer,   \* where read_status_pipe is; the bytes it has
    results,         \* what its calls have returned
    sent             \* ghost: the writes made

writers == <<apc, bpc, calls, wait, sent>>
reader  == <<phase, buffer, results>>
vars    == <<apc, bpc, calls, wait, pipe, phase, buffer, results, sent>>

----------------------------------------------------------------------------
\* Records

LittleEndian(n) == [i \in 1 .. IntBytes |-> (n \div 256^(i - 1)) % 256]

\* Mutant of Tag: the tag is a small number.
SmallTag == 1

\* SandboxWaitStatusPayload::TAG
Tag == 255

\* SandboxMessageHeader{SetupFailed, sizeof(payload)} and SandboxSetupFailedPayload
FailedHeader == LittleEndian(1) \o LittleEndian(2 * IntBytes)
FailedPayload(stage, error) == LittleEndian(stage) \o LittleEndian(error)

\* failSetup() is send_message(): a header and a payload.
FailSetup(stage, error) == <<FailedHeader, FailedPayload(stage, error)>>
\* report_failure() of execute() is the payload alone.
ReportFailure(stage, error) == <<FailedPayload(stage, error)>>
\* write_wait_status()
WriteWaitStatus(status) == <<<<Tag>>, LittleEndian(status)>>

----------------------------------------------------------------------------
\* The children

Init ==
    /\ apc = "start" /\ bpc = "none" /\ calls = [p \in {"A", "B"} |-> <<>>] /\ wait = 0
    /\ pipe = <<>> /\ phase = "first" /\ buffer = <<>> /\ results = <<>> /\ sent = <<>>

\* A's own setup fails, or it forks B.
ASetup ==
    /\ apc = "start"
    /\ \/ /\ apc' = "writing" /\ UNCHANGED bpc
          /\ \E s \in Stages, e \in ErrorCodes : calls' = [calls EXCEPT !["A"] = FailSetup(s, e)]
       \/ apc' = "waiting" /\ bpc' = "setup" /\ UNCHANGED calls
    /\ UNCHANGED <<wait, pipe, reader, sent>>

\* B's setup fails in finalizeExecutionEnvironment() or in execute(), or it becomes
\* the program, and exec closes its end of the pipe.
BSetup ==
    /\ bpc = "setup"
    /\ \/ bpc' = "running" /\ UNCHANGED calls
       \/ /\ bpc' = "writing"
          /\ \E s \in Stages, e \in ErrorCodes :
               \E report \in {FailSetup(s, e), ReportFailure(s, e)} :
                 calls' = [calls EXCEPT !["B"] = report]
    /\ UNCHANGED <<apc, wait, pipe, reader, sent>>

\* B ends: after its report, with the program, or killed between two writes.
BEnds ==
    /\ bpc \in {"setup", "writing", "running"} /\ bpc' = "dead"
    /\ wait' \in WaitStatuses /\ calls' = [calls EXCEPT !["B"] = <<>>]
    /\ UNCHANGED <<apc, pipe, reader, sent>>

\* waitpid(B) returns, and A forwards the status.
AForwards ==
    /\ apc = "waiting" /\ bpc = "dead" /\ apc' = "writing"
    /\ calls' = [calls EXCEPT !["A"] = WriteWaitStatus(wait)]
    /\ UNCHANGED <<bpc, wait, pipe, reader, sent>>

\* A closes the pipe and exits, or is killed between two writes.
AEnds ==
    /\ apc # "dead" /\ apc' = "dead" /\ calls' = [calls EXCEPT !["A"] = <<>>]
    /\ UNCHANGED <<bpc, wait, pipe, reader, sent>>

\* One write_all().  Once the reader has closed the pipe it fails with EPIPE (SIGPIPE
\* is ignored since before the fork), and send_message gives up.
Write(p) ==
    /\ calls[p] # <<>>
    /\ IF phase = "closed"
       THEN calls' = [calls EXCEPT ![p] = <<>>] /\ UNCHANGED <<pipe, sent>>
       ELSE /\ calls' = [calls EXCEPT ![p] = Tail(@)]
            /\ pipe' = pipe \o Head(calls[p]) /\ sent' = Append(sent, Head(calls[p]))
    /\ UNCHANGED <<apc, bpc, wait, reader>>

WriterOpen == apc # "dead" \/ bpc \in {"setup", "writing"}

----------------------------------------------------------------------------
\* The supervisor: read_status_pipe() until it returns anything but WaitStatus

Result(kind, bytes) == Append(results, [kind |-> kind, bytes |-> bytes])

\* The first byte tells what the record is.
ReadFirst ==
    /\ phase = "first" /\ pipe # <<>> /\ pipe' = Tail(pipe)
    /\ IF Head(pipe) = Tag THEN phase' = "status" /\ buffer' = <<>>
       ELSE phase' = "failure" /\ buffer' = <<Head(pipe)>>
    /\ UNCHANGED <<writers, results>>

\* Mutant of Wanted: the first byte of a failure is not counted as read.
WantedAgain == (IF phase = "status" THEN IntBytes ELSE 2 * IntBytes + 1) - Len(buffer)

\* size - total_read
Wanted == (IF phase = "status" THEN IntBytes ELSE 2 * IntBytes) - Len(buffer)

\* Mutant of ReadMore: a read that returns less than was asked for is an error.
ReadMoreAtOnce ==
    /\ phase \in {"status", "failure"} /\ pipe # <<>>
    /\ \E n \in 1 .. (IF Len(pipe) < Wanted THEN Len(pipe) ELSE Wanted) :
         LET got == buffer \o SubSeq(pipe, 1, n)
         IN  /\ pipe' = SubSeq(pipe, n + 1, Len(pipe)) /\ buffer' = <<>>
             /\ IF n < Wanted
                THEN phase' = "closed" /\ results' = Result("Error", <<>>)
                ELSE /\ results' = Result(IF phase = "status" THEN "WaitStatus" ELSE "Payload", got)
                     /\ phase' = IF phase = "status" THEN "first" ELSE "closed"
    /\ UNCHANGED writers

\* read_all() of the status, or the loop over the rest of the failure.
ReadMore ==
    /\ phase \in {"status", "failure"} /\ pipe # <<>>
    /\ \E n \in 1 .. (IF Len(pipe) < Wanted THEN Len(pipe) ELSE Wanted) :
         LET got == buffer \o SubSeq(pipe, 1, n)
         IN  /\ pipe' = SubSeq(pipe, n + 1, Len(pipe))
             /\ IF n < Wanted THEN buffer' = got /\ UNCHANGED <<phase, results>>
                ELSE /\ buffer' = <<>>
                     /\ results' = Result(IF phase = "status" THEN "WaitStatus" ELSE "Payload", got)
                     /\ phase' = IF phase = "status" THEN "first" ELSE "closed"
    /\ UNCHANGED writers

\* Mutant of ReadEof: the loops over a record go on when read() returns 0.
ReadEofFirst ==
    /\ phase = "first" /\ pipe = <<>> /\ ~WriterOpen
    /\ phase' = "closed" /\ buffer' = <<>> /\ results' = Result("Eof", <<>>)
    /\ UNCHANGED <<writers, pipe>>

\* read() returns 0: Eof between records, Error inside one.
ReadEof ==
    /\ phase # "closed" /\ pipe = <<>> /\ ~WriterOpen
    /\ phase' = "closed" /\ buffer' = <<>>
    /\ results' = Result(IF phase = "first" THEN "Eof" ELSE "Error", <<>>)
    /\ UNCHANGED <<writers, pipe>>

----------------------------------------------------------------------------

Writing == Write("A") \/ Write("B") \/ AForwards
Reading == ReadFirst \/ ReadMore \/ ReadEof
Ended   == apc = "dead" /\ bpc \in {"none", "dead"} /\ phase = "closed" /\ UNCHANGED vars

Next == ASetup \/ BSetup \/ BEnds \/ AEnds \/ Writing \/ Reading \/ Ended

Spec == Init /\ [][Next]_vars

\* The children and the supervisor run; the program need not end.
FairSpec == Spec /\ WF_vars(Reading) /\ WF_vars(Writing) /\ WF_vars(apc = "writing" /\ AEnds)

----------------------------------------------------------------------------
\* Properties

Bytes == 0 .. 255
Kinds == {"Payload", "WaitStatus", "Eof", "Error"}

\* The types of the state; a reader never holds more of a record than it has bytes.
TypeOK ==
    /\ apc \in {"start", "waiting", "writing", "dead"}
    /\ bpc \in {"none", "setup", "writing", "running", "dead"}
    /\ calls \in [{"A", "B"} -> Seq(Seq(Bytes))] /\ wait \in WaitStatuses \cup {0}
    /\ pipe \in Seq(Bytes) /\ buffer \in Seq(Bytes) /\ Len(buffer) < 2 * IntBytes
    /\ phase \in {"first", "status", "failure", "closed"}
    /\ results \in Seq([kind : Kinds, bytes : Seq(Bytes)]) /\ sent \in Seq(Seq(Bytes))

\* What read_status_pipe returns is what some child wrote in one piece, never parts of
\* two records, although records of four shapes come unframed and a writer may die
\* between its writes: a wait status is B's, and a failure is the first thing written.  If
\* that was a report_failure() of execute(), its stage and error are what is returned; of
\* a failSetup() the first thing is the header, see StageIdentified.
WholeRecords ==
    \A i \in DOMAIN results :
        /\ results[i].kind = "WaitStatus" => bpc = "dead" /\ results[i].bytes = LittleEndian(wait)
        /\ results[i].kind = "Payload" =>
             /\ sent # <<>> /\ results[i].bytes = sent[1]
             /\ sent[1] # FailedHeader =>
                  \E s \in Stages, e \in ErrorCodes : results[i].bytes = FailedPayload(s, e)

\* What README.md says of sandbox setup failures, that they "identify the stage and
\* underlying error code": what is returned as a failure is the payload with stage and
\* error code that a child wrote, not the header that failSetup() sends before it.
StageIdentified ==
    \A i \in DOMAIN results :
        results[i].kind = "Payload" => results[i].bytes \in ToSet(sent) \ {FailedHeader}

\* A setup failure that reached the pipe is what the first call returns: the exit
\* status of the B that failed, which A forwards after it, does not hide it.
FailureComesFirst ==
    results # <<>> /\ sent # <<>> /\ sent[1] # <<Tag>> => results[1].kind = "Payload"

\* Half a record is reported only if A died between the tag and the status (where read()
\* itself does not fail).
ErrorMeansTorn ==
    (\E i \in DOMAIN results : results[i].kind = "Error")
        => apc = "dead" /\ sent[Len(sent)] = <<Tag>>

\* Once B is dead or A has given up, the supervisor is not left blocked in read().
ReaderReturns ==
    (bpc = "dead" \/ (apc = "writing" /\ bpc = "none")) ~> (phase = "closed")

============================================================================
