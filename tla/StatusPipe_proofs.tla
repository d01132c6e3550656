------------------------- MODULE StatusPipe_proofs -------------------------
(***************************************************************************)
(* Theorems about the framing of the status pipe, for every size of an     *)
(* int, every wait status and every error code.                            *)
(***************************************************************************)
EXTENDS StatusPipe, Integers, TLAPS

----------------------------------------------------------------------------
\* Sequences

\* The two ways of concatenating three sequences.
Regrouped(p, q, r) == (p \o q) \o r = p \o (q \o r)

\* Concatenation is associative.
LEMMA Regroup ==
    ASSUME NEW S, NEW p \in Seq(S), NEW q \in Seq(S), NEW r \in Seq(S)
    PROVE  Regrouped(p, q, r)
  BY DEF Regrouped

\* Taking the first element to a buffer moves it.
LEMMA HeadMoves ==
    ASSUME NEW S, NEW p \in Seq(S), p # <<>>
    PROVE  <<Head(p)>> \o Tail(p) = p /\ Head(p) \in S /\ Tail(p) \in Seq(S)
OBVIOUS

\* A buffer b takes the first n elements of p.
Moves(S, b, p, n) ==
    /\ SubSeq(p, 1, n) \in Seq(S) /\ Len(SubSeq(p, 1, n)) = n
    /\ SubSeq(p, n + 1, Len(p)) \in Seq(S)
    /\ Len(SubSeq(p, n + 1, Len(p))) = Len(p) - n
    /\ (b \o SubSeq(p, 1, n)) \o SubSeq(p, n + 1, Len(p)) = b \o p

\* Reading n elements into a buffer neither loses nor reorders any.
LEMMA ReadMoves ==
    ASSUME NEW S, NEW b \in Seq(S), NEW p \in Seq(S), NEW n \in 1 .. Len(p)
    PROVE  Moves(S, b, p, n)
<1>1. SubSeq(p, 1, n) \in Seq(S) /\ Len(SubSeq(p, 1, n)) = n
  OBVIOUS
<1>2. SubSeq(p, n + 1, Len(p)) \in Seq(S) /\ Len(SubSeq(p, n + 1, Len(p))) = Len(p) - n
  OBVIOUS
<1>3. SubSeq(p, 1, n) \o SubSeq(p, n + 1, Len(p)) = p
  OBVIOUS
<1>4. ASSUME NEW x \in Seq(S), NEW y \in Seq(S), x \o y = p
      PROVE  (b \o x) \o y = b \o p
  <2>1. Regrouped(b, x, y)
    BY Regroup, Zenon
  <2>2. (b \o x) \o y = b \o (x \o y)
    BY <2>1, Zenon DEF Regrouped
  <2> QED BY <1>4, <2>2, Zenon
<1> QED BY <1>1, <1>2, <1>3, <1>4 DEF Moves

\* Concatenation adds the lengths.
LEMMA ConcatLength ==
    ASSUME NEW S, NEW p \in Seq(S), NEW q \in Seq(S)
    PROVE  /\ p \o q \in Seq(S) /\ Len(p) \in Nat /\ Len(q) \in Nat
           /\ Len(p \o q) = Len(p) + Len(q)
OBVIOUS

\* Two equal streams begin with the same record.
LEMMA SamePrefix ==
    ASSUME NEW S, NEW p \in Seq(S), NEW q \in Seq(S), NEW r \in Seq(S), NEW t \in Seq(S),
           p \o r = q \o t, Len(p) = Len(q)
    PROVE  p = q /\ r = t
<1>1. ASSUME NEW i \in 1 .. Len(p) PROVE p[i] = q[i]
  <2>1. (p \o r)[i] = p[i] /\ (q \o t)[i] = q[i]
    OBVIOUS
  <2> QED BY <2>1
<1>2. p = q
  <2>1. p = [i \in 1 .. Len(p) |-> p[i]] /\ q = [i \in 1 .. Len(q) |-> q[i]]
    OBVIOUS
  <2> QED BY <1>1, <2>1
<1>3. Len(r) = Len(t)
  <2>1. Len(p \o r) = Len(p) + Len(r) /\ Len(p) \in Nat /\ Len(r) \in Nat
    BY ConcatLength
  <2>2. Len(q \o t) = Len(q) + Len(t) /\ Len(t) \in Nat
    BY ConcatLength
  <2> QED BY <2>1, <2>2
<1>4. ASSUME NEW i \in 1 .. Len(r) PROVE r[i] = t[i]
  <2>1. (p \o r)[Len(p) + i] = r[i] /\ (q \o t)[Len(q) + i] = t[i]
    BY <1>3
  <2> QED BY <2>1
<1>5. r = [i \in 1 .. Len(r) |-> r[i]] /\ t = [i \in 1 .. Len(t) |-> t[i]]
  OBVIOUS
<1> QED BY <1>2, <1>3, <1>4, <1>5

----------------------------------------------------------------------------
\* Records

\* An int is IntBytes bytes.
LEMMA IntegerBytes ==
    ASSUME NEW n \in Nat
    PROVE  LittleEndian(n) \in Seq(Bytes) /\ Len(LittleEndian(n)) = IntBytes
<1>1. ASSUME NEW i \in 1 .. IntBytes PROVE (n \div 256^(i - 1)) % 256 \in Bytes
  <2>1. i - 1 \in Nat
    BY <1>1, StatusPipeAssumption
  <2>2. 256^(i - 1) \in Int /\ 256^(i - 1) > 0
    BY <2>1, StatusPipeAssumption
  <2> DEFINE d == 256^(i - 1)
  <2> HIDE DEF d
  <2>3. d \in Nat \ {0}
    BY <2>2 DEF d
  <2>4. (n \div d) % 256 \in Bytes
    BY <2>3 DEF Bytes
  <2> QED BY <2>4 DEF d
<1>2. LittleEndian(n) \in [1 .. IntBytes -> Bytes]
  BY <1>1 DEF LittleEndian
<1> HIDE DEF LittleEndian
<1> QED BY <1>2, StatusPipeAssumption

\* The first byte of an int is the lowest.
LEMMA FirstByte ==
    ASSUME NEW n \in 0 .. 254
    PROVE  LittleEndian(n)[1] = n
<1>1. 1 \in 1 .. IntBytes
  BY StatusPipeAssumption
<1>2. LittleEndian(n)[1] = (n \div 256^(1 - 1)) % 256
  BY <1>1 DEF LittleEndian
<1>3. 256^(1 - 1) = 1
  OBVIOUS
<1>4. (n \div 1) % 256 = n
  OBVIOUS
<1> QED BY <1>2, <1>3, <1>4

\* What a failed setup writes.
Failure(w) == \/ w = FailedHeader
              \/ \E s \in Stages, e \in ErrorCodes : w = FailedPayload(s, e)

\* Headers and payloads have the size that the reader reads, and neither begins with
\* the tag.
LEMMA FailureBytes ==
    ASSUME NEW w, Failure(w)
    PROVE  w \in Seq(Bytes) /\ Len(w) = 2 * IntBytes /\ w[1] # Tag /\ w # <<Tag>>
<1>1. ASSUME NEW m \in 0 .. 254, NEW n \in Nat, w = LittleEndian(m) \o LittleEndian(n)
      PROVE  w \in Seq(Bytes) /\ Len(w) = 2 * IntBytes /\ w[1] # Tag /\ w # <<Tag>>
  <2> DEFINE a == LittleEndian(m)
             b == LittleEndian(n)
  <2>1. a \in Seq(Bytes) /\ Len(a) = IntBytes
    <3>1. m \in Nat
      OBVIOUS
    <3> QED BY <3>1, IntegerBytes
  <2>a. a[1] = m
    BY FirstByte
  <2>b. b \in Seq(Bytes) /\ Len(b) = IntBytes
    BY IntegerBytes
  <2>2. w = a \o b
    BY <1>1
  <2> HIDE DEF a, b
  <2>3. IntBytes \in Nat /\ IntBytes > 0
    BY StatusPipeAssumption
  <2>4. w \in Seq(Bytes) /\ Len(w) = 2 * IntBytes
    <3>1. w \in Seq(Bytes) /\ Len(w) = Len(a) + Len(b)
      BY <2>1, <2>b, <2>2, ConcatLength, Zenon
    <3> QED BY <2>1, <2>b, <2>3, <3>1
  <2>5. w[1] = m
    BY <2>1, <2>a, <2>b, <2>2, <2>3
  <2>6. w # <<Tag>>
    BY <2>3, <2>4
  <2> QED BY <2>4, <2>5, <2>6 DEF Tag
<1>2. CASE w = FailedHeader
  <2>1. w = LittleEndian(1) \o LittleEndian(2 * IntBytes) /\ 2 * IntBytes \in Nat
    BY <1>2, StatusPipeAssumption DEF FailedHeader
  <2>2. 1 \in 0 .. 254
    OBVIOUS
  <2> QED BY <1>1, <2>1, <2>2, Zenon
<1>3. CASE \E s \in Stages, e \in ErrorCodes : w = FailedPayload(s, e)
  <2>1. PICK s \in Stages, e \in ErrorCodes : w = FailedPayload(s, e)
    BY <1>3
  <2>2. s \in 0 .. 254 /\ e \in Nat
    BY StatusPipeAssumption
  <2> QED BY <1>1, <2>1, <2>2 DEF FailedPayload
<1> QED BY <1>2, <1>3 DEF Failure

----------------------------------------------------------------------------
\* The inductive invariant

\* The writers: B's report comes before its end, A's forwarded status after it, and an A
\* that reports a failure of its own never forks.
WriterInv ==
    /\ apc \in {"start", "waiting", "dead"} => calls["A"] = <<>>
    /\ bpc \in {"none", "setup", "running", "dead"} => calls["B"] = <<>>
    /\ apc = "start" => bpc = "none"
    /\ bpc \in {"setup", "writing", "running"} => apc # "writing"
    /\ \A i \in 1 .. Len(calls["B"]) : Failure(calls["B"][i])
    /\ bpc = "none" => \A i \in 1 .. Len(calls["A"]) : Failure(calls["A"][i])
    /\ bpc = "dead" => calls["A"] \in {<<>>, WriteWaitStatus(wait), <<LittleEndian(wait)>>}
    /\ bpc = "dead" /\ calls["A"] = <<LittleEndian(wait)>> =>
         sent # <<>> /\ sent[Len(sent)] = <<Tag>>

\* The reader has nothing before the first write, ...
Nothing == phase = "first" /\ pipe = <<>> /\ buffer = <<>> /\ results = <<>>

\* ... reads a setup failure as the first record, whatever follows it in the pipe, ...
FailureStream ==
    /\ Failure(sent[1]) /\ results = <<>> /\ phase \in {"first", "failure"}
    /\ phase = "first" => buffer = <<>>
    /\ \E rest \in Seq(Bytes) : buffer \o pipe = sent[1] \o rest

\* ... or the wait status that follows the tag, and nothing follows it.
TagOnly ==
    /\ sent = <<<<Tag>>>> /\ results = <<>> /\ buffer = <<>>
    /\ apc = "dead" \/ calls["A"] = <<LittleEndian(wait)>>
    /\ \/ phase = "first" /\ pipe = <<Tag>>
       \/ phase = "status" /\ pipe = <<>>
Status == [kind |-> "WaitStatus", bytes |-> LittleEndian(wait)]
TagAndStatus ==
    /\ calls["A"] = <<>>
    /\ \/ /\ phase = "first" /\ results = <<>> /\ buffer = <<>>
          /\ pipe = <<Tag>> \o LittleEndian(wait)
       \/ /\ phase = "status" /\ results = <<>> /\ Len(buffer) < IntBytes
          /\ buffer \o pipe = LittleEndian(wait)
       \/ phase = "first" /\ results = <<Status>> /\ buffer = <<>> /\ pipe = <<>>
OpenInv ==
    /\ sent = <<>> => Nothing
    /\ sent # <<>> /\ sent[1] # <<Tag>> => FailureStream
    /\ sent # <<>> /\ sent[1] = <<Tag>> =>
         bpc = "dead" /\ apc \in {"writing", "dead"} /\ (TagOnly \/ TagAndStatus)

\* What the calls of read_status_pipe have returned when it has closed the pipe.
ClosedInv ==
    \/ sent = <<>> /\ results = <<[kind |-> "Eof", bytes |-> <<>>]>>
    \/ sent # <<>> /\ Failure(sent[1]) /\ results = <<[kind |-> "Payload", bytes |-> sent[1]]>>
    \/ /\ sent = <<<<Tag>>>> /\ apc = "dead"
       /\ results = <<[kind |-> "Error", bytes |-> <<>>]>>
    \/ /\ sent # <<>> /\ sent[1] = <<Tag>> /\ bpc = "dead"
       /\ results = <<Status, [kind |-> "Eof", bytes |-> <<>>]>>

ReaderInv == IF phase = "closed" THEN ClosedInv ELSE OpenInv

----------------------------------------------------------------------------
\* Types

\* What the children write is made of bytes.
LEMMA CallTypes ==
    /\ \A s \in Stages, e \in ErrorCodes :
         FailSetup(s, e) \in Seq(Seq(Bytes)) /\ ReportFailure(s, e) \in Seq(Seq(Bytes))
    /\ \A n \in Nat : WriteWaitStatus(n) \in Seq(Seq(Bytes))
<1>1. ASSUME NEW s \in Stages, NEW e \in ErrorCodes
      PROVE  FailSetup(s, e) \in Seq(Seq(Bytes)) /\ ReportFailure(s, e) \in Seq(Seq(Bytes))
  <2>1. Failure(FailedHeader) /\ Failure(FailedPayload(s, e))
    BY DEF Failure
  <2>2. FailedHeader \in Seq(Bytes) /\ FailedPayload(s, e) \in Seq(Bytes)
    BY <2>1, FailureBytes
  <2> QED BY <2>2 DEF FailSetup, ReportFailure
<1>2. ASSUME NEW n \in Nat PROVE WriteWaitStatus(n) \in Seq(Seq(Bytes))
  <2>1. LittleEndian(n) \in Seq(Bytes)
    BY IntegerBytes
  <2>2. <<Tag>> \in Seq(Bytes)
    BY DEF Tag, Bytes
  <2> QED BY <2>1, <2>2 DEF WriteWaitStatus
<1> QED BY <1>1, <1>2

\* The wait status of B is a natural number.
LEMMA WaitType ==
    ASSUME TypeOK
    PROVE  wait \in Nat
  BY StatusPipeAssumption DEF TypeOK

\* The children's steps keep the types.
LEMMA WriterTypes ==
    ASSUME TypeOK, ASetup \/ BSetup \/ BEnds \/ AForwards \/ AEnds \/ Write("A") \/ Write("B")
    PROVE  TypeOK'
<1> USE DEF TypeOK
<1>1. CASE ASetup
  <2>1. calls' \in [{"A", "B"} -> Seq(Seq(Bytes))]
    BY <1>1, CallTypes DEF ASetup
  <2> QED BY <1>1, <2>1 DEF ASetup, reader
<1>2. CASE BSetup
  <2>1. calls' \in [{"A", "B"} -> Seq(Seq(Bytes))]
    <3>1. CASE UNCHANGED calls
      BY <3>1
    <3>2. CASE \E s \in Stages, e \in ErrorCodes :
                 \E report \in {FailSetup(s, e), ReportFailure(s, e)} :
                   calls' = [calls EXCEPT !["B"] = report]
      <4>1. PICK s \in Stages, e \in ErrorCodes :
              \E report \in {FailSetup(s, e), ReportFailure(s, e)} :
                calls' = [calls EXCEPT !["B"] = report]
        BY <3>2
      <4>2. FailSetup(s, e) \in Seq(Seq(Bytes)) /\ ReportFailure(s, e) \in Seq(Seq(Bytes))
        BY <4>1, CallTypes
      <4> QED BY <4>1, <4>2
    <3> QED BY <1>2, <3>1, <3>2 DEF BSetup
  <2> QED BY <1>2, <2>1 DEF BSetup, reader
<1>3. CASE BEnds
  <2>1. calls' \in [{"A", "B"} -> Seq(Seq(Bytes))]
    BY <1>3 DEF BEnds
  <2> QED BY <1>3, <2>1 DEF BEnds, reader
<1>4. CASE AForwards
  <2>1. calls' \in [{"A", "B"} -> Seq(Seq(Bytes))]
    <3>1. WriteWaitStatus(wait) \in Seq(Seq(Bytes))
      BY CallTypes, WaitType
    <3> QED BY <1>4, <3>1 DEF AForwards
  <2> QED BY <1>4, <2>1 DEF AForwards, reader
<1>5. CASE AEnds
  <2>1. calls' \in [{"A", "B"} -> Seq(Seq(Bytes))]
    BY <1>5 DEF AEnds
  <2> QED BY <1>5, <2>1 DEF AEnds, reader
<1>6. ASSUME NEW p \in {"A", "B"}, Write(p) PROVE TypeOK'
  <2> DEFINE c == calls[p]
  <2>1. c \in Seq(Seq(Bytes)) /\ c # <<>>
    BY <1>6 DEF Write
  <2> HIDE DEF c
  <2>2. Tail(c) \in Seq(Seq(Bytes)) /\ Head(c) \in Seq(Bytes)
    BY <2>1
  <2>3. /\ calls' = [calls EXCEPT ![p] = <<>>] \/ calls' = [calls EXCEPT ![p] = Tail(c)]
        /\ pipe' = pipe \/ pipe' = pipe \o Head(c)
        /\ sent' = sent \/ sent' = Append(sent, Head(c))
        /\ UNCHANGED <<apc, bpc, wait, phase, buffer, results>>
    BY <1>6 DEF Write, reader, c
  <2>4. calls' \in [{"A", "B"} -> Seq(Seq(Bytes))]
    <3>1. <<>> \in Seq(Seq(Bytes))
      OBVIOUS
    <3> HIDE DEF TypeOK
    <3>2. calls \in [{"A", "B"} -> Seq(Seq(Bytes))]
      BY DEF TypeOK
    <3>3. PICK d \in Seq(Seq(Bytes)) : calls' = [calls EXCEPT ![p] = d]
      BY <2>2, <2>3, <3>1
    <3> QED BY <3>2, <3>3
  <2>5. pipe' \in Seq(Bytes)
    <3>1. pipe \in Seq(Bytes)
      OBVIOUS
    <3> HIDE DEF TypeOK
    <3>2. pipe \o Head(c) \in Seq(Bytes)
      BY <2>2, <3>1, ConcatLength
    <3> QED BY <2>3, <3>1, <3>2
  <2>6. sent' \in Seq(Seq(Bytes))
    <3>1. sent \in Seq(Seq(Bytes))
      OBVIOUS
    <3> HIDE DEF TypeOK
    <3>2. Append(sent, Head(c)) \in Seq(Seq(Bytes))
      BY <2>2, <3>1
    <3> QED BY <2>3, <3>1, <3>2
  <2> QED BY <2>3, <2>4, <2>5, <2>6
<1> QED BY <1>1, <1>2, <1>3, <1>4, <1>5, <1>6

\* What a call returns is added to the results.
LEMMA ResultTypes ==
    ASSUME TypeOK, NEW k \in Kinds, NEW b \in Seq(Bytes)
    PROVE  Result(k, b) \in Seq([kind : Kinds, bytes : Seq(Bytes)])
<1>1. [kind |-> k, bytes |-> b] \in [kind : Kinds, bytes : Seq(Bytes)]
  OBVIOUS
<1> QED BY <1>1 DEF TypeOK, Result

\* One read(): it returns some bytes, and the record is complete or not.
Got(n) == buffer \o SubSeq(pipe, 1, n)
ReadStep(n) ==
    /\ n <= Wanted /\ pipe' = SubSeq(pipe, n + 1, Len(pipe))
    /\ Got(n) \in Seq(Bytes) /\ pipe' \in Seq(Bytes)
    /\ Len(Got(n)) = Len(buffer) + n
    /\ Got(n) \o pipe' = buffer \o pipe
    /\ \/ n < Wanted /\ buffer' = Got(n) /\ UNCHANGED <<phase, results>>
       \/ /\ n = Wanted /\ buffer' = <<>> /\ phase = "status" /\ phase' = "first"
          /\ results' = Result("WaitStatus", Got(n))
       \/ /\ n = Wanted /\ buffer' = <<>> /\ phase = "failure" /\ phase' = "closed"
          /\ results' = Result("Payload", Got(n))

\* A step of ReadMore is such a read().
LEMMA ReadSteps ==
    ASSUME TypeOK, ReadMore
    PROVE  \E n \in 1 .. Len(pipe) : ReadStep(n)
<1>0. /\ buffer \in Seq(Bytes) /\ pipe \in Seq(Bytes) /\ Len(buffer) \in Nat /\ Len(pipe) \in Nat
      /\ Wanted \in Int
  BY StatusPipeAssumption DEF TypeOK, Wanted
<1>1. PICK n \in 1 .. (IF Len(pipe) < Wanted THEN Len(pipe) ELSE Wanted) :
        /\ pipe' = SubSeq(pipe, n + 1, Len(pipe))
        /\ IF n < Wanted THEN buffer' = Got(n) /\ UNCHANGED <<phase, results>>
           ELSE /\ buffer' = <<>>
                /\ results' = Result(IF phase = "status" THEN "WaitStatus" ELSE "Payload", Got(n))
                /\ phase' = IF phase = "status" THEN "first" ELSE "closed"
  BY DEF ReadMore, Got
<1>2. n \in 1 .. Len(pipe) /\ n <= Wanted
  BY <1>0, <1>1
<1>3. /\ SubSeq(pipe, 1, n) \in Seq(Bytes) /\ Len(SubSeq(pipe, 1, n)) = n
      /\ SubSeq(pipe, n + 1, Len(pipe)) \in Seq(Bytes)
      /\ Got(n) \o SubSeq(pipe, n + 1, Len(pipe)) = buffer \o pipe
  <2>1. buffer \in Seq(Bytes) /\ pipe \in Seq(Bytes) /\ n \in 1 .. Len(pipe)
    BY <1>0, <1>2
  <2>2. Moves(Bytes, buffer, pipe, n)
    BY <2>1, ReadMoves, Zenon
  <2> QED BY <2>2, Zenon DEF Moves, Got
<1>4. Got(n) \in Seq(Bytes) /\ Len(Got(n)) = Len(buffer) + n
  <2> DEFINE x == SubSeq(pipe, 1, n)
  <2>1. x \in Seq(Bytes) /\ Len(x) = n
    BY <1>3
  <2> HIDE DEF x
  <2>2. buffer \o x \in Seq(Bytes) /\ Len(buffer \o x) = Len(buffer) + Len(x)
    BY <1>0, <2>1, ConcatLength
  <2> QED BY <2>1, <2>2 DEF Got, x
<1>5. phase \in {"status", "failure"}
  BY DEF ReadMore
<1>6. n < Wanted \/ n = Wanted
  BY <1>0, <1>2
<1>7. CASE n < Wanted
  BY <1>1, <1>2, <1>3, <1>4, <1>7 DEF ReadStep
<1>8. CASE n = Wanted
  <2>1. /\ buffer' = <<>>
        /\ results' = Result(IF phase = "status" THEN "WaitStatus" ELSE "Payload", Got(n))
        /\ phase' = IF phase = "status" THEN "first" ELSE "closed"
    BY <1>0, <1>1, <1>8
  <2> QED BY <1>1, <1>2, <1>3, <1>4, <1>5, <1>8, <2>1 DEF ReadStep
<1> QED BY <1>6, <1>7, <1>8

\* The supervisor's steps keep the types.
LEMMA ReaderTypes ==
    ASSUME TypeOK, ReadFirst \/ ReadMore \/ ReadEof
    PROVE  TypeOK'
<1>1. CASE ReadFirst
  <2>1. Head(pipe) \in Bytes /\ Tail(pipe) \in Seq(Bytes)
    BY <1>1, HeadMoves DEF ReadFirst, TypeOK
  <2>2. buffer' \in {<<>>, <<Head(pipe)>>}
    BY <1>1 DEF ReadFirst
  <2>3. buffer' \in Seq(Bytes) /\ Len(buffer') < 2 * IntBytes
    <3>1. <<>> \in Seq(Bytes) /\ <<Head(pipe)>> \in Seq(Bytes)
      BY <2>1
    <3>2. Len(<<>>) = 0 /\ Len(<<Head(pipe)>>) = 1
      OBVIOUS
    <3>3. 0 < 2 * IntBytes /\ 1 < 2 * IntBytes
      BY StatusPipeAssumption
    <3>4. CASE buffer' = <<>>
      BY <3>1, <3>2, <3>3, <3>4
    <3>5. CASE buffer' = <<Head(pipe)>>
      BY <3>1, <3>2, <3>3, <3>5
    <3> QED BY <2>2, <3>4, <3>5
  <2> QED BY <1>1, <2>1, <2>3 DEF ReadFirst, TypeOK, writers
<1>2. CASE ReadMore
  <2>1. PICK n \in 1 .. Len(pipe) : ReadStep(n)
    BY <1>2, ReadSteps
  <2>2. buffer' \in Seq(Bytes) /\ Len(buffer') < 2 * IntBytes
    <3>1. Len(buffer) \in Nat /\ n \in Nat /\ IntBytes \in Nat /\ IntBytes > 0
      BY StatusPipeAssumption DEF TypeOK
    <3>2. CASE n < Wanted /\ buffer' = Got(n)
      <4>1. Got(n) \in Seq(Bytes) /\ Len(Got(n)) = Len(buffer) + n
        BY <2>1 DEF ReadStep
      <4>2. Len(buffer) + n < 2 * IntBytes
        BY <3>1, <3>2 DEF Wanted
      <4> QED BY <3>2, <4>1, <4>2
    <3>3. CASE buffer' = <<>>
      BY <3>1, <3>3
    <3> QED BY <2>1, <3>2, <3>3 DEF ReadStep
  <2>3. results' \in Seq([kind : Kinds, bytes : Seq(Bytes)])
    <3>1. "WaitStatus" \in Kinds /\ "Payload" \in Kinds
      BY DEF Kinds
    <3>2. CASE results' = results
      BY <3>2 DEF TypeOK
    <3>3. CASE results' = Result("WaitStatus", Got(n)) \/ results' = Result("Payload", Got(n))
      BY <2>1, <3>1, <3>3, ResultTypes DEF ReadStep
    <3> QED BY <2>1, <3>2, <3>3 DEF ReadStep
  <2>4. phase' \in {"first", "status", "failure", "closed"}
    BY <2>1 DEF TypeOK, ReadStep
  <2>5. UNCHANGED <<apc, bpc, calls, wait, sent>>
    BY <1>2 DEF ReadMore, writers
  <2> QED BY <2>1, <2>2, <2>3, <2>4, <2>5 DEF TypeOK, ReadStep
<1>3. CASE ReadEof
  <2>1. "Eof" \in Kinds /\ "Error" \in Kinds /\ <<>> \in Seq(Bytes)
    BY DEF Kinds
  <2>2. results' = Result("Eof", <<>>) \/ results' = Result("Error", <<>>)
    BY <1>3 DEF ReadEof
  <2>3. results' \in Seq([kind : Kinds, bytes : Seq(Bytes)])
    BY <2>1, <2>2, ResultTypes
  <2>4. Len(<<>>) < 2 * IntBytes
    BY StatusPipeAssumption
  <2> QED BY <1>3, <2>1, <2>3, <2>4 DEF ReadEof, TypeOK, writers
<1> QED BY <1>1, <1>2, <1>3

\* The types of the state of the status pipe hold, and the reader never holds more of a
\* record than it has bytes.
THEOREM FramingTypeCorrect == Spec => []TypeOK
<1>1. Init => TypeOK
  <2>1. Init => calls \in [{"A", "B"} -> Seq(Seq(Bytes))]
    BY DEF Init
  <2>2. Len(<<>>) < 2 * IntBytes
    BY StatusPipeAssumption
  <2> QED BY <2>1, <2>2 DEF Init, TypeOK
<1>2. TypeOK /\ [Next]_vars => TypeOK'
  <2> SUFFICES ASSUME TypeOK, [Next]_vars PROVE TypeOK'
    OBVIOUS
  <2>1. CASE ASetup \/ BSetup \/ BEnds \/ AEnds \/ Writing
    BY <2>1, WriterTypes DEF Writing
  <2>2. CASE Reading
    BY <2>2, ReaderTypes DEF Reading
  <2>3. CASE Ended \/ UNCHANGED vars
    BY <2>3 DEF Ended, vars, TypeOK
  <2> QED BY <2>1, <2>2, <2>3 DEF Next
<1> QED BY <1>1, <1>2, PTL DEF Spec

----------------------------------------------------------------------------
\* The writers

\* What is left of a list of failures is a list of failures.
LEMMA FailuresLeft ==
    ASSUME NEW c \in Seq(Seq(Bytes)), c # <<>>, \A i \in 1 .. Len(c) : Failure(c[i])
    PROVE  Failure(Head(c)) /\ \A i \in 1 .. Len(Tail(c)) : Failure(Tail(c)[i])
<1>1. Len(c) \in Nat /\ Len(c) > 0 /\ Head(c) = c[1]
  OBVIOUS
<1>2. Failure(Head(c))
  BY <1>1
<1>3. ASSUME NEW i \in 1 .. Len(Tail(c)) PROVE Failure(Tail(c)[i])
  <2>1. Tail(c)[i] = c[i + 1] /\ i + 1 \in 1 .. Len(c)
    OBVIOUS
  <2> QED BY <2>1
<1> QED BY <1>2, <1>3

\* The reports are failures.
LEMMA ReportsFail ==
    ASSUME NEW s \in Stages, NEW e \in ErrorCodes,
           NEW c \in {FailSetup(s, e), ReportFailure(s, e)}
    PROVE  \A i \in 1 .. Len(c) : Failure(c[i])
<1>1. Failure(FailedHeader) /\ Failure(FailedPayload(s, e))
  BY DEF Failure
<1>2. CASE c = FailSetup(s, e)
  <2>1. c = <<FailedHeader, FailedPayload(s, e)>>
    BY <1>2 DEF FailSetup
  <2> QED BY <1>1, <2>1
<1>3. CASE c = ReportFailure(s, e)
  <2>1. c = <<FailedPayload(s, e)>>
    BY <1>3 DEF ReportFailure
  <2> QED BY <1>1, <2>1
<1> QED BY <1>2, <1>3

\* The three forms of what A has still to forward.
LEMMA ForwardForms ==
    ASSUME NEW w
    PROVE  /\ WriteWaitStatus(w) # <<>> /\ WriteWaitStatus(w) # <<LittleEndian(w)>>
           /\ Head(WriteWaitStatus(w)) = <<Tag>>
           /\ Tail(WriteWaitStatus(w)) = <<LittleEndian(w)>>
           /\ Head(<<LittleEndian(w)>>) = LittleEndian(w)
           /\ Tail(<<LittleEndian(w)>>) = <<>> /\ <<LittleEndian(w)>> # <<>>
<1> DEFINE l == LittleEndian(w)
           k == <<Tag>>
<1> HIDE DEF l, k
<1>1. /\ <<k, l>> # <<>> /\ <<k, l>> # <<l>> /\ Head(<<k, l>>) = k
      /\ Tail(<<k, l>>) = <<l>> /\ Head(<<l>>) = l /\ Tail(<<l>>) = <<>> /\ <<l>> # <<>>
  OBVIOUS
<1> QED BY <1>1 DEF WriteWaitStatus, l, k

\* The steps of the children that write nothing.
LEMMA WritersQuiet ==
    ASSUME TypeOK, WriterInv, ASetup \/ BSetup \/ BEnds \/ AForwards \/ AEnds
    PROVE  WriterInv'
<1>0. calls \in [{"A", "B"} -> Seq(Seq(Bytes))]
  BY DEF TypeOK
<1>1. CASE ASetup
  <2>0. calls["A"] = <<>> /\ calls["B"] = <<>> /\ bpc = "none" /\ UNCHANGED <<wait, sent>>
    BY <1>1 DEF ASetup, WriterInv
  <2>1. CASE apc' = "waiting" /\ bpc' = "setup" /\ UNCHANGED calls
    BY <2>0, <2>1 DEF WriterInv
  <2>2. CASE /\ apc' = "writing" /\ UNCHANGED bpc
             /\ \E s \in Stages, e \in ErrorCodes : calls' = [calls EXCEPT !["A"] = FailSetup(s, e)]
    <3>1. PICK s \in Stages, e \in ErrorCodes : calls' = [calls EXCEPT !["A"] = FailSetup(s, e)]
      BY <2>2
    <3>2. calls'["A"] = FailSetup(s, e) /\ calls'["B"] = <<>>
      BY <1>0, <2>0, <3>1
    <3>3. \A i \in 1 .. Len(calls'["A"]) : Failure(calls'["A"][i])
      BY <3>2, ReportsFail
    <3> QED BY <2>0, <2>2, <3>2, <3>3 DEF WriterInv
  <2> QED BY <1>1, <2>1, <2>2 DEF ASetup
<1>2. CASE BSetup
  <2>0. /\ calls["A"] = <<>> /\ calls["B"] = <<>> /\ bpc = "setup" /\ apc \notin {"start", "writing"}
        /\ UNCHANGED <<apc, wait, sent>>
    BY <1>2 DEF BSetup, WriterInv, TypeOK
  <2>1. CASE bpc' = "running" /\ UNCHANGED calls
    BY <2>0, <2>1 DEF WriterInv
  <2>2. CASE /\ bpc' = "writing"
             /\ \E s \in Stages, e \in ErrorCodes :
                  \E report \in {FailSetup(s, e), ReportFailure(s, e)} :
                    calls' = [calls EXCEPT !["B"] = report]
    <3>1. PICK s \in Stages, e \in ErrorCodes :
                  \E report \in {FailSetup(s, e), ReportFailure(s, e)} :
                    calls' = [calls EXCEPT !["B"] = report]
      BY <2>2
    <3>2. PICK report \in {FailSetup(s, e), ReportFailure(s, e)} :
                    calls' = [calls EXCEPT !["B"] = report]
      BY <3>1
    <3>3. calls'["B"] = report /\ calls'["A"] = <<>>
      BY <1>0, <2>0, <3>2
    <3>4. \A i \in 1 .. Len(calls'["B"]) : Failure(calls'["B"][i])
      BY <3>3, ReportsFail
    <3> QED BY <2>0, <2>2, <3>3, <3>4 DEF WriterInv
  <2> QED BY <1>2, <2>1, <2>2 DEF BSetup
<1>3. CASE BEnds
  <2>0. calls["A"] = <<>> /\ apc \notin {"start", "writing"}
    BY <1>3 DEF BEnds, WriterInv, TypeOK
  <2>1. calls'["A"] = <<>> /\ calls'["B"] = <<>> /\ bpc' = "dead" /\ apc' = apc
    BY <1>0, <1>3, <2>0 DEF BEnds
  <2> QED BY <2>0, <2>1 DEF WriterInv
<1>4. CASE AForwards
  <2>1. /\ calls'["A"] = WriteWaitStatus(wait) /\ calls'["B"] = <<>>
        /\ apc' = "writing" /\ bpc = "dead" /\ UNCHANGED <<bpc, wait, sent>>
    BY <1>0, <1>4 DEF AForwards, WriterInv
  <2> QED BY <2>1, ForwardForms DEF WriterInv
<1>5. CASE AEnds
  <2>1. /\ calls'["A"] = <<>> /\ calls'["B"] = calls["B"]
        /\ apc' = "dead" /\ UNCHANGED <<bpc, wait, sent>>
    BY <1>0, <1>5 DEF AEnds
  <2> QED BY <2>1 DEF WriterInv
<1> QED BY <1>1, <1>2, <1>3, <1>4, <1>5

\* What a write adds to the pipe, and who may make it.
WriteOf(p, w) ==
    /\ calls[p] # <<>> /\ w = Head(calls[p]) /\ w \in Seq(Bytes)
    /\ \/ phase = "closed" /\ calls'[p] = <<>> /\ UNCHANGED <<pipe, sent>>
       \/ /\ phase # "closed" /\ calls'[p] = Tail(calls[p])
          /\ pipe' = pipe \o w /\ sent' = Append(sent, w)
    /\ \A q \in {"A", "B"} \ {p} : calls'[q] = calls[q]
    /\ UNCHANGED <<apc, bpc, wait, phase, buffer, results>>

\* A step of Write is such a write.
LEMMA WriteSteps ==
    ASSUME TypeOK, NEW p \in {"A", "B"}, Write(p)
    PROVE  WriteOf(p, Head(calls[p]))
<1>1. calls \in [{"A", "B"} -> Seq(Seq(Bytes))]
  BY DEF TypeOK
<1>2. calls[p] # <<>> /\ Head(calls[p]) \in Seq(Bytes)
  BY <1>1 DEF Write
<1> QED BY <1>1, <1>2 DEF Write, WriteOf, reader

\* A write of B's keeps WriterInv, ...
LEMMA WritersB ==
    ASSUME TypeOK, WriterInv, Write("B")
    PROVE  WriterInv' /\ Failure(Head(calls["B"])) /\ bpc = "writing"
<1>1. WriteOf("B", Head(calls["B"]))
  BY WriteSteps
<1>2. calls["B"] \in Seq(Seq(Bytes)) /\ calls["B"] # <<>> /\ calls'["A"] = calls["A"]
  BY <1>1 DEF TypeOK, WriteOf
<1>3. bpc = "writing" /\ UNCHANGED <<apc, bpc, wait>>
  BY <1>1, <1>2 DEF WriteOf, WriterInv, TypeOK
<1>4. /\ Failure(Head(calls["B"]))
      /\ \A i \in 1 .. Len(Tail(calls["B"])) : Failure(Tail(calls["B"])[i])
  BY <1>2, FailuresLeft DEF WriterInv
<1>5. calls'["B"] = <<>> \/ calls'["B"] = Tail(calls["B"])
  BY <1>1 DEF WriteOf
<1>6. \A i \in 1 .. Len(calls'["B"]) : Failure(calls'["B"][i])
  <2>1. CASE calls'["B"] = <<>>
    BY <2>1
  <2>2. CASE calls'["B"] = Tail(calls["B"])
    BY <1>4, <2>2, Zenon
  <2> QED BY <1>5, <2>1, <2>2
<1> QED BY <1>2, <1>3, <1>4, <1>6 DEF WriterInv

\* ... and so does one of A's: it is a failure before any fork, or the tag or the wait
\* status of a dead B.
LEMMA WritersA ==
    ASSUME TypeOK, WriterInv, Write("A")
    PROVE  /\ WriterInv' /\ apc = "writing"
           /\ \/ bpc = "none" /\ Failure(Head(calls["A"]))
              \/ /\ bpc = "dead" /\ calls["A"] = WriteWaitStatus(wait)
                 /\ Head(calls["A"]) = <<Tag>> /\ Tail(calls["A"]) = <<LittleEndian(wait)>>
              \/ /\ bpc = "dead" /\ calls["A"] = <<LittleEndian(wait)>>
                 /\ Head(calls["A"]) = LittleEndian(wait) /\ Tail(calls["A"]) = <<>>
                 /\ sent # <<>> /\ sent[Len(sent)] = <<Tag>>
<1>1. WriteOf("A", Head(calls["A"]))
  BY WriteSteps
<1>2. calls["A"] \in Seq(Seq(Bytes)) /\ calls["A"] # <<>> /\ calls'["B"] = calls["B"]
  BY <1>1 DEF TypeOK, WriteOf
<1>3. apc = "writing" /\ bpc \in {"none", "dead"} /\ UNCHANGED <<apc, bpc, wait>>
  BY <1>1, <1>2 DEF WriteOf, WriterInv, TypeOK
<1>4. CASE bpc = "none"
  <2>1. /\ Failure(Head(calls["A"]))
        /\ \A i \in 1 .. Len(Tail(calls["A"])) : Failure(Tail(calls["A"])[i])
    BY <1>2, <1>4, FailuresLeft DEF WriterInv
  <2>2. calls'["A"] = <<>> \/ calls'["A"] = Tail(calls["A"])
    BY <1>1 DEF WriteOf
  <2>3. \A i \in 1 .. Len(calls'["A"]) : Failure(calls'["A"][i])
    <3>1. CASE calls'["A"] = <<>>
      BY <3>1
    <3>2. CASE calls'["A"] = Tail(calls["A"])
      BY <2>1, <3>2, Zenon
    <3> QED BY <2>2, <3>1, <3>2
  <2> QED BY <1>2, <1>3, <1>4, <2>1, <2>3 DEF WriterInv
<1>5. CASE bpc = "dead" /\ calls["A"] = WriteWaitStatus(wait)
  <2>1. Head(calls["A"]) = <<Tag>> /\ Tail(calls["A"]) = <<LittleEndian(wait)>>
    BY <1>5, ForwardForms
  <2>2. calls'["A"] = <<>> \/ (calls'["A"] = <<LittleEndian(wait)>> /\ sent' = Append(sent, <<Tag>>))
    BY <1>1, <2>1 DEF WriteOf
  <2>3. ASSUME sent' = Append(sent, <<Tag>>)
        PROVE  sent' # <<>> /\ sent'[Len(sent')] = <<Tag>>
    <3>1. sent \in Seq(Seq(Bytes)) /\ <<Tag>> \in Seq(Bytes)
      BY DEF TypeOK, Tag, Bytes
    <3> DEFINE k == <<Tag>>
    <3> HIDE DEF k
    <3>2. Append(sent, k) # <<>> /\ Append(sent, k)[Len(Append(sent, k))] = k
      BY <3>1 DEF k
    <3> QED BY <2>3, <3>2 DEF k
  <2> QED BY <1>2, <1>3, <1>5, <2>1, <2>2, <2>3, ForwardForms DEF WriterInv
<1>6. CASE bpc = "dead" /\ calls["A"] = <<LittleEndian(wait)>>
  <2>1. Head(calls["A"]) = LittleEndian(wait) /\ Tail(calls["A"]) = <<>>
    BY <1>6, ForwardForms
  <2>2. calls'["A"] = <<>>
    BY <1>1, <2>1 DEF WriteOf
  <2> QED BY <1>2, <1>3, <1>6, <2>1, <2>2, ForwardForms DEF WriterInv
<1> QED BY <1>2, <1>3, <1>4, <1>5, <1>6 DEF WriterInv

----------------------------------------------------------------------------
\* The reader

\* Appending to a sequence.
LEMMA AppendFacts ==
    ASSUME NEW S, NEW s \in Seq(S), NEW e \in S
    PROVE  /\ Append(s, e) # <<>> /\ (s # <<>> => Append(s, e)[1] = s[1])
           /\ (s = <<>> => Append(s, e) = <<e>>)
<1>1. Append(s, e) # <<>>
  <2> DEFINE a == Append(s, e)
  <2>1. a \in Seq(S) /\ Len(a) = Len(s) + 1 /\ Len(s) \in Nat
    OBVIOUS
  <2> HIDE DEF a
  <2>2. a # <<>>
    BY <2>1
  <2> QED BY <2>2 DEF a
<1>2. ASSUME s # <<>> PROVE Append(s, e)[1] = s[1]
  <2>1. Len(s) \in Nat /\ Len(s) > 0
    BY <1>2
  <2> QED BY <2>1
<1>3. Append(<<>>, e) = <<e>>
  OBVIOUS
<1> QED BY <1>1, <1>2, <1>3

\* Appending to a sequence of one element.
LEMMA AppendSecond ==
    ASSUME NEW S, NEW x \in S, NEW y \in S
    PROVE  Append(<<x>>, y) = <<x, y>>
<1> DEFINE a == Append(<<x>>, y)
           b == <<x, y>>
<1>1. a \in Seq(S) /\ Len(a) = 2 /\ a[1] = x /\ a[2] = y
  OBVIOUS
<1>2. b \in Seq(S) /\ Len(b) = 2 /\ b[1] = x /\ b[2] = y
  OBVIOUS
<1> HIDE DEF a, b
<1>3. a = [i \in 1 .. 2 |-> a[i]] /\ b = [i \in 1 .. 2 |-> b[i]]
  BY <1>1, <1>2
<1>4. \A i \in 1 .. 2 : a[i] = b[i]
  <2>1. \A i \in 1 .. 2 : i = 1 \/ i = 2
    OBVIOUS
  <2> QED BY <1>1, <1>2, <2>1
<1>5. a = b
  BY <1>3, <1>4
<1> QED BY <1>5 DEF a, b

\* The empty sequence is the unit of concatenation.
LEMMA EmptyConcat ==
    ASSUME NEW S, NEW s \in Seq(S)
    PROVE  <<>> \o s = s /\ s \o <<>> = s /\ <<>> \in Seq(S)
OBVIOUS

\* A failure record is written first, ...
LEMMA FailureBegins ==
    ASSUME TypeOK, sent = <<>>, Nothing, NEW w, Failure(w),
           pipe' = pipe \o w, sent' = Append(sent, w), UNCHANGED <<phase, buffer, results>>
    PROVE  FailureStream' /\ sent' # <<>> /\ sent'[1] # <<Tag>>
<1>1. w \in Seq(Bytes) /\ w # <<Tag>>
  BY FailureBytes
<1>2. sent' = <<w>>
  <2>1. sent \in Seq(Seq(Bytes))
    BY DEF TypeOK
  <2> QED BY <1>1, <2>1, AppendFacts
<1>3. sent'[1] = w /\ sent' # <<>>
  BY <1>2
<1>4. buffer' \o pipe' = w \o <<>> /\ <<>> \in Seq(Bytes)
  <2>1. buffer' = <<>> /\ pipe' = <<>> \o w
    BY DEF Nothing
  <2>2. <<>> \o w = w /\ w \o <<>> = w /\ <<>> \in Seq(Bytes)
    BY <1>1, EmptyConcat
  <2> QED BY <2>1, <2>2
<1>5. \E rest \in Seq(Bytes) : buffer' \o pipe' = w \o rest
  BY <1>4
<1> QED BY <1>1, <1>3, <1>5 DEF FailureStream, Nothing

\* ... and whatever is written later comes after it.
LEMMA FailureContinues ==
    ASSUME TypeOK, sent # <<>>, sent[1] # <<Tag>>, FailureStream, NEW w \in Seq(Bytes),
           pipe' = pipe \o w, sent' = Append(sent, w), UNCHANGED <<phase, buffer, results>>
    PROVE  FailureStream' /\ sent' # <<>> /\ sent'[1] # <<Tag>>
<1>1. sent'[1] = sent[1] /\ sent' # <<>>
  <2>1. sent \in Seq(Seq(Bytes))
    BY DEF TypeOK
  <2> QED BY <2>1, AppendFacts
<1>2. PICK rest \in Seq(Bytes) : buffer \o pipe = sent[1] \o rest
  BY DEF FailureStream
<1>3. sent[1] \in Seq(Bytes)
  BY FailureBytes DEF FailureStream
<1>4. buffer' \o pipe' = sent[1] \o (rest \o w)
  <2>1. buffer \in Seq(Bytes) /\ pipe \in Seq(Bytes)
    BY DEF TypeOK
  <2>2. Regrouped(buffer, pipe, w) /\ Regrouped(sent[1], rest, w)
    BY <1>3, <2>1, Regroup, Zenon
  <2> QED BY <1>2, <2>2, Zenon DEF Regrouped
<1>5. rest \o w \in Seq(Bytes)
  BY ConcatLength
<1>6. \E r \in Seq(Bytes) : buffer' \o pipe' = sent'[1] \o r
  BY <1>1, <1>4, <1>5
<1> QED BY <1>1, <1>6 DEF FailureStream

\* The children's steps that write nothing leave the stream as it is.
LEMMA ReaderQuiet ==
    ASSUME TypeOK, WriterInv, ReaderInv, ASetup \/ BSetup \/ BEnds \/ AForwards \/ AEnds
    PROVE  ReaderInv'
<1>1. UNCHANGED <<pipe, phase, buffer, results, sent>> /\ (apc = "dead" => apc' = "dead")
  BY DEF ASetup, BSetup, BEnds, AForwards, AEnds, reader
<1>2. bpc = "dead" => bpc' = "dead" /\ wait' = wait
  BY DEF ASetup, BSetup, BEnds, AForwards, AEnds, WriterInv
<1>3. CASE phase = "closed"
  BY <1>1, <1>2, <1>3 DEF ReaderInv, ClosedInv, Status
<1>4. CASE phase # "closed" /\ ~(sent # <<>> /\ sent[1] = <<Tag>>)
  BY <1>1, <1>4 DEF ReaderInv, OpenInv, Nothing, FailureStream
<1>5. CASE phase # "closed" /\ sent # <<>> /\ sent[1] = <<Tag>>
  <2>1. bpc = "dead" /\ apc \in {"writing", "dead"} /\ (TagOnly \/ TagAndStatus)
    BY <1>5 DEF ReaderInv, OpenInv
  <2>2. AEnds
    BY <2>1 DEF ASetup, BSetup, BEnds, AForwards
  <2>3. calls'["A"] = <<>> /\ apc' = "dead" /\ bpc' = "dead" /\ wait' = wait
    BY <2>1, <2>2 DEF AEnds, TypeOK
  <2>4. TagOnly => TagOnly'
    BY <1>1, <2>3 DEF TagOnly
  <2>5. TagAndStatus => TagAndStatus'
    BY <1>1, <2>3 DEF TagAndStatus, Status
  <2> QED BY <1>1, <1>5, <2>1, <2>3, <2>4, <2>5 DEF ReaderInv, OpenInv
<1> QED BY <1>3, <1>4, <1>5

\* A write of B's.
LEMMA ReaderWriteB ==
    ASSUME TypeOK, WriterInv, ReaderInv, Write("B")
    PROVE  ReaderInv'
<1> DEFINE w == Head(calls["B"])
<1>1. WriteOf("B", w)
  BY WriteSteps
<1>2. Failure(w) /\ bpc = "writing"
  BY WritersB
<1> HIDE DEF w
<1>3. UNCHANGED <<apc, bpc, wait, phase, buffer, results>>
  BY <1>1 DEF WriteOf
<1>4. CASE phase = "closed"
  BY <1>1, <1>3, <1>4 DEF WriteOf, ReaderInv, ClosedInv, Status
<1>5. CASE phase # "closed"
  <2>1. pipe' = pipe \o w /\ sent' = Append(sent, w) /\ w \in Seq(Bytes)
    BY <1>1, <1>5 DEF WriteOf
  <2>2. CASE sent = <<>>
    BY <1>2, <1>3, <1>5, <2>1, <2>2, FailureBegins DEF ReaderInv, OpenInv
  <2>3. CASE sent # <<>> /\ sent[1] # <<Tag>>
    BY <1>3, <1>5, <2>1, <2>3, FailureContinues DEF ReaderInv, OpenInv
  <2> QED BY <1>2, <1>5, <2>2, <2>3 DEF ReaderInv, OpenInv
<1> QED BY <1>4, <1>5

\* A write of A's.
LEMMA ReaderWriteA ==
    ASSUME TypeOK, WriterInv, ReaderInv, Write("A")
    PROVE  ReaderInv'
<1> DEFINE w == Head(calls["A"])
           l == LittleEndian(wait)
           k == <<Tag>>
<1>0. l \in Seq(Bytes) /\ k \in Seq(Bytes) /\ sent \in Seq(Seq(Bytes))
  BY IntegerBytes, WaitType DEF Tag, Bytes, TypeOK
<1>1. WriteOf("A", w)
  BY WriteSteps
<1>2. /\ apc = "writing"
      /\ \/ bpc = "none" /\ Failure(w)
         \/ bpc = "dead" /\ calls["A"] = WriteWaitStatus(wait) /\ w = k /\ Tail(calls["A"]) = <<l>>
         \/ bpc = "dead" /\ calls["A"] = <<l>> /\ w = l /\ Tail(calls["A"]) = <<>> /\ sent # <<>>
  BY WritersA
<1>a. WriteWaitStatus(wait) # <<>> /\ WriteWaitStatus(wait) # <<l>> /\ <<l>> # <<>>
  BY ForwardForms
<1> HIDE DEF w
<1>3. UNCHANGED <<apc, bpc, wait, phase, buffer, results>>
  BY <1>1 DEF WriteOf
<1>4. CASE phase = "closed"
  BY <1>1, <1>3, <1>4 DEF WriteOf, ReaderInv, ClosedInv, Status
<1>5. CASE phase # "closed"
  <2>1. /\ pipe' = pipe \o w /\ sent' = Append(sent, w) /\ w \in Seq(Bytes)
        /\ calls'["A"] = Tail(calls["A"])
    BY <1>1, <1>5 DEF WriteOf
  <2>2. CASE sent # <<>> /\ sent[1] # <<Tag>>
    BY <1>3, <1>5, <2>1, <2>2, FailureContinues DEF ReaderInv, OpenInv
  <2>3. CASE sent = <<>> /\ bpc = "none"
    BY <1>2, <1>3, <1>5, <2>1, <2>3, FailureBegins DEF ReaderInv, OpenInv
  <2>4. CASE sent = <<>> /\ bpc = "dead"
    <3>1. w = k /\ Tail(calls["A"]) = <<l>>
      BY <1>2, <2>4
    <3>2. Nothing
      BY <1>5, <2>4 DEF ReaderInv, OpenInv
    <3>3. sent' = <<k>>
      BY <1>0, <2>1, <2>4, <3>1, AppendFacts
    <3>4. pipe' = k
      BY <1>0, <2>1, <3>1, <3>2, EmptyConcat DEF Nothing
    <3>5. TagOnly'
      BY <1>3, <2>1, <3>1, <3>2, <3>3, <3>4 DEF TagOnly, Nothing
    <3>6. sent' # <<>> /\ sent'[1] = <<Tag>>
      BY <3>3
    <3> QED BY <1>2, <1>3, <1>5, <2>4, <3>5, <3>6 DEF ReaderInv, OpenInv
  <2>5. CASE sent # <<>> /\ sent[1] = <<Tag>>
    <3>1. bpc = "dead" /\ (TagOnly \/ TagAndStatus)
      BY <1>5, <2>5 DEF ReaderInv, OpenInv
    <3>2. calls["A"] # <<>>
      BY <1>1 DEF WriteOf
    <3>3. TagOnly /\ calls["A"] = <<l>>
      BY <1>2, <3>1, <3>2 DEF TagOnly, TagAndStatus
    <3>4. w = l /\ calls'["A"] = <<>>
      <4> HIDE DEF l, k
      <4>1. calls["A"] = <<l>> /\ WriteWaitStatus(wait) # <<l>> /\ bpc = "dead"
        BY <1>a, <3>1, <3>3
      <4>2. w = l /\ Tail(calls["A"]) = <<>>
        BY <1>2, <4>1, Zenon
      <4> QED BY <2>1, <4>2, Zenon
    <3>5. sent' # <<>> /\ sent'[1] = <<Tag>>
      BY <1>0, <2>1, <2>5, <3>4, AppendFacts
    <3>6. /\ buffer' = <<>> /\ results' = <<>>
          /\ \/ phase' = "first" /\ pipe' = k \o l
             \/ phase' = "status" /\ pipe' = l
      BY <1>0, <1>3, <2>1, <3>3, <3>4, EmptyConcat DEF TagOnly
    <3>7. <<>> \o l = l
      BY <1>0, EmptyConcat
    <3>8. Len(<<>>) < IntBytes
      BY StatusPipeAssumption
    <3>9. TagAndStatus'
      BY <1>3, <3>4, <3>6, <3>7, <3>8 DEF TagAndStatus
    <3> QED BY <1>2, <1>3, <1>5, <3>1, <3>5, <3>9 DEF ReaderInv, OpenInv
  <2> QED BY <1>2, <2>2, <2>3, <2>4, <2>5
<1> QED BY <1>4, <1>5

\* The first byte of a record.
LEMMA ReaderReadFirst ==
    ASSUME TypeOK, WriterInv, ReaderInv, ReadFirst
    PROVE  ReaderInv'
<1>1. /\ phase = "first" /\ pipe # <<>> /\ pipe' = Tail(pipe)
      /\ UNCHANGED <<apc, bpc, calls, wait, sent, results>>
      /\ IF Head(pipe) = Tag THEN phase' = "status" /\ buffer' = <<>>
                             ELSE phase' = "failure" /\ buffer' = <<Head(pipe)>>
  BY DEF ReadFirst, writers
<1>2. OpenInv /\ sent # <<>>
  BY <1>1 DEF ReaderInv, OpenInv, Nothing
<1>3. CASE sent[1] # <<Tag>>
  <2>1. FailureStream /\ buffer = <<>>
    BY <1>1, <1>2, <1>3 DEF OpenInv, FailureStream
  <2>2. PICK rest \in Seq(Bytes) : buffer \o pipe = sent[1] \o rest
    BY <2>1 DEF FailureStream
  <2>3. sent[1] \in Seq(Bytes) /\ Len(sent[1]) = 2 * IntBytes /\ sent[1][1] # Tag
    BY <2>1, FailureBytes DEF FailureStream
  <2>4. pipe = sent[1] \o rest
    <3>1. <<>> \o pipe = pipe
      BY EmptyConcat DEF TypeOK
    <3> QED BY <2>1, <2>2, <3>1
  <2>5. Head(pipe) # Tag
    <3> DEFINE f == sent[1]
    <3>1. f \in Seq(Bytes) /\ Len(f) \in Nat /\ Len(f) > 0
      BY <2>3, StatusPipeAssumption
    <3>2. f[1] # Tag /\ pipe = f \o rest
      BY <2>3, <2>4
    <3> HIDE DEF f
    <3>3. (f \o rest)[1] = f[1]
      BY <3>1
    <3>4. Head(pipe) = pipe[1]
      BY <1>1 DEF TypeOK
    <3> QED BY <3>2, <3>3, <3>4
  <2>6. phase' = "failure" /\ buffer' = <<Head(pipe)>>
    BY <1>1, <2>5
  <2>7. buffer' \o pipe' = sent[1] \o rest
    <3>1. <<Head(pipe)>> \o Tail(pipe) = pipe
      BY <1>1, HeadMoves DEF TypeOK
    <3> QED BY <1>1, <2>4, <2>6, <3>1
  <2>8. FailureStream'
    BY <1>1, <2>1, <2>6, <2>7 DEF FailureStream
  <2> QED BY <1>1, <1>2, <1>3, <2>6, <2>8 DEF ReaderInv, OpenInv
<1>4. CASE sent[1] = <<Tag>>
  <2>1. bpc = "dead" /\ apc \in {"writing", "dead"} /\ (TagOnly \/ TagAndStatus)
    BY <1>2, <1>4 DEF OpenInv
  <2>2. LittleEndian(wait) \in Seq(Bytes) /\ Tag \in Bytes
    BY IntegerBytes, WaitType DEF Tag, Bytes
  <2>3. CASE TagOnly
    <3>1. pipe = <<Tag>>
      BY <1>1, <2>3 DEF TagOnly
    <3>2. Head(pipe) = Tag /\ Tail(pipe) = <<>>
      BY <3>1
    <3>3. TagOnly'
      BY <1>1, <2>3, <3>2 DEF TagOnly
    <3> QED BY <1>1, <1>2, <1>4, <2>1, <3>2, <3>3 DEF ReaderInv, OpenInv
  <2>4. CASE TagAndStatus
    <3> DEFINE l == LittleEndian(wait)
    <3>1. pipe = <<Tag>> \o l /\ results = <<>>
      BY <1>1, <2>4 DEF TagAndStatus
    <3>a. l \in Seq(Bytes)
      BY <2>2
    <3> HIDE DEF l
    <3>2. Head(<<Tag>> \o l) = Tag /\ Tail(<<Tag>> \o l) = l
      BY <2>2, <3>a
    <3>3. Head(pipe) = Tag /\ Tail(pipe) = l
      BY <3>1, <3>2
    <3>4. <<>> \o l = l
      BY <3>a, EmptyConcat
    <3>5. Len(<<>>) < IntBytes
      BY StatusPipeAssumption
    <3>6. TagAndStatus'
      BY <1>1, <2>4, <3>1, <3>3, <3>4, <3>5 DEF TagAndStatus, l
    <3> QED BY <1>1, <1>2, <1>4, <2>1, <3>3, <3>6 DEF ReaderInv, OpenInv
  <2> QED BY <2>1, <2>3, <2>4
<1> QED BY <1>3, <1>4

\* The rest of a record.
LEMMA ReaderReadMore ==
    ASSUME TypeOK, WriterInv, ReaderInv, ReadMore
    PROVE  ReaderInv'
<1>1. phase \in {"status", "failure"} /\ UNCHANGED <<apc, bpc, calls, wait, sent>>
  BY DEF ReadMore, writers
<1>2. PICK n \in 1 .. Len(pipe) : ReadStep(n)
  BY ReadSteps
<1>3. /\ Got(n) \in Seq(Bytes) /\ pipe' \in Seq(Bytes) /\ Len(Got(n)) = Len(buffer) + n
      /\ Got(n) \o pipe' = buffer \o pipe
  BY <1>2 DEF ReadStep
<1>4. Len(buffer) \in Nat /\ Len(pipe) \in Nat /\ IntBytes \in Nat /\ n \in Nat /\ n > 0
  BY StatusPipeAssumption DEF TypeOK
<1>5. OpenInv /\ sent # <<>>
  BY <1>1 DEF ReaderInv, OpenInv, Nothing
<1>6. CASE sent[1] # <<Tag>>
  <2>1. FailureStream /\ phase = "failure"
    BY <1>1, <1>5, <1>6 DEF OpenInv, FailureStream
  <2>2. PICK rest \in Seq(Bytes) : buffer \o pipe = sent[1] \o rest
    BY <2>1 DEF FailureStream
  <2>3. CASE n < Wanted
    <3>1. buffer' = Got(n) /\ UNCHANGED <<phase, results>>
      BY <1>2, <1>4, <2>3 DEF ReadStep
    <3>2. buffer' \o pipe' = sent[1] \o rest
      BY <1>3, <2>2, <3>1
    <3>3. FailureStream'
      BY <1>1, <2>1, <3>1, <3>2 DEF FailureStream
    <3> QED BY <1>1, <1>5, <1>6, <2>1, <3>1, <3>3 DEF ReaderInv, OpenInv
  <2>4. CASE n = Wanted
    <3>1. phase' = "closed" /\ results' = Result("Payload", Got(n))
      BY <1>2, <1>4, <2>1, <2>4 DEF ReadStep
    <3>2. Len(Got(n)) = 2 * IntBytes
      BY <1>3, <1>4, <2>1, <2>4 DEF Wanted
    <3>3. sent[1] \in Seq(Bytes) /\ Len(sent[1]) = 2 * IntBytes
      BY <2>1, FailureBytes DEF FailureStream
    <3>4. Got(n) \o pipe' = sent[1] \o rest /\ Len(Got(n)) = Len(sent[1])
      BY <1>3, <2>2, <3>2, <3>3
    <3>5. Got(n) = sent[1]
      BY <1>3, <3>3, <3>4, SamePrefix
    <3>6. results' = <<[kind |-> "Payload", bytes |-> sent[1]]>>
      BY <2>1, <3>1, <3>5 DEF FailureStream, Result
    <3> QED BY <1>1, <1>5, <2>1, <3>1, <3>6 DEF ReaderInv, ClosedInv, FailureStream
  <2> QED BY <1>2, <1>4, <2>3, <2>4 DEF ReadStep
<1>7. CASE sent[1] = <<Tag>>
  <2> DEFINE l == LittleEndian(wait)
  <2>1. bpc = "dead" /\ apc \in {"writing", "dead"} /\ (TagOnly \/ TagAndStatus)
    BY <1>5, <1>7 DEF OpenInv
  <2>2. l \in Seq(Bytes) /\ Len(l) = IntBytes
    BY IntegerBytes, WaitType
  <2>3. Len(pipe) > 0
    BY <1>4
  <2>4. ~TagOnly
    BY <1>1, <2>3 DEF TagOnly
  <2>5. TagAndStatus /\ phase = "status" /\ results = <<>> /\ buffer \o pipe = l
    BY <1>1, <2>1, <2>4 DEF TagAndStatus
  <2>6. CASE n < Wanted
    <3>1. buffer' = Got(n) /\ UNCHANGED <<phase, results>>
      BY <1>2, <1>4, <2>6 DEF ReadStep
    <3>2. buffer' \o pipe' = l
      BY <1>3, <2>5, <3>1
    <3>3. Len(buffer') < IntBytes
      BY <1>3, <1>4, <2>5, <2>6, <3>1 DEF Wanted
    <3>4. TagAndStatus'
      BY <1>1, <2>5, <3>1, <3>2, <3>3 DEF TagAndStatus
    <3> QED BY <1>1, <1>5, <1>7, <2>1, <2>5, <3>1, <3>4 DEF ReaderInv, OpenInv
  <2>7. CASE n = Wanted
    <3>1. phase' = "first" /\ buffer' = <<>> /\ results' = Result("WaitStatus", Got(n))
      BY <1>2, <1>4, <2>5, <2>7 DEF ReadStep
    <3>2. Len(Got(n)) = IntBytes
      BY <1>3, <1>4, <2>5, <2>7 DEF Wanted
    <3>3. l \o <<>> = l /\ <<>> \in Seq(Bytes)
      BY <2>2, EmptyConcat
    <3>4. Got(n) = l /\ pipe' = <<>>
      <4> HIDE DEF l
      <4>1. Got(n) \o pipe' = l \o <<>> /\ Len(Got(n)) = Len(l)
        BY <1>3, <2>2, <2>5, <3>2, <3>3
      <4> QED BY <1>3, <2>2, <3>3, <4>1, SamePrefix
    <3>5. results' = <<[kind |-> "WaitStatus", bytes |-> l]>>
      BY <2>5, <3>1, <3>4 DEF Result
    <3>6. TagAndStatus'
      BY <1>1, <2>5, <3>1, <3>4, <3>5 DEF TagAndStatus, Status
    <3> QED BY <1>1, <1>5, <1>7, <2>1, <3>1, <3>6 DEF ReaderInv, OpenInv
  <2> QED BY <1>2, <1>4, <2>6, <2>7 DEF ReadStep
<1> QED BY <1>6, <1>7

\* End of file.
LEMMA ReaderReadEof ==
    ASSUME TypeOK, WriterInv, ReaderInv, ReadEof
    PROVE  ReaderInv'
<1>1. /\ phase # "closed" /\ pipe = <<>> /\ apc = "dead" /\ phase' = "closed"
      /\ results' = Result(IF phase = "first" THEN "Eof" ELSE "Error", <<>>)
      /\ UNCHANGED <<apc, bpc, calls, wait, sent>>
  BY DEF ReadEof, writers, WriterOpen
<1>2. OpenInv
  BY <1>1 DEF ReaderInv
<1>3. buffer \o pipe = buffer /\ Len(buffer) \in Nat /\ Len(buffer) < 2 * IntBytes /\ IntBytes \in Nat
  BY <1>1, EmptyConcat, StatusPipeAssumption DEF TypeOK
<1>4. CASE sent = <<>>
  <2>1. phase = "first" /\ results = <<>>
    BY <1>2, <1>4 DEF OpenInv, Nothing
  <2>2. results' = <<[kind |-> "Eof", bytes |-> <<>>]>>
    BY <1>1, <2>1 DEF Result
  <2> QED BY <1>1, <1>4, <2>2 DEF ReaderInv, ClosedInv
<1>5. CASE sent # <<>> /\ sent[1] # <<Tag>>
  <2>1. FailureStream
    BY <1>2, <1>5 DEF OpenInv
  <2>2. PICK rest \in Seq(Bytes) : buffer = sent[1] \o rest
    BY <1>3, <2>1 DEF FailureStream
  <2>3. sent[1] \in Seq(Bytes) /\ Len(sent[1]) = 2 * IntBytes
    BY <2>1, FailureBytes DEF FailureStream
  <2>4. Len(buffer) = Len(sent[1]) + Len(rest) /\ Len(rest) \in Nat
    BY <2>2, <2>3, ConcatLength
  <2> QED BY <1>3, <2>3, <2>4
<1>6. CASE sent # <<>> /\ sent[1] = <<Tag>>
  <2>1. bpc = "dead" /\ (TagOnly \/ TagAndStatus)
    BY <1>2, <1>6 DEF OpenInv
  <2>2. CASE TagOnly
    <3>1. phase = "status" /\ results = <<>> /\ sent = <<<<Tag>>>>
      BY <1>1, <2>2 DEF TagOnly
    <3>2. results' = <<[kind |-> "Error", bytes |-> <<>>]>>
      BY <1>1, <3>1 DEF Result
    <3> QED BY <1>1, <3>1, <3>2 DEF ReaderInv, ClosedInv
  <2>3. CASE TagAndStatus
    <3> DEFINE l == LittleEndian(wait)
    <3>1. l \in Seq(Bytes) /\ Len(l) = IntBytes
      BY IntegerBytes, WaitType
    <3>2. <<Tag>> \o l # <<>>
      <4> HIDE DEF l
      <4>1. <<Tag>> \in Seq(Bytes) /\ Len(<<Tag>>) = 1
        BY DEF Tag, Bytes
      <4> DEFINE q == <<Tag>> \o l
      <4>2. q \in Seq(Bytes) /\ Len(q) = 1 + IntBytes
        BY <3>1, <4>1, ConcatLength
      <4> HIDE DEF q
      <4>3. q # <<>>
        BY <1>3, <4>2
      <4> QED BY <4>3 DEF q
    <3>3. ~(Len(buffer) < IntBytes /\ buffer \o pipe = l)
      BY <1>3, <3>1
    <3>4. phase = "first" /\ results = <<Status>>
      BY <1>1, <2>3, <3>2, <3>3 DEF TagAndStatus
    <3>5. results' = <<Status, [kind |-> "Eof", bytes |-> <<>>]>>
      <4> DEFINE e == [kind |-> "Eof", bytes |-> <<>>]
      <4>1. results' = Append(<<Status>>, e)
        BY <1>1, <3>4 DEF Result
      <4> HIDE DEF e
      <4>2. Append(<<Status>>, e) = <<Status, e>>
        <5>1. Status \in {Status, e} /\ e \in {Status, e}
          OBVIOUS
        <5> QED BY <5>1, AppendSecond
      <4> QED BY <4>1, <4>2 DEF e
    <3>6. Status' = Status
      BY <1>1 DEF Status
    <3> QED BY <1>1, <1>6, <2>1, <3>5, <3>6 DEF ReaderInv, ClosedInv
  <2> QED BY <2>1, <2>2, <2>3
<1> QED BY <1>4, <1>5, <1>6

\* The invariant holds in every reachable state.
LEMMA FramingInductive == Spec => [](WriterInv /\ ReaderInv)
<1>1. Init => WriterInv /\ ReaderInv
  <2> SUFFICES ASSUME Init PROVE WriterInv /\ ReaderInv
    OBVIOUS
  <2>1. calls["A"] = <<>> /\ calls["B"] = <<>> /\ apc = "start" /\ bpc = "none"
    BY DEF Init
  <2>2. WriterInv
    BY <2>1 DEF WriterInv
  <2>3. ReaderInv
    BY DEF Init, ReaderInv, OpenInv, Nothing
  <2> QED BY <2>2, <2>3
<1>2. TypeOK /\ WriterInv /\ ReaderInv /\ [Next]_vars => (WriterInv /\ ReaderInv)'
  <2> SUFFICES ASSUME TypeOK, WriterInv, ReaderInv, [Next]_vars
               PROVE  WriterInv' /\ ReaderInv'
    OBVIOUS
  <2>1. CASE ASetup \/ BSetup \/ BEnds \/ AForwards \/ AEnds
    BY <2>1, WritersQuiet, ReaderQuiet
  <2>2. CASE Write("A") \/ Write("B")
    BY <2>2, WritersA, WritersB, ReaderWriteA, ReaderWriteB
  <2>3. CASE Reading
    <3>1. UNCHANGED <<apc, bpc, calls, wait, sent>>
      BY <2>3 DEF Reading, ReadFirst, ReadMore, ReadEof, writers
    <3>2. WriterInv'
      BY <3>1 DEF WriterInv
    <3> QED BY <2>3, <3>2, ReaderReadFirst, ReaderReadMore, ReaderReadEof DEF Reading
  <2>4. CASE Ended \/ UNCHANGED vars
    <3>1. UNCHANGED <<apc, bpc, calls, wait, pipe, phase, buffer, results, sent>>
      BY <2>4 DEF Ended, vars
    <3>2. WriterInv'
      BY <3>1 DEF WriterInv
    <3>3. ReaderInv'
      BY <3>1 DEF ReaderInv, OpenInv, ClosedInv, Nothing, FailureStream, TagOnly, TagAndStatus,
                  Status
    <3> QED BY <3>2, <3>3
  <2> QED BY <2>1, <2>2, <2>3, <2>4 DEF Next, Writing
<1> QED BY <1>1, <1>2, FramingTypeCorrect, PTL DEF Spec

----------------------------------------------------------------------------
\* What read_status_pipe returns

\* What its calls have returned so far, in one formula.
Returned(k, b) == [kind |-> k, bytes |-> b]
ReturnedInv ==
    \/ results = <<>>
    \/ results = <<Returned("Eof", <<>>)>> /\ sent = <<>>
    \/ /\ results = <<Returned("Payload", sent[1])>>
       /\ sent # <<>> /\ Failure(sent[1])
    \/ /\ results = <<Returned("Error", <<>>)>>
       /\ sent = <<<<Tag>>>> /\ apc = "dead"
    \/ /\ \/ results = <<Returned("WaitStatus", LittleEndian(wait))>>
          \/ results = <<Returned("WaitStatus", LittleEndian(wait)), Returned("Eof", <<>>)>>
       /\ sent # <<>> /\ sent[1] = <<Tag>> /\ bpc = "dead"

\* The returned values follow from the invariant.
LEMMA ReturnedForms ==
    ASSUME ReaderInv
    PROVE  ReturnedInv
<1>1. CASE phase = "closed"
  BY <1>1 DEF ReaderInv, ClosedInv, ReturnedInv, Returned, Status
<1>2. CASE phase # "closed"
  BY <1>2 DEF ReaderInv, OpenInv, Nothing, FailureStream, TagOnly, TagAndStatus, ReturnedInv,
              Returned, Status
<1> QED BY <1>1, <1>2

\* Whatever a read() returns and wherever a writer dies, a wait status that the supervisor
\* reads is B's, and a failure is the first write that a child made, whole: the stage and
\* error of a report_failure(), or the header of a failSetup().
THEOREM RecordsAreWhole == Spec => []WholeRecords
<1>1. TypeOK /\ ReaderInv => WholeRecords
  <2> SUFFICES ASSUME TypeOK, ReaderInv, NEW i \in DOMAIN results
               PROVE  /\ results[i].kind = "WaitStatus" =>
                           bpc = "dead" /\ results[i].bytes = LittleEndian(wait)
                      /\ results[i].kind = "Payload" =>
                           /\ sent # <<>> /\ results[i].bytes = sent[1]
                           /\ sent[1] # FailedHeader => \E s \in Stages, e \in ErrorCodes :
                                results[i].bytes = FailedPayload(s, e)
    BY DEF WholeRecords
  <2>1. ReturnedInv
    BY ReturnedForms
  <2>2. \A k, b : Returned(k, b).kind = k /\ Returned(k, b).bytes = b
    BY DEF Returned
  <2>3. CASE results = <<>>
    BY <2>3
  <2>4. CASE results = <<Returned("Eof", <<>>)>> \/ results = <<Returned("Error", <<>>)>>
    <3>1. results[i] = Returned("Eof", <<>>) \/ results[i] = Returned("Error", <<>>)
      BY <2>4
    <3> QED BY <2>2, <3>1
  <2>5. CASE results = <<Returned("Payload", sent[1])>> /\ sent # <<>> /\ Failure(sent[1])
    <3>1. results[i] = Returned("Payload", sent[1])
      BY <2>5
    <3> QED BY <2>2, <2>5, <3>1 DEF Failure
  <2>6. CASE /\ \/ results = <<Returned("WaitStatus", LittleEndian(wait))>>
                \/ results = <<Returned("WaitStatus", LittleEndian(wait)), Returned("Eof", <<>>)>>
             /\ bpc = "dead"
    <3>1. results[i] = Returned("WaitStatus", LittleEndian(wait)) \/ results[i] = Returned("Eof", <<>>)
      BY <2>6
    <3> QED BY <2>2, <2>6, <3>1
  <2> QED BY <2>1, <2>3, <2>4, <2>5, <2>6 DEF ReturnedInv
<1> QED BY <1>1, FramingTypeCorrect, FramingInductive, PTL

\* A setup failure that reached the pipe is what the first call returns, although A forwards
\* the exit status of the B that failed after it.
THEOREM FailureIsFirst == Spec => []FailureComesFirst
<1>1. ReaderInv => FailureComesFirst
  <2> SUFFICES ASSUME ReaderInv, results # <<>>, sent # <<>>, sent[1] # <<Tag>>
               PROVE  results[1].kind = "Payload"
    BY DEF FailureComesFirst
  <2>1. sent # <<<<Tag>>>>
    OBVIOUS
  <2>2. results = <<Returned("Payload", sent[1])>>
    BY <2>1, ReturnedForms DEF ReturnedInv
  <2>3. results[1] = Returned("Payload", sent[1])
    BY <2>2
  <2> QED BY <2>3 DEF Returned
<1> QED BY <1>1, FramingInductive, PTL

\* The supervisor reads half a record only if A died between the tag and the status.
THEOREM ErrorIsTorn == Spec => []ErrorMeansTorn
<1>1. ReaderInv => ErrorMeansTorn
  <2> SUFFICES ASSUME ReaderInv, NEW i \in DOMAIN results, results[i].kind = "Error"
               PROVE  apc = "dead" /\ sent[Len(sent)] = <<Tag>>
    BY DEF ErrorMeansTorn
  <2>1. ReturnedInv
    BY ReturnedForms
  <2>2. \A k, b : Returned(k, b).kind = k
    BY DEF Returned
  <2>3. CASE results = <<>>
    BY <2>3
  <2>4. CASE results = <<Returned("Eof", <<>>)>>
    BY <2>2, <2>4
  <2>5. CASE results = <<Returned("Payload", sent[1])>>
    BY <2>2, <2>5
  <2>6. CASE \/ results = <<Returned("WaitStatus", LittleEndian(wait))>>
             \/ results = <<Returned("WaitStatus", LittleEndian(wait)), Returned("Eof", <<>>)>>
    <3>1. results[i] = Returned("WaitStatus", LittleEndian(wait)) \/ results[i] = Returned("Eof", <<>>)
      BY <2>6
    <3> QED BY <2>2, <3>1
  <2>7. CASE sent = <<<<Tag>>>> /\ apc = "dead"
    BY <2>7
  <2> QED BY <2>1, <2>3, <2>4, <2>5, <2>6, <2>7 DEF ReturnedInv
<1> QED BY <1>1, FramingInductive, PTL

============================================================================
