------------------------- MODULE WorkerPool_proofs -------------------------
(***************************************************************************)
(* What every pool over a JobQueue guarantees, for any number of threads,  *)
(* workers and jobs and any set H of handles.  The modules that extend     *)
(* WorkerPool show that their steps are steps of PoolStepOf(H).            *)
(***************************************************************************)
EXTENDS WorkerPool, SequenceTheorems, FiniteSetTheorems, TLAPS

\* A set of handles: records with a job number whose state can be assigned.
HandleSet(H) ==
    \A h \in H :
        /\ h.job \in Jobs
        /\ \A s \in {"Running", "Cancelled"} :
             /\ [h EXCEPT !.state = s] \in H
             /\ [h EXCEPT !.state = s].job = h.job
             /\ [h EXCEPT !.state = s].state = s

\* What a worker does with the handle it holds, as far as the pool is concerned.
Works(t, H) ==
    /\ pc[t] \in {"taken", "running"}
    /\ \E p \in {"running", "returned"} : pc' = [pc EXCEPT ![t] = p]
    /\ \E h \in H : /\ h.job = held[t].job /\ h.state # "Cancelled"
                   /\ held' = [held EXCEPT ![t] = h]
    /\ UNCHANGED <<queueVars, submitted, collected, worker, batch, upto>>

Admits(H) == \E h \in H : h.job = submitted + 1 /\ NewJob /\ Enqueue(h)

Drains(t, H) == \/ StartDrain(t) \/ TakeNext(t) \/ NothingToRun(t) \/ Works(t, H)
                \/ PublishResult(t) \/ EndOfBatch(t)

PoolStepOf(H) == \/ Admits(H) \/ CancelQueued \/ CollectCompleted
                 \/ \E t \in Drainers : Drains(t, H)
                 \/ UNCHANGED poolVars

----------------------------------------------------------------------------
\* The inductive invariant

\* Nothing has a number that was not given out, and a thread holds a handle, which
\* nobody has cancelled, exactly from tryDequeue() to complete(), for one of its workers.
JobsKnown ==
    /\ \A i \in DOMAIN queue : queue[i].job <= submitted
    /\ \A i \in DOMAIN completed : completed[i].job <= submitted
    /\ \A t \in Drainers : held[t].job <= submitted
    /\ \A j \in Jobs : j > submitted => collected[j] = 0
Holding ==
    \A t \in Drainers : IF pc[t] \in {"idle", "next"} THEN held[t] = NoHandle
                        ELSE /\ held[t] # NoHandle /\ held[t].state # "Cancelled"
                             /\ worker[t] <= WorkerCount[t]

\* Each of the places has a job at most once; the deque has them in order.
QueueAscends == \A i, k \in DOMAIN queue : i < k => queue[i].job < queue[k].job
HeldOnce == \A t, u \in Drainers : held[t] # NoHandle /\ held[t].job = held[u].job => t = u
CompletedOnce == \A i, k \in DOMAIN completed : completed[i].job = completed[k].job => i = k
CollectedOnce == \A j \in Jobs : collected[j] \in {0, 1}

\* No job is in two of the places.
Exclusive ==
    /\ \A i \in DOMAIN queue, t \in Drainers : queue[i].job # held[t].job
    /\ \A i \in DOMAIN queue, k \in DOMAIN completed : queue[i].job # completed[k].job
    /\ \A t \in Drainers, k \in DOMAIN completed : held[t].job # completed[k].job
    /\ \A i \in DOMAIN queue : collected[queue[i].job] = 0
    /\ \A t \in Drainers : held[t] # NoHandle => collected[held[t].job] = 0
    /\ \A k \in DOMAIN completed : collected[completed[k].job] = 0

\* Every job that was admitted is somewhere.
NoneLost ==
    \A j \in Jobs : j <= submitted =>
        \/ \E i \in DOMAIN queue : queue[i].job = j
        \/ \E t \in Drainers : held[t].job = j
        \/ \E k \in DOMAIN completed : completed[k].job = j
        \/ collected[j] = 1

\* A worker has found the deque empty since the batch began, and what came later has
\* higher numbers.
DrainInv ==
    \A t \in Drainers :
        /\ upto[t] <= submitted
        /\ pc[t] # "idle" /\ batch[t] = 0 /\ worker[t] > 1
             => \A i \in DOMAIN queue : queue[i].job > upto[t]

PlaceInv == /\ JobsKnown /\ Holding /\ QueueAscends /\ HeldOnce /\ CompletedOnce
            /\ CollectedOnce /\ Exclusive /\ NoneLost
PoolInv(H) == PoolTypeOK(H) /\ PlaceInv /\ DrainInv

----------------------------------------------------------------------------
\* Lemmas about sequences

\* What pop_front() leaves.
LEMMA TailFacts ==
    ASSUME NEW H, NEW q \in Seq(H), q # <<>>
    PROVE  /\ Tail(q) \in Seq(H) /\ 1 \in DOMAIN q /\ Head(q) = q[1] /\ q[1] \in H
           /\ \A i : i \in DOMAIN Tail(q) <=> i \in Nat /\ i >= 1 /\ i + 1 \in DOMAIN q
           /\ \A i \in DOMAIN Tail(q) : Tail(q)[i] = q[i + 1]
<1>1. Len(q) \in Nat /\ DOMAIN q = 1 .. Len(q) /\ Len(q) # 0
  BY EmptySeq, LenProperties
<1>2. /\ Tail(q) \in Seq(H) /\ Len(Tail(q)) = Len(q) - 1 /\ Head(q) \in H
      /\ \A i \in 1 .. Len(Tail(q)) : Tail(q)[i] = q[i + 1]
  BY HeadTailProperties
<1>3. DOMAIN Tail(q) = 1 .. Len(q) - 1
  BY <1>2, LenProperties
<1>4. Head(q) = q[1]
  OBVIOUS
<1> QED BY <1>1, <1>2, <1>3, <1>4

\* What push_back() adds.
LEMMA AppendFacts ==
    ASSUME NEW H, NEW q \in Seq(H), NEW h \in H
    PROVE  /\ Append(q, h) \in Seq(H)
           /\ Len(q) \in Nat /\ DOMAIN q = 1 .. Len(q)
           /\ DOMAIN Append(q, h) = 1 .. Len(q) + 1
           /\ \A i \in DOMAIN q : Append(q, h)[i] = q[i]
           /\ Append(q, h)[Len(q) + 1] = h
<1>1. Append(q, h) \in Seq(H) /\ Len(Append(q, h)) = Len(q) + 1
  BY AppendProperties
<1>2. Len(q) \in Nat /\ DOMAIN q = 1 .. Len(q)
  BY LenProperties
<1>3. DOMAIN Append(q, h) = 1 .. Len(q) + 1
  BY <1>1, LenProperties
<1> QED BY <1>1, <1>2, <1>3, AppendProperties

\* What erase() leaves.
LEMMA RemoveFacts ==
    ASSUME NEW H, NEW q \in Seq(H), NEW i \in DOMAIN q
    PROVE  /\ RemoveAt(q, i) \in Seq(H) /\ i \in Nat /\ i >= 1
           /\ Len(q) \in Nat /\ DOMAIN q = 1 .. Len(q)
           /\ DOMAIN RemoveAt(q, i) = 1 .. Len(q) - 1
           /\ \A k \in DOMAIN RemoveAt(q, i) :
                RemoveAt(q, i)[k] = IF k < i THEN q[k] ELSE q[k + 1]
<1> DEFINE s == SubSeq(q, 1, i - 1)  t == SubSeq(q, i + 1, Len(q))
<1>1. Len(q) \in Nat /\ DOMAIN q = 1 .. Len(q) /\ \A k \in 1 .. Len(q) : q[k] \in H
  BY LenProperties, ElementOfSeq
<1>2. s \in Seq(H) /\ Len(s) = i - 1 /\ \A k \in 1 .. i - 1 : s[k] = q[k]
  <2>1. \A k \in 1 .. i - 1 : q[k] \in H
    BY <1>1
  <2> QED BY <1>1, <2>1, SubSeqProperties
<1>3. t \in Seq(H) /\ Len(t) = Len(q) - i /\ \A k \in 1 .. Len(q) - i : t[k] = q[k + i]
  <2>1. \A k \in i + 1 .. Len(q) : q[k] \in H
    BY <1>1
  <2>2. t \in Seq(H) /\ Len(t) = IF i + 1 <= Len(q) THEN Len(q) - (i + 1) + 1 ELSE 0
    BY <1>1, <2>1, SubSeqProperties
  <2>3. \A k \in 1 .. Len(q) - (i + 1) + 1 : t[k] = q[i + 1 + k - 1]
    BY <1>1, <2>1, SubSeqProperties
  <2>4. i \in 1 .. Len(q)
    BY <1>1
  <2> HIDE DEF t
  <2>5. Len(t) = Len(q) - i
    BY <1>1, <2>2, <2>4
  <2>6. ASSUME NEW k \in 1 .. Len(q) - i PROVE t[k] = q[k + i]
    <3>1. k \in 1 .. Len(q) - (i + 1) + 1 /\ i + 1 + k - 1 = k + i
      BY <1>1, <2>4
    <3> QED BY <2>3, <3>1
  <2> QED BY <2>2, <2>5, <2>6
<1> HIDE DEF s, t
<1>4. /\ s \o t \in Seq(H) /\ Len(s \o t) = Len(s) + Len(t)
      /\ \A k \in 1 .. Len(s) + Len(t) : (s \o t)[k] = IF k <= Len(s) THEN s[k] ELSE t[k - Len(s)]
  BY <1>2, <1>3, ConcatProperties
<1>5. DOMAIN (s \o t) = 1 .. Len(q) - 1
  <2>1. DOMAIN (s \o t) = 1 .. Len(s \o t)
    BY <1>4, LenProperties
  <2>2. Len(s) + Len(t) = Len(q) - 1
    BY <1>1, <1>2, <1>3
  <2> QED BY <1>4, <2>1, <2>2
<1>6. RemoveAt(q, i) = s \o t
  BY DEF RemoveAt, s, t
<1>7. ASSUME NEW k \in 1 .. Len(q) - 1
      PROVE  (s \o t)[k] = IF k < i THEN q[k] ELSE q[k + 1]
  <2>1. CASE k < i
    BY <1>1, <1>2, <1>3, <1>4, <2>1
  <2>2. CASE ~(k < i)
    <3>1. (s \o t)[k] = t[k - (i - 1)]
      BY <1>1, <1>2, <1>3, <1>4, <2>2
    <3>2. k - (i - 1) \in 1 .. Len(q) - i /\ k - (i - 1) + i = k + 1
      BY <1>1, <2>2
    <3> QED BY <1>3, <3>1, <3>2, <2>2
  <2> QED BY <2>1, <2>2
<1>8. i \in Nat /\ i >= 1
  BY <1>1
<1> QED BY <1>1, <1>4, <1>5, <1>6, <1>7, <1>8

----------------------------------------------------------------------------
\* Types

\* The types of the handles in the three places.
LEMMA HandleTypes ==
    ASSUME NEW H, HandleSet(H), PoolTypeOK(H)
    PROVE  /\ MaxJobs \in Nat /\ Jobs = 1 .. MaxJobs /\ submitted \in 0 .. MaxJobs
           /\ submitted \in Nat /\ \A h \in H : h.job \in Jobs /\ h.job \in Nat \ {0}
           /\ \A i \in DOMAIN queue :
                queue[i] \in H /\ queue[i].job \in Jobs /\ queue[i].job \in Nat \ {0}
           /\ \A i \in DOMAIN completed :
                completed[i] \in H /\ completed[i].job \in Jobs /\ completed[i].job \in Nat \ {0}
           /\ \A t \in Drainers :
                /\ held[t] # NoHandle => held[t] \in H /\ held[t].job \in Jobs
                /\ held[t].job \in Nat /\ (held[t].job = 0 <=> held[t] = NoHandle)
           /\ NoHandle \notin H /\ NoHandle.job = 0
<1>1. MaxJobs \in Nat /\ Jobs = 1 .. MaxJobs /\ submitted \in 0 .. MaxJobs
  BY PoolAssumption DEF Jobs, PoolTypeOK
<1>2. queue \in Seq(H) /\ completed \in Seq(H) /\ held \in [Drainers -> H \cup {NoHandle}]
  BY DEF PoolTypeOK
<1>3. /\ \A i \in DOMAIN queue : queue[i] \in H
      /\ \A i \in DOMAIN completed : completed[i] \in H
  BY <1>2, LenProperties, ElementOfSeq
<1>4. NoHandle.job = 0
  BY DEF NoHandle
<1>5. \A h \in H : h.job \in Jobs /\ h.job \in Nat \ {0}
  <2>1. \A h \in H : h.job \in Jobs
    BY DEF HandleSet
  <2> QED BY <1>1, <2>1
<1>6. NoHandle \notin H
  BY <1>1, <1>4, <1>5
<1> QED BY <1>1, <1>2, <1>3, <1>4, <1>5, <1>6

\* The handle that tryDequeue() takes.
LEMMA Taken ==
    ASSUME NEW H, HandleSet(H), PoolTypeOK(H), NEW t \in Drainers, TakeNext(t)
    PROVE  /\ queue # <<>> /\ 1 \in DOMAIN queue /\ queue[1] \in H
           /\ queue' = Tail(queue) /\ UNCHANGED <<completed, submitted, collected>>
           /\ \E g \in H : /\ g.job = queue[1].job /\ g.state = "Running"
                          /\ held' = [held EXCEPT ![t] = g]
<1>1. PICK h \in ToSet(queue) :
        TryDequeue(h) /\ held' = [held EXCEPT ![t] = [h EXCEPT !.state = "Running"]]
  BY DEF TakeNext
<1>2. queue # <<>> /\ h = Head(queue) /\ queue' = Tail(queue) /\ completed' = completed
  BY <1>1 DEF TryDequeue
<1>3. queue \in Seq(H)
  BY DEF PoolTypeOK
<1>4. h = queue[1] /\ 1 \in DOMAIN queue /\ h \in H
  BY <1>2, <1>3, TailFacts
<1>5. LET g == [h EXCEPT !.state = "Running"] IN g \in H /\ g.job = h.job /\ g.state = "Running"
  BY <1>4 DEF HandleSet
<1>6. UNCHANGED <<submitted, collected>>
  BY DEF TakeNext
<1> QED BY <1>1, <1>2, <1>4, <1>5, <1>6

\* The handle that cancel() moves.
LEMMA CancelFacts ==
    ASSUME NEW H, HandleSet(H), PoolTypeOK(H), CancelQueued
    PROVE  /\ UNCHANGED <<submitted, collected, drainVars>>
           /\ \E i \in DOMAIN queue, g \in H :
                /\ g.job = queue[i].job /\ g.state = "Cancelled"
                /\ queue' = RemoveAt(queue, i) /\ completed' = Append(completed, g)
<1>1. PICK h \in ToSet(queue) : Cancel(h.id)
  BY DEF CancelQueued
<1>2. PICK i \in DOMAIN queue :
        /\ queue' = RemoveAt(queue, i)
        /\ completed' = Append(completed, [queue[i] EXCEPT !.state = "Cancelled"])
  BY <1>1 DEF Cancel
<1>3. queue[i] \in H
  BY HandleTypes
<1>4. LET g == [queue[i] EXCEPT !.state = "Cancelled"]
      IN  g \in H /\ g.job = queue[i].job /\ g.state = "Cancelled"
  BY <1>3 DEF HandleSet
<1>5. UNCHANGED <<submitted, collected, drainVars>>
  BY DEF CancelQueued
<1> QED BY <1>2, <1>4, <1>5

\* Every step of the pool keeps its types.
LEMMA PoolTypes ==
    ASSUME NEW H, HandleSet(H), PoolTypeOK(H), Holding, PoolStepOf(H)
    PROVE  PoolTypeOK(H)'
<1>1. /\ queue \in Seq(H) /\ completed \in Seq(H)
      /\ submitted \in 0 .. MaxJobs /\ collected \in [Jobs -> Nat]
      /\ pc \in [Drainers -> {"idle", "next", "taken", "running", "returned"}]
      /\ worker \in [Drainers -> Nat] /\ batch \in [Drainers -> Nat]
      /\ \A t \in Drainers : batch[t] < worker[t] /\ worker[t] <= WorkerCount[t] + 1
      /\ upto \in [Drainers -> 0 .. MaxJobs] /\ held \in [Drainers -> H \cup {NoHandle}]
  BY DEF PoolTypeOK
<1>2. MaxJobs \in Nat /\ \A t \in Drainers : WorkerCount[t] \in Nat \ {0}
  BY PoolAssumption
<1>3. CASE Admits(H)
  <2>1. PICK h \in H : NewJob /\ Enqueue(h)
    BY <1>3 DEF Admits
  <2>2. queue' \in Seq(H) /\ completed' = completed
    BY <1>1, <2>1, AppendFacts DEF Enqueue
  <2>3. submitted' \in 0 .. MaxJobs /\ UNCHANGED <<collected, drainVars>>
    BY <1>1, <1>2, <2>1 DEF NewJob
  <2> QED BY <1>1, <2>2, <2>3 DEF PoolTypeOK, drainVars
<1>4. CASE CancelQueued
  <2>1. UNCHANGED <<submitted, collected, drainVars>>
    BY <1>4, CancelFacts
  <2>2. PICK i \in DOMAIN queue, g \in H :
          queue' = RemoveAt(queue, i) /\ completed' = Append(completed, g)
    BY <1>4, CancelFacts
  <2>3. queue' \in Seq(H) /\ completed' \in Seq(H)
    BY <1>1, <2>2, RemoveFacts, AppendFacts
  <2> QED BY <1>1, <2>1, <2>3 DEF PoolTypeOK, drainVars
<1>5. CASE CollectCompleted
  <2>1. /\ completed' = <<>> /\ UNCHANGED <<queue, submitted, drainVars>>
        /\ collected' = [j \in Jobs |->
             collected[j] + (IF \E h \in ToSet(completed) : h.job = j THEN 1 ELSE 0)]
    BY <1>5 DEF CollectCompleted, DrainCompleted
  <2>2. collected' \in [Jobs -> Nat]
    BY <1>1, <2>1
  <2>3. completed' \in Seq(H)
    BY <2>1
  <2> QED BY <1>1, <2>1, <2>2, <2>3 DEF PoolTypeOK, drainVars
<1>6. ASSUME NEW t \in Drainers, Drains(t, H) PROVE PoolTypeOK(H)'
  <2>1. CASE StartDrain(t)
    BY <1>1, <1>2, <2>1 DEF StartDrain, FirstWorker, PoolTypeOK, queueVars
  <2>2. CASE TakeNext(t)
    <3>0. /\ queue # <<>> /\ queue' = Tail(queue)
          /\ UNCHANGED <<completed, submitted, collected>>
      BY <2>2, Taken
    <3>1. queue' \in Seq(H)
      BY <1>1, <3>0, TailFacts
    <3>2. held' \in [Drainers -> H \cup {NoHandle}]
      BY <1>1, <2>2, Taken
    <3> QED BY <1>1, <2>2, <3>0, <3>1, <3>2 DEF TakeNext, PoolTypeOK
  <2>3. CASE NothingToRun(t)
    BY <1>1, <1>2, <2>3 DEF NothingToRun, PoolTypeOK, queueVars
  <2>4. CASE Works(t, H)
    <3>1. held' \in [Drainers -> H \cup {NoHandle}]
      BY <1>1, <2>4 DEF Works
    <3> QED BY <1>1, <2>4, <3>1 DEF Works, PoolTypeOK, queueVars
  <2>5. CASE PublishResult(t)
    <3>1. held[t] \in H /\ worker[t] <= WorkerCount[t]
      BY <1>1, <2>5 DEF PublishResult, Holding
    <3>2. completed' \in Seq(H)
      BY <1>1, <2>5, <3>1, AppendFacts DEF PublishResult, Complete
    <3>3. /\ worker' \in [Drainers -> Nat] /\ batch' \in [Drainers -> Nat]
          /\ \A u \in Drainers : batch'[u] < worker'[u] /\ worker'[u] <= WorkerCount[u] + 1
      <4>1. worker' = [worker EXCEPT ![t] = @ + 1] /\ batch' = [batch EXCEPT ![t] = @ + 1]
        BY <2>5 DEF PublishResult
      <4> QED BY <1>1, <1>2, <3>1, <4>1
    <3> QED BY <1>1, <2>5, <3>2, <3>3 DEF PublishResult, Complete, PoolTypeOK
  <2>6. CASE EndOfBatch(t)
    <3>1. /\ worker' \in [Drainers -> Nat] /\ batch' \in [Drainers -> Nat]
          /\ \A u \in Drainers : batch'[u] < worker'[u] /\ worker'[u] <= WorkerCount[u] + 1
      BY <1>1, <1>2, <2>6 DEF EndOfBatch, FirstWorker
    <3>2. /\ pc' \in [Drainers -> {"idle", "next", "taken", "running", "returned"}]
          /\ upto' \in [Drainers -> 0 .. MaxJobs]
      <4>1. /\ pc' = pc \/ pc' = [pc EXCEPT ![t] = "idle"]
            /\ upto' = upto \/ upto' = [upto EXCEPT ![t] = 0]
        BY <2>6 DEF EndOfBatch
      <4> QED BY <1>1, <1>2, <4>1
    <3> QED BY <1>1, <2>6, <3>1, <3>2 DEF EndOfBatch, PoolTypeOK, queueVars
  <2> QED BY <1>6, <2>1, <2>2, <2>3, <2>4, <2>5, <2>6 DEF Drains
<1>7. CASE UNCHANGED poolVars
  BY <1>1, <1>7 DEF poolVars, PoolTypeOK
<1> QED BY <1>3, <1>4, <1>5, <1>6, <1>7 DEF PoolStepOf

----------------------------------------------------------------------------
\* Places

\* enqueue(): the new number is higher than all others and in no other place.
LEMMA AdmitsKeeps ==
    ASSUME NEW H, HandleSet(H), PoolTypeOK(H), PlaceInv, DrainInv, Admits(H)
    PROVE  PlaceInv' /\ DrainInv'
<1>1. PICK h \in H : h.job = submitted + 1 /\ NewJob /\ Enqueue(h)
  BY DEF Admits
<1>2. /\ submitted' = submitted + 1
      /\ UNCHANGED <<completed, collected, pc, worker, batch, upto, held>>
      /\ queue' = Append(queue, h)
  BY <1>1 DEF NewJob, Enqueue, drainVars
<1>3. queue \in Seq(H)
  BY DEF PoolTypeOK
<1> DEFINE n == Len(queue)
<1>4. /\ n \in Nat /\ DOMAIN queue = 1 .. n /\ DOMAIN queue' = 1 .. n + 1
      /\ \A i \in 1 .. n : queue'[i] = queue[i]
      /\ queue'[n + 1] = h
  BY <1>2, <1>3, AppendFacts
<1> HIDE DEF n
<1>5. /\ submitted \in Nat /\ h.job \in Jobs
      /\ \A i \in DOMAIN queue : queue[i].job \in Nat
      /\ \A i \in DOMAIN completed : completed[i].job \in Nat
      /\ \A t \in Drainers : held[t].job \in Nat
      /\ \A j \in Jobs : j \in Nat
  BY HandleTypes
<1>6. JobsKnown' /\ Holding'
  <2>1. \A i \in DOMAIN queue' : queue'[i].job <= submitted'
    BY <1>1, <1>2, <1>4, <1>5 DEF PlaceInv, JobsKnown
  <2>2. /\ \A i \in DOMAIN completed : completed[i].job <= submitted + 1
        /\ \A t \in Drainers : held[t].job <= submitted + 1
    BY <1>5 DEF PlaceInv, JobsKnown
  <2>3. \A j \in Jobs : j > submitted + 1 => collected[j] = 0
    BY <1>5 DEF PlaceInv, JobsKnown
  <2> QED BY <1>2, <2>1, <2>2, <2>3 DEF PlaceInv, JobsKnown, Holding
<1>7. QueueAscends' /\ HeldOnce' /\ CompletedOnce' /\ CollectedOnce'
  <2>1. QueueAscends'
    <3> SUFFICES ASSUME NEW i \in 1 .. n + 1, NEW k \in 1 .. n + 1, i < k
                 PROVE  queue'[i].job < queue'[k].job
      BY <1>4 DEF QueueAscends
    <3>1. i \in DOMAIN queue /\ queue'[i] = queue[i] /\ queue[i].job <= submitted
      BY <1>4 DEF PlaceInv, JobsKnown
    <3>2. CASE k = n + 1
      BY <1>1, <1>4, <1>5, <3>1, <3>2
    <3>3. CASE k # n + 1
      BY <1>4, <3>1, <3>3 DEF PlaceInv, QueueAscends
    <3> QED BY <3>2, <3>3
  <2> QED BY <1>2, <2>1 DEF PlaceInv, HeldOnce, CompletedOnce, CollectedOnce
<1>8. Exclusive'
  <2>1. /\ \A t \in Drainers : h.job # held[t].job
        /\ \A k \in DOMAIN completed : h.job # completed[k].job
        /\ collected[h.job] = 0
    BY <1>1, <1>5 DEF PlaceInv, JobsKnown
  <2>2. \A i \in DOMAIN queue' : queue'[i] = h \/ \E k \in DOMAIN queue : queue'[i] = queue[k]
    BY <1>4
  <2> QED BY <1>2, <2>1, <2>2 DEF PlaceInv, Exclusive
<1>9. NoneLost'
  <2> SUFFICES ASSUME NEW j \in Jobs, j <= submitted'
               PROVE  \/ \E i \in DOMAIN queue' : queue'[i].job = j
                      \/ \E t \in Drainers : held[t].job = j
                      \/ \E k \in DOMAIN completed : completed[k].job = j
                      \/ collected[j] = 1
    BY <1>2 DEF NoneLost
  <2>1. CASE j = submitted + 1
    BY <1>1, <1>4, <2>1
  <2>2. CASE j <= submitted
    <3>1. CASE \E i \in DOMAIN queue : queue[i].job = j
      BY <1>4, <3>1
    <3> QED BY <2>2, <3>1 DEF PlaceInv, NoneLost
  <2> QED BY <1>2, <1>5, <2>1, <2>2
<1>10. DrainInv'
  <2>1. \A t \in Drainers : upto[t] \in Nat
    BY PoolAssumption DEF PoolTypeOK
  <2> QED BY <1>1, <1>2, <1>4, <1>5, <2>1 DEF DrainInv
<1> QED BY <1>6, <1>7, <1>8, <1>9, <1>10 DEF PlaceInv

\* cancel(): a handle moves from the deque to the vector.
LEMMA CancelKeeps ==
    ASSUME NEW H, HandleSet(H), PoolTypeOK(H), PlaceInv, DrainInv, CancelQueued
    PROVE  PlaceInv' /\ DrainInv'
<1>1. UNCHANGED <<submitted, collected, pc, worker, batch, upto, held>>
  BY CancelFacts DEF drainVars
<1>2. PICK i \in DOMAIN queue, g \in H :
        /\ g.job = queue[i].job /\ g.state = "Cancelled"
        /\ queue' = RemoveAt(queue, i) /\ completed' = Append(completed, g)
  BY CancelFacts
<1>3. queue \in Seq(H) /\ completed \in Seq(H)
  BY DEF PoolTypeOK
<1> DEFINE n == Len(queue)  m == Len(completed)
<1>4. /\ n \in Nat /\ i \in 1 .. n /\ DOMAIN queue = 1 .. n /\ DOMAIN queue' = 1 .. n - 1
      /\ \A k \in 1 .. n - 1 : queue'[k] = IF k < i THEN queue[k] ELSE queue[k + 1]
  BY <1>2, <1>3, RemoveFacts
<1>5. /\ m \in Nat /\ DOMAIN completed = 1 .. m /\ DOMAIN completed' = 1 .. m + 1
      /\ \A k \in 1 .. m : completed'[k] = completed[k]
      /\ completed'[m + 1] = g
  BY <1>2, <1>3, AppendFacts
<1> HIDE DEF n, m
<1>6. \A k \in DOMAIN queue' : \E l \in DOMAIN queue : l # i /\ queue'[k] = queue[l]
  <2> TAKE k \in DOMAIN queue'
  <2>1. CASE k < i
    BY <1>4, <2>1
  <2>2. CASE ~(k < i)
    BY <1>4, <2>2
  <2> QED BY <2>1, <2>2
<1>7. \A l \in DOMAIN queue : l # i => \E k \in DOMAIN queue' : queue'[k] = queue[l]
  <2> TAKE l \in DOMAIN queue
  <2> HAVE l # i
  <2>1. CASE l < i
    BY <1>4, <2>1
  <2>2. CASE ~(l < i)
    <3>1. l - 1 \in DOMAIN queue' /\ queue'[l - 1] = queue[l]
      BY <1>4, <2>2
    <3> QED BY <3>1
  <2> QED BY <2>1, <2>2
<1>8. \A k \in DOMAIN queue : queue[k].job \in Nat
  BY HandleTypes
<1>9. \A k \in DOMAIN queue : k # i => queue[k].job # queue[i].job
  BY <1>4, <1>8 DEF PlaceInv, QueueAscends
<1>10. JobsKnown' /\ Holding' /\ HeldOnce' /\ CollectedOnce'
  <2>1. /\ \A k \in DOMAIN queue' : queue'[k].job <= submitted
        /\ \A k \in DOMAIN completed' : completed'[k].job <= submitted
    BY <1>2, <1>5, <1>6 DEF PlaceInv, JobsKnown
  <2> QED BY <1>1, <2>1 DEF PlaceInv, JobsKnown, Holding, HeldOnce, CollectedOnce
<1>11. QueueAscends'
  <2> SUFFICES ASSUME NEW a \in 1 .. n - 1, NEW b \in 1 .. n - 1, a < b
               PROVE  queue'[a].job < queue'[b].job
    BY <1>4 DEF QueueAscends
  <2> DEFINE old(k) == IF k < i THEN k ELSE k + 1
  <2>1. /\ old(a) \in DOMAIN queue /\ old(b) \in DOMAIN queue /\ old(a) < old(b)
        /\ queue'[a] = queue[old(a)] /\ queue'[b] = queue[old(b)]
    BY <1>4
  <2> QED BY <2>1 DEF PlaceInv, QueueAscends
<1>12. CompletedOnce'
  BY <1>2, <1>5 DEF PlaceInv, CompletedOnce, Exclusive
<1>13. Exclusive'
  <2>1. \A k \in DOMAIN queue', t \in Drainers : queue'[k].job # held'[t].job
    BY <1>1, <1>6 DEF PlaceInv, Exclusive
  <2>2. \A k \in DOMAIN queue', l \in DOMAIN completed' : queue'[k].job # completed'[l].job
    BY <1>2, <1>5, <1>6, <1>9 DEF PlaceInv, Exclusive
  <2>3. \A t \in Drainers, l \in DOMAIN completed' : held'[t].job # completed'[l].job
    BY <1>1, <1>2, <1>5 DEF PlaceInv, Exclusive
  <2>4. /\ \A k \in DOMAIN queue' : collected'[queue'[k].job] = 0
        /\ \A l \in DOMAIN completed' : collected'[completed'[l].job] = 0
    BY <1>1, <1>2, <1>5, <1>6 DEF PlaceInv, Exclusive
  <2> QED BY <1>1, <2>1, <2>2, <2>3, <2>4 DEF PlaceInv, Exclusive
<1>14. NoneLost'
  <2> SUFFICES ASSUME NEW j \in Jobs, j <= submitted
               PROVE  \/ \E k \in DOMAIN queue' : queue'[k].job = j
                      \/ \E t \in Drainers : held[t].job = j
                      \/ \E k \in DOMAIN completed' : completed'[k].job = j
                      \/ collected[j] = 1
    BY <1>1 DEF NoneLost
  <2>1. CASE \E l \in DOMAIN queue : queue[l].job = j
    BY <1>2, <1>5, <1>7, <2>1
  <2>2. CASE \E k \in DOMAIN completed : completed[k].job = j
    BY <1>5, <2>2
  <2> QED BY <2>1, <2>2 DEF PlaceInv, NoneLost
<1>15. DrainInv'
  BY <1>1, <1>6 DEF DrainInv
<1> QED BY <1>10, <1>11, <1>12, <1>13, <1>14, <1>15 DEF PlaceInv

\* drainCompleted(): what is in the vector is handed out.
LEMMA CollectKeeps ==
    ASSUME NEW H, HandleSet(H), PoolTypeOK(H), PlaceInv, DrainInv, CollectCompleted
    PROVE  PlaceInv' /\ DrainInv'
<1>1. /\ completed' = <<>> /\ UNCHANGED <<queue, submitted, pc, worker, batch, upto, held>>
      /\ collected' = [j \in Jobs |->
           collected[j] + (IF \E h \in ToSet(completed) : h.job = j THEN 1 ELSE 0)]
  BY DEF CollectCompleted, DrainCompleted, drainVars
<1>2. \A j : (\E h \in ToSet(completed) : h.job = j)
               <=> (\E k \in DOMAIN completed : completed[k].job = j)
  BY DEF ToSet
<1>3. DOMAIN completed' = {}
  BY <1>1
<1>4. \A j \in Jobs : collected[j] \in Nat
  BY DEF PoolTypeOK
<1>5. ASSUME NEW j \in Jobs
      PROVE  IF \E k \in DOMAIN completed : completed[k].job = j
             THEN collected[j] = 0 /\ collected'[j] = 1
             ELSE collected'[j] = collected[j]
  <2>1. collected'[j] = collected[j]
          + (IF \E k \in DOMAIN completed : completed[k].job = j THEN 1 ELSE 0)
    BY <1>1, <1>2
  <2>2. CASE \E k \in DOMAIN completed : completed[k].job = j
    <3>1. collected[j] = 0
      BY <2>2 DEF PlaceInv, Exclusive
    <3> QED BY <2>1, <2>2, <3>1
  <2>3. CASE ~ \E k \in DOMAIN completed : completed[k].job = j
    BY <1>4, <2>1, <2>3
  <2> QED BY <2>2, <2>3
<1>6. /\ submitted \in Nat /\ \A j \in Jobs : j \in Nat
      /\ \A k \in DOMAIN completed : completed[k].job \in Nat
      /\ \A i \in DOMAIN queue : queue[i].job \in Jobs
      /\ \A t \in Drainers : held[t] # NoHandle => held[t].job \in Jobs
  BY HandleTypes
<1>7. JobsKnown'
  <2>1. \A j \in Jobs : j > submitted => collected'[j] = 0
    BY <1>5, <1>6 DEF PlaceInv, JobsKnown
  <2> QED BY <1>1, <1>3, <2>1 DEF PlaceInv, JobsKnown
<1>8. Holding' /\ QueueAscends' /\ HeldOnce' /\ CompletedOnce'
  BY <1>1, <1>3 DEF PlaceInv, Holding, QueueAscends, HeldOnce, CompletedOnce
<1>9. CollectedOnce'
  BY <1>5 DEF PlaceInv, CollectedOnce
<1>10. Exclusive'
  <2>1. \A i \in DOMAIN queue : collected'[queue[i].job] = 0
    BY <1>5, <1>6 DEF PlaceInv, Exclusive
  <2>2. \A t \in Drainers : held[t] # NoHandle => collected'[held[t].job] = 0
    BY <1>5, <1>6 DEF PlaceInv, Exclusive
  <2> QED BY <1>1, <1>3, <2>1, <2>2 DEF PlaceInv, Exclusive
<1>11. NoneLost'
  BY <1>1, <1>5 DEF PlaceInv, NoneLost
<1>12. DrainInv'
  BY <1>1 DEF DrainInv
<1> QED BY <1>7, <1>8, <1>9, <1>10, <1>11, <1>12 DEF PlaceInv

\* tryDequeue(): the first handle of the deque, which has the lowest number in it,
\* goes to a thread that holds none.
LEMMA TakeKeeps ==
    ASSUME NEW H, HandleSet(H), PoolTypeOK(H), PlaceInv, DrainInv,
           NEW t \in Drainers, TakeNext(t)
    PROVE  PlaceInv' /\ DrainInv'
<1>1. /\ queue # <<>> /\ 1 \in DOMAIN queue
      /\ queue' = Tail(queue) /\ UNCHANGED <<completed, submitted, collected>>
  BY Taken
<1>2. PICK g \in H : /\ g.job = queue[1].job /\ g.state = "Running"
                     /\ held' = [held EXCEPT ![t] = g]
  BY Taken
<1>3. /\ pc[t] = "next" /\ worker[t] <= WorkerCount[t]
      /\ pc' = [pc EXCEPT ![t] = "taken"] /\ UNCHANGED <<worker, batch, upto>>
  BY DEF TakeNext
<1>4. queue \in Seq(H) /\ held \in [Drainers -> H \cup {NoHandle}] /\ pc \in [Drainers ->
        {"idle", "next", "taken", "running", "returned"}]
  BY DEF PoolTypeOK
<1>5. /\ \A i : i \in DOMAIN queue' <=> i \in Nat /\ i >= 1 /\ i + 1 \in DOMAIN queue
      /\ \A i \in DOMAIN queue' : queue'[i] = queue[i + 1]
  BY <1>1, <1>4, TailFacts
<1>6. DOMAIN queue = 1 .. Len(queue) /\ Len(queue) \in Nat
  BY <1>4, LenProperties
<1>7. \A k \in DOMAIN queue' : \E l \in DOMAIN queue : l # 1 /\ queue'[k] = queue[l]
  BY <1>5, <1>6
<1>8. \A l \in DOMAIN queue : l # 1 => \E k \in DOMAIN queue' : queue'[k] = queue[l]
  <2> TAKE l \in DOMAIN queue
  <2> HAVE l # 1
  <2>1. l \in Nat /\ l - 1 \in Nat /\ l - 1 >= 1 /\ (l - 1) + 1 = l
    BY <1>6
  <2>2. l - 1 \in DOMAIN queue' /\ queue'[l - 1] = queue[l]
    BY <1>5, <2>1
  <2> QED BY <2>2
<1>9. /\ \A k \in DOMAIN queue : queue[k].job \in Nat \ {0}
      /\ NoHandle.job = 0 /\ NoHandle \notin H /\ held[t] = NoHandle
  BY <1>3, HandleTypes DEF PlaceInv, Holding
<1>10. /\ \A u \in Drainers : held'[u] = IF u = t THEN g ELSE held[u]
       /\ \A u \in Drainers : pc'[u] = IF u = t THEN "taken" ELSE pc[u]
  BY <1>2, <1>3, <1>4
<1>11. \A k \in DOMAIN queue : k # 1 => queue[k].job # queue[1].job
  BY <1>6, <1>9 DEF PlaceInv, QueueAscends
<1>12. JobsKnown' /\ Holding'
  BY <1>1, <1>2, <1>3, <1>7, <1>9, <1>10 DEF PlaceInv, JobsKnown, Holding
<1>13. QueueAscends'
  BY <1>5, <1>6 DEF PlaceInv, QueueAscends
<1>14. HeldOnce'
  BY <1>1, <1>2, <1>10 DEF PlaceInv, HeldOnce, Exclusive
<1>15. CompletedOnce' /\ CollectedOnce'
  BY <1>1 DEF PlaceInv, CompletedOnce, CollectedOnce
<1>16. Exclusive'
  <2>1. \A k \in DOMAIN queue', u \in Drainers : queue'[k].job # held'[u].job
    BY <1>2, <1>7, <1>10, <1>11 DEF PlaceInv, Exclusive
  <2>2. \A u \in Drainers, k \in DOMAIN completed : held'[u].job # completed[k].job
    BY <1>1, <1>2, <1>10 DEF PlaceInv, Exclusive
  <2>3. \A u \in Drainers : held'[u] # NoHandle => collected[held'[u].job] = 0
    BY <1>1, <1>2, <1>10 DEF PlaceInv, Exclusive
  <2> QED BY <1>1, <1>7, <2>1, <2>2, <2>3 DEF PlaceInv, Exclusive
<1>17. NoneLost'
  <2> SUFFICES ASSUME NEW j \in Jobs, j <= submitted
               PROVE  \/ \E i \in DOMAIN queue' : queue'[i].job = j
                      \/ \E u \in Drainers : held'[u].job = j
                      \/ \E k \in DOMAIN completed : completed[k].job = j
                      \/ collected[j] = 1
    BY <1>1 DEF NoneLost
  <2>1. CASE \E i \in DOMAIN queue : queue[i].job = j
    BY <1>2, <1>8, <1>10, <2>1
  <2>2. CASE \E u \in Drainers : held[u].job = j
    <3>1. j # 0
      BY HandleTypes
    <3> QED BY <1>9, <1>10, <2>2, <3>1
  <2> QED BY <2>1, <2>2 DEF PlaceInv, NoneLost
<1>18. DrainInv'
  BY <1>1, <1>3, <1>7, <1>10 DEF DrainInv
<1> QED BY <1>12, <1>13, <1>14, <1>15, <1>16, <1>17, <1>18 DEF PlaceInv

\* complete(): the handle of a thread goes to the vector.
LEMMA PublishKeeps ==
    ASSUME NEW H, HandleSet(H), PoolTypeOK(H), PlaceInv, DrainInv,
           NEW t \in Drainers, PublishResult(t)
    PROVE  PlaceInv' /\ DrainInv'
<1>1. /\ pc[t] = "returned" /\ pc' = [pc EXCEPT ![t] = "next"]
      /\ completed' = Append(completed, held[t])
      /\ worker' = [worker EXCEPT ![t] = @ + 1] /\ batch' = [batch EXCEPT ![t] = @ + 1]
      /\ held' = [held EXCEPT ![t] = NoHandle]
      /\ UNCHANGED <<queue, submitted, collected, upto>>
  BY DEF PublishResult, Complete
<1>2. /\ completed \in Seq(H) /\ held \in [Drainers -> H \cup {NoHandle}]
      /\ pc \in [Drainers -> {"idle", "next", "taken", "running", "returned"}]
      /\ worker \in [Drainers -> Nat] /\ batch \in [Drainers -> Nat]
  BY DEF PoolTypeOK
<1>3. /\ held[t] # NoHandle /\ held[t] \in H /\ held[t].job # 0
      /\ NoHandle.job = 0 /\ \A j \in Jobs : j # 0
      /\ \A k \in DOMAIN completed : completed[k].job # 0
      /\ \A i \in DOMAIN queue : queue[i].job # 0
  BY <1>1, HandleTypes DEF PlaceInv, Holding
<1> DEFINE m == Len(completed)
<1>4. /\ m \in Nat /\ DOMAIN completed = 1 .. m /\ DOMAIN completed' = 1 .. m + 1
      /\ \A k \in 1 .. m : completed'[k] = completed[k]
      /\ completed'[m + 1] = held[t]
  BY <1>1, <1>2, <1>3, AppendFacts
<1> HIDE DEF m
<1>5. /\ \A u \in Drainers : held'[u] = IF u = t THEN NoHandle ELSE held[u]
      /\ \A u \in Drainers : pc'[u] = IF u = t THEN "next" ELSE pc[u]
      /\ \A u \in Drainers : u # t => worker'[u] = worker[u] /\ batch'[u] = batch[u]
      /\ batch'[t] # 0
  BY <1>1, <1>2
<1>6. \A k \in DOMAIN completed' :
        completed'[k] = held[t] \/ \E l \in DOMAIN completed : completed'[k] = completed[l]
  BY <1>4
<1>7. JobsKnown' /\ Holding'
  <2>1. submitted \in Nat
    BY HandleTypes
  <2>2. \A u \in Drainers : held'[u].job <= submitted
    BY <1>3, <1>5, <2>1 DEF PlaceInv, JobsKnown
  <2>3. \A k \in DOMAIN completed' : completed'[k].job <= submitted
    BY <1>6 DEF PlaceInv, JobsKnown
  <2>4. Holding'
    BY <1>1, <1>5 DEF PlaceInv, Holding
  <2> QED BY <1>1, <2>2, <2>3, <2>4 DEF PlaceInv, JobsKnown
<1>8. QueueAscends' /\ CollectedOnce' /\ HeldOnce'
  <2>1. HeldOnce'
    <3> SUFFICES ASSUME NEW u \in Drainers, NEW v \in Drainers, held'[u] # NoHandle,
                        held'[u].job = held'[v].job
                 PROVE  u = v
      BY DEF HeldOnce
    <3>1. u # t /\ held'[u] = held[u] /\ held[u].job # 0
      BY <1>5, HandleTypes
    <3>2. v # t /\ held'[v] = held[v]
      BY <1>3, <1>5, <3>1
    <3> QED BY <3>1, <3>2 DEF PlaceInv, HeldOnce
  <2> QED BY <1>1, <2>1 DEF PlaceInv, QueueAscends, CollectedOnce
<1>9. CompletedOnce'
  BY <1>4 DEF PlaceInv, CompletedOnce, Exclusive
<1>10. Exclusive'
  <2>1. \A i \in DOMAIN queue, u \in Drainers : queue[i].job # held'[u].job
    BY <1>3, <1>5 DEF PlaceInv, Exclusive
  <2>2. \A i \in DOMAIN queue, k \in DOMAIN completed' : queue[i].job # completed'[k].job
    BY <1>6 DEF PlaceInv, Exclusive
  <2>3. ASSUME NEW u \in Drainers, NEW k \in DOMAIN completed'
        PROVE  held'[u].job # completed'[k].job
    <3>1. CASE u = t
      BY <1>3, <1>5, <1>6, <3>1
    <3>2. CASE u # t /\ completed'[k] = held[t]
      BY <1>3, <1>5, <3>2 DEF PlaceInv, HeldOnce
    <3>3. CASE u # t /\ \E l \in DOMAIN completed : completed'[k] = completed[l]
      BY <1>5, <3>3 DEF PlaceInv, Exclusive
    <3> QED BY <1>6, <3>1, <3>2, <3>3
  <2>4. \A k \in DOMAIN completed' : collected[completed'[k].job] = 0
    BY <1>3, <1>6 DEF PlaceInv, Exclusive
  <2>5. \A u \in Drainers : held'[u] # NoHandle => collected[held'[u].job] = 0
    BY <1>5 DEF PlaceInv, Exclusive
  <2> QED BY <1>1, <2>1, <2>2, <2>3, <2>4, <2>5 DEF PlaceInv, Exclusive
<1>11. NoneLost'
  <2> SUFFICES ASSUME NEW j \in Jobs, j <= submitted
               PROVE  \/ \E i \in DOMAIN queue : queue[i].job = j
                      \/ \E u \in Drainers : held'[u].job = j
                      \/ \E k \in DOMAIN completed' : completed'[k].job = j
                      \/ collected[j] = 1
    BY <1>1 DEF NoneLost
  <2>1. CASE \E u \in Drainers : held[u].job = j
    BY <1>4, <1>5, <2>1
  <2>2. CASE \E k \in DOMAIN completed : completed[k].job = j
    BY <1>4, <2>2
  <2> QED BY <2>1, <2>2 DEF PlaceInv, NoneLost
<1>12. DrainInv'
  BY <1>1, <1>5 DEF DrainInv
<1> QED BY <1>7, <1>8, <1>9, <1>10, <1>11, <1>12 DEF PlaceInv

\* The steps that leave the three places as they are.
LEMMA OthersKeep ==
    ASSUME NEW H, HandleSet(H), PoolTypeOK(H), PlaceInv, DrainInv, NEW t \in Drainers,
           StartDrain(t) \/ NothingToRun(t) \/ Works(t, H) \/ EndOfBatch(t)
    PROVE  PlaceInv' /\ DrainInv'
<1>1. /\ pc \in [Drainers -> {"idle", "next", "taken", "running", "returned"}]
      /\ worker \in [Drainers -> Nat] /\ batch \in [Drainers -> Nat]
      /\ held \in [Drainers -> H \cup {NoHandle}] /\ upto \in [Drainers -> 0 .. MaxJobs]
  BY DEF PoolTypeOK
<1>2. UNCHANGED <<queue, completed, submitted, collected>>
  BY DEF StartDrain, NothingToRun, Works, EndOfBatch, queueVars
<1>3. submitted \in Nat /\ NoHandle \notin H
  BY HandleTypes
<1>4. \A u \in Drainers : held'[u].job = held[u].job
  BY <1>1 DEF StartDrain, NothingToRun, Works, EndOfBatch
<1>5. /\ \A u \in Drainers : held'[u] = NoHandle <=> held[u] = NoHandle
      /\ Holding'
  <2>1. CASE StartDrain(t) \/ NothingToRun(t) \/ EndOfBatch(t)
    <3>1. /\ held' = held /\ pc[t] \in {"idle", "next"} /\ pc'[t] \in {"idle", "next"}
          /\ \A u \in Drainers : u # t => pc'[u] = pc[u] /\ worker'[u] = worker[u]
      BY <1>1, <2>1 DEF StartDrain, NothingToRun, EndOfBatch, FirstWorker
    <3> QED BY <3>1 DEF PlaceInv, Holding
  <2>2. CASE Works(t, H)
    <3>1. PICK h \in H : /\ h.job = held[t].job /\ h.state # "Cancelled"
                         /\ held' = [held EXCEPT ![t] = h]
      BY <2>2 DEF Works
    <3>2. /\ pc[t] \in {"taken", "running"} /\ pc'[t] \in {"running", "returned"}
          /\ \A u \in Drainers : u # t => pc'[u] = pc[u]
          /\ worker' = worker
      BY <1>1, <2>2 DEF Works
    <3>3. \A u \in Drainers : held'[u] = IF u = t THEN h ELSE held[u]
      BY <1>1, <3>1
    <3>4. held[t] # NoHandle /\ h # NoHandle
      BY <1>3, <3>2 DEF PlaceInv, Holding
    <3> QED BY <3>1, <3>2, <3>3, <3>4 DEF PlaceInv, Holding
  <2> QED BY <2>1, <2>2
<1>6. JobsKnown' /\ QueueAscends' /\ CompletedOnce' /\ CollectedOnce' /\ NoneLost'
  BY <1>2, <1>4 DEF PlaceInv, JobsKnown, QueueAscends, CompletedOnce, CollectedOnce, NoneLost
<1>7. HeldOnce' /\ Exclusive'
  BY <1>2, <1>4, <1>5 DEF PlaceInv, HeldOnce, Exclusive
<1>8. DrainInv'
  <2>1. \A u \in Drainers : u # t => /\ pc'[u] = pc[u] /\ batch'[u] = batch[u]
                                     /\ worker'[u] = worker[u] /\ upto'[u] = upto[u]
    BY <1>1 DEF StartDrain, NothingToRun, Works, EndOfBatch, FirstWorker
  <2>2. upto'[t] <= submitted
    <3>1. upto'[t] \in {upto[t], submitted, 0}
      BY <1>1 DEF StartDrain, NothingToRun, Works, EndOfBatch
    <3> QED BY <1>3, <3>1 DEF DrainInv
  <2>3. \/ worker'[t] = 1 \/ queue = <<>>
        \/ /\ pc[t] # "idle" /\ batch'[t] = batch[t] /\ worker'[t] = worker[t]
           /\ upto'[t] = upto[t]
    BY <1>1 DEF StartDrain, NothingToRun, Works, EndOfBatch, FirstWorker
  <2>4. pc'[t] # "idle" /\ batch'[t] = 0 /\ worker'[t] > 1
          => \A i \in DOMAIN queue : queue[i].job > upto'[t]
    <3>1. CASE queue = <<>>
      BY <3>1
    <3>2. CASE worker'[t] = 1
      BY <3>2
    <3>3. CASE /\ pc[t] # "idle" /\ batch'[t] = batch[t] /\ worker'[t] = worker[t]
               /\ upto'[t] = upto[t]
      BY <3>3 DEF DrainInv
    <3> QED BY <2>3, <3>1, <3>2, <3>3
  <2> QED BY <1>2, <2>1, <2>2, <2>4 DEF DrainInv
<1> QED BY <1>5, <1>6, <1>7, <1>8 DEF PlaceInv

\* PoolInv is inductive for every pool.
LEMMA PoolInductive ==
    ASSUME NEW H, HandleSet(H), PoolInv(H), PoolStepOf(H)
    PROVE  PoolInv(H)'
<1>1. PoolTypeOK(H) /\ PlaceInv /\ DrainInv /\ Holding
  BY DEF PoolInv, PlaceInv
<1>2. PoolTypeOK(H)'
  BY <1>1, PoolTypes
<1>3. CASE UNCHANGED poolVars
  BY <1>1, <1>3 DEF poolVars, PlaceInv, DrainInv, JobsKnown, Holding, QueueAscends, HeldOnce,
     CompletedOnce, CollectedOnce, Exclusive, NoneLost, PoolInv, PoolTypeOK
<1>4. CASE ~UNCHANGED poolVars
  BY <1>1, <1>2, <1>4, AdmitsKeeps, CancelKeeps, CollectKeeps, TakeKeeps, PublishKeeps,
     OthersKeep DEF PoolInv, PoolStepOf, Drains
<1> QED BY <1>3, <1>4

\* It holds of a pool that has done nothing.
LEMMA PoolInitially ==
    ASSUME NEW H, HandleSet(H), PoolInit
    PROVE  PoolInv(H)
<1>1. MaxJobs \in Nat /\ \A t \in Drainers : WorkerCount[t] \in Nat \ {0}
  BY PoolAssumption
<1>2. PoolTypeOK(H)
  BY <1>1 DEF PoolInit, PoolTypeOK, NoHandle
<1>3. JobsKnown /\ NoneLost
  BY <1>1 DEF PoolInit, JobsKnown, NoneLost, NoHandle, Jobs
<1>4. Holding /\ QueueAscends /\ HeldOnce /\ CompletedOnce /\ CollectedOnce /\ Exclusive
  BY <1>1 DEF PoolInit, Holding, QueueAscends, HeldOnce, CompletedOnce, CollectedOnce, Exclusive
<1>5. DrainInv
  BY <1>1 DEF PoolInit, DrainInv
<1> QED BY <1>2, <1>3, <1>4, <1>5 DEF PoolInv, PlaceInv

\* Where the handles in the queue come from.
LEMMA QueueFrom ==
    ASSUME NEW H, HandleSet(H), PoolInv(H), PoolStepOf(H)
    PROVE  /\ submitted \in Nat /\ submitted' \in {submitted, submitted + 1}
           /\ \A i \in DOMAIN queue' :
                \/ submitted' = submitted + 1 /\ queue'[i].job = submitted + 1
                \/ \E k \in DOMAIN queue : queue'[i] = queue[k]
<1>1. submitted \in Nat /\ queue \in Seq(H)
  BY HandleTypes DEF PoolInv, PoolTypeOK
<1>2. submitted' \in {submitted, submitted + 1}
  BY DEF PoolStepOf, Admits, NewJob, CancelQueued, CollectCompleted, Drains, StartDrain, TakeNext,
     NothingToRun, Works, PublishResult, EndOfBatch, poolVars
<1>3. CASE Admits(H)
  <2>1. PICK h \in H : h.job = submitted + 1 /\ NewJob /\ queue' = Append(queue, h)
    BY <1>3 DEF Admits, Enqueue
  <2>2. submitted' = submitted + 1
    BY <2>1 DEF NewJob
  <2> QED BY <1>1, <2>1, <2>2, AppendFacts
<1>4. CASE CancelQueued
  <2>1. PICK i \in DOMAIN queue : queue' = RemoveAt(queue, i)
    BY <1>4, CancelFacts DEF PoolInv
  <2>2. /\ DOMAIN queue = 1 .. Len(queue) /\ DOMAIN queue' = 1 .. Len(queue) - 1
        /\ Len(queue) \in Nat
        /\ \A k \in DOMAIN queue' : queue'[k] = IF k < i THEN queue[k] ELSE queue[k + 1]
    BY <1>1, <2>1, RemoveFacts
  <2>3. \A k \in DOMAIN queue' : k \in DOMAIN queue /\ k + 1 \in DOMAIN queue
    BY <2>2
  <2> QED BY <1>1, <1>2, <2>2, <2>3
<1>5. CASE \E t \in Drainers : TakeNext(t)
  <2>1. queue # <<>> /\ queue' = Tail(queue)
    BY <1>5, Taken DEF PoolInv
  <2>2. \A i \in DOMAIN queue' : i + 1 \in DOMAIN queue /\ queue'[i] = queue[i + 1]
    BY <1>1, <2>1, TailFacts
  <2> QED BY <1>1, <1>2, <2>2
<1>6. CASE queue' = queue
  BY <1>1, <1>2, <1>6
<1>7. Admits(H) \/ CancelQueued \/ (\E t \in Drainers : TakeNext(t)) \/ queue' = queue
  BY DEF PoolStepOf, CollectCompleted, DrainCompleted, Drains, StartDrain, NothingToRun,
     Works, PublishResult, Complete, EndOfBatch, queueVars, poolVars
<1> QED BY <1>3, <1>4, <1>5, <1>6, <1>7

----------------------------------------------------------------------------
\* The refinement of JobBoard

\* What the mapping says of each place.
BoardFacts ==
    /\ BoardStatus = [j \in Jobs |-> BoardStatus[j]]
    /\ \A j \in Jobs : j > submitted => BoardStatus[j] = "new"
    /\ \A i \in DOMAIN queue : BoardStatus[queue[i].job] = "pending"
    /\ \A t \in Drainers : held[t] # NoHandle => BoardStatus[held[t].job] = "running"
    /\ \A k \in DOMAIN completed :
         BoardStatus[completed[k].job] =
           IF completed[k].state = "Cancelled" THEN "cancelled" ELSE "done"
    /\ \A j \in Jobs : collected[j] = 1 => BoardStatus[j] = "collected"

\* A job with one place has that place's status.
LEMMA OnePlace ==
    ASSUME NEW j \in Jobs, j <= submitted, ~(j > submitted), NEW p, Places(j) = {p}
    PROVE  BoardStatus[j] = p[1]
<1>1. Cardinality(Places(j)) = 1
  BY FS_Singleton
<1>2. (CHOOSE q \in Places(j) : TRUE) = p
  OBVIOUS
<1> QED BY <1>1, <1>2 DEF BoardStatus, StatusOf

\* A job that was not admitted is new.
LEMMA NewJobs ==
    ASSUME NEW j \in Jobs, j > submitted, ~(j <= submitted)
    PROVE  BoardStatus[j] = "new"
<1>1. BoardStatus[j] = StatusOf(j, Places(j))
  BY DEF BoardStatus
<1>2. ASSUME NEW p PROVE StatusOf(j, p) = "new"
  BY DEF StatusOf
<1> QED BY <1>1, <1>2

\* No job is astray.
LEMMA BoardMap ==
    ASSUME NEW H, HandleSet(H), PoolInv(H)
    PROVE  BoardFacts
<1> USE DEF PoolInv, PlaceInv
<1>1. /\ submitted \in Nat /\ \A j \in Jobs : j \in Nat \ {0}
      /\ \A i \in DOMAIN queue : queue[i].job \in Jobs /\ queue[i].job \in Nat
      /\ \A k \in DOMAIN completed : completed[k].job \in Jobs /\ completed[k].job \in Nat
      /\ \A t \in Drainers : held[t] # NoHandle => held[t].job \in Jobs
      /\ \A t \in Drainers : held[t].job \in Nat /\ (held[t].job = 0 <=> held[t] = NoHandle)
  BY HandleTypes
<1>2. BoardStatus = [j \in Jobs |-> BoardStatus[j]]
  BY DEF BoardStatus
<1>3. \A j \in Jobs : j > submitted => BoardStatus[j] = "new"
  <2>1. \A j \in Jobs : j > submitted => ~(j <= submitted)
    BY <1>1
  <2> QED BY <2>1, NewJobs
<1>4. ASSUME NEW i \in DOMAIN queue PROVE BoardStatus[queue[i].job] = "pending"
  <2> DEFINE j == queue[i].job
  <2>1. {k \in DOMAIN queue : queue[k].job = j} = {i}
    <3>1. DOMAIN queue \subseteq Nat
      BY LenProperties DEF PoolTypeOK
    <3>2. \A k \in DOMAIN queue : k # i => k < i \/ i < k
      BY <3>1
    <3> QED BY <1>1, <3>2 DEF QueueAscends
  <2>2. {u \in Drainers : held[u].job = j} = {}
    BY DEF Exclusive
  <2>3. {k \in DOMAIN completed : completed[k].job = j} = {}
    BY DEF Exclusive
  <2>4. 1 .. collected[j] = {}
    BY DEF Exclusive
  <2>5. Places(j) = {<<"pending", i>>}
    BY <2>1, <2>2, <2>3, <2>4 DEF Places
  <2>6. j \in Jobs /\ j <= submitted /\ ~(j > submitted)
    BY <1>1 DEF JobsKnown
  <2> QED BY <2>5, <2>6, OnePlace
<1>5. ASSUME NEW t \in Drainers, held[t] # NoHandle PROVE BoardStatus[held[t].job] = "running"
  <2> DEFINE j == held[t].job
  <2>1. {k \in DOMAIN queue : queue[k].job = j} = {}
    BY DEF Exclusive
  <2>2. {u \in Drainers : held[u].job = j} = {t}
    BY <1>5 DEF HeldOnce
  <2>3. {k \in DOMAIN completed : completed[k].job = j} = {}
    BY DEF Exclusive
  <2>4. 1 .. collected[j] = {}
    BY <1>5 DEF Exclusive
  <2>5. Places(j) = {<<"running", t>>}
    BY <2>1, <2>2, <2>3, <2>4 DEF Places
  <2>6. j \in Jobs /\ j <= submitted /\ ~(j > submitted)
    BY <1>1, <1>5 DEF JobsKnown
  <2> QED BY <2>5, <2>6, OnePlace
<1>6. ASSUME NEW k \in DOMAIN completed
      PROVE  BoardStatus[completed[k].job] =
               IF completed[k].state = "Cancelled" THEN "cancelled" ELSE "done"
  <2> DEFINE j == completed[k].job
             s == IF completed[k].state = "Cancelled" THEN "cancelled" ELSE "done"
  <2>1. {i \in DOMAIN queue : queue[i].job = j} = {}
    BY DEF Exclusive
  <2>2. {u \in Drainers : held[u].job = j} = {}
    BY DEF Exclusive
  <2>3. {i \in DOMAIN completed : completed[i].job = j} = {k}
    BY DEF CompletedOnce
  <2>4. 1 .. collected[j] = {}
    BY DEF Exclusive
  <2>5. Places(j) = {<<s, k>>}
    BY <2>1, <2>2, <2>3, <2>4 DEF Places
  <2>6. j \in Jobs /\ j <= submitted /\ ~(j > submitted)
    BY <1>1 DEF JobsKnown
  <2>7. BoardStatus[j] = <<s, k>>[1]
    BY <2>5, <2>6, OnePlace
  <2> QED BY <2>7
<1>7. ASSUME NEW j \in Jobs, collected[j] = 1 PROVE BoardStatus[j] = "collected"
  <2>1. {k \in DOMAIN queue : queue[k].job = j} = {}
    BY <1>7 DEF Exclusive
  <2>2. {u \in Drainers : held[u].job = j} = {}
    BY <1>1, <1>7 DEF Exclusive
  <2>3. {k \in DOMAIN completed : completed[k].job = j} = {}
    BY <1>7 DEF Exclusive
  <2>4. 1 .. collected[j] = {1}
    BY <1>7
  <2>5. Places(j) = {<<"collected", 1>>}
    BY <2>1, <2>2, <2>3, <2>4 DEF Places
  <2>6. j <= submitted /\ ~(j > submitted)
    BY <1>1, <1>7 DEF JobsKnown
  <2> QED BY <2>5, <2>6, OnePlace
<1> QED BY <1>2, <1>3, <1>4, <1>5, <1>6, <1>7 DEF BoardFacts

\* A pool that has done nothing is an empty board.
LEMMA BoardInitially ==
    ASSUME PoolInit
    PROVE  Board!Init
<1>1. submitted = 0 /\ \A j \in Jobs : j \in Nat \ {0}
  BY PoolAssumption DEF PoolInit, Jobs
<1>2. \A j \in Jobs : j > submitted /\ ~(j <= submitted)
  BY <1>1
<1>3. \A j \in Jobs : BoardStatus[j] = "new"
  BY <1>2, NewJobs
<1>4. BoardStatus = [j \in Jobs |-> BoardStatus[j]]
  BY DEF BoardStatus
<1>5. BoardStatus = [j \in Jobs |-> "new"]
  BY <1>3, <1>4
<1> QED BY <1>5 DEF Board!Init, Board!Jobs, Jobs

\* The statuses of all jobs, from the status of each.
LEMMA BoardSame ==
    ASSUME BoardFacts, BoardFacts', \A k \in Jobs : BoardStatus'[k] = BoardStatus[k]
    PROVE  BoardStatus' = BoardStatus
<1>1. /\ BoardStatus = [k \in Jobs |-> BoardStatus[k]]
      /\ BoardStatus' = [k \in Jobs |-> BoardStatus'[k]]
  BY DEF BoardFacts
<1> QED BY <1>1

\* Likewise when one of them changes.
LEMMA BoardPut ==
    ASSUME BoardFacts, BoardFacts', NEW j \in Jobs, NEW x, BoardStatus'[j] = x,
           \A k \in Jobs : k # j => BoardStatus'[k] = BoardStatus[k]
    PROVE  BoardStatus' = [BoardStatus EXCEPT ![j] = x]
<1>1. /\ BoardStatus = [k \in Jobs |-> BoardStatus[k]]
      /\ BoardStatus' = [k \in Jobs |-> BoardStatus'[k]]
  BY DEF BoardFacts
<1> QED BY <1>1

\* A status tells where the job is.
LEMMA BoardInverse ==
    ASSUME NEW H, HandleSet(H), PoolInv(H), BoardFacts, NEW j \in Jobs
    PROVE  /\ j <= submitted => BoardStatus[j] # "new"
           /\ BoardStatus[j] = "pending" => \E i \in DOMAIN queue : queue[i].job = j
           /\ BoardStatus[j] \in {"done", "cancelled"} =>
                \E i \in DOMAIN completed : completed[i].job = j
<1>1. /\ submitted \in Nat /\ j \in Nat \ {0} /\ PlaceInv
      /\ \A t \in Drainers : held[t].job \in Nat /\ (held[t].job = 0 <=> held[t] = NoHandle)
  BY HandleTypes DEF PoolInv, PlaceInv
<1>2. CASE j > submitted
  <2>1. BoardStatus[j] = "new"
    BY <1>2 DEF BoardFacts
  <2> QED BY <1>1, <1>2, <2>1
<1>3. CASE j <= submitted
  <2>1. CASE \E i \in DOMAIN queue : queue[i].job = j
    BY <2>1 DEF BoardFacts
  <2>2. CASE \E t \in Drainers : held[t].job = j
    <3>1. BoardStatus[j] = "running"
      BY <1>1, <2>2 DEF BoardFacts
    <3> QED BY <3>1
  <2>3. CASE \E k \in DOMAIN completed : completed[k].job = j
    <3>1. BoardStatus[j] \in {"done", "cancelled"}
      BY <2>3 DEF BoardFacts
    <3> QED BY <2>3, <3>1
  <2>4. CASE collected[j] = 1
    <3>1. BoardStatus[j] = "collected"
      BY <2>4 DEF BoardFacts
    <3> QED BY <3>1
  <2> QED BY <1>1, <1>3, <2>1, <2>2, <2>3, <2>4 DEF PlaceInv, NoneLost
<1> QED BY <1>1, <1>2, <1>3

\* A job whose place is not disturbed keeps its status.
LEMMA BoardKept ==
    ASSUME NEW H, HandleSet(H), PoolInv(H), BoardFacts, BoardFacts', NEW j \in Jobs,
           submitted' \in Nat,
           j > submitted => j > submitted',
           \A i \in DOMAIN queue : queue[i].job = j =>
             \E k \in DOMAIN queue' : queue'[k].job = j,
           \A t \in Drainers : held[t].job = j => held'[t] # NoHandle /\ held'[t].job = j,
           \A i \in DOMAIN completed : completed[i].job = j =>
             \E k \in DOMAIN completed' : completed'[k] = completed[i],
           collected[j] = 1 => collected'[j] = 1
    PROVE  BoardStatus'[j] = BoardStatus[j]
<1>1. /\ submitted \in Nat /\ j \in Nat \ {0} /\ PlaceInv
      /\ \A t \in Drainers : held[t].job \in Nat /\ (held[t].job = 0 <=> held[t] = NoHandle)
  BY HandleTypes DEF PoolInv, PlaceInv
<1>2. CASE j > submitted
  <2>1. BoardStatus[j] = "new"
    BY <1>2 DEF BoardFacts
  <2>2. BoardStatus'[j] = "new"
    BY <1>2 DEF BoardFacts
  <2> QED BY <2>1, <2>2
<1>3. CASE j <= submitted
  <2>1. ASSUME NEW i \in DOMAIN queue, queue[i].job = j PROVE BoardStatus'[j] = BoardStatus[j]
    <3>1. BoardStatus[j] = "pending"
      BY <2>1 DEF BoardFacts
    <3>2. BoardStatus'[j] = "pending"
      BY <2>1 DEF BoardFacts
    <3> QED BY <3>1, <3>2
  <2>2. ASSUME NEW t \in Drainers, held[t].job = j PROVE BoardStatus'[j] = BoardStatus[j]
    <3>1. BoardStatus[j] = "running"
      BY <1>1, <2>2 DEF BoardFacts
    <3>2. BoardStatus'[j] = "running"
      BY <2>2 DEF BoardFacts
    <3> QED BY <3>1, <3>2
  <2>3. ASSUME NEW i \in DOMAIN completed, completed[i].job = j
        PROVE  BoardStatus'[j] = BoardStatus[j]
    <3>1. PICK k \in DOMAIN completed' : completed'[k] = completed[i]
      BY <2>3
    <3>2. BoardStatus[j] = IF completed[i].state = "Cancelled" THEN "cancelled" ELSE "done"
      BY <2>3 DEF BoardFacts
    <3>3. BoardStatus'[completed'[k].job] =
            IF completed'[k].state = "Cancelled" THEN "cancelled" ELSE "done"
      BY DEF BoardFacts
    <3> QED BY <2>3, <3>1, <3>2, <3>3
  <2>4. CASE collected[j] = 1
    BY <2>4 DEF BoardFacts
  <2> QED BY <1>1, <1>3, <2>1, <2>2, <2>3, <2>4 DEF PlaceInv, NoneLost
<1> QED BY <1>1, <1>2, <1>3

\* Admitting is Admit of the next number.
LEMMA BoardAdmit ==
    ASSUME NEW H, HandleSet(H), PoolInv(H), BoardFacts, BoardFacts', Admits(H)
    PROVE  \E j \in Jobs : Board!Admit(j)
<1> DEFINE j == submitted + 1
<1>1. PICK h \in H : h.job = j /\ NewJob /\ queue' = Append(queue, h) /\ completed' = completed
  BY DEF Admits, Enqueue
<1>2. submitted \in Nat /\ j \in Jobs /\ \A k \in Jobs : k \in Nat
  BY <1>1, HandleTypes DEF PoolInv
<1>3. submitted' = j /\ collected' = collected /\ held' = held
  BY <1>1 DEF NewJob, drainVars
<1>4. queue \in Seq(H)
  BY DEF PoolInv, PoolTypeOK
<1>5. /\ Len(queue) \in Nat /\ DOMAIN queue = 1 .. Len(queue)
      /\ DOMAIN queue' = 1 .. Len(queue) + 1
      /\ \A i \in DOMAIN queue : queue'[i] = queue[i]
      /\ queue'[Len(queue) + 1] = h
  BY <1>1, <1>4, AppendFacts
<1>6. /\ \A i \in DOMAIN queue : i \in DOMAIN queue' /\ queue'[i] = queue[i]
      /\ \E i \in DOMAIN queue' : queue'[i].job = j
  BY <1>1, <1>5
<1>7. BoardStatus[j] = "new" /\ BoardStatus'[j] = "pending"
  <2>1. j > submitted
    BY <1>2
  <2> QED BY <1>2, <1>6, <2>1 DEF BoardFacts
<1>8. ASSUME NEW k \in Jobs, k # j PROVE BoardStatus'[k] = BoardStatus[k]
  <2>1. k > submitted => k > submitted'
    BY <1>2, <1>3, <1>8
  <2>2. \A t \in Drainers : held[t].job = k => held'[t] # NoHandle /\ held'[t].job = k
    <3>1. k # 0
      BY <1>2, HandleTypes DEF PoolInv
    <3> QED BY <1>3, <3>1, HandleTypes DEF PoolInv
  <2>3. submitted' \in Nat
    BY <1>2, <1>3
  <2> QED BY <1>1, <1>3, <1>6, <2>1, <2>2, <2>3, BoardKept
<1>9. BoardStatus' = [BoardStatus EXCEPT ![j] = "pending"]
  BY <1>2, <1>7, <1>8, BoardPut
<1>10. \A k \in Jobs : k < j => BoardStatus[k] # "new"
  <2>1. \A k \in Jobs : k < j => k <= submitted
    BY <1>2
  <2> QED BY <2>1, BoardInverse
<1>11. Board!Admit(j)
  BY <1>7, <1>9, <1>10 DEF Board!Admit, Board!Jobs, Jobs
<1> QED BY <1>2, <1>11

\* Cancelling is Withdraw of the handle it finds.
LEMMA BoardWithdraw ==
    ASSUME NEW H, HandleSet(H), PoolInv(H), BoardFacts, BoardFacts', CancelQueued
    PROVE  \E j \in Jobs : Board!Withdraw(j)
<1>1. PICK i \in DOMAIN queue, g \in H :
        /\ g.job = queue[i].job /\ g.state = "Cancelled"
        /\ queue' = RemoveAt(queue, i) /\ completed' = Append(completed, g)
  BY CancelFacts DEF PoolInv
<1>2. submitted' = submitted /\ collected' = collected /\ held' = held
  BY CancelFacts DEF PoolInv, drainVars
<1> DEFINE j == queue[i].job
<1>3. queue \in Seq(H) /\ completed \in Seq(H)
  BY DEF PoolInv, PoolTypeOK
<1>4. j \in Jobs /\ submitted \in Nat /\ \A k \in Jobs : k # 0
  BY HandleTypes DEF PoolInv
<1>5. \A l \in DOMAIN queue : queue[l].job # j => \E k \in DOMAIN queue' : queue'[k] = queue[l]
  <2>1. /\ i \in Nat /\ i >= 1 /\ Len(queue) \in Nat /\ DOMAIN queue = 1 .. Len(queue)
        /\ DOMAIN queue' = 1 .. Len(queue) - 1
        /\ \A k \in DOMAIN queue' : queue'[k] = IF k < i THEN queue[k] ELSE queue[k + 1]
    BY <1>1, <1>3, RemoveFacts
  <2> TAKE l \in DOMAIN queue
  <2> HAVE queue[l].job # j
  <2>2. l \in Nat /\ l >= 1 /\ l <= Len(queue) /\ l # i /\ i <= Len(queue)
    BY <2>1
  <2>3. CASE l < i
    <3>1. l \in DOMAIN queue' /\ queue'[l] = queue[l]
      BY <2>1, <2>2, <2>3
    <3> QED BY <3>1
  <2>4. CASE l > i
    <3>1. l - 1 \in 1 .. Len(queue) - 1 /\ ~(l - 1 < i) /\ (l - 1) + 1 = l
      BY <2>1, <2>2, <2>4
    <3>2. l - 1 \in DOMAIN queue' /\ queue'[l - 1] = queue[l]
      BY <2>1, <3>1
    <3> QED BY <3>2
  <2> QED BY <2>1, <2>2, <2>3, <2>4
<1>6. /\ \A k \in DOMAIN completed : k \in DOMAIN completed' /\ completed'[k] = completed[k]
      /\ \E k \in DOMAIN completed' : completed'[k] = g
  <2>1. /\ Len(completed) \in Nat /\ DOMAIN completed = 1 .. Len(completed)
        /\ DOMAIN completed' = 1 .. Len(completed) + 1
        /\ \A k \in DOMAIN completed : completed'[k] = completed[k]
        /\ completed'[Len(completed) + 1] = g
    BY <1>1, <1>3, AppendFacts
  <2> QED BY <2>1
<1>7. BoardStatus[j] = "pending" /\ BoardStatus'[j] = "cancelled"
  BY <1>1, <1>6 DEF BoardFacts
<1>8. ASSUME NEW k \in Jobs, k # j PROVE BoardStatus'[k] = BoardStatus[k]
  <2>1. \A t \in Drainers : held[t].job = k => held'[t] # NoHandle /\ held'[t].job = k
    BY <1>2, <1>4, HandleTypes DEF PoolInv
  <2>2. \A l \in DOMAIN queue : queue[l].job = k => \E m \in DOMAIN queue' : queue'[m].job = k
    BY <1>5, <1>8
  <2>3. k > submitted => k > submitted'
    BY <1>2
  <2>4. submitted' \in Nat
    BY <1>2, <1>4
  <2> QED BY <1>2, <1>6, <2>1, <2>2, <2>3, <2>4, BoardKept
<1>9. BoardStatus' = [BoardStatus EXCEPT ![j] = "cancelled"]
  BY <1>4, <1>7, <1>8, BoardPut
<1>10. Board!Withdraw(j)
  BY <1>7, <1>9 DEF Board!Withdraw
<1> QED BY <1>4, <1>10

\* drainCompleted() is Collect.
LEMMA BoardCollect ==
    ASSUME NEW H, HandleSet(H), PoolInv(H), PoolInv(H)', BoardFacts, BoardFacts', CollectCompleted
    PROVE  Board!Collect
<1>1. /\ submitted' = submitted /\ queue' = queue /\ held' = held
      /\ collected' = [j \in Jobs |->
           collected[j] + (IF \E h \in ToSet(completed) : h.job = j THEN 1 ELSE 0)]
  BY DEF CollectCompleted, DrainCompleted, drainVars
<1>2. submitted \in Nat /\ \A k \in Jobs : k # 0
  BY HandleTypes DEF PoolInv
<1>3. ASSUME NEW j \in Jobs
      PROVE  BoardStatus'[j] = IF BoardStatus[j] \in Board!Ended THEN "collected"
                               ELSE BoardStatus[j]
  <2>1. CASE \E i \in DOMAIN completed : completed[i].job = j
    <3>1. PICK i \in DOMAIN completed : completed[i].job = j
      BY <2>1
    <3>2. BoardStatus[j] \in Board!Ended
      BY <3>1 DEF BoardFacts, Board!Ended
    <3>3. collected[j] = 0 /\ \E h \in ToSet(completed) : h.job = j
      BY <3>1 DEF PoolInv, PlaceInv, Exclusive, ToSet
    <3>4. collected'[j] = 1
      BY <1>1, <3>3
    <3>5. BoardStatus'[j] = "collected"
      BY <3>4 DEF BoardFacts
    <3> QED BY <3>2, <3>5
  <2>2. CASE ~\E i \in DOMAIN completed : completed[i].job = j
    <3>1. BoardStatus[j] \notin Board!Ended
      BY <2>2, BoardInverse DEF Board!Ended
    <3>2. collected[j] \in {0, 1} /\ \A h \in ToSet(completed) : h.job # j
      BY <2>2 DEF PoolInv, PlaceInv, CollectedOnce, ToSet
    <3>3. collected'[j] = collected[j]
      BY <1>1, <3>2
    <3>4. \A t \in Drainers : held[t].job = j => held'[t] # NoHandle /\ held'[t].job = j
      BY <1>1, <1>2, HandleTypes DEF PoolInv
    <3>5. submitted' \in Nat /\ (j > submitted => j > submitted')
      BY <1>1, <1>2
    <3>6. BoardStatus'[j] = BoardStatus[j]
      BY <1>1, <2>2, <3>3, <3>4, <3>5, BoardKept
    <3> QED BY <3>1, <3>6
  <2> QED BY <2>1, <2>2
<1>4. BoardStatus' = [j \in Jobs |-> BoardStatus'[j]]
  BY DEF BoardFacts
<1>5. BoardStatus' = [j \in Jobs |-> IF BoardStatus[j] \in Board!Ended THEN "collected"
                                     ELSE BoardStatus[j]]
  BY <1>3, <1>4
<1> QED BY <1>5 DEF Board!Collect, Board!Jobs, Jobs

\* tryDequeue() is Start of the lowest number that is pending.
LEMMA BoardStart ==
    ASSUME NEW H, HandleSet(H), PoolInv(H), BoardFacts, BoardFacts',
           NEW t \in Drainers, TakeNext(t)
    PROVE  \E j \in Jobs : Board!Start(j)
<1> DEFINE j == queue[1].job
<1>1. /\ queue # <<>> /\ 1 \in DOMAIN queue
      /\ queue' = Tail(queue) /\ UNCHANGED <<completed, submitted, collected>>
  BY Taken DEF PoolInv
<1>2. PICK g \in H : g.job = j /\ g.state = "Running" /\ held' = [held EXCEPT ![t] = g]
  BY Taken DEF PoolInv
<1>3. queue \in Seq(H) /\ held \in [Drainers -> H \cup {NoHandle}] /\ pc[t] = "next"
  BY DEF PoolInv, PoolTypeOK, TakeNext
<1>4. /\ j \in Jobs /\ submitted \in Nat /\ \A k \in Jobs : k \in Nat \ {0}
      /\ held[t] = NoHandle /\ NoHandle.job = 0 /\ NoHandle \notin H
      /\ \A i \in DOMAIN queue : queue[i].job \in Nat
  BY <1>1, <1>3, HandleTypes DEF PoolInv, PlaceInv, Holding
<1>5. \A u \in Drainers : held'[u] = IF u = t THEN g ELSE held[u]
  BY <1>2, <1>3
<1>6. DOMAIN queue = 1 .. Len(queue) /\ Len(queue) \in Nat
  BY <1>3, LenProperties
<1>7. \A l \in DOMAIN queue : queue[l].job # j => \E k \in DOMAIN queue' : queue'[k] = queue[l]
  <2> TAKE l \in DOMAIN queue
  <2> HAVE queue[l].job # j
  <2>1. l # 1
    OBVIOUS
  <2>2. l \in Nat /\ l - 1 \in Nat /\ l - 1 >= 1 /\ (l - 1) + 1 = l
    BY <1>6, <2>1
  <2>3. l - 1 \in DOMAIN queue' /\ queue'[l - 1] = queue[l]
    BY <1>1, <1>3, <2>2, TailFacts
  <2> QED BY <2>3
<1>8. BoardStatus[j] = "pending"
  BY <1>1 DEF BoardFacts
<1>9. BoardStatus'[j] = "running"
  <2>1. held'[t] # NoHandle /\ held'[t].job = j
    BY <1>2, <1>4, <1>5
  <2> QED BY <2>1 DEF BoardFacts
<1>10. ASSUME NEW k \in Jobs, k # j PROVE BoardStatus'[k] = BoardStatus[k]
  <2>1. \A u \in Drainers : held[u].job = k => held'[u] # NoHandle /\ held'[u].job = k
    BY <1>4, <1>5, HandleTypes DEF PoolInv
  <2>2. \A l \in DOMAIN queue : queue[l].job = k => \E m \in DOMAIN queue' : queue'[m].job = k
    BY <1>7, <1>10
  <2>3. k > submitted => k > submitted'
    BY <1>1
  <2>4. submitted' \in Nat
    BY <1>1, <1>4
  <2> QED BY <1>1, <2>1, <2>2, <2>3, <2>4, BoardKept
<1>11. BoardStatus' = [BoardStatus EXCEPT ![j] = "running"]
  BY <1>4, <1>9, <1>10, BoardPut
<1>12. ASSUME NEW k \in Jobs, k < j PROVE BoardStatus[k] # "pending"
  <2>1. \A i \in DOMAIN queue : queue[i].job >= j
    BY <1>1, <1>4, <1>6 DEF PoolInv, PlaceInv, QueueAscends
  <2>2. ~\E i \in DOMAIN queue : queue[i].job = k
    BY <1>4, <1>12, <2>1
  <2> QED BY <2>2, BoardInverse
<1>13. Board!Start(j)
  BY <1>8, <1>11, <1>12 DEF Board!Start, Board!Jobs, Jobs
<1> QED BY <1>4, <1>13

\* complete() after a run is Finish.
LEMMA BoardFinish ==
    ASSUME NEW H, HandleSet(H), PoolInv(H), BoardFacts, BoardFacts',
           NEW t \in Drainers, PublishResult(t)
    PROVE  \E j \in Jobs : Board!Finish(j)
<1> DEFINE j == held[t].job
<1>1. /\ pc[t] = "returned" /\ completed' = Append(completed, held[t])
      /\ held' = [held EXCEPT ![t] = NoHandle]
      /\ UNCHANGED <<queue, submitted, collected>>
  BY DEF PublishResult, Complete
<1>2. completed \in Seq(H) /\ held \in [Drainers -> H \cup {NoHandle}]
  BY DEF PoolInv, PoolTypeOK
<1>3. /\ held[t] # NoHandle /\ held[t].state # "Cancelled" /\ held[t] \in H
      /\ j \in Jobs /\ submitted \in Nat /\ \A k \in Jobs : k # 0
  BY <1>1, HandleTypes DEF PoolInv, PlaceInv, Holding
<1>4. \A u \in Drainers : held'[u] = IF u = t THEN NoHandle ELSE held[u]
  BY <1>1, <1>2
<1>5. /\ \A k \in DOMAIN completed : k \in DOMAIN completed' /\ completed'[k] = completed[k]
      /\ \E k \in DOMAIN completed' : completed'[k] = held[t]
  <2>1. /\ Len(completed) \in Nat /\ DOMAIN completed = 1 .. Len(completed)
        /\ DOMAIN completed' = 1 .. Len(completed) + 1
        /\ \A k \in DOMAIN completed : completed'[k] = completed[k]
        /\ completed'[Len(completed) + 1] = held[t]
    BY <1>1, <1>2, <1>3, AppendFacts
  <2> QED BY <2>1
<1>6. BoardStatus[j] = "running" /\ BoardStatus'[j] = "done"
  BY <1>3, <1>5 DEF BoardFacts
<1>7. ASSUME NEW k \in Jobs, k # j PROVE BoardStatus'[k] = BoardStatus[k]
  <2>1. \A u \in Drainers : held[u].job = k => held'[u] # NoHandle /\ held'[u].job = k
    <3>1. \A u \in Drainers : held[u].job = k => held[u] # NoHandle /\ u # t
      BY <1>3, <1>7, HandleTypes DEF PoolInv
    <3> QED BY <1>4, <3>1
  <2>2. submitted' \in Nat /\ (k > submitted => k > submitted')
    BY <1>1, <1>3
  <2> QED BY <1>1, <1>5, <2>1, <2>2, BoardKept
<1>8. BoardStatus' = [BoardStatus EXCEPT ![j] = "done"]
  BY <1>3, <1>6, <1>7, BoardPut
<1>9. Board!Finish(j)
  BY <1>6, <1>8 DEF Board!Finish
<1> QED BY <1>3, <1>9

\* The other steps do not move a job.
LEMMA BoardStutter ==
    ASSUME NEW H, HandleSet(H), PoolInv(H), BoardFacts, BoardFacts', NEW t \in Drainers,
           \/ StartDrain(t) \/ NothingToRun(t) \/ Works(t, H) \/ EndOfBatch(t)
    PROVE  BoardStatus' = BoardStatus
<1>1. UNCHANGED <<queue, completed, submitted, collected>>
  BY DEF StartDrain, NothingToRun, Works, EndOfBatch, queueVars
<1>2. held \in [Drainers -> H \cup {NoHandle}]
  BY DEF PoolInv, PoolTypeOK
<1>3. /\ submitted \in Nat /\ \A k \in Jobs : k # 0
      /\ \A u \in Drainers : held[u].job = 0 <=> held[u] = NoHandle
      /\ \A h \in H : h # NoHandle
  BY HandleTypes DEF PoolInv
<1>4. \/ held' = held
      \/ \E h \in H : h.job = held[t].job /\ held' = [held EXCEPT ![t] = h]
  BY DEF StartDrain, NothingToRun, Works, EndOfBatch
<1>5. \A u \in Drainers : held[u] # NoHandle =>
        held'[u] # NoHandle /\ held'[u].job = held[u].job
  BY <1>2, <1>3, <1>4
<1>6. ASSUME NEW k \in Jobs PROVE BoardStatus'[k] = BoardStatus[k]
  <2>1. \A u \in Drainers : held[u].job = k => held'[u] # NoHandle /\ held'[u].job = k
    BY <1>3, <1>5
  <2>2. submitted' \in Nat /\ (k > submitted => k > submitted')
    BY <1>1, <1>3
  <2> QED BY <1>1, <2>1, <2>2, BoardKept
<1> QED BY <1>6, BoardSame

\* A step of the pool is a step of the board.
LEMMA BoardStep ==
    ASSUME NEW H, HandleSet(H), PoolInv(H), PoolInv(H)', BoardFacts, BoardFacts', PoolStepOf(H)
    PROVE  [Board!Next]_BoardStatus
<1>1. CASE UNCHANGED poolVars
  BY <1>1 DEF poolVars, BoardStatus, StatusOf, Places
<1>2. CASE \E t \in Drainers : Drains(t, H)
  BY <1>2, BoardStart, BoardFinish, BoardStutter DEF Drains, Board!Next, Board!Jobs, Jobs
<1>3. CASE Admits(H) \/ CancelQueued \/ CollectCompleted
  BY <1>3, BoardAdmit, BoardWithdraw, BoardCollect DEF Board!Next, Board!Jobs, Jobs
<1> QED BY <1>1, <1>2, <1>3 DEF PoolStepOf

\* What a thread finds when its drainAll() returns.
LEMMA AllDrained ==
    ASSUME NEW H, HandleSet(H), PoolInv(H), PoolStepOf(H), NEW t \in Drainers,
           pc[t] # "idle", pc'[t] = "idle"
    PROVE  \A h \in ToSet(queue) : h.job > upto[t]
<1>1. pc \in [Drainers -> {"idle", "next", "taken", "running", "returned"}]
  BY DEF PoolInv, PoolTypeOK
<1>2. EndOfBatch(t) /\ batch[t] = 0
  <2>1. pc' # pc
    OBVIOUS
  <2>2. ~(Admits(H) \/ CancelQueued \/ CollectCompleted \/ UNCHANGED poolVars)
    BY <2>1 DEF Admits, NewJob, CancelQueued, CollectCompleted, poolVars, drainVars
  <2>3. PICK u \in Drainers : Drains(u, H)
    BY <2>2 DEF PoolStepOf
  <2>4. \/ EndOfBatch(u) /\ batch[u] = 0 /\ pc' = [pc EXCEPT ![u] = "idle"]
        \/ pc' = pc
        \/ \E p \in {"next", "taken", "running", "returned"} : pc' = [pc EXCEPT ![u] = p]
    BY <2>3 DEF Drains, StartDrain, TakeNext, NothingToRun, Works, PublishResult, EndOfBatch
  <2>5. EndOfBatch(u) /\ batch[u] = 0 /\ pc' = [pc EXCEPT ![u] = "idle"]
    BY <1>1, <2>1, <2>4
  <2>6. u = t
    BY <1>1, <2>5
  <2> QED BY <2>5, <2>6
<1>3. worker[t] > 1
  <2>1. WorkerCount[t] \in Nat \ {0} /\ worker[t] \in Nat /\ worker[t] > WorkerCount[t]
    BY <1>2, PoolAssumption DEF EndOfBatch, PoolInv, PoolTypeOK
  <2> QED BY <2>1
<1>4. \A i \in DOMAIN queue : queue[i].job > upto[t]
  BY <1>2, <1>3 DEF PoolInv, DrainInv
<1> QED BY <1>4 DEF ToSet

============================================================================
