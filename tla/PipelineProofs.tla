--------------------------- MODULE PipelineProofs ---------------------------
(* For any number of workers, ingesters, features and answers: what stays     *)
(* true of Pipeline whatever fails or dies, and what does while no call fails. *)
EXTENDS Pipeline, IngestProofs, SequenceTheorems

USE DEF JobId, FileId, VersionId

\* The worker has a job that was handed out, and what it still has to write is
\* the end of an answer.
Rest(w, a, n) == n \in 1 .. Len(a) + 1 /\ rest[w] = SubSeq(a, n, Len(a))

WorkerTypes ==
  /\ features \subseteq Feature
  /\ at \in [Workers -> Places]
  /\ batch \in [Workers -> SUBSET JobId]
  /\ job \in [Workers -> JobId \cup {0}]
  /\ rest \in [Workers -> Seq(Feature)]
  /\ \A w \in Workers : OnJob(w) <=> job[w] # 0
  /\ \A w \in Workers : at[w] = "poll" => batch[w] = {}
  /\ \A w \in Workers : job[w] \notin batch[w]
  /\ \A w \in Workers : Held(w) \subseteq 1 .. lastId

\* What a worker has written of the answer it got.
Progress(w) ==
  /\ at[w] \in {"create", "link", "enqueue", "mark", "complete"} => versions[Target(w)].summary
  /\ \E a \in Answers, n \in Nat :
       /\ Rest(w, a, n)
       /\ at[w] \in {"create", "link", "enqueue", "mark", "complete"} =>
            \A k \in 1 .. n - 1 : a[k] \in junctions[Target(w)]
       /\ at[w] = "summary" => n = 1
       /\ at[w] \in {"create", "link"} => n <= Len(a)
       /\ at[w] \in {"enqueue", "mark", "complete"} => n = Len(a) + 1
  /\ at[w] \in {"mark", "complete"} => EntityJobsOf(Target(w)) # {}

PInv ==
  /\ TInv /\ TargetsExist /\ WorkerTypes
  /\ \A w \in Workers : Progress(w)

-----------------------------------------------------------------------------
\* The end of an answer, and how a step shortens it.
LEMMA RestFacts ==
  ASSUME NEW a \in Answers, NEW n \in 1 .. Len(a) + 1
  PROVE  /\ a \in Seq(Feature) /\ Len(a) \in Nat /\ DOMAIN a = 1 .. Len(a)
         /\ SubSeq(a, n, Len(a)) \in Seq(Feature)
         /\ SubSeq(a, n, Len(a)) = <<>> <=> n = Len(a) + 1
         /\ n <= Len(a) => /\ Head(SubSeq(a, n, Len(a))) = a[n]
                           /\ Tail(SubSeq(a, n, Len(a))) = SubSeq(a, n + 1, Len(a))
                           /\ a[n] \in Feature
<1>1. a \in Seq(Feature) /\ Len(a) \in Nat /\ DOMAIN a = 1 .. Len(a) /\ n \in Nat
  BY PipelineAssumption
<1>2. \A k \in n .. Len(a) : a[k] \in Feature
  BY <1>1
<1>3. /\ SubSeq(a, n, Len(a)) \in Seq(Feature)
      /\ Len(SubSeq(a, n, Len(a))) = IF n <= Len(a) THEN Len(a) - n + 1 ELSE 0
  BY <1>1, <1>2, SubSeqProperties
<1>4. SubSeq(a, n, Len(a)) = <<>> <=> n = Len(a) + 1
  <2>1. PICK s : s = SubSeq(a, n, Len(a))
    OBVIOUS
  <2>2. s = <<>> <=> Len(s) = 0
    BY <1>3, <2>1, EmptySeq
  <2> QED
    BY <1>1, <1>3, <2>1, <2>2
<1>5. ASSUME n <= Len(a)
      PROVE  /\ Head(SubSeq(a, n, Len(a))) = a[n]
             /\ Tail(SubSeq(a, n, Len(a))) = SubSeq(a, n + 1, Len(a))
  BY <1>1, <1>5, HeadTailOfSubSeq
<1> QED
  BY <1>1, <1>2, <1>3, <1>4, <1>5

\* Nothing is left to write of an answer that is not there.
LEMMA NothingLeft ==
  \E a \in Answers, n \in Nat : n \in 1 .. Len(a) + 1 /\ <<>> = SubSeq(a, n, Len(a))
<1>1. PICK a \in Answers : TRUE
  BY PipelineAssumption
<1>2. Len(a) \in Nat /\ Len(a) + 1 \in 1 .. Len(a) + 1
  BY PipelineAssumption
<1> QED
  BY <1>1, <1>2, RestFacts

LEMMA PInit == Init => PInv
<1> SUFFICES ASSUME Init PROVE PInv
  OBVIOUS
<1>1. TInv /\ TargetsExist
  <2>1. lastId = 0
    BY DEF Init, IngestInit, QueueInit
  <2> QED
    BY <2>1, TypesInit DEF Init, TargetsExist
<1>2. WorkerTypes
  BY DEF Init, WorkerTypes, OnJob, Held, Places
<1>3. ASSUME NEW w \in Workers PROVE Progress(w)
  <2>1. at[w] = "poll" /\ rest[w] = <<>>
    BY DEF Init
  <2> QED
    BY <2>1, NothingLeft DEF Progress, Rest
<1> QED
  BY <1>1, <1>2, <1>3 DEF PInv

\* The worker's job and its target are there.
LEMMA JobThere ==
  ASSUME PInv, NEW w \in Workers, OnJob(w)
  PROVE  /\ job[w] \in JobId /\ job[w] \in 1 .. lastId
         /\ Target(w) \in DOMAIN versions /\ Target(w) \in VersionId
<1>1. job[w] \in JobId /\ job[w] \in 1 .. lastId
  BY DEF PInv, WorkerTypes, Held
<1>2. Target(w) \in DOMAIN versions
  BY <1>1 DEF PInv, TargetsExist, Target
<1>3. DOMAIN versions \subseteq VersionId
  BY VersionsSeq, VersionStoreAssumption DEF PInv, TInv, IngestTypeOK
<1> QED
  BY <1>1, <1>2, <1>3

\* What a version has got it keeps.
Kept(v) ==
  /\ versions[v].summary => versions'[v].summary
  /\ junctions[v] \subseteq junctions'[v]
  /\ EntityJobsOf(v) # {} => \E j \in 1 .. lastId' : work'[j] = EntityJob(v).work

\* The target of a job that a worker stays on is the same, and keeps what it has.
LEMMA TargetStable ==
  ASSUME PInv, Grown, NEW w \in Workers, OnJob(w), job'[w] = job[w]
  PROVE  Target(w)' = Target(w) /\ Kept(Target(w))
<1>1. PICK v : v = Target(w) /\ v \in DOMAIN versions /\ v \in VersionId
  BY JobThere
<1>2. Target(w)' = v
  BY <1>1, JobThere DEF Target, Grown
<1>3. EntityJobsOf(v) # {} => \E j \in 1 .. lastId' : work'[j] = EntityJob(v).work
  <2>1. \A j \in 1 .. lastId : j \in 1 .. lastId' /\ work'[j] = work[j]
    BY DEF Grown
  <2> QED
    BY <2>1 DEF EntityJobsOf
<1>4. /\ versions[v].summary => versions'[v].summary
      /\ junctions[v] \subseteq junctions'[v]
  BY <1>1 DEF Grown
<1> QED
  BY <1>1, <1>2, <1>3, <1>4 DEF Kept

\* A worker that does not move keeps its progress.
LEMMA ProgressStable ==
  ASSUME PInv, Grown, NEW w \in Workers,
         at'[w] = at[w], job'[w] = job[w], rest'[w] = rest[w]
  PROVE  Progress(w)'
<1> USE DEF PInv
<1>1. Progress(w)
  OBVIOUS
<1>2. CASE ~OnJob(w)
  BY <1>1, <1>2 DEF Progress, Rest, OnJob
<1>3. CASE OnJob(w)
  <2>1. PICK v : v = Target(w) /\ Target(w)' = v /\ Kept(v)
    BY <1>3, TargetStable
  <2>2. EntityJobsOf(v) # {} => EntityJobsOf(Target(w))' # {}
    BY <2>1 DEF Kept, EntityJobsOf, EntityJob
  <2> QED
    BY <1>1, <2>1, <2>2 DEF Progress, Rest, Kept
<1> QED
  BY <1>2, <1>3

-----------------------------------------------------------------------------
(* The steps of a worker.                                                     *)

\* The others do not move, and the worker's own variables keep their types.
Alone(w) ==
  \A x \in Workers \ {w} : /\ at'[x] = at[x] /\ batch'[x] = batch[x]
                           /\ job'[x] = job[x] /\ rest'[x] = rest[x]

LEMMA WorkerMoves ==
  ASSUME PInv, NEW w \in Workers, WorkerStep(w) \/ Crash(w)
  PROVE  Alone(w) /\ (lastId <= lastId' /\ lastId' \in Nat => WorkerTypes')
<1> USE DEF PInv
<1>0. lastId \in Nat /\ lastId <= MaxId /\ MaxId \in Nat
  BY MaxIdAssumption DEF TInv, IngestTypeOK, QueueTypeOK
<1>1. Alone(w)
  BY DEF Alone, WorkerTypes, WorkerStep, Claim, Take, EndBatch, Answer, Summarise, CreateFeature,
         LinkFeature, EnqueueEntity, MarkCompleted, Complete, Errs, Fail, FailRefused,
         Crash, Goto, LeaveJob
<1>2. /\ at' \in [Workers -> Places]
      /\ batch' \in [Workers -> SUBSET JobId]
      /\ job' \in [Workers -> JobId \cup {0}]
  <2>1. CASE Claim(w) \/ Take(w) \/ EndBatch(w) \/ Crash(w)
    <3>1. NextBatch(BatchLimit) \subseteq JobId
      BY DEF NextBatch, WithStatus
    <3>2. CASE Claim(w)
      <4>1. /\ batch' = [batch EXCEPT ![w] = NextBatch(BatchLimit)]
            /\ at' = [at EXCEPT ![w] = "loop"] /\ job' = job
        BY <3>2 DEF Claim
      <4>2. /\ at \in [Workers -> Places] /\ batch \in [Workers -> SUBSET JobId]
            /\ job \in [Workers -> JobId \cup {0}]
        BY DEF WorkerTypes
      <4>3. batch' \in [Workers -> SUBSET JobId]
        BY <3>1, <4>1, <4>2
      <4>4. "loop" \in Places
        BY DEF Places
      <4>5. at' \in [Workers -> Places]
        BY <4>1, <4>2, <4>4
      <4>6. job' \in [Workers -> JobId \cup {0}]
        BY <4>1, <4>2
      <4> QED
        BY <4>3, <4>5, <4>6
    <3>3. CASE Take(w)
      BY <3>3 DEF WorkerTypes, Take, Places
    <3>4. CASE EndBatch(w) \/ Crash(w)
      BY <3>4 DEF WorkerTypes, EndBatch, Crash, Places
    <3> QED
      BY <2>1, <3>2, <3>3, <3>4
  <2>2. CASE Answer(w) \/ Summarise(w) \/ CreateFeature(w) \/ LinkFeature(w)
             \/ EnqueueEntity(w) \/ MarkCompleted(w) \/ Errs(w)
    BY <2>2 DEF WorkerTypes, Answer, Summarise, CreateFeature, LinkFeature, EnqueueEntity,
                MarkCompleted, Errs, Goto, AfterFeature, Places
  <2>3. CASE Complete(w) \/ Fail(w) \/ FailRefused(w)
    BY <2>3 DEF WorkerTypes, Complete, Fail, FailRefused, LeaveJob, Places
  <2> QED
    BY <2>1, <2>2, <2>3 DEF WorkerStep
<1>3. features' \subseteq Feature /\ rest' \in [Workers -> Seq(Feature)]
  <2>1. PICK a \in Answers, n \in Nat :
          /\ Rest(w, a, n)
          /\ at[w] \in {"create", "link"} => n <= Len(a)
    BY DEF Progress
  <2>2. /\ at[w] \in {"create", "link"} => Head(rest[w]) \in Feature
        /\ at[w] \in {"create", "link"} => Tail(rest[w]) \in Seq(Feature)
    <3>1. Len(a) \in Nat /\ n \in 1 .. Len(a) + 1
      BY <2>1, PipelineAssumption DEF Rest
    <3>2. n <= Len(a) => n + 1 \in 1 .. Len(a) + 1
      BY <3>1
    <3>3. n <= Len(a) => /\ Head(SubSeq(a, n, Len(a))) = a[n] /\ a[n] \in Feature
                         /\ Tail(SubSeq(a, n, Len(a))) = SubSeq(a, n + 1, Len(a))
      BY <3>1, RestFacts
    <3>4. n <= Len(a) => SubSeq(a, n + 1, Len(a)) \in Seq(Feature)
      BY <3>2, RestFacts
    <3>5. rest[w] = SubSeq(a, n, Len(a))
      BY <2>1 DEF Rest
    <3>6. n <= Len(a) => Head(rest[w]) \in Feature /\ Tail(rest[w]) \in Seq(Feature)
      BY <3>3, <3>4, <3>5, Zenon
    <3> QED
      BY <2>1, <3>6, Zenon
  <2>3. <<>> \in Seq(Feature) /\ Answers \subseteq Seq(Feature)
    BY PipelineAssumption
  <2>4. CASE Answer(w) \/ CreateFeature(w) \/ LinkFeature(w) \/ Summarise(w)
    BY <2>2, <2>3, <2>4 DEF WorkerTypes, Answer, CreateFeature, LinkFeature, Summarise
  <2>5. CASE Claim(w) \/ Take(w) \/ EndBatch(w) \/ EnqueueEntity(w) \/ MarkCompleted(w)
    BY <2>5 DEF WorkerTypes, Claim, Take, EndBatch, EnqueueEntity, MarkCompleted
  <2>6. CASE Complete(w) \/ Fail(w) \/ FailRefused(w) \/ Errs(w) \/ Crash(w)
    BY <2>3, <2>6 DEF WorkerTypes, Complete, Fail, FailRefused, Errs, Crash, LeaveJob
  <2> QED
    BY <2>4, <2>5, <2>6 DEF WorkerStep
<1>4. /\ OnJob(w)' <=> job'[w] # 0
      /\ at'[w] = "poll" => batch'[w] = {}
      /\ job'[w] \notin batch'[w]
      /\ Held(w)' \subseteq 1 .. lastId
  <2>1. CASE Claim(w)
    <3>1. batch'[w] \subseteq 1 .. lastId /\ batch'[w] \subseteq JobId
      BY <2>1, ClaimKeeps DEF Claim, WorkerTypes, TInv, IngestTypeOK, NextBatch, WithStatus
    <3> QED
      BY <2>1, <3>1 DEF Claim, WorkerTypes, OnJob, Held
  <2>2. CASE Take(w)
    BY <2>2 DEF Take, WorkerTypes, OnJob, Held
  <2>3. CASE EndBatch(w) \/ Crash(w)
    BY <2>3 DEF EndBatch, Crash, WorkerTypes, OnJob, Held
  <2>4. CASE Answer(w) \/ Summarise(w) \/ CreateFeature(w) \/ LinkFeature(w)
             \/ EnqueueEntity(w) \/ MarkCompleted(w) \/ Errs(w)
    <3>1. UNCHANGED <<batch, job>> /\ OnJob(w) /\ OnJob(w)'
      BY <2>4 DEF WorkerTypes, Answer, Summarise, CreateFeature, LinkFeature, EnqueueEntity,
                  MarkCompleted, Errs, Refused, Goto, AfterFeature, OnJob
    <3> QED
      BY <3>1 DEF WorkerTypes, OnJob, Held
  <2>5. CASE Complete(w) \/ Fail(w) \/ FailRefused(w)
    <3>1. /\ batch' = batch /\ at'[w] = "loop" /\ job'[w] = 0
      BY <2>5 DEF Complete, Fail, FailRefused, LeaveJob, WorkerTypes
    <3> QED
      BY <3>1 DEF WorkerTypes, OnJob, Held
  <2> QED
    BY <2>1, <2>2, <2>3, <2>4, <2>5 DEF WorkerStep
<1>5. ASSUME lastId <= lastId', lastId' \in Nat
      PROVE  WorkerTypes'
  <2>1. 1 .. lastId \subseteq 1 .. lastId'
    BY <1>0, <1>5
  <2>2. ASSUME NEW x \in Workers \ {w}
        PROVE  /\ OnJob(x)' <=> job'[x] # 0
               /\ at'[x] = "poll" => batch'[x] = {}
               /\ job'[x] \notin batch'[x]
               /\ Held(x)' \subseteq 1 .. lastId
    BY <1>1, <2>2 DEF Alone, WorkerTypes, OnJob, Held
  <2> QED
    BY <1>2, <1>3, <1>4, <2>1, <2>2 DEF WorkerTypes
<1> QED
  BY <1>1, <1>5

LEMMA EntityRow ==
  ASSUME NEW v \in VersionId
  PROVE  /\ EntityJob(v).work.target = v /\ <<EntityJob(v)>> \in Seq(JobRow)
         /\ Len(<<EntityJob(v)>>) = 1 /\ <<EntityJob(v)>>[1] = EntityJob(v)
<1>1. EntityJob(v) \in JobRow
  BY PipelineAssumption DEF EntityJob, JobRow
<1> QED
  BY <1>1 DEF EntityJob

\* The job of the next stage gets the next id.
LEMMA EntityEnqueued ==
  ASSUME QueueTypeOK, NEW v \in VersionId, Enqueue(<<EntityJob(v)>>)
  PROVE  /\ QueueTypeOK' /\ lastId' = lastId + 1
         /\ \A j \in 1 .. lastId : work'[j] = work[j] /\ status'[j] = status[j]
         /\ work'[lastId + 1] = EntityJob(v).work /\ status'[lastId + 1] = "pending"
         /\ lastId + 1 \in JobId /\ lastId + 1 \in 1 .. lastId'
<1>1. PICK new \in Seq(JobRow) : new = <<EntityJob(v)>> /\ Len(new) = 1 /\ new[1] = EntityJob(v)
  BY EntityRow
<1>2. lastId \in Nat
  BY MaxIdAssumption DEF QueueTypeOK
<1>3. /\ QueueTypeOK' /\ lastId' = lastId + Len(new)
      /\ \A j \in 1 .. lastId : work'[j] = work[j] /\ status'[j] = status[j]
      /\ \A j \in InsertedBy(new) : work'[j] = new[j - lastId].work /\ status'[j] = "pending"
  <2>1. Enqueue(new)
    BY <1>1
  <2> QED
    BY <2>1, EnqueueKeeps
<1>4. PICK k : k = lastId + 1
  OBVIOUS
<1>5. Len(new) = 1 /\ new[1] = EntityJob(v)
  BY <1>1
<1>6. k \in InsertedBy(new) /\ k - lastId = 1
  BY <1>2, <1>4, <1>5 DEF InsertedBy
<1>7. work'[k] = new[k - lastId].work /\ status'[k] = "pending"
  BY <1>3, <1>6
<1>8. k \in JobId /\ k \in 1 .. lastId'
  BY <1>2, <1>3, <1>4, <1>5, MaxIdAssumption DEF QueueTypeOK
<1> QED
  BY <1>3, <1>4, <1>5, <1>6, <1>7, <1>8

LEMMA WorkerWrites ==
  ASSUME PInv, NEW w \in Workers, WorkerStep(w) \/ Crash(w)
  PROVE  TInv' /\ TargetsExist' /\ Grown
<1> USE DEF PInv
<1>1. /\ QueueTypeOK /\ StoreTypeOK /\ lastId \in Nat
      /\ versions \in Seq(VersionRow) /\ junctions \in [VersionId -> SUBSET Feature]
  BY MaxIdAssumption DEF TInv, IngestTypeOK, QueueTypeOK, StoreTypeOK
<1>2. ASSUME QueueTypeOK', StoreTypeOK', UNCHANGED <<files, disk, ingesterVars>>
      PROVE  TInv'
  BY <1>2 DEF TInv, IngestTypeOK, RowFound, ingesterVars
<1>3. ASSUME UNCHANGED <<lastId, work, versions, junctions>>
      PROVE  TargetsExist' /\ Grown
  BY <1>1, <1>3 DEF TargetsExist, Grown
<1>4. ASSUME UNCHANGED storeVars PROVE StoreTypeOK'
  BY <1>1, <1>4 DEF StoreTypeOK, storeVars
<1>5. ASSUME UNCHANGED queueVars PROVE QueueTypeOK'
  BY <1>1, <1>5 DEF QueueTypeOK, queueVars
<1>6. CASE UNCHANGED ingestVars
  BY <1>2, <1>3, <1>4, <1>5, <1>6 DEF ingestVars, storeVars, queueVars
<1>7. CASE Claim(w) \/ MarkCompleted(w) \/ Complete(w) \/ Fail(w)
  <2>1. UNCHANGED <<storeVars, disk, ingesterVars>>
    BY <1>7 DEF Claim, MarkCompleted, Complete, Fail
  <2>2. QueueTypeOK' /\ UNCHANGED <<lastId, work>>
    <3>1. CASE Claim(w)
      BY <1>1, <3>1, ClaimKeeps DEF Claim
    <3>2. CASE MarkCompleted(w)
      <4>1. job[w] \in JobId /\ UpdateStatus(job[w], "completed") /\ "completed" \in Statuses
        BY <3>2, JobThere DEF MarkCompleted, OnJob, Statuses
      <4> QED
        BY <1>1, <4>1, UpdateStatusKeeps
    <3>3. CASE Complete(w)
      <4>1. job[w] \in JobId /\ CompleteJob(job[w], <<>>)
        BY <3>3, JobThere DEF Complete, OnJob
      <4> QED
        BY <1>1, <4>1, CompleteKeeps
    <3>4. CASE Fail(w)
      <4>1. /\ job[w] \in JobId /\ status[job[w]] # "absent"
            /\ FailJob(job[w], retryCount[job[w]])
        BY <3>4, JobThere DEF Fail, OnJob
      <4> QED
        BY <1>1, <4>1, FailKeeps
    <3> QED
      BY <1>7, <3>1, <3>2, <3>3, <3>4
  <2> QED
    BY <1>2, <1>3, <1>4, <2>1, <2>2 DEF storeVars
<1>8. CASE EnqueueEntity(w)
  <2>1. PICK v \in VersionId : v = Target(w) /\ v \in DOMAIN versions
    BY <1>8, JobThere DEF EnqueueEntity, OnJob
  <2>2. Enqueue(<<EntityJob(v)>>) /\ UNCHANGED <<storeVars, disk, ingesterVars>>
    BY <1>8, <2>1 DEF EnqueueEntity
  <2>3. /\ QueueTypeOK' /\ lastId' = lastId + 1
        /\ \A j \in 1 .. lastId : work'[j] = work[j]
    BY <1>1, <2>2, EntityEnqueued
  <2>4. work'[lastId + 1].target = v
    BY <1>1, <2>2, EntityEnqueued, EntityRow
  <2>5. 1 .. lastId' = (1 .. lastId) \cup {lastId + 1}
    BY <1>1, <2>3
  <2>6. TargetsExist' /\ Grown
    <3>1. UNCHANGED <<files, versions, junctions>>
      BY <2>2 DEF storeVars
    <3>2. lastId' \in Nat /\ lastId <= lastId'
      BY <1>1, <2>3
    <3>3. TargetsExist'
      BY <2>1, <2>3, <2>4, <2>5, <3>1 DEF TargetsExist
    <3> QED
      BY <1>1, <2>3, <3>1, <3>2, <3>3 DEF Grown
  <2> QED
    BY <1>2, <1>4, <2>2, <2>3, <2>6 DEF storeVars
<1>9. CASE Summarise(w)
  <2>1. PICK v \in VersionId : v = Target(w) /\ v \in DOMAIN versions
    BY <1>9, JobThere DEF Summarise, OnJob
  <2>2. /\ versions' = [versions EXCEPT ![v].summary = TRUE]
        /\ UNCHANGED <<files, junctions, queueVars, disk, ingesterVars>>
    BY <1>9, <2>1 DEF Summarise, UpdateSummary
  <2>3. [versions[v] EXCEPT !.summary = TRUE] \in VersionRow
    BY <1>1, <2>1, VersionsSeq DEF VersionRow
  <2>4. /\ versions' \in Seq(VersionRow) /\ Len(versions') = Len(versions)
        /\ DOMAIN versions' = DOMAIN versions
    BY <1>1, <2>1, <2>2, <2>3, VersionsSeq
  <2>5. \A u \in DOMAIN versions : /\ versions'[u].file = versions[u].file
                                   /\ versions[u].summary => versions'[u].summary
    BY <1>1, <2>1, <2>2, VersionsSeq DEF VersionRow
  <2>6. StoreTypeOK'
    BY <1>1, <2>2, <2>4, <2>5 DEF StoreTypeOK
  <2>7. TargetsExist' /\ Grown
    BY <1>1, <2>2, <2>4, <2>5 DEF TargetsExist, Grown, queueVars
  <2> QED
    BY <1>2, <1>5, <2>2, <2>6, <2>7
<1>10. CASE LinkFeature(w)
  <2>1. PICK v \in VersionId : v = Target(w) /\ v \in DOMAIN versions
    BY <1>10, JobThere DEF LinkFeature, OnJob
  <2>2. PICK a \in Answers, n \in Nat : Rest(w, a, n) /\ n <= Len(a)
    BY <1>10 DEF LinkFeature, Progress
  <2>3. PICK feat \in Feature : feat = Head(rest[w])
    BY <2>2, RestFacts DEF Rest
  <2>4. /\ junctions' = [junctions EXCEPT ![v] = @ \cup {feat}]
        /\ UNCHANGED <<files, versions, queueVars, disk, ingesterVars>>
    BY <1>10, <2>1, <2>3 DEF LinkFeature, AddToFileVersion
  <2>5. v <= Len(versions) /\ Len(versions) \in Nat
    BY <1>1, <2>1, VersionsSeq
  <2>6. StoreTypeOK'
    <3>1. junctions' \in [VersionId -> SUBSET Feature]
      BY <1>1, <2>1, <2>3, <2>4
    <3>2. \A u \in VersionId : u > Len(versions) => u # v
      BY <2>5
    <3>3. \A u \in VersionId : u > Len(versions) => junctions'[u] = {}
      BY <1>1, <2>4, <3>2 DEF StoreTypeOK
    <3> QED
      BY <1>1, <2>4, <3>1, <3>3 DEF StoreTypeOK
  <2>7. TargetsExist' /\ Grown
    BY <1>1, <2>1, <2>4 DEF TargetsExist, Grown, queueVars
  <2> QED
    BY <1>2, <1>5, <2>4, <2>6, <2>7
<1>11. WorkerStep(w) \/ Crash(w) =>
         \/ UNCHANGED ingestVars
         \/ Claim(w) \/ MarkCompleted(w) \/ Complete(w) \/ Fail(w)
         \/ EnqueueEntity(w) \/ Summarise(w) \/ LinkFeature(w)
  BY DEF WorkerStep, Take, EndBatch, Answer, CreateFeature, Errs, FailRefused, Crash
<1> QED
  BY <1>6, <1>7, <1>8, <1>9, <1>10, <1>11

\* What the worker that moves has written of its answer.
LEMMA WorkerProgress ==
  ASSUME PInv, NEW w \in Workers, WorkerStep(w) \/ Crash(w), Grown
  PROVE  Progress(w)'
<1> USE DEF PInv
<1>1. PICK a \in Answers, n \in Nat :
        /\ Rest(w, a, n)
        /\ at[w] \in {"create", "link", "enqueue", "mark", "complete"} =>
             \A k \in 1 .. n - 1 : a[k] \in junctions[Target(w)]
        /\ at[w] = "summary" => n = 1
        /\ at[w] \in {"create", "link"} => n <= Len(a)
        /\ at[w] \in {"enqueue", "mark", "complete"} => n = Len(a) + 1
  BY DEF Progress
<1>2. /\ n \in 1 .. Len(a) + 1 /\ Len(a) \in Nat /\ a \in Seq(Feature)
      /\ rest[w] = SubSeq(a, n, Len(a))
      /\ rest[w] = <<>> <=> n = Len(a) + 1
      /\ n <= Len(a) => /\ Head(rest[w]) = a[n] /\ n + 1 \in 1 .. Len(a) + 1
                        /\ Tail(rest[w]) = SubSeq(a, n + 1, Len(a))
                        /\ Tail(rest[w]) = <<>> <=> n + 1 = Len(a) + 1
  <2>1. n \in 1 .. Len(a) + 1 /\ rest[w] = SubSeq(a, n, Len(a))
    BY <1>1 DEF Rest
  <2>2. Len(a) \in Nat /\ a \in Seq(Feature)
    BY PipelineAssumption
  <2>3. n <= Len(a) => n + 1 \in 1 .. Len(a) + 1
    BY <2>1, <2>2
  <2> QED
    BY <2>1, <2>2, <2>3, RestFacts
<1>3. CASE Claim(w) \/ Take(w) \/ EndBatch(w)
  <2>1. at'[w] \in {"loop", "dispatch", "poll"} /\ rest'[w] = rest[w]
    BY <1>3 DEF Claim, Take, EndBatch, WorkerTypes
  <2> QED
    BY <1>1, <2>1 DEF Progress, Rest
<1>4. CASE Complete(w) \/ Errs(w) \/ Fail(w) \/ FailRefused(w) \/ Crash(w)
  <2>1. at'[w] \in {"loop", "fail", "poll"} /\ rest'[w] = <<>>
    BY <1>4 DEF Complete, Errs, Fail, FailRefused, Crash, LeaveJob, Goto, WorkerTypes
  <2> QED
    BY <2>1, NothingLeft DEF Progress, Rest
<1>5. CASE Answer(w)
  <2>1. PICK b \in Answers : rest'[w] = b /\ at'[w] = "summary"
    BY <1>5 DEF Answer, Goto, WorkerTypes
  <2>2. b \in Seq(Feature) /\ Len(b) \in Nat /\ 1 \in 1 .. Len(b) + 1
    BY PipelineAssumption
  <2>3. SubSeq(b, 1, Len(b)) = b
    BY <2>2
  <2> QED
    BY <2>1, <2>2, <2>3 DEF Progress, Rest
<1>6. CASE Summarise(w) \/ CreateFeature(w) \/ LinkFeature(w) \/ EnqueueEntity(w)
           \/ MarkCompleted(w)
  <2>1. OnJob(w) /\ job'[w] = job[w]
    BY <1>6 DEF Summarise, CreateFeature, LinkFeature, EnqueueEntity, MarkCompleted, Goto, OnJob
  <2>2. PICK v : v = Target(w) /\ Target(w)' = v /\ Kept(v) /\ v \in DOMAIN versions /\ v \in VersionId
    BY <2>1, TargetStable, JobThere
  <2>3. /\ versions \in Seq(VersionRow) /\ junctions \in [VersionId -> SUBSET Feature]
    BY DEF TInv, IngestTypeOK, StoreTypeOK
  <2>4. CASE Summarise(w)
    <3>1. n = 1 /\ rest'[w] = rest[w] /\ at'[w] = AfterFeature(w)
      BY <1>1, <2>4 DEF Summarise, Goto, WorkerTypes
    <3>2. versions'[v].summary
      <4>1. versions' = [versions EXCEPT ![v].summary = TRUE]
        BY <2>2, <2>4 DEF Summarise, UpdateSummary
      <4>2. versions[v] \in VersionRow
        BY <2>2, <2>3
      <4>3. versions'[v] = [versions[v] EXCEPT !.summary = TRUE]
        BY <2>2, <2>3, <4>1
      <4> QED
        BY <4>2, <4>3 DEF VersionRow
    <3>3. IF n = Len(a) + 1 THEN at'[w] = "enqueue" ELSE at'[w] = "create" /\ n <= Len(a)
      BY <1>2, <3>1 DEF AfterFeature
    <3>4. 1 .. n - 1 = {}
      BY <3>1
    <3> QED
      BY <1>1, <2>2, <3>1, <3>2, <3>3, <3>4 DEF Progress, Rest
  <2>5. CASE CreateFeature(w)
    <3>1. rest'[w] = rest[w] /\ at'[w] = "link" /\ at[w] = "create" /\ versions[v].summary
      BY <1>1, <2>2, <2>5 DEF CreateFeature, Goto, WorkerTypes, Progress
    <3> QED
      BY <1>1, <2>2, <3>1 DEF Progress, Rest, Kept
  <2>6. CASE LinkFeature(w)
    <3>1. /\ rest'[w] = Tail(rest[w]) /\ at'[w] = AfterFeature(w)
          /\ at[w] = "link" /\ versions[v].summary /\ n <= Len(a)
      BY <1>1, <2>2, <2>6 DEF LinkFeature, Goto, WorkerTypes, Progress
    <3>2. a[n] \in junctions'[v]
      BY <1>2, <2>2, <2>3, <2>6, <3>1 DEF LinkFeature, AddToFileVersion
    <3>3. IF n + 1 = Len(a) + 1 THEN at'[w] = "enqueue" ELSE at'[w] = "create" /\ n + 1 <= Len(a)
      <4>1. rest'[w] = <<>> <=> n + 1 = Len(a) + 1
        BY <1>2, <3>1
      <4>2. IF rest'[w] = <<>> THEN at'[w] = "enqueue" ELSE at'[w] = "create"
        BY <3>1 DEF AfterFeature
      <4>3. n + 1 # Len(a) + 1 => n + 1 <= Len(a)
        BY <1>2, <3>1
      <4> QED
        BY <4>1, <4>2, <4>3
    <3>4. \A k \in 1 .. (n + 1) - 1 : a[k] \in junctions'[v]
      <4>1. \A k \in 1 .. (n + 1) - 1 : k \in 1 .. n - 1 \/ k = n
        OBVIOUS
      <4> QED
        BY <1>1, <2>2, <3>1, <3>2, <4>1 DEF Kept
    <3>5. Rest(w, a, n + 1)'
      BY <1>2, <3>1 DEF Rest
    <3> QED
      BY <2>2, <3>1, <3>3, <3>4, <3>5 DEF Progress, Kept
  <2>7. CASE EnqueueEntity(w)
    <3>1. /\ rest'[w] = rest[w] /\ at'[w] = "mark"
          /\ at[w] = "enqueue" /\ versions[v].summary /\ n = Len(a) + 1
      BY <1>1, <2>2, <2>7 DEF EnqueueEntity, Goto, WorkerTypes, Progress
    <3>2. EntityJobsOf(Target(w))' # {}
      <4>1. Enqueue(<<EntityJob(v)>>) /\ QueueTypeOK
        BY <2>2, <2>7 DEF EnqueueEntity, TInv, IngestTypeOK
      <4>2. work'[lastId + 1] = EntityJob(v).work /\ lastId + 1 \in 1 .. lastId'
        BY <2>2, <4>1, EntityEnqueued
      <4> QED
        BY <2>2, <4>2 DEF EntityJobsOf, EntityJob
    <3> QED
      BY <1>1, <2>2, <3>1, <3>2 DEF Progress, Rest, Kept
  <2>8. CASE MarkCompleted(w)
    <3>1. /\ rest'[w] = rest[w] /\ at'[w] = "complete"
          /\ at[w] = "mark" /\ versions[v].summary /\ n = Len(a) + 1
      BY <1>1, <2>2, <2>8 DEF MarkCompleted, Goto, WorkerTypes, Progress
    <3>2. EntityJobsOf(v) # {}
      BY <2>2, <3>1 DEF Progress
    <3>3. EntityJobsOf(Target(w))' # {}
      BY <2>2, <3>2 DEF Kept, EntityJobsOf, EntityJob
    <3> QED
      BY <1>1, <2>2, <3>1, <3>3 DEF Progress, Rest, Kept
  <2> QED
    BY <1>6, <2>4, <2>5, <2>6, <2>7, <2>8
<1> QED
  BY <1>3, <1>4, <1>5, <1>6 DEF WorkerStep

-----------------------------------------------------------------------------
(* What holds whatever fails.                                                 *)

LEMMA PStep == PInv /\ [Next]_vars => PInv'
<1> SUFFICES ASSUME PInv, [Next]_vars PROVE PInv'
  OBVIOUS
<1>1. CASE Ingestion \/ UNCHANGED vars
  <2>1. [IngestNext]_ingestVars /\ UNCHANGED <<features, at, batch, job, rest>>
    BY <1>1 DEF Ingestion, vars, workerVars
  <2>2. TInv'
    BY <2>1, TypesStep DEF PInv
  <2>3. TargetsExist' /\ Grown
    BY <2>1, IngestionGrows DEF PInv
  <2>4. WorkerTypes'
    <3>1. 1 .. lastId \subseteq 1 .. lastId'
      BY <2>3 DEF Grown
    <3> QED
      BY <2>1, <3>1 DEF PInv, WorkerTypes, OnJob, Held
  <2>5. \A w \in Workers : Progress(w)'
    BY <2>1, <2>3, ProgressStable
  <2> QED
    BY <2>2, <2>3, <2>4, <2>5 DEF PInv
<1>2. ASSUME NEW w \in Workers, WorkerStep(w) \/ Crash(w)
      PROVE  PInv'
  <2>1. TInv' /\ TargetsExist' /\ Grown
    BY <1>2, WorkerWrites
  <2>2. Alone(w) /\ WorkerTypes'
    BY <1>2, <2>1, WorkerMoves DEF Grown
  <2>3. \A x \in Workers : Progress(x)'
    BY <1>2, <2>1, <2>2, WorkerProgress, ProgressStable DEF Alone
  <2> QED
    BY <2>1, <2>2, <2>3 DEF PInv
<1> QED
  BY <1>1, <1>2 DEF Next

\* Type correctness of ingestion, queue and workers together; what a worker has
\* left to write is always the end of an answer.
THEOREM PipelineTypeCorrect == Spec => []TypeOK
<1>1. PInv => TypeOK
  <2> SUFFICES ASSUME PInv PROVE TypeOK
    OBVIOUS
  <2>1. ASSUME NEW w \in Workers
        PROVE  \E a \in Answers : \E n \in 1 .. Len(a) + 1 : rest[w] = SubSeq(a, n, Len(a))
    <3>1. PICK a \in Answers, n \in Nat : Rest(w, a, n)
      BY DEF PInv, Progress
    <3> QED
      BY <3>1 DEF Rest
  <2> QED
    BY <2>1 DEF PInv, TInv, WorkerTypes, TypeOK
<1> QED
  BY PInit, PStep, <1>1, PTL DEF Spec

-----------------------------------------------------------------------------
(* What a worker's step does to the rows that are there and to what it holds. *)

SameBut(S) == \A k \in 1 .. lastId : k \notin S => status'[k] = status[k]

Claims(w) ==
  /\ at[w] = "poll" /\ Held(w) = {}
  /\ \A k \in Held(w)' : status[k] = "pending" /\ status'[k] = "processing"
  /\ SameBut(Held(w)') /\ lastId' = lastId

Works(w) ==
  /\ Held(w)' = Held(w)
  /\ at[w] = "complete" => MayFail
  /\ SameBut({}) /\ \A k \in 1 .. lastId' : k \in 1 .. lastId \/ status'[k] = "pending"

Marks(w) ==
  /\ job[w] \in Held(w) /\ Held(w)' = Held(w)
  /\ at[w] = "mark" /\ at'[w] = "complete" /\ job'[w] = job[w]
  /\ status'[job[w]] = IF status[job[w]] = "absent" THEN "absent" ELSE "completed"
  /\ SameBut({job[w]}) /\ lastId' = lastId

Leaves(w) ==
  /\ job[w] \in Held(w) /\ Held(w)' = Held(w) \ {job[w]}
  /\ at[w] \in {"complete", "fail"}
  /\ status'[job[w]] \in {"absent", "pending", "failed"}
  /\ at[w] = "fail" => status'[job[w]] # "absent"
  /\ at[w] = "complete" => status'[job[w]] = "absent"
  /\ SameBut({job[w]}) /\ lastId' = lastId

Drops(w) ==
  /\ FailRefused(w)
  /\ job[w] \in Held(w) /\ Held(w)' = Held(w) \ {job[w]}
  /\ SameBut({}) /\ lastId' = lastId

Crashes(w) == Crash(w) /\ Held(w)' = {} /\ SameBut({}) /\ lastId' = lastId

Effect(w) == Claims(w) \/ Works(w) \/ Marks(w) \/ Leaves(w) \/ Drops(w) \/ Crashes(w)

LEMMA WorkerEffects ==
  ASSUME PInv, NEW w \in Workers, WorkerStep(w) \/ Crash(w)
  PROVE  Effect(w)
<1>1. /\ QueueTypeOK /\ lastId \in Nat /\ WorkerTypes
  BY MaxIdAssumption DEF PInv, TInv, IngestTypeOK, QueueTypeOK
<1>2. 1 .. lastId \subseteq JobId
  BY <1>1, MaxIdAssumption DEF QueueTypeOK
<1>3. CASE Claim(w)
  <2>1. at[w] = "poll" /\ Held(w) = {} /\ Held(w)' = NextBatch(BatchLimit)
    BY <1>1, <1>3 DEF Claim, Held, OnJob, WorkerTypes
  <2>2. /\ lastId' = lastId
        /\ \A k \in JobId \ NextBatch(BatchLimit) : status'[k] = status[k]
        /\ \A k \in NextBatch(BatchLimit) : status[k] = "pending" /\ status'[k] = "processing"
    BY <1>1, <1>3, ClaimKeeps DEF Claim
  <2>3. Claims(w)
    BY <1>2, <2>1, <2>2 DEF Claims, SameBut
  <2> QED
    BY <2>3 DEF Effect
<1>4. CASE Take(w) \/ EndBatch(w) \/ Answer(w) \/ Summarise(w) \/ CreateFeature(w)
           \/ LinkFeature(w) \/ Errs(w)
  <2>1. status' = status /\ lastId' = lastId
    BY <1>4 DEF Take, EndBatch, Answer, Summarise, CreateFeature, LinkFeature, Errs,
                ingestVars, queueVars
  <2>2. at[w] = "complete" => MayFail
    BY <1>4 DEF Take, EndBatch, Answer, Summarise, CreateFeature, LinkFeature, Errs, Refused
  <2>3. Held(w)' = Held(w)
    <3>1. CASE Take(w)
      BY <1>1, <3>1 DEF Take, WorkerTypes, Held, OnJob
    <3>2. CASE EndBatch(w)
      BY <1>1, <3>2 DEF EndBatch, WorkerTypes, Held, OnJob
    <3>3. CASE Answer(w) \/ Summarise(w) \/ CreateFeature(w) \/ LinkFeature(w) \/ Errs(w)
      <4>1. UNCHANGED <<batch, job>> /\ OnJob(w) /\ OnJob(w)'
        BY <1>1, <3>3 DEF WorkerTypes, Answer, Summarise, CreateFeature, LinkFeature, Errs,
                          Refused, Goto, AfterFeature, OnJob
      <4> QED
        BY <4>1 DEF Held
    <3> QED
      BY <1>4, <3>1, <3>2, <3>3
  <2>4. Works(w)
    BY <2>1, <2>2, <2>3 DEF Works, SameBut
  <2> QED
    BY <2>4 DEF Effect
<1>5. CASE EnqueueEntity(w)
  <2>1. OnJob(w) /\ OnJob(w)' /\ UNCHANGED <<batch, job>> /\ at[w] = "enqueue"
    BY <1>1, <1>5 DEF EnqueueEntity, Goto, OnJob, WorkerTypes
  <2>2. /\ lastId' = lastId + 1 /\ status'[lastId + 1] = "pending"
        /\ \A k \in 1 .. lastId : status'[k] = status[k]
    <3>1. PICK v \in VersionId : v = Target(w)
      BY <2>1, JobThere
    <3> QED
      BY <1>1, <1>5, <3>1, EntityEnqueued DEF EnqueueEntity
  <2>3. \A k \in 1 .. lastId' : k \in 1 .. lastId \/ status'[k] = "pending"
    <3>1. \A k \in 1 .. lastId' : k \in 1 .. lastId \/ k = lastId + 1
      BY <1>1, <2>2
    <3> QED
      BY <2>2, <3>1
  <2>4. Works(w)
    BY <2>1, <2>2, <2>3 DEF Works, SameBut, Held
  <2> QED
    BY <2>4 DEF Effect
<1>6. CASE MarkCompleted(w)
  <2>1. /\ OnJob(w) /\ OnJob(w)' /\ UNCHANGED <<batch, job>>
        /\ at[w] = "mark" /\ at'[w] = "complete"
    BY <1>1, <1>6 DEF MarkCompleted, Goto, OnJob, WorkerTypes
  <2>2. job[w] \in JobId
    BY <2>1, JobThere
  <2>3. /\ lastId' = lastId
        /\ \A k \in JobId \ {job[w]} : status'[k] = status[k]
        /\ status'[job[w]] = IF status[job[w]] = "absent" THEN "absent" ELSE "completed"
    <3>1. UpdateStatus(job[w], "completed") /\ "completed" \in Statuses
      BY <1>6 DEF MarkCompleted, Statuses
    <3> QED
      BY <1>1, <2>2, <3>1, UpdateStatusKeeps
  <2>4. Marks(w)
    BY <1>2, <2>1, <2>3 DEF Marks, SameBut, Held
  <2> QED
    BY <2>4 DEF Effect
<1>7. CASE Complete(w) \/ Fail(w)
  <2>1. /\ OnJob(w) /\ batch' = batch /\ at'[w] = "loop"
        /\ at[w] \in {"complete", "fail"} /\ job[w] \notin batch[w]
    BY <1>1, <1>7 DEF Complete, Fail, LeaveJob, OnJob, WorkerTypes
  <2>2. job[w] \in JobId
    BY <2>1, JobThere
  <2>3. job[w] \in Held(w) /\ Held(w)' = Held(w) \ {job[w]}
    BY <2>1 DEF Held, OnJob
  <2>4. /\ lastId' = lastId
        /\ \A k \in JobId \ {job[w]} : status'[k] = status[k]
        /\ status'[job[w]] \in {"absent", "pending", "failed"}
        /\ at[w] = "fail" => status'[job[w]] # "absent"
        /\ at[w] = "complete" => status'[job[w]] = "absent"
    <3>1. CASE Complete(w)
      <4>1. CompleteJob(job[w], <<>>) /\ at[w] = "complete"
        BY <3>1 DEF Complete
      <4> QED
        BY <1>1, <2>2, <4>1, CompleteKeeps
    <3>2. CASE Fail(w)
      <4>1. FailJob(job[w], retryCount[job[w]]) /\ status[job[w]] # "absent" /\ at[w] = "fail"
        BY <3>2 DEF Fail
      <4> QED
        BY <1>1, <2>2, <4>1, FailKeeps
    <3> QED
      BY <1>7, <3>1, <3>2
  <2>5. Leaves(w)
    BY <1>2, <2>1, <2>3, <2>4 DEF Leaves, SameBut
  <2> QED
    BY <2>5 DEF Effect
<1>8. CASE FailRefused(w)
  <2>1. /\ OnJob(w) /\ batch' = batch /\ at'[w] = "loop" /\ job[w] \notin batch[w]
        /\ UNCHANGED <<lastId, status>>
    BY <1>1, <1>8 DEF FailRefused, LeaveJob, OnJob, WorkerTypes, ingestVars, queueVars
  <2>2. job[w] \in Held(w) /\ Held(w)' = Held(w) \ {job[w]}
    BY <2>1 DEF Held, OnJob
  <2>3. Drops(w)
    BY <1>8, <2>1, <2>2 DEF Drops, SameBut
  <2> QED
    BY <2>3 DEF Effect
<1>9. CASE Crash(w)
  <2>1. Crashes(w)
    BY <1>1, <1>9 DEF Crash, Crashes, SameBut, Held, OnJob, WorkerTypes, ingestVars, queueVars
  <2> QED
    BY <2>1 DEF Effect
<1> QED
  BY <1>3, <1>4, <1>5, <1>6, <1>7, <1>8, <1>9 DEF WorkerStep

\* The cases of a step: ingestion, which moves no worker, or one worker.
LEMMA StepCases ==
  ASSUME PInv, [Next]_vars
  PROVE  \/ OnlyResets /\ UNCHANGED <<at, batch, job>>
         \/ \E w \in Workers :
              /\ Effect(w)
              /\ \A x \in Workers \ {w} :
                   Held(x)' = Held(x) /\ at'[x] = at[x] /\ job'[x] = job[x]
<1>1. CASE Ingestion \/ UNCHANGED vars
  <2>1. [IngestNext]_ingestVars /\ UNCHANGED <<at, batch, job>>
    BY <1>1 DEF Ingestion, vars, workerVars
  <2> QED
    BY <2>1, IngestionGrows DEF PInv
<1>2. ASSUME NEW w \in Workers, WorkerStep(w) \/ Crash(w)
      PROVE  /\ Effect(w)
             /\ \A x \in Workers \ {w} :
                  Held(x)' = Held(x) /\ at'[x] = at[x] /\ job'[x] = job[x]
  <2>1. Effect(w)
    BY <1>2, WorkerEffects
  <2>2. Alone(w)
    BY <1>2, WorkerMoves
  <2>3. \A x \in Workers \ {w} :
          Held(x)' = Held(x) /\ at'[x] = at[x] /\ job'[x] = job[x]
    BY <2>2 DEF Alone, Held, OnJob
  <2> QED
    BY <2>1, <2>3
<1> QED
  BY <1>1, <1>2 DEF Next

\* Everything an overview job is for.
Extracted(v) ==
  /\ versions[v].summary
  /\ \E a \in Answers : \A n \in DOMAIN a : a[n] \in junctions[v]
  /\ EntityJobsOf(v) # {}

LEMMA ExtractedStays ==
  ASSUME PInv, Grown, NEW j \in 1 .. lastId, Extracted(work[j].target)
  PROVE  Extracted(work[j].target)'
<1>1. PICK v : v = work[j].target /\ v \in DOMAIN versions /\ v \in VersionId
  <2>1. DOMAIN versions \subseteq VersionId
    BY VersionsSeq, VersionStoreAssumption DEF PInv, TInv, IngestTypeOK
  <2> QED
    BY <2>1 DEF PInv, TargetsExist
<1>2. work'[j].target = v
  BY <1>1 DEF Grown
<1>3. Extracted(v)
  BY <1>1
<1>4. versions'[v].summary /\ junctions[v] \subseteq junctions'[v]
  BY <1>1, <1>3 DEF Extracted, Grown
<1>5. EntityJobsOf(v)' # {}
  <2>1. \A k \in 1 .. lastId : k \in 1 .. lastId' /\ work'[k] = work[k]
    BY DEF Grown
  <2> QED
    BY <1>3, <2>1 DEF Extracted, EntityJobsOf, EntityJob
<1>6. \E a \in Answers : \A n \in DOMAIN a : a[n] \in junctions'[v]
  BY <1>3, <1>4 DEF Extracted
<1> QED
  BY <1>2, <1>4, <1>5, <1>6 DEF Extracted, EntityJobsOf, EntityJob

LEMMA ExtractedAtEnd ==
  ASSUME PInv, NEW w \in Workers, at[w] = "complete"
  PROVE  Extracted(Target(w))
<1>1. PICK a \in Answers, n \in Nat :
        /\ n = Len(a) + 1
        /\ \A k \in 1 .. n - 1 : a[k] \in junctions[Target(w)]
  BY DEF PInv, Progress
<1>2. a \in Seq(Feature) /\ Len(a) \in Nat /\ DOMAIN a = 1 .. Len(a)
  BY PipelineAssumption
<1>3. \A k \in DOMAIN a : a[k] \in junctions[Target(w)]
  BY <1>1, <1>2
<1> QED
  BY <1>3 DEF PInv, Progress, Extracted

EInv == PInv /\ \A j \in OverviewJobs : status[j] = "absent" => Extracted(work[j].target)

\* Whatever fails, crashes or is reset, an overview job leaves the queue only
\* when its version has its summary, every feature of one answer, and the job of
\* the next stage.
THEOREM ExtractedBeforeGoneHolds == Spec => []ExtractedBeforeGone
<1>1. Init => EInv
  <2> SUFFICES ASSUME Init PROVE EInv
    OBVIOUS
  <2>1. lastId = 0
    BY DEF Init, IngestInit, QueueInit
  <2> QED
    BY <2>1, PInit DEF OverviewJobs, EInv
<1>2. EInv /\ [Next]_vars => EInv'
  <2> SUFFICES ASSUME EInv, [Next]_vars PROVE EInv'
    OBVIOUS
  <2>1. PInv /\ PInv'
    BY PStep DEF EInv
  <2>2. Grown
    <3>1. CASE Ingestion \/ UNCHANGED vars
      <4>1. [IngestNext]_ingestVars
        BY <3>1 DEF Ingestion, vars
      <4> QED
        BY <2>1, <4>1, IngestionGrows DEF PInv
    <3> QED
      BY <2>1, <3>1, WorkerWrites DEF Next
  <2>3. SUFFICES ASSUME NEW j \in 1 .. lastId', work'[j].stage = "level_1_overview",
                        status'[j] = "absent"
                 PROVE  Extracted(work[j].target)'
    BY <2>1 DEF OverviewJobs, EInv
  <2>4. /\ j \in 1 .. lastId
        /\ status[j] = "absent" \/ \E w \in Workers : at[w] = "complete" /\ job[w] = j
    <3>0. 1 .. lastId' \subseteq JobId
      BY <2>1, MaxIdAssumption DEF PInv, TInv, IngestTypeOK, QueueTypeOK
    <3>1. CASE OnlyResets
      <4>1. j \in 1 .. lastId
        BY <2>3, <3>1 DEF OnlyResets
      <4>2. status'[j] = status[j]
        BY <2>3, <3>0, <3>1 DEF OnlyResets
      <4> QED
        BY <2>3, <4>1, <4>2
    <3>2. ASSUME NEW w \in Workers, Effect(w)
          PROVE  /\ j \in 1 .. lastId
                 /\ status[j] = "absent" \/ (at[w] = "complete" /\ job[w] = j)
      <4>1. CASE Claims(w)
        BY <2>3, <4>1 DEF Claims, SameBut
      <4>2. CASE Works(w)
        BY <2>3, <4>2 DEF Works, SameBut
      <4>3. CASE Marks(w)
        BY <2>3, <4>3 DEF Marks, SameBut
      <4>4. CASE Leaves(w)
        BY <2>3, <4>4 DEF Leaves, SameBut
      <4>5. CASE Drops(w) \/ Crashes(w)
        BY <2>3, <4>5 DEF Drops, Crashes, SameBut
      <4> QED
        BY <3>2, <4>1, <4>2, <4>3, <4>4, <4>5 DEF Effect
    <3> QED
      BY <2>1, <3>1, <3>2, StepCases
  <2>5. work'[j] = work[j]
    BY <2>2, <2>4 DEF Grown
  <2>6. Extracted(work[j].target)
    <3>1. CASE status[j] = "absent"
      BY <2>3, <2>4, <2>5, <3>1 DEF OverviewJobs, EInv
    <3>2. ASSUME NEW w \in Workers, at[w] = "complete", job[w] = j
          PROVE  Extracted(work[j].target)
      BY <2>1, <3>2, ExtractedAtEnd DEF Target
    <3> QED
      BY <2>4, <3>1, <3>2
  <2> QED
    BY <2>1, <2>2, <2>4, <2>6, ExtractedStays
<1>3. EInv => ExtractedBeforeGone
  BY DEF EInv, ExtractedBeforeGone, Extracted
<1> QED
  BY <1>1, <1>2, <1>3, PTL DEF Spec

-----------------------------------------------------------------------------
(* While no call fails.                                                       *)

\* Between ProcessOverview's own status write and Complete.
Finishing(w, j) == job[w] = j /\ at[w] = "complete"

\* Two workers have the same job only if one is finishing it, and a job that is
\* held says processing, or is gone or parked, unless its worker is finishing it.
ShareInv ==
  /\ PInv
  /\ \A w, x \in Workers : \A j \in Held(w) \cap Held(x) :
       w # x => Finishing(w, j) \/ Finishing(x, j)
  /\ \A w \in Workers : \A j \in Held(w) :
       status[j] \in {"pending", "completed"} => Finishing(w, j)

LEMMA HeldRows ==
  ASSUME PInv
  PROVE  \A w \in Workers : Held(w) \subseteq 1 .. lastId /\ Held(w) \subseteq JobId
<1>1. 1 .. lastId \subseteq JobId
  BY MaxIdAssumption DEF PInv, TInv, IngestTypeOK, QueueTypeOK
<1> QED
  BY <1>1 DEF PInv, WorkerTypes

LEMMA ShareStep ==
  ASSUME ~MayFail, ShareInv, [Next]_vars
  PROVE  ShareInv'
<1>1. PInv /\ PInv'
  BY PStep DEF ShareInv
<1>2. CASE OnlyResets /\ UNCHANGED <<at, batch, job>>
  <2>1. \A w \in Workers : Held(w)' = Held(w) /\ \A j : Finishing(w, j)' <=> Finishing(w, j)
    BY <1>2 DEF Held, OnJob, Finishing
  <2>2. \A w \in Workers : \A j \in Held(w) :
          status'[j] \in {"pending", "completed"} => status[j] \in {"pending", "completed"}
    <3>1. \A w \in Workers : \A j \in Held(w) : j \in JobId /\ ~(j > lastId)
      <4>1. lastId \in Nat
        BY <1>1, MaxIdAssumption DEF PInv, TInv, IngestTypeOK, QueueTypeOK
      <4>2. \A j \in 1 .. lastId : ~(j > lastId)
        BY <4>1
      <4> QED
        BY <1>1, <4>2, HeldRows
    <3> QED
      BY <1>2, <3>1 DEF OnlyResets
  <2> QED
    BY <1>1, <2>1, <2>2 DEF ShareInv
<1>3. ASSUME NEW w \in Workers,
             \A x \in Workers \ {w} :
               Held(x)' = Held(x) /\ at'[x] = at[x] /\ job'[x] = job[x],
             Effect(w)
      PROVE  ShareInv'
  <2>1. \A x \in Workers \ {w} : Held(x)' = Held(x) /\ \A j : Finishing(x, j)' <=> Finishing(x, j)
    BY <1>3 DEF Finishing
  <2>2. \A x \in Workers : Held(x) \subseteq 1 .. lastId
    BY <1>1, HeldRows
  \* Of a job that somebody else keeps: the mover does not have it, or one of
  \* the two is finishing it.
  <2>3. ASSUME NEW x \in Workers \ {w}, NEW j \in Held(x)
        PROVE  /\ j \in Held(w)' => Finishing(x, j) \/ Finishing(w, j)'
               /\ status'[j] \in {"pending", "completed"} => Finishing(x, j)
    <3>1. /\ j \in 1 .. lastId
          /\ j \in Held(w) => Finishing(x, j) \/ Finishing(w, j)
          /\ status[j] \in {"pending", "completed"} => Finishing(x, j)
      BY <2>2, <2>3 DEF ShareInv
    <3>2. CASE Claims(w)
      BY <3>1, <3>2 DEF Claims, SameBut
    <3>3. CASE Works(w)
      BY <3>1, <3>3 DEF Works, SameBut, Finishing
    <3>4. CASE Marks(w)
      BY <3>1, <3>4 DEF Marks, SameBut, Finishing
    <3>5. CASE Leaves(w)
      BY <3>1, <3>5 DEF Leaves, SameBut, Finishing
    <3>6. CASE Drops(w) \/ Crashes(w)
      <4>1. status'[j] = status[j] /\ (j \in Held(w)' => j \in Held(w) /\ j # job[w])
        BY <3>1, <3>6 DEF Drops, Crashes, SameBut
      <4> QED
        BY <3>1, <4>1 DEF Finishing
    <3> QED
      BY <1>3, <3>2, <3>3, <3>4, <3>5, <3>6 DEF Effect
  <2>4. ASSUME NEW j \in Held(w)', status'[j] \in {"pending", "completed"}
        PROVE  Finishing(w, j)'
    <3>1. \A k \in Held(w) : k \in 1 .. lastId /\
            (status[k] \in {"pending", "completed"} => Finishing(w, k))
      BY <2>2 DEF ShareInv
    <3>2. CASE Claims(w)
      BY <2>4, <3>2 DEF Claims
    <3>3. CASE Works(w)
      BY <2>4, <3>1, <3>3 DEF Works, SameBut, Finishing
    <3>4. CASE Marks(w)
      BY <2>4, <3>1, <3>4 DEF Marks, SameBut, Finishing
    <3>5. CASE Leaves(w)
      BY <2>4, <3>1, <3>5 DEF Leaves, SameBut, Finishing
    <3>6. CASE Drops(w) \/ Crashes(w)
      <4>1. CASE Crashes(w)
        BY <2>4, <4>1 DEF Crashes
      <4>2. CASE Drops(w)
        <5>1. j \in Held(w) /\ j # job[w]
          BY <2>4, <4>2 DEF Drops
        <5>2. status'[j] = status[j] /\ at[w] = "fail"
          BY <3>1, <4>2, <5>1 DEF Drops, SameBut, FailRefused
        <5> QED
          BY <2>4, <3>1, <5>1, <5>2 DEF Finishing
      <4> QED
        BY <3>6, <4>1, <4>2
    <3> QED
      BY <1>3, <3>2, <3>3, <3>4, <3>5, <3>6 DEF Effect
  <2>5. ASSUME NEW x \in Workers, NEW y \in Workers, x # y,
               NEW j, j \in Held(x)', j \in Held(y)'
        PROVE  Finishing(x, j)' \/ Finishing(y, j)'
    <3>1. CASE x = w
      BY <2>1, <2>3, <2>5, <3>1
    <3>2. CASE y = w
      BY <2>1, <2>3, <2>5, <3>2
    <3>3. CASE x # w /\ y # w
      BY <2>1, <2>5, <3>3 DEF ShareInv
    <3> QED
      BY <3>1, <3>2, <3>3
  <2>6. ASSUME NEW x \in Workers, NEW j \in Held(x)', status'[j] \in {"pending", "completed"}
        PROVE  Finishing(x, j)'
    BY <2>1, <2>3, <2>4, <2>6
  <2> QED
    BY <1>1, <2>5, <2>6 DEF ShareInv
<1> QED
  BY <1>1, <1>2, <1>3, StepCases

\* While no call fails, and whoever dies, two workers have the same job only
\* while one of them is between its own status write and Complete.
THEOREM SharedOnlyAfterResetHolds ==
  ASSUME ~MayFail
  PROVE  Spec => []SharedOnlyAfterReset
<1>1. Init => ShareInv
  <2> SUFFICES ASSUME Init PROVE ShareInv
    OBVIOUS
  <2>1. \A w \in Workers : Held(w) = {}
    BY DEF Init, Held, OnJob
  <2> QED
    BY <2>1, PInit DEF ShareInv
<1>2. ShareInv /\ [Next]_vars => ShareInv'
  BY ShareStep
<1>3. ShareInv => SharedOnlyAfterReset
  BY DEF ShareInv, SharedOnlyAfterReset, Finishing
<1> QED
  BY <1>1, <1>2, <1>3, PTL DEF Spec

-----------------------------------------------------------------------------
(* How a job is stranded.                                                     *)

Strands ==
  \A j \in JobId : ~Limbo(j) /\ Limbo(j)' =>
    \E w \in Workers : j \in Held(w) /\ (FailRefused(w) \/ Crash(w))

LEMMA StrandStep ==
  ASSUME PInv, PInv', [Next]_vars
  PROVE  Strands
<1>1. SUFFICES ASSUME NEW j \in JobId, ~Limbo(j), Limbo(j)'
               PROVE  \E w \in Workers : j \in Held(w) /\ (FailRefused(w) \/ Crash(w))
  BY DEF Strands
<1>2. /\ status'[j] \in {"processing", "completed"}
      /\ \A w \in Workers : j \notin Held(w)'
      /\ status[j] \in {"processing", "completed"} => \E w \in Workers : j \in Held(w)
  BY <1>1 DEF Limbo
<1>3. j \in 1 .. lastId'
  <2>1. QueueTypeOK'
    BY DEF PInv, TInv, IngestTypeOK
  <2>2. ~(j > lastId') /\ lastId' \in Nat
    BY <1>2, <2>1, MaxIdAssumption DEF QueueTypeOK
  <2> QED
    BY <2>2
<1>4. CASE OnlyResets /\ UNCHANGED <<at, batch, job>>
  <2>1. status'[j] = status[j]
    BY <1>2, <1>3, <1>4 DEF OnlyResets
  <2>2. \A w \in Workers : Held(w)' = Held(w)
    BY <1>4 DEF Held, OnJob
  <2> QED
    BY <1>2, <2>1, <2>2
<1>5. ASSUME NEW w \in Workers, \A x \in Workers \ {w} : Held(x)' = Held(x), Effect(w)
      PROVE  j \in Held(w) /\ (FailRefused(w) \/ Crash(w))
  <2>1. (status'[j] = status[j]) => j \in Held(w)
    BY <1>2, <1>5
  <2>2. CASE Claims(w)
    BY <1>2, <1>3, <2>1, <2>2 DEF Claims, SameBut
  <2>3. CASE Works(w)
    BY <1>2, <1>3, <2>1, <2>3 DEF Works, SameBut
  <2>4. CASE Marks(w)
    BY <1>2, <1>3, <2>1, <2>4 DEF Marks, SameBut
  <2>5. CASE Leaves(w)
    BY <1>2, <1>3, <2>1, <2>5 DEF Leaves, SameBut
  <2>6. CASE Drops(w)
    BY <1>2, <1>3, <2>1, <2>6 DEF Drops, SameBut
  <2>7. CASE Crashes(w)
    BY <1>2, <1>3, <2>1, <2>7 DEF Crashes, SameBut
  <2> QED
    BY <1>5, <2>2, <2>3, <2>4, <2>5, <2>6, <2>7 DEF Effect
<1> QED
  BY <1>4, <1>5, StepCases

\* Whatever fails, is reset or dies, a row comes to say processing or completed
\* with no worker to answer for it only when the Fail of the worker that had it is
\* refused, or that worker dies.
THEOREM OnlyRefusalsStrandHolds == Spec => OnlyRefusalsStrand
<1>1. PInv /\ PInv' /\ [Next]_vars => [Strands]_vars
  BY StrandStep
<1>2. [][Strands]_vars <=> OnlyRefusalsStrand
  BY DEF Strands, OnlyRefusalsStrand
<1> QED
  BY PInit, PStep, <1>1, <1>2, PTL DEF Spec
=============================================================================
