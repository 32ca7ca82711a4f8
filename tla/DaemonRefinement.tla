-------------------------- MODULE DaemonRefinement --------------------------
(* The daemons over the queue implement JobLifecycle, for every value of the  *)
(* constants: each step is a step of a job's abstract life, or changes none.  *)
EXTENDS DaemonProofs

USE DEF JobId, MaxRetries

AbstractLife == [j \in JobId |-> LifeOf(j)]

\* Two tables that agree on a row, its id handed out or not, give it one life.
LEMMA SameRowSameLife ==
  ASSUME NEW j \in JobId, status'[j] = status[j], (j <= lastId') <=> (j <= lastId),
         lastId \in Nat, lastId' \in Nat
  PROVE  LifeOf(j)' = LifeOf(j)
BY DEF LifeOf

\* An insert makes new jobs waiting, changes no other life and no retry count.
LEMMA InsertLives ==
  ASSUME IInv, NEW new \in Seq(JobRow), EnqueueMany(new)
  PROVE  /\ InsertedBy(new) = lastId + 1 .. lastId'
         /\ lastId \in Nat /\ lastId' \in Nat /\ lastId' >= lastId /\ lastId' <= MaxId
         /\ retryCount' = retryCount
         /\ \A j \in InsertedBy(new) : j \in JobId /\ LifeOf(j) = "new"
<1>1. QueueTypeOK
  BY DEF IInv, TypeOK
<1>2. /\ lastId' \in 0 .. MaxId /\ lastId' >= lastId
      /\ InsertedBy(new) = lastId + 1 .. lastId'
      /\ retryCount' \in [JobId -> 0 .. MaxRetries]
      /\ \A j \in JobId : j \in InsertedBy(new) => retryCount'[j] = 0
      /\ \A j \in JobId : j \notin InsertedBy(new) => retryCount'[j] = retryCount[j]
  BY <1>1, EnqueueManyKeeps
<1>3. lastId \in Nat /\ lastId' \in Nat /\ lastId' <= MaxId /\ MaxId \in Nat
  BY <1>1, <1>2, MaxIdAssumption DEF QueueTypeOK
<1>4. \A j \in InsertedBy(new) :
        j \in JobId /\ j > lastId /\ status[j] = "absent" /\ retryCount[j] = 0
  BY <1>1, <1>2, <1>3 DEF QueueTypeOK, IInv, Bookkeeping
<1>5. retryCount' = retryCount
  <2>1. retryCount \in [JobId -> 0 .. MaxRetries]
    BY <1>1 DEF QueueTypeOK
  <2>2. \A j \in JobId : retryCount'[j] = retryCount[j]
    BY <1>2, <1>4
  <2>3. /\ retryCount = [j \in JobId |-> retryCount[j]]
        /\ retryCount' = [j \in JobId |-> retryCount'[j]]
    BY <1>2, <2>1
  <2> QED
    BY <2>2, <2>3
<1>6. \A j \in InsertedBy(new) : LifeOf(j) = "new"
  BY <1>3, <1>4 DEF LifeOf
<1> QED
  BY <1>2, <1>3, <1>4, <1>5, <1>6

LEMMA InitLife == Init => Lifecycle!Init
<1> SUFFICES ASSUME Init PROVE Lifecycle!Init
  OBVIOUS
<1>1. \A j \in JobId : LifeOf(j) = "new"
  BY DEF Init, QueueInit, LifeOf
<1> QED
  BY <1>1 DEF Lifecycle!Init, Init, QueueInit

LEMMA SubmitLife ==
  ASSUME IInv, Submit PROVE \E S \in SUBSET JobId : Lifecycle!Submit(S)
<1>1. PICK job \in Submittable : Enqueue(<<job>>)
  BY DEF Submit
<1> DEFINE new == <<job>>
           S == InsertedBy(new)
<1>2. new \in Seq(JobRow) /\ EnqueueMany(new) /\ status' = Inserted(status, new)
  BY <1>1, RowsType, DaemonAssumption DEF JobRow, Enqueue
<1> HIDE DEF new
<1>3. /\ S = lastId + 1 .. lastId'
      /\ lastId \in Nat /\ lastId' \in Nat /\ lastId' >= lastId /\ lastId' <= MaxId
      /\ retryCount' = retryCount
      /\ \A j \in S : j \in JobId /\ LifeOf(j) = "new"
  BY <1>2, InsertLives
<1>4. \A j \in JobId : status'[j] = IF j \in S THEN "pending" ELSE status[j]
  BY <1>2 DEF Inserted
<1> HIDE DEF S
<1>5. ASSUME NEW j \in JobId
      PROVE  LifeOf(j)' = IF j \in S THEN "waiting" ELSE LifeOf(j)
  BY <1>3, <1>4, SameRowSameLife DEF LifeOf
<1>6. AbstractLife' = [j \in JobId |-> IF j \in S THEN "waiting" ELSE AbstractLife[j]]
  BY <1>5 DEF AbstractLife
<1>7. S \in SUBSET JobId /\ \A j \in S : AbstractLife[j] = "new"
  BY <1>3 DEF AbstractLife
<1>8. Lifecycle!Submit(S)
  BY <1>3, <1>6, <1>7 DEF Lifecycle!Submit, Lifecycle!AllAre, Lifecycle!Become, AbstractLife
<1> QED
  BY <1>7, <1>8

LEMMA ClaimLife ==
  ASSUME IInv, NEW d \in Daemons, Claim(d)
  PROVE  \E S \in SUBSET JobId : Lifecycle!Start(S)
<1> DEFINE S == NextBatch(BatchLimit)
<1>1. /\ ClaimBatch(S)
      /\ S \in SUBSET JobId /\ \A j \in S : status[j] = "pending"
  BY NextBatchPending DEF Claim, WithStatus
<1> HIDE DEF S
<1>2. /\ lastId' = lastId /\ retryCount' = retryCount
      /\ \A j \in JobId : status'[j] = IF j \in S THEN "processing" ELSE status[j]
  BY <1>1 DEF ClaimBatch
<1>3. ASSUME NEW j \in JobId
      PROVE  /\ LifeOf(j)' = IF j \in S THEN "running" ELSE LifeOf(j)
             /\ j \in S => LifeOf(j) = "waiting"
  BY <1>1, <1>2 DEF LifeOf
<1>4. AbstractLife' = [j \in JobId |-> IF j \in S THEN "running" ELSE AbstractLife[j]]
  BY <1>3 DEF AbstractLife
<1>5. \A j \in S : AbstractLife[j] = "waiting"
  BY <1>1, <1>3 DEF AbstractLife
<1>6. Lifecycle!Start(S)
  BY <1>2, <1>4, <1>5 DEF Lifecycle!Start, Lifecycle!AllAre, Lifecycle!Become, AbstractLife
<1> QED
  BY <1>1, <1>6

LEMMA CompleteLife ==
  ASSUME IInv, NEW d \in Daemons, CompleteOk(d)
  PROVE  \E j \in JobId, S \in SUBSET JobId : Lifecycle!Finish(j, S)
<1> DEFINE j == cur[d]
           new == Downstream(work[j])
           S == InsertedBy(new)
<1>1. /\ EnqueueMany(new)
      /\ status' = [Inserted(status, new) EXCEPT ![j] = "absent"]
  BY DEF CompleteOk, CompleteJob
<1>2. j \in JobId /\ status[j] = "processing" /\ j <= lastId
  BY DEF CompleteOk, IInv, TypeOK, QueueTypeOK, OnJob, Ownership, Held
<1>3. new \in Seq(JobRow)
  <2>1. [work |-> "ANALYZE_STYLE", priority |-> 5] \in JobRow
    BY DaemonAssumption DEF JobRow
  <2> QED
    BY <2>1 DEF Downstream
<1> HIDE DEF j, new
<1>4. /\ S = lastId + 1 .. lastId'
      /\ lastId \in Nat /\ lastId' \in Nat /\ lastId' >= lastId /\ lastId' <= MaxId
      /\ retryCount' = retryCount
      /\ \A k \in S : k \in JobId /\ LifeOf(k) = "new"
  BY <1>1, <1>3, InsertLives
<1>5. /\ status'[j] = "absent"
      /\ \A k \in JobId \ {j} : status'[k] = IF k \in S THEN "pending" ELSE status[k]
  BY <1>1, <1>2 DEF Inserted
<1> HIDE DEF S
<1>6. ASSUME NEW k \in JobId
      PROVE  LifeOf(k)' = IF k = j THEN "finished"
                          ELSE IF k \in S THEN "waiting" ELSE LifeOf(k)
  BY <1>2, <1>4, <1>5 DEF LifeOf
<1>7. LifeOf(j) = "running"
  BY <1>2 DEF LifeOf
<1>8. AbstractLife' = [[k \in JobId |-> IF k \in S THEN "waiting" ELSE AbstractLife[k]]
                        EXCEPT ![j] = "finished"]
  BY <1>2, <1>6 DEF AbstractLife
<1>9. S \in SUBSET JobId /\ \A k \in S : AbstractLife[k] = "new"
  BY <1>4 DEF AbstractLife
<1>10. Lifecycle!Finish(j, S)
  BY <1>2, <1>4, <1>7, <1>8, <1>9
     DEF Lifecycle!Finish, Lifecycle!AllAre, Lifecycle!Become, AbstractLife
<1> QED
  BY <1>2, <1>9, <1>10

LEMMA FailLife ==
  ASSUME IInv, NEW d \in Daemons, FailWrite(d)
  PROVE  \E j \in JobId : Lifecycle!GiveBack(j) \/ Lifecycle!Bury(j)
<1>0. PICK j \in JobId : j = cur[d]
  BY DEF FailWrite, IInv, TypeOK, OnJob
<1>1. /\ FailJob(j, seen[d]) /\ lastId' = lastId
      /\ status[j] = "processing" /\ seen[d] = retryCount[j]
  BY <1>0 DEF FailWrite, FailJob, IInv, TypeOK, OnJob, Ownership, Held, Bookkeeping
<1>2. /\ status \in [JobId -> Statuses]
      /\ retryCount \in [JobId -> 0 .. MaxRetries]
  BY DEF IInv, TypeOK, QueueTypeOK
<1>3. retryCount[j] \in 0 .. MaxRetries /\ LifeOf(j) = "running"
  BY <1>0, <1>1, <1>2 DEF LifeOf
<1>4. \A k \in JobId \ {j} : LifeOf(k)' = LifeOf(k)
  <2>1. \A k \in JobId \ {j} : status'[k] = status[k]
    BY <1>1, <1>2 DEF FailJob, Bury, Retry
  <2> QED
    BY <1>1, <2>1 DEF LifeOf
<1>5. CASE Exhausted(seen[d])
  <2>1. status'[j] = "failed" /\ retryCount' = retryCount /\ retryCount[j] = MaxRetries
    <3>1. Bury(j) /\ retryCount[j] = MaxRetries
      BY <1>1, <1>3, <1>5 DEF FailJob, Exhausted
    <3> QED
      BY <1>2, <3>1 DEF Bury
  <2>2. LifeOf(j)' = "buried"
    BY <2>1 DEF LifeOf
  <2>3. AbstractLife' = [k \in JobId |-> IF k \in {j} THEN "buried" ELSE AbstractLife[k]]
    BY <1>4, <2>2 DEF AbstractLife
  <2>4. Lifecycle!Bury(j)
    BY <1>1, <1>3, <2>1, <2>3 DEF Lifecycle!Bury, Lifecycle!Become, AbstractLife
  <2> QED
    BY <1>1, <2>4
<1>6. CASE ~Exhausted(seen[d])
  <2>1. /\ status'[j] = "pending" /\ retryCount[j] < MaxRetries
        /\ retryCount' = [retryCount EXCEPT ![j] = @ + 1]
    <3>1. Retry(j) /\ retryCount[j] < MaxRetries
      BY <1>1, <1>3, <1>6 DEF FailJob, Exhausted
    <3> QED
      BY <1>2, <3>1 DEF Retry
  <2>2. LifeOf(j)' = "waiting"
    BY <2>1 DEF LifeOf
  <2>3. AbstractLife' = [k \in JobId |-> IF k \in {j} THEN "waiting" ELSE AbstractLife[k]]
    BY <1>4, <2>2 DEF AbstractLife
  <2>4. Lifecycle!GiveBack(j)
    BY <1>1, <1>3, <2>1, <2>3 DEF Lifecycle!GiveBack, Lifecycle!Become, AbstractLife
  <2> QED
    BY <1>1, <2>4
<1> QED
  BY <1>5, <1>6

\* The other steps leave every job's life alone.
LEMMA OtherLife ==
  ASSUME IInv, UNCHANGED <<lastId, status, retryCount>>
  PROVE  UNCHANGED Lifecycle!lifeVars
BY DEF Lifecycle!lifeVars, LifeOf

\* A daemon implements JobLifecycle through crashes, restarts, late cleanups and
\* lost transactions: one processing at a time, follow-up jobs appear with the
\* finished one, four attempts at most, and a settled job is never touched.
THEOREM Implementation == Spec => ImplementsLifecycle
<1>1. Init => Lifecycle!Init
  BY InitLife
<1>2. IInv /\ [Next]_vars => [Lifecycle!Next]_(Lifecycle!lifeVars)
  <2> SUFFICES ASSUME IInv, [Next]_vars
               PROVE  Lifecycle!Next \/ UNCHANGED Lifecycle!lifeVars
    OBVIOUS
  <2>1. CASE UNCHANGED vars
    BY <2>1, OtherLife DEF vars, queueVars
  <2>2. CASE Submit
    BY <2>2, SubmitLife DEF Lifecycle!Next
  <2>3. CASE \E d \in Daemons : Cancel(d) \/ CleanupExpires(d) \/ Crash(d) \/ Restart(d)
    BY <2>3, OtherLife DEF Cancel, CleanupExpires, Crash, Restart, Reset, queueVars
  <2>4. ASSUME NEW d \in Daemons, DaemonStep(d)
        PROVE  Lifecycle!Next \/ UNCHANGED Lifecycle!lifeVars
    <3>1. CASE Claim(d)
      BY <3>1, ClaimLife DEF Lifecycle!Next
    <3>2. CASE CompleteOk(d)
      BY <3>2, CompleteLife DEF Lifecycle!Next
    <3>3. CASE FailWrite(d)
      BY <3>3, FailLife DEF Lifecycle!Next
    <3>4. CASE ~(Claim(d) \/ CompleteOk(d) \/ FailWrite(d))
      BY <2>4, <3>4, OtherLife
         DEF DaemonStep, Stop, Take, EndBatch, DispatchOk, DispatchFails,
             CompleteFails, FailRead, FailGivesUp, queueVars
    <3> QED
      BY <3>1, <3>2, <3>3, <3>4
  <2> QED
    BY <2>1, <2>2, <2>3, <2>4 DEF Next, Environment
<1> QED
  BY <1>1, <1>2, Invariance, PTL DEF Spec, ImplementsLifecycle, Lifecycle!Spec
=============================================================================
