--------------------------- MODULE JobQueueProofs ---------------------------
(* What the statements of JobQueue keep, for the modules that run them: the   *)
(* columns' types, the ids that were handed out, and all other rows.          *)
EXTENDS JobQueue, TLAPS

JobRow == [work : Work, priority : Nat]

USE DEF JobId, MaxRetries

\* EnqueueMany hands out fresh ids only: the columns keep their types, and no
\* row that was there is touched.
LEMMA EnqueueManyKeeps ==
  ASSUME QueueTypeOK, NEW new \in Seq(JobRow), EnqueueMany(new)
  PROVE  /\ lastId' \in 0 .. MaxId
         /\ lastId' >= lastId
         /\ work' \in [JobId -> Work]
         /\ priority' \in [JobId -> Nat]
         /\ retryCount' \in [JobId -> 0 .. MaxRetries]
         /\ InsertedBy(new) = lastId + 1 .. lastId'
         /\ \A j \in JobId : j \in InsertedBy(new) => retryCount'[j] = 0
         /\ \A j \in JobId : j \notin InsertedBy(new) => retryCount'[j] = retryCount[j]
<1>1. Len(new) \in Nat
  OBVIOUS
<1>2. lastId \in Nat /\ MaxId \in Nat /\ lastId <= MaxId
  BY MaxIdAssumption DEF QueueTypeOK
<1>3. lastId' = lastId + Len(new) /\ lastId' <= MaxId
  BY DEF EnqueueMany, InsertRows
<1>4. ASSUME NEW j \in JobId, j \in InsertedBy(new)
      PROVE  new[j - lastId] \in JobRow
  <2>1. j - lastId \in 1 .. Len(new)
    BY <1>1, <1>2, <1>4 DEF InsertedBy
  <2> QED
    BY <2>1
<1>5. work' \in [JobId -> Work]
  BY <1>4 DEF EnqueueMany, InsertRows, QueueTypeOK, JobRow
<1>6. priority' \in [JobId -> Nat]
  BY <1>4 DEF EnqueueMany, InsertRows, QueueTypeOK, JobRow
<1>7. retryCount' \in [JobId -> 0 .. MaxRetries]
  BY DEF EnqueueMany, InsertRows, QueueTypeOK
<1>8. InsertedBy(new) = lastId + 1 .. lastId'
  BY <1>3 DEF InsertedBy
<1>9. /\ \A j \in JobId : j \in InsertedBy(new) => retryCount'[j] = 0
      /\ \A j \in JobId : j \notin InsertedBy(new) => retryCount'[j] = retryCount[j]
  BY DEF EnqueueMany, InsertRows
<1> QED
  BY <1>1, <1>2, <1>3, <1>5, <1>6, <1>7, <1>8, <1>9

LEMMA NextBatchPending ==
  ASSUME NEW limit
  PROVE  NextBatch(limit) \subseteq WithStatus("pending")
BY DEF NextBatch

-----------------------------------------------------------------------------
\* An insert outside a transaction: new rows are pending, the others untouched.
LEMMA EnqueueKeeps ==
  ASSUME QueueTypeOK, NEW new \in Seq(JobRow), Enqueue(new)
  PROVE  /\ QueueTypeOK'
         /\ lastId' = lastId + Len(new)
         /\ \A j \in 1 .. lastId : work'[j] = work[j] /\ status'[j] = status[j]
         /\ \A j \in InsertedBy(new) : /\ work'[j] = new[j - lastId].work
                                       /\ status'[j] = "pending"
<1>1. /\ lastId \in Nat /\ MaxId \in Nat /\ Len(new) \in Nat /\ lastId <= MaxId
      /\ lastId' = lastId + Len(new) /\ lastId' <= MaxId
  BY MaxIdAssumption DEF QueueTypeOK, Enqueue, EnqueueMany, InsertRows
<1>2. EnqueueMany(new)
  BY DEF Enqueue
<1>3. InsertedBy(new) \subseteq JobId /\ \A j \in InsertedBy(new) : j > lastId /\ j <= lastId'
  BY <1>1 DEF InsertedBy
<1>4. status' = [j \in JobId |-> IF j \in InsertedBy(new) THEN "pending" ELSE status[j]]
  BY DEF Enqueue, Inserted
<1>5. /\ status' \in [JobId -> Statuses] /\ dlq' \in [JobId -> Nat]
      /\ \A j \in JobId : j > lastId' => status'[j] = "absent"
  <2>1. \A j \in JobId : j > lastId' => j > lastId /\ j \notin InsertedBy(new)
    BY <1>1, <1>3
  <2> QED
    BY <1>4, <2>1 DEF Enqueue, QueueTypeOK, Statuses
<1>6. QueueTypeOK'
  BY <1>2, <1>5, EnqueueManyKeeps DEF QueueTypeOK
<1>7. \A j \in 1 .. lastId : j \in JobId /\ j \notin InsertedBy(new)
  BY <1>1, <1>3
<1>8. \A j \in JobId : work'[j] = IF j \in InsertedBy(new) THEN new[j - lastId].work ELSE work[j]
  BY <1>2 DEF EnqueueMany, InsertRows
<1> QED
  BY <1>1, <1>3, <1>4, <1>6, <1>7, <1>8

LEMMA UpdateStatusKeeps ==
  ASSUME QueueTypeOK, NEW j \in JobId, NEW s \in Statuses, UpdateStatus(j, s)
  PROVE  /\ QueueTypeOK' /\ UNCHANGED <<lastId, work>>
         /\ \A k \in JobId \ {j} : status'[k] = status[k]
         /\ status'[j] = IF status[j] = "absent" THEN "absent" ELSE s
BY DEF QueueTypeOK, UpdateStatus

LEMMA ClaimKeeps ==
  ASSUME QueueTypeOK, NEW limit, ClaimBatch(NextBatch(limit))
  PROVE  /\ QueueTypeOK' /\ UNCHANGED <<lastId, work>>
         /\ \A k \in JobId \ NextBatch(limit) : status'[k] = status[k]
         /\ \A k \in NextBatch(limit) : /\ k \in 1 .. lastId
                                        /\ status[k] = "pending" /\ status'[k] = "processing"
<1>1. \A k \in NextBatch(limit) : k \in JobId /\ status[k] = "pending"
  BY NextBatchPending DEF WithStatus
<1>2. \A k \in NextBatch(limit) : k \in 1 .. lastId
  BY <1>1, MaxIdAssumption DEF QueueTypeOK
<1>3. status' = [k \in JobId |-> IF k \in NextBatch(limit) THEN "processing" ELSE status[k]]
  BY DEF ClaimBatch
<1>4. UNCHANGED <<lastId, work, priority, retryCount, dlq>>
  BY DEF ClaimBatch
<1>5. \A k \in JobId : k > lastId => k \notin NextBatch(limit)
  BY <1>1 DEF QueueTypeOK
<1>6. QueueTypeOK'
  BY <1>3, <1>4, <1>5 DEF QueueTypeOK, Statuses
<1> QED
  BY <1>1, <1>2, <1>3, <1>4, <1>6

\* Complete with an empty TxFunc: the row is deleted.
LEMMA CompleteKeeps ==
  ASSUME QueueTypeOK, NEW j \in JobId, CompleteJob(j, <<>>)
  PROVE  /\ QueueTypeOK' /\ UNCHANGED <<lastId, work>>
         /\ \A k \in JobId \ {j} : status'[k] = status[k]
         /\ status'[j] = "absent"
<1>1. lastId \in Nat /\ <<>> \in Seq(JobRow) /\ Len(<<>>) = 0 /\ InsertedBy(<<>>) = {}
  BY MaxIdAssumption DEF QueueTypeOK, InsertedBy
<1>2. EnqueueMany(<<>>)
  BY DEF CompleteJob
<1>3. lastId' = lastId /\ work' = work
  BY <1>1, <1>2 DEF EnqueueMany, InsertRows, QueueTypeOK
<1>4. status' = [status EXCEPT ![j] = "absent"] /\ dlq' = dlq
  BY <1>1 DEF CompleteJob, Inserted, QueueTypeOK
<1>5. QueueTypeOK'
  BY <1>1, <1>2, <1>3, <1>4, EnqueueManyKeeps DEF QueueTypeOK, Statuses
<1> QED
  BY <1>3, <1>4, <1>5 DEF QueueTypeOK

\* Fail on the count that is in the row.
LEMMA FailKeeps ==
  ASSUME QueueTypeOK, NEW j \in JobId, status[j] # "absent", FailJob(j, retryCount[j])
  PROVE  /\ QueueTypeOK' /\ UNCHANGED <<lastId, work>>
         /\ \A k \in JobId \ {j} : status'[k] = status[k]
         /\ status'[j] \in {"pending", "failed"}
<1>1. j <= lastId
  BY MaxIdAssumption DEF QueueTypeOK
<1>2. UNCHANGED <<lastId, work, priority>>
  BY DEF FailJob
<1>3. /\ dlq' \in [JobId -> Nat] /\ retryCount' \in [JobId -> 0 .. MaxRetries]
      /\ \E s \in {"pending", "failed"} : status' = [status EXCEPT ![j] = s]
  <2>1. CASE Exhausted(retryCount[j])
    BY <2>1 DEF FailJob, Bury, QueueTypeOK
  <2>2. CASE ~Exhausted(retryCount[j])
    <3>1. retryCount[j] + 1 \in 0 .. MaxRetries
      BY <2>2 DEF Exhausted, QueueTypeOK
    <3> QED
      BY <2>2, <3>1 DEF FailJob, Retry, QueueTypeOK
  <2> QED
    BY <2>1, <2>2
<1>4. QueueTypeOK'
  BY <1>1, <1>2, <1>3 DEF QueueTypeOK, Statuses
<1> QED
  BY <1>2, <1>3, <1>4 DEF QueueTypeOK
=============================================================================
