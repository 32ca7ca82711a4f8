---------------------------- MODULE DaemonProofs ----------------------------
(* For any number of daemons, jobs and retained ids, and any choice of        *)
(* faults: IInv is inductive, and with it the safety properties of Daemon.    *)
EXTENDS Daemon, JobQueueProofs

USE DEF JobId, MaxRetries

-----------------------------------------------------------------------------
\* What a daemon or another process inserts is a short sequence of rows.
LEMMA WorkRow == [work |-> "ANALYZE_STYLE", priority |-> 5] \in JobRow
BY DaemonAssumption DEF JobRow

LEMMA RowsType ==
  ASSUME NEW job \in JobRow, NEW w
  PROVE  /\ <<job>> \in Seq(JobRow) /\ Len(<<job>>) = 1
         /\ Downstream(w) \in Seq(JobRow)
<1>1. <<job>> \in Seq(JobRow) /\ Len(<<job>>) = 1
  OBVIOUS
<1>2. Downstream(w) \in Seq(JobRow)
  BY WorkRow DEF Downstream
<1> QED
  BY <1>1, <1>2

-----------------------------------------------------------------------------
LEMMA InitInv == Init => IInv
<1> SUFFICES ASSUME Init PROVE IInv
  OBVIOUS
<1> USE DEF Init, QueueInit
<1>0. lastId \in 0 .. MaxId /\ (\A j \in JobId : j > lastId)
  BY MaxIdAssumption
<1>1. TypeOK
  <2>1. work \in [JobId -> Work]
    BY WorkAssumption
  <2> QED
    BY <1>0, <2>1 DEF TypeOK, QueueTypeOK, Statuses, PCs, OnJob
<1>2. Ownership
  BY DEF Ownership, Held, OnJob
<1>3. DeadLetterOnce /\ AttemptsCounted /\ EffectsOnce /\ Bookkeeping
  BY <1>0 DEF DeadLetterOnce, AttemptsCounted, EffectsOnce, Bookkeeping, OnJob
<1> QED
  BY <1>1, <1>2, <1>3 DEF IInv
-----------------------------------------------------------------------------
(* One lemma per kind of step.  First the steps that leave the tables alone.  *)

LEMMA QuietSteps ==
  ASSUME IInv, NEW d \in Daemons,
         \/ Stop(d) \/ EndBatch(d) \/ DispatchOk(d) \/ DispatchFails(d)
         \/ CompleteFails(d) \/ Cancel(d) \/ CleanupExpires(d)
         \/ FailGivesUp(d) \/ Crash(d) \/ Restart(d)
  PROVE  IInv'
<1> USE DEF IInv
<1>0. UNCHANGED <<queueVars, attempts, applied>>
  BY DEF Stop, EndBatch, DispatchOk, DispatchFails, CompleteFails, Cancel,
         CleanupExpires, FailGivesUp, Crash, Restart, Reset
<1>1. /\ \A e \in Daemons : todo'[e] = todo[e] \/ todo'[e] = {}
      /\ \A e \in Daemons : OnJob(e)' => OnJob(e) /\ cur'[e] = cur[e]
      /\ \A e \in Daemons :
           pc'[e] = "failWrite" => pc[e] = "failWrite" /\ seen'[e] = seen[e]
  BY DEF Stop, EndBatch, DispatchOk, DispatchFails, CompleteFails, Cancel,
         CleanupExpires, FailGivesUp, Crash, Restart, Reset, Goto, LeaveJob,
         OnJob, TypeOK
<1>2. TypeOK'
  <2>1. QueueTypeOK'
    BY <1>0 DEF TypeOK, QueueTypeOK, queueVars, WithStatus
  <2>2. /\ pc' \in [Daemons -> PCs]
        /\ todo' \in [Daemons -> SUBSET JobId]
        /\ cur' \in [Daemons -> JobId \cup {0}]
        /\ seen' \in [Daemons -> 0 .. MaxRetries]
    <3>1. CASE Stop(d) \/ EndBatch(d) \/ Cancel(d) \/ CleanupExpires(d)
      BY <3>1 DEF TypeOK, Stop, EndBatch, Cancel, CleanupExpires, PCs
    <3>2. CASE DispatchOk(d) \/ DispatchFails(d) \/ CompleteFails(d)
      BY <3>2 DEF TypeOK, DispatchOk, DispatchFails, CompleteFails, Goto, PCs
    <3>3. CASE FailGivesUp(d)
      BY <3>3 DEF TypeOK, FailGivesUp, LeaveJob, PCs
    <3>4. CASE Crash(d)
      BY <3>4 DEF TypeOK, Crash, Reset, PCs
    <3>5. CASE Restart(d)
      BY <3>5 DEF TypeOK, Restart, Reset, PCs
    <3> QED
      BY <3>1, <3>2, <3>3, <3>4, <3>5
  <2>3. /\ ctxDone' \in [Daemons -> BOOLEAN]
        /\ late' \in [Daemons -> BOOLEAN]
        /\ stale' \in [Daemons -> BOOLEAN]
    BY DEF TypeOK, Stop, EndBatch, DispatchOk, DispatchFails, CompleteFails, Cancel,
           CleanupExpires, FailGivesUp, Crash, Restart, Reset, Goto, LeaveJob
  <2>4. \A e \in Daemons : (OnJob(e) <=> cur[e] # 0)'
    BY DEF TypeOK, Stop, EndBatch, DispatchOk, DispatchFails, CompleteFails, Cancel,
           CleanupExpires, FailGivesUp, Crash, Restart, Reset, Goto, LeaveJob, OnJob
  <2>5. lost' \subseteq JobId
    <3>1. lost \subseteq JobId /\ Held(d) \subseteq JobId
      BY DEF TypeOK, Held
    <3>2. CASE FailGivesUp(d)
      <4>1. cur[d] \in JobId
        BY <3>2 DEF FailGivesUp, TypeOK, OnJob
      <4> QED
        BY <3>1, <3>2, <4>1 DEF FailGivesUp
    <3>3. CASE Crash(d)
      BY <3>1, <3>3 DEF Crash
    <3>4. CASE ~FailGivesUp(d) /\ ~Crash(d)
      BY <3>1, <3>4 DEF Stop, EndBatch, DispatchOk, DispatchFails, CompleteFails, Cancel,
                        CleanupExpires, Restart
    <3> QED
      BY <3>2, <3>3, <3>4
  <2> QED
    BY <1>0, <2>1, <2>2, <2>3, <2>4, <2>5 DEF TypeOK
<1>3. Ownership'
  <2>1. \A e \in Daemons : Held(e)' \subseteq Held(e)
    BY <1>1 DEF Held
  <2>2. \A e \in Daemons : cur'[e] \notin todo'[e]
    <3> SUFFICES ASSUME NEW e \in Daemons, cur'[e] \in todo'[e] PROVE FALSE
      OBVIOUS
    <3>1. todo'[e] = todo[e] /\ cur'[e] \in JobId
      BY <1>1, <1>2 DEF TypeOK
    <3>2. OnJob(e)'
      BY <1>2, <3>1 DEF TypeOK
    <3> QED
      BY <1>1, <3>1, <3>2 DEF Ownership
  <2> QED
    BY <1>0, <2>1, <2>2 DEF Ownership, queueVars
<1>4. DeadLetterOnce' /\ AttemptsCounted' /\ EffectsOnce'
  BY <1>0 DEF DeadLetterOnce, AttemptsCounted, EffectsOnce, queueVars
<1>5. Bookkeeping'
  <2>1. /\ \A j \in JobId : (status[j] # "completed")'
        /\ \A j \in JobId : (j > lastId => attempts[j] = 0 /\ retryCount[j] = 0)'
    BY <1>0 DEF Bookkeeping, queueVars
  <2>2. ASSUME NEW e \in Daemons
        PROVE  /\ \A j \in todo'[e] : attempts'[j] = retryCount'[j]
               /\ OnJob(e)' => attempts'[cur'[e]] = retryCount'[cur'[e]] + 1
               /\ pc'[e] = "failWrite" => seen'[e] = retryCount'[cur'[e]]
    <3>1. pc'[e] = "failWrite" => OnJob(e)'
      BY DEF OnJob
    <3> QED
      BY <1>0, <1>1, <3>1 DEF Bookkeeping, queueVars
  <2> QED
    BY <2>1, <2>2 DEF Bookkeeping
<1> QED
  BY <1>2, <1>3, <1>4, <1>5

LEMMA SubmitStep == IInv /\ Submit => IInv'
<1> SUFFICES ASSUME IInv, NEW job \in Submittable,
                    Enqueue(<<job>>),
                    CommitBeside({e \in Daemons : pc[e] = "failWrite"}),
                    UNCHANGED <<pc, todo, cur, ctxDone, late, seen, attempts, applied, lost>>
             PROVE  IInv'
  BY DEF Submit
<1> DEFINE new == <<job>>
<1> USE DEF IInv
<1>1. new \in Seq(JobRow)
  BY RowsType, DaemonAssumption DEF JobRow
<1>2. QueueTypeOK
  BY DEF TypeOK
<1>3. EnqueueMany(new) /\ status' = Inserted(status, new) /\ dlq' = dlq
  BY DEF Enqueue
<1> HIDE DEF new
<1>4. /\ lastId' \in 0 .. MaxId
      /\ lastId' >= lastId
      /\ work' \in [JobId -> Work]
      /\ priority' \in [JobId -> Nat]
      /\ retryCount' \in [JobId -> 0 .. MaxRetries]
      /\ InsertedBy(new) = lastId + 1 .. lastId'
      /\ \A j \in JobId : j \in InsertedBy(new) => retryCount'[j] = 0
      /\ \A j \in JobId : j \notin InsertedBy(new) => retryCount'[j] = retryCount[j]
  BY <1>1, <1>2, <1>3, EnqueueManyKeeps
<1>5. /\ status' \in [JobId -> Statuses]
      /\ \A j \in JobId : j <= lastId => status'[j] = status[j] /\ retryCount'[j] = retryCount[j]
      /\ \A j \in JobId : j > lastId /\ j <= lastId' => status'[j] = "pending" /\ retryCount'[j] = 0
      /\ \A j \in JobId : j > lastId' => status'[j] = status[j] /\ retryCount'[j] = retryCount[j]
  BY <1>2, <1>3, <1>4 DEF Inserted, QueueTypeOK, Statuses
<1>6. TypeOK'
  <2>1. QueueTypeOK'
    BY <1>2, <1>3, <1>4, <1>5 DEF QueueTypeOK
  <2>2. stale' \in [Daemons -> BOOLEAN]
    BY DEF TypeOK, CommitBeside
  <2> QED
    BY <2>1, <2>2 DEF TypeOK, OnJob
<1>7. \A j \in JobId : j > lastId => status[j] = "absent"
  BY <1>2 DEF QueueTypeOK
<1>8. Ownership'
  BY <1>2, <1>5, <1>7 DEF Ownership, Held, OnJob, TypeOK, QueueTypeOK
<1>9. DeadLetterOnce'
  BY <1>2, <1>3, <1>4, <1>5, <1>7 DEF DeadLetterOnce, QueueTypeOK
<1>10. AttemptsCounted'
  BY <1>2, <1>3, <1>4, <1>5, <1>7 DEF AttemptsCounted, Bookkeeping, QueueTypeOK
<1>11. EffectsOnce'
  BY <1>2, <1>3, <1>4, <1>5, <1>7 DEF EffectsOnce, QueueTypeOK
<1>12. Bookkeeping'
  BY <1>2, <1>4, <1>5, <1>7 DEF Bookkeeping, Ownership, Held, OnJob, TypeOK, QueueTypeOK
<1> QED
  BY <1>6, <1>8, <1>9, <1>10, <1>11, <1>12

LEMMA ClaimStep == ASSUME IInv, NEW d \in Daemons, Claim(d) PROVE IInv'
<1> DEFINE batch == NextBatch(BatchLimit)
<1> USE DEF IInv
<1>1. /\ pc[d] = "poll"
      /\ pc' = [pc EXCEPT ![d] = "loop"]
      /\ todo' = [todo EXCEPT ![d] = batch]
      /\ ClaimBatch(batch)
      /\ stale' \in [Daemons -> BOOLEAN]
      /\ UNCHANGED <<cur, ctxDone, late, seen, attempts, applied, lost>>
  BY DEF Claim, CommitBeside, TypeOK
<1>2. batch \subseteq JobId /\ \A j \in batch : status[j] = "pending"
  BY NextBatchPending DEF WithStatus
<1> HIDE DEF batch
<1>3. /\ status' \in [JobId -> Statuses]
      /\ \A j \in JobId : j \in batch => status'[j] = "processing"
      /\ \A j \in JobId : j \notin batch => status'[j] = status[j]
      /\ UNCHANGED <<lastId, work, priority, retryCount, dlq>>
  BY <1>1 DEF ClaimBatch, TypeOK, QueueTypeOK, Statuses
<1>4. /\ todo'[d] = batch /\ ~OnJob(d) /\ ~OnJob(d)' /\ cur[d] = 0
      /\ \A e \in Daemons \ {d} : todo'[e] = todo[e] /\ (OnJob(e)' <=> OnJob(e))
      /\ \A e \in Daemons : pc'[e] = "failWrite" => pc[e] = "failWrite"
  BY <1>1 DEF TypeOK, OnJob
<1>5. TypeOK'
  <2>1. QueueTypeOK'
    BY <1>2, <1>3 DEF TypeOK, QueueTypeOK
  <2>2. /\ pc' \in [Daemons -> PCs]
        /\ todo' \in [Daemons -> SUBSET JobId]
    BY <1>1, <1>2 DEF TypeOK, PCs
  <2>3. \A e \in Daemons : (OnJob(e) <=> cur[e] # 0)'
    BY <1>1, <1>4 DEF TypeOK
  <2> QED
    BY <1>1, <1>3, <2>1, <2>2, <2>3 DEF TypeOK
<1>6. Ownership'
  <2>1. Held(d)' = batch /\ \A e \in Daemons \ {d} : Held(e)' = Held(e)
    BY <1>1, <1>4 DEF Held
  <2>2. \A e \in Daemons \ {d} : Held(e) \cap batch = {}
    BY <1>2 DEF Ownership
  <2>3. \A e \in Daemons : Held(e) \subseteq JobId
    BY DEF Held, TypeOK, OnJob
  <2>4. \A e \in Daemons : \A j \in Held(e)' : status'[j] = "processing"
    BY <1>2, <1>3, <2>1, <2>3 DEF Ownership
  <2>5. \A e \in Daemons : cur'[e] \notin todo'[e]
    BY <1>1, <1>2, <1>4 DEF Ownership, TypeOK
  <2> QED
    BY <2>1, <2>2, <2>4, <2>5 DEF Ownership
<1>7. DeadLetterOnce' /\ EffectsOnce'
  BY <1>1, <1>2, <1>3 DEF DeadLetterOnce, EffectsOnce
<1>8. AttemptsCounted'
  BY <1>1, <1>2, <1>3 DEF AttemptsCounted, TypeOK, QueueTypeOK
<1>9. Bookkeeping'
  <2>1. /\ \A j \in JobId : (status[j] # "completed")'
        /\ \A j \in JobId : (j > lastId => attempts[j] = 0 /\ retryCount[j] = 0)'
    BY <1>1, <1>3 DEF Bookkeeping
  <2>2. \A e \in Daemons : \A j \in todo'[e] : attempts'[j] = retryCount'[j]
    <3>1. attempts' = attempts /\ retryCount' = retryCount
      BY <1>1, <1>3
    <3>2. \A j \in todo'[d] : attempts[j] = retryCount[j]
      BY <1>2, <1>4 DEF AttemptsCounted
    <3>3. \A e \in Daemons \ {d} : \A j \in todo'[e] : attempts[j] = retryCount[j]
      BY <1>4 DEF Bookkeeping
    <3> QED
      BY <3>1, <3>2, <3>3
  <2>3. \A e \in Daemons :
          /\ OnJob(e)' => attempts'[cur'[e]] = retryCount'[cur'[e]] + 1
          /\ pc'[e] = "failWrite" => seen'[e] = retryCount'[cur'[e]]
    BY <1>1, <1>3, <1>4 DEF Bookkeeping
  <2> QED
    BY <2>1, <2>2, <2>3 DEF Bookkeeping
<1> QED
  BY <1>5, <1>6, <1>7, <1>8, <1>9

LEMMA TakeStep == ASSUME IInv, NEW d \in Daemons, Take(d) PROVE IInv'
<1> USE DEF IInv
<1>1. PICK j \in todo[d] :
        /\ todo' = [todo EXCEPT ![d] = @ \ {j}]
        /\ cur' = [cur EXCEPT ![d] = j]
        /\ attempts' = [attempts EXCEPT ![j] = @ + 1]
  BY DEF Take
<1>2. /\ pc[d] = "loop"
      /\ pc' = [pc EXCEPT ![d] = "dispatch"]
      /\ UNCHANGED <<lastId, work, status, priority, retryCount, dlq>>
      /\ UNCHANGED <<ctxDone, late, seen, stale, applied, lost>>
  BY DEF Take, queueVars
<1>3. j \in JobId /\ j # 0 /\ status[j] = "processing" /\ attempts[j] = retryCount[j]
  BY DEF TypeOK, Ownership, Held, Bookkeeping
<1>4. /\ OnJob(d)' /\ ~OnJob(d) /\ cur'[d] = j /\ todo'[d] = todo[d] \ {j}
      /\ \A e \in Daemons \ {d} :
           todo'[e] = todo[e] /\ cur'[e] = cur[e] /\ (OnJob(e)' <=> OnJob(e))
      /\ \A e \in Daemons : pc'[e] = "failWrite" => pc[e] = "failWrite" /\ e # d
  BY <1>1, <1>2 DEF TypeOK, OnJob
<1>5. attempts' \in [JobId -> Nat] /\ attempts'[j] = retryCount[j] + 1
      /\ \A k \in JobId : k # j => attempts'[k] = attempts[k]
  BY <1>1, <1>3 DEF TypeOK
<1>6. TypeOK'
  <2>1. QueueTypeOK'
    BY <1>2 DEF TypeOK, QueueTypeOK
  <2>2. /\ pc' \in [Daemons -> PCs]
        /\ todo' \in [Daemons -> SUBSET JobId]
        /\ cur' \in [Daemons -> JobId \cup {0}]
    BY <1>1, <1>2, <1>3 DEF TypeOK, PCs
  <2>3. \A e \in Daemons : (OnJob(e) <=> cur[e] # 0)'
    BY <1>3, <1>4 DEF TypeOK
  <2> QED
    BY <1>2, <1>5, <2>1, <2>2, <2>3 DEF TypeOK
<1>7. \A e \in Daemons : Held(e)' = Held(e)
  BY <1>4 DEF Held
<1>8. Ownership'
  BY <1>2, <1>4, <1>7 DEF Ownership
<1>9. DeadLetterOnce' /\ EffectsOnce'
  BY <1>2 DEF DeadLetterOnce, EffectsOnce
<1>10. AttemptsCounted'
  BY <1>2, <1>3, <1>5 DEF AttemptsCounted, TypeOK, QueueTypeOK
<1>11. Bookkeeping'
  <2>1. \A k \in JobId : (status[k] # "completed")'
    BY <1>2 DEF Bookkeeping
  <2>2. \A k \in JobId : (k > lastId => attempts[k] = 0 /\ retryCount[k] = 0)'
    BY <1>2, <1>3, <1>5 DEF Bookkeeping, TypeOK, QueueTypeOK
  <2>3. ASSUME NEW e \in Daemons, NEW k \in todo'[e]
        PROVE  attempts'[k] = retryCount'[k]
    <3>1. k \in todo[e] /\ k # j /\ k \in JobId
      BY <1>4 DEF Ownership, Held, TypeOK
    <3> QED
      BY <1>2, <1>5, <3>1 DEF Bookkeeping
  <2>4. ASSUME NEW e \in Daemons, OnJob(e)'
        PROVE  /\ attempts'[cur'[e]] = retryCount'[cur'[e]] + 1
               /\ pc'[e] = "failWrite" => seen'[e] = retryCount'[cur'[e]]
    <3>1. CASE e = d
      BY <1>2, <1>4, <1>5, <3>1
    <3>2. CASE e # d
      <4>1. OnJob(e) /\ cur'[e] = cur[e] /\ cur[e] \in JobId /\ cur[e] # j
        BY <1>4, <2>4, <3>2 DEF Ownership, Held, TypeOK
      <4> QED
        BY <1>2, <1>4, <1>5, <4>1 DEF Bookkeeping
    <3> QED
      BY <3>1, <3>2
  <2>5. \A e \in Daemons : pc'[e] = "failWrite" => OnJob(e)'
    BY DEF OnJob
  <2> QED
    BY <2>1, <2>2, <2>3, <2>4, <2>5 DEF Bookkeeping
<1> QED
  BY <1>6, <1>8, <1>9, <1>10, <1>11

LEMMA FailReadStep == ASSUME IInv, NEW d \in Daemons, FailRead(d) PROVE IInv'
<1> USE DEF IInv
<1>1. /\ pc[d] = "fail"
      /\ pc' = [pc EXCEPT ![d] = "failWrite"]
      /\ seen' = [seen EXCEPT ![d] = retryCount[cur[d]]]
      /\ UNCHANGED <<lastId, work, status, priority, retryCount, dlq>>
      /\ UNCHANGED <<todo, cur, ctxDone, late, stale, attempts, applied, lost>>
  BY DEF FailRead, queueVars
<1>2. OnJob(d) /\ OnJob(d)' /\ cur[d] \in JobId
  BY <1>1 DEF TypeOK, OnJob
<1>3. \A e \in Daemons \ {d} : pc'[e] = pc[e] /\ seen'[e] = seen[e]
  BY <1>1 DEF TypeOK
<1>4. \A e \in Daemons : OnJob(e)' <=> OnJob(e)
  BY <1>2, <1>3 DEF OnJob
<1>5. TypeOK'
  <2>1. QueueTypeOK'
    BY <1>1 DEF TypeOK, QueueTypeOK
  <2>2. pc' \in [Daemons -> PCs] /\ seen' \in [Daemons -> 0 .. MaxRetries]
    BY <1>1, <1>2 DEF TypeOK, QueueTypeOK, PCs
  <2> QED
    BY <1>1, <1>4, <2>1, <2>2 DEF TypeOK
<1>6. Ownership'
  BY <1>1, <1>4 DEF Ownership, Held
<1>7. DeadLetterOnce' /\ AttemptsCounted' /\ EffectsOnce'
  BY <1>1 DEF DeadLetterOnce, AttemptsCounted, EffectsOnce
<1>8. Bookkeeping'
  <2>1. seen'[d] = retryCount[cur[d]]
    BY <1>1 DEF TypeOK
  <2> QED
    BY <1>1, <1>3, <1>4, <2>1 DEF Bookkeeping
<1> QED
  BY <1>5, <1>6, <1>7, <1>8

\* What a step that commits and leaves the job does to the daemons: the job is
\* in nobody's hands any more, and nothing else moves.
LEMMA LeavingKeeps ==
  ASSUME IInv, NEW d \in Daemons, OnJob(d), LeaveJob(d),
         NEW others, CommitBeside(others)
  PROVE  /\ pc' \in [Daemons -> PCs]
         /\ todo' \in [Daemons -> SUBSET JobId]
         /\ cur' \in [Daemons -> JobId \cup {0}]
         /\ ctxDone' \in [Daemons -> BOOLEAN]
         /\ late' \in [Daemons -> BOOLEAN]
         /\ seen' \in [Daemons -> 0 .. MaxRetries]
         /\ stale' \in [Daemons -> BOOLEAN]
         /\ \A e \in Daemons : (OnJob(e) <=> cur[e] # 0)'
         /\ cur[d] \in JobId /\ status[cur[d]] = "processing"
         /\ \A e \in Daemons : cur[d] \notin Held(e)' /\ Held(e)' \subseteq Held(e)
         /\ \A e \in Daemons : Held(e) \subseteq JobId
         /\ todo' = todo
         /\ \A e \in Daemons :
              OnJob(e)' => e # d /\ OnJob(e) /\ cur'[e] = cur[e] /\ seen'[e] = seen[e]
         /\ \A e \in Daemons : pc'[e] = "failWrite" => pc[e] = "failWrite" /\ OnJob(e)'
<1> USE DEF IInv
<1>1. /\ pc' \in [Daemons -> PCs]
      /\ todo' \in [Daemons -> SUBSET JobId]
      /\ cur' \in [Daemons -> JobId \cup {0}]
      /\ ctxDone' \in [Daemons -> BOOLEAN]
      /\ late' \in [Daemons -> BOOLEAN]
      /\ seen' \in [Daemons -> 0 .. MaxRetries]
      /\ stale' \in [Daemons -> BOOLEAN]
  <2>1. /\ pc' \in [Daemons -> PCs] /\ cur' \in [Daemons -> JobId \cup {0}]
        /\ todo' \in [Daemons -> SUBSET JobId] /\ ctxDone' \in [Daemons -> BOOLEAN]
    BY DEF LeaveJob, TypeOK, PCs
  <2>2. late' \in [Daemons -> BOOLEAN] /\ seen' \in [Daemons -> 0 .. MaxRetries]
    BY DEF LeaveJob, TypeOK
  <2>3. stale' \in [Daemons -> BOOLEAN]
    BY DEF CommitBeside, TypeOK
  <2> QED
    BY <2>1, <2>2, <2>3
<1>2. /\ todo' = todo /\ ~OnJob(d)' /\ cur'[d] = 0
      /\ \A e \in Daemons \ {d} :
           pc'[e] = pc[e] /\ cur'[e] = cur[e] /\ seen'[e] = seen[e]
  BY DEF LeaveJob, TypeOK, OnJob
<1>3. \A e \in Daemons \ {d} : OnJob(e)' <=> OnJob(e)
  BY <1>2 DEF OnJob
<1>4. \A e \in Daemons : (OnJob(e) <=> cur[e] # 0)'
  BY <1>2, <1>3 DEF TypeOK
<1>5. cur[d] \in JobId /\ status[cur[d]] = "processing"
  BY DEF TypeOK, Ownership, Held
<1>6. \A e \in Daemons : cur[d] \notin Held(e)' /\ Held(e)' \subseteq Held(e)
  <2>1. cur[d] \in Held(d) /\ Held(d)' = todo[d]
    BY <1>2 DEF Held
  <2>2. \A e \in Daemons \ {d} : Held(e)' = Held(e)
    BY <1>2, <1>3 DEF Held
  <2>3. todo[d] \subseteq Held(d)
    BY DEF Held
  <2> QED
    BY <2>1, <2>2, <2>3 DEF Ownership
<1>7. \A e \in Daemons : Held(e) \subseteq JobId
  BY DEF Held, TypeOK
<1>8. \A e \in Daemons : pc'[e] = "failWrite" => pc[e] = "failWrite" /\ OnJob(e)'
  BY <1>2 DEF OnJob
<1> QED
  BY <1>1, <1>2, <1>3, <1>4, <1>5, <1>6, <1>7, <1>8

LEMMA FailWriteStep == ASSUME IInv, NEW d \in Daemons, FailWrite(d) PROVE IInv'
<1> DEFINE j == cur[d]
<1> USE DEF IInv
<1>1. /\ pc[d] = "failWrite" /\ OnJob(d)
      /\ FailJob(j, seen[d])
      /\ LeaveJob(d) /\ CommitBeside(OpenFails(d))
      /\ UNCHANGED <<lastId, work, priority, attempts, applied, lost>>
  BY DEF FailWrite, FailJob, OnJob
<1>2. /\ pc' \in [Daemons -> PCs]
      /\ todo' \in [Daemons -> SUBSET JobId]
      /\ cur' \in [Daemons -> JobId \cup {0}]
      /\ ctxDone' \in [Daemons -> BOOLEAN]
      /\ late' \in [Daemons -> BOOLEAN]
      /\ seen' \in [Daemons -> 0 .. MaxRetries]
      /\ stale' \in [Daemons -> BOOLEAN]
      /\ \A e \in Daemons : (OnJob(e) <=> cur[e] # 0)'
      /\ j \in JobId /\ status[j] = "processing"
      /\ \A e \in Daemons : j \notin Held(e)' /\ Held(e)' \subseteq Held(e)
      /\ \A e \in Daemons : Held(e) \subseteq JobId
      /\ todo' = todo
      /\ \A e \in Daemons :
           OnJob(e)' => e # d /\ OnJob(e) /\ cur'[e] = cur[e] /\ seen'[e] = seen[e]
      /\ \A e \in Daemons : pc'[e] = "failWrite" => pc[e] = "failWrite" /\ OnJob(e)'
  BY <1>1, LeavingKeeps
<1>3. seen[d] = retryCount[j] /\ attempts[j] = retryCount[j] + 1
  <2>1. /\ OnJob(d) => attempts[cur[d]] = retryCount[cur[d]] + 1
        /\ pc[d] = "failWrite" => seen[d] = retryCount[cur[d]]
    BY DEF Bookkeeping
  <2> QED
    BY <1>1, <2>1
<1> HIDE DEF j
<1>4. retryCount[j] \in 0 .. MaxRetries /\ j <= lastId
  <2>1. QueueTypeOK /\ j \in JobId /\ status[j] = "processing"
    BY <1>2 DEF TypeOK
  <2> QED
    BY <2>1 DEF QueueTypeOK
<1>5. /\ status' \in [JobId -> Statuses]
      /\ retryCount' \in [JobId -> 0 .. MaxRetries]
      /\ dlq' \in [JobId -> Nat]
      /\ \/ /\ status'[j] = "failed"
            /\ dlq'[j] = dlq[j] + 1
            /\ retryCount'[j] = retryCount[j]
            /\ retryCount[j] = MaxRetries
         \/ /\ status'[j] = "pending"
            /\ dlq'[j] = dlq[j]
            /\ retryCount'[j] = retryCount[j] + 1
      /\ \A k \in JobId \ {j} : /\ status'[k] = status[k]
                               /\ dlq'[k] = dlq[k]
                               /\ retryCount'[k] = retryCount[k]
  <2>0. /\ status \in [JobId -> Statuses] /\ dlq \in [JobId -> Nat]
        /\ retryCount \in [JobId -> 0 .. MaxRetries]
        /\ "failed" \in Statuses /\ "pending" \in Statuses
    BY DEF TypeOK, QueueTypeOK, Statuses
  <2>1. CASE Exhausted(seen[d])
    <3>1. Bury(j) /\ retryCount[j] = MaxRetries
      BY <1>1, <1>3, <1>4, <2>1 DEF FailJob, Exhausted
    <3> QED
      BY <1>2, <2>0, <3>1 DEF Bury
  <2>2. CASE ~Exhausted(seen[d])
    <3>1. Retry(j) /\ retryCount[j] + 1 \in 0 .. MaxRetries
      BY <1>1, <1>3, <1>4, <2>2 DEF FailJob, Exhausted
    <3> QED
      BY <1>2, <2>0, <3>1 DEF Retry
  <2> QED
    BY <2>1, <2>2
<1>6. TypeOK'
  <2>1. QueueTypeOK'
    BY <1>1, <1>4, <1>5 DEF TypeOK, QueueTypeOK
  <2> QED
    BY <1>1, <1>2, <2>1 DEF TypeOK
<1>7. Ownership'
  <2>1. \A e \in Daemons : cur'[e] \notin todo'[e]
    BY <1>2 DEF Ownership, TypeOK
  <2> QED
    BY <1>2, <1>5, <2>1 DEF Ownership
<1>8. DeadLetterOnce'
  BY <1>2, <1>5 DEF DeadLetterOnce
<1>9. AttemptsCounted'
  BY <1>1, <1>2, <1>3, <1>5 DEF AttemptsCounted
<1>10. EffectsOnce'
  BY <1>1, <1>2, <1>5 DEF EffectsOnce
<1>11. Bookkeeping'
  <2>1. \A k \in JobId : (status[k] # "completed")' 
                        /\ (k > lastId => attempts[k] = 0 /\ retryCount[k] = 0)'
    <3>1. lastId' = lastId /\ attempts' = attempts /\ j <= lastId
      BY <1>1, <1>4
    <3>2. \A k \in JobId : k > lastId => k # j
      BY <1>2, <3>1 DEF TypeOK, QueueTypeOK
    <3> QED
      BY <1>5, <3>1, <3>2 DEF Bookkeeping
  <2>2. \A e \in Daemons : \A k \in Held(e)' : k \in JobId \ {j}
    BY <1>2
  <2>3. ASSUME NEW e \in Daemons
        PROVE  /\ \A k \in todo'[e] : attempts'[k] = retryCount'[k]
               /\ OnJob(e)' => attempts'[cur'[e]] = retryCount'[cur'[e]] + 1
               /\ pc'[e] = "failWrite" => seen'[e] = retryCount'[cur'[e]]
    <3>1. todo'[e] \subseteq Held(e)' /\ (OnJob(e)' => cur'[e] \in Held(e)')
      BY DEF Held
    <3> QED
      BY <1>1, <1>2, <1>5, <2>2, <3>1 DEF Bookkeeping
  <2> QED
    BY <2>1, <2>3 DEF Bookkeeping
<1> QED
  BY <1>6, <1>7, <1>8, <1>9, <1>10, <1>11

LEMMA CompleteOkStep == ASSUME IInv, NEW d \in Daemons, CompleteOk(d) PROVE IInv'
<1> DEFINE j == cur[d]
           new == Downstream(work[j])
<1> USE DEF IInv
<1>1. /\ OnJob(d)
      /\ EnqueueMany(new)
      /\ status' = [Inserted(status, new) EXCEPT ![j] = "absent"]
      /\ applied' = [applied EXCEPT ![j] = @ + 1]
      /\ LeaveJob(d) /\ CommitBeside(OpenFails(d))
      /\ UNCHANGED <<dlq, attempts, lost>>
  BY DEF CompleteOk, CompleteJob, OnJob
<1>2. /\ pc' \in [Daemons -> PCs]
      /\ todo' \in [Daemons -> SUBSET JobId]
      /\ cur' \in [Daemons -> JobId \cup {0}]
      /\ ctxDone' \in [Daemons -> BOOLEAN]
      /\ late' \in [Daemons -> BOOLEAN]
      /\ seen' \in [Daemons -> 0 .. MaxRetries]
      /\ stale' \in [Daemons -> BOOLEAN]
      /\ \A e \in Daemons : (OnJob(e) <=> cur[e] # 0)'
      /\ j \in JobId /\ status[j] = "processing"
      /\ \A e \in Daemons : j \notin Held(e)' /\ Held(e)' \subseteq Held(e)
      /\ \A e \in Daemons : Held(e) \subseteq JobId
      /\ todo' = todo
      /\ \A e \in Daemons :
           OnJob(e)' => e # d /\ OnJob(e) /\ cur'[e] = cur[e] /\ seen'[e] = seen[e]
      /\ \A e \in Daemons : pc'[e] = "failWrite" => pc[e] = "failWrite" /\ OnJob(e)'
  BY <1>1, LeavingKeeps
<1>3. QueueTypeOK
  BY DEF TypeOK
<1>4. new \in Seq(JobRow)
  <2>1. [work |-> "ANALYZE_STYLE", priority |-> 5] \in JobRow
    BY DaemonAssumption DEF JobRow
  <2> QED
    BY <2>1 DEF Downstream
<1> HIDE DEF j, new
<1>5. /\ lastId' \in 0 .. MaxId
      /\ lastId' >= lastId
      /\ work' \in [JobId -> Work]
      /\ priority' \in [JobId -> Nat]
      /\ retryCount' \in [JobId -> 0 .. MaxRetries]
      /\ InsertedBy(new) = lastId + 1 .. lastId'
      /\ \A k \in JobId : k \in InsertedBy(new) => retryCount'[k] = 0
      /\ \A k \in JobId : k \notin InsertedBy(new) => retryCount'[k] = retryCount[k]
  BY <1>1, <1>3, <1>4, EnqueueManyKeeps
<1>6. j <= lastId /\ lastId \in Nat /\ lastId' \in Nat
  BY <1>2, <1>3, <1>5 DEF QueueTypeOK
<1>7. /\ status' \in [JobId -> Statuses]
      /\ status'[j] = "absent" /\ retryCount'[j] = retryCount[j]
      /\ \A k \in JobId \ {j} :
           k <= lastId => status'[k] = status[k] /\ retryCount'[k] = retryCount[k]
      /\ \A k \in JobId :
           k > lastId /\ k <= lastId' => status'[k] = "pending" /\ retryCount'[k] = 0
      /\ \A k \in JobId :
           k > lastId' => status'[k] = status[k] /\ retryCount'[k] = retryCount[k]
  BY <1>1, <1>2, <1>3, <1>5, <1>6 DEF Inserted, QueueTypeOK, Statuses
<1>8. \A k \in JobId : k > lastId => status[k] = "absent"
  BY <1>3 DEF QueueTypeOK
<1>9. TypeOK'
  <2>1. QueueTypeOK'
    BY <1>1, <1>3, <1>5, <1>6, <1>7 DEF QueueTypeOK
  <2>2. applied' \in [JobId -> Nat]
    BY <1>1, <1>2 DEF TypeOK
  <2> QED
    BY <1>1, <1>2, <2>1, <2>2 DEF TypeOK
<1>10. \A e \in Daemons : \A k \in Held(e) : status[k] = "processing" /\ k <= lastId
  BY <1>2, <1>6, <1>8 DEF Ownership
<1>11. Ownership'
  <2>1. \A e \in Daemons : cur'[e] \notin todo'[e]
    BY <1>2 DEF Ownership, TypeOK
  <2>2. \A e \in Daemons : \A k \in Held(e)' : status'[k] = "processing"
    BY <1>2, <1>7, <1>10
  <2> QED
    BY <1>2, <2>1, <2>2 DEF Ownership
<1>12. DeadLetterOnce'
  BY <1>1, <1>2, <1>6, <1>7, <1>8 DEF DeadLetterOnce
<1>13. AttemptsCounted'
  BY <1>1, <1>2, <1>6, <1>7, <1>8 DEF AttemptsCounted, Bookkeeping
<1>14. EffectsOnce'
  <2>1. applied'[j] = 1 /\ j <= lastId'
    BY <1>1, <1>2, <1>5, <1>6 DEF EffectsOnce, TypeOK
  <2>2. ASSUME NEW k \in JobId \ {j}
        PROVE  applied'[k] = IF k <= lastId' /\ status'[k] = "absent" THEN 1 ELSE 0
    <3>1. applied'[k] = applied[k]
      BY <1>1 DEF TypeOK
    <3> QED
      BY <1>5, <1>6, <1>7, <1>8, <3>1 DEF EffectsOnce
  <2> QED
    BY <1>7, <2>1, <2>2 DEF EffectsOnce
<1>15. Bookkeeping'
  <2>1. \A k \in JobId : (status[k] # "completed")' 
                        /\ (k > lastId => attempts[k] = 0 /\ retryCount[k] = 0)'
    BY <1>1, <1>5, <1>6, <1>7, <1>8 DEF Bookkeeping
  <2>2. \A e \in Daemons : \A k \in Held(e)' : retryCount'[k] = retryCount[k]
    BY <1>2, <1>7, <1>10
  <2>3. ASSUME NEW e \in Daemons
        PROVE  /\ \A k \in todo'[e] : attempts'[k] = retryCount'[k]
               /\ OnJob(e)' => attempts'[cur'[e]] = retryCount'[cur'[e]] + 1
               /\ pc'[e] = "failWrite" => seen'[e] = retryCount'[cur'[e]]
    <3>1. todo'[e] \subseteq Held(e)' /\ (OnJob(e)' => cur'[e] \in Held(e)')
      BY DEF Held
    <3> QED
      BY <1>1, <1>2, <2>2, <3>1 DEF Bookkeeping
  <2> QED
    BY <2>1, <2>3 DEF Bookkeeping
<1> QED
  BY <1>9, <1>11, <1>12, <1>13, <1>14, <1>15

-----------------------------------------------------------------------------
LEMMA NextInv == IInv /\ [Next]_vars => IInv'
<1> SUFFICES ASSUME IInv, [Next]_vars PROVE IInv'
  OBVIOUS
<1>1. CASE Submit
  BY <1>1, SubmitStep
<1>2. CASE \E d \in Daemons : Cancel(d) \/ CleanupExpires(d) \/ Crash(d) \/ Restart(d)
  BY <1>2, QuietSteps
<1>3. ASSUME NEW d \in Daemons, DaemonStep(d) PROVE IInv'
  BY <1>3, QuietSteps, ClaimStep, TakeStep, FailReadStep, FailWriteStep, CompleteOkStep
     DEF DaemonStep
<1>4. CASE UNCHANGED vars
  BY <1>4 DEF vars, queueVars, daemonVars, IInv, TypeOK, QueueTypeOK, Ownership, Held,
          OnJob, DeadLetterOnce, AttemptsCounted, EffectsOnce, Bookkeeping
<1> QED
  BY <1>1, <1>2, <1>3, <1>4 DEF Next, Environment

LEMMA Invariance == Spec => []IInv
<1>1. Init => IInv
  BY InitInv
<1>2. IInv /\ [Next]_vars => IInv'
  BY NextInv
<1> QED
  BY <1>1, <1>2, PTL DEF Spec

\* Every variable keeps its type; in particular retry_count never passes 3 and
\* no row appears under an id that was not handed out.
THEOREM TypeCorrect == Spec => []TypeOK
<1>1. IInv => TypeOK
  BY DEF IInv
<1> QED
  BY <1>1, Invariance, PTL

\* No two daemons ever work on one job, whatever dies or is cancelled.
THEOREM OwnershipHolds == Spec => []Ownership
<1>1. IInv => Ownership
  BY DEF IInv
<1> QED
  BY <1>1, Invariance, PTL

\* Exactly the jobs failed for good have a dead-letter row, and only one.
THEOREM DeadLetterOnceHolds == Spec => []DeadLetterOnce
<1>1. IInv => DeadLetterOnce
  BY DEF IInv
<1> QED
  BY <1>1, Invariance, PTL

\* retry_count counts the attempts given back; a job fails for good after
\* exactly four attempts.
THEOREM AttemptsCountedHolds == Spec => []AttemptsCounted
<1>1. IInv => AttemptsCounted
  BY DEF IInv
<1> QED
  BY <1>1, Invariance, PTL

\* A handler's writes are committed once, together with the deletion of its job.
THEOREM EffectsOnceHolds == Spec => []EffectsOnce
<1>1. IInv => EffectsOnce
  BY DEF IInv
<1> QED
  BY <1>1, Invariance, PTL

-----------------------------------------------------------------------------
(* Which jobs are stranded, under every choice of faults.                     *)

\* A daemon that is not in a batch has no claimed jobs left.
AtRest ==
  \A d \in Daemons : pc[d] \in {"poll", "stopped", "crashed"} => todo[d] = {}

Accounted == StrandedAreLost /\ AtRest

LEMMA InitAccounted == Init => Accounted
BY DEF Init, QueueInit, Accounted, StrandedAreLost, AtRest, WithStatus

\* What a step of one daemon does to the jobs in its hands: it claims some, keeps
\* them all, gives one back or settles it, or loses some.
Claims(d, S) ==
  /\ Held(d) = {} /\ Held(d)' = S /\ lost' = lost
  /\ \A j \in JobId : j \notin S \/ (status[j] = "pending" /\ status'[j] = "processing")
  /\ \A j \in JobId \ S : status'[j] = status[j]

Keeps(d) == Held(d)' = Held(d) /\ lost' = lost /\ status' = status

GivesBack(d) ==
  /\ Held(d)' = Held(d) \ {cur[d]} /\ lost' = lost
  /\ cur[d] \in Held(d) /\ status'[cur[d]] # "processing"
  /\ \A j \in JobId \ {cur[d]} :
       status'[j] = status[j] \/ (status[j] = "absent" /\ status'[j] = "pending")

Loses(d, S) ==
  /\ S \subseteq Held(d) /\ Held(d)' = Held(d) \ S
  /\ lost' = lost \cup S /\ status' = status

LEMMA StepAccounts ==
  ASSUME IInv, Accounted, NEW d \in Daemons,
         DaemonStep(d) \/ Cancel(d) \/ CleanupExpires(d) \/ Crash(d) \/ Restart(d)
  PROVE  \/ \E S \in SUBSET JobId : Claims(d, S) \/ Loses(d, S)
         \/ Keeps(d) \/ GivesBack(d)
<1>0. TypeOK /\ Ownership /\ AtRest /\ Held(d) \in SUBSET JobId
  BY DEF IInv, Accounted, TypeOK, Held
<1>1. CASE Stop(d) \/ EndBatch(d) \/ Cancel(d) \/ CleanupExpires(d) \/ Restart(d)
  <2>1. Held(d)' = Held(d)
    BY <1>0, <1>1 DEF Stop, EndBatch, Cancel, CleanupExpires, Restart, Reset, Held, OnJob,
                      TypeOK, AtRest
  <2> QED
    BY <1>1, <2>1 DEF Stop, EndBatch, Cancel, CleanupExpires, Restart, Reset, queueVars, Keeps
<1>2. CASE DispatchOk(d) \/ DispatchFails(d) \/ CompleteFails(d) \/ FailRead(d)
  <2>1. Held(d)' = Held(d)
    BY <1>0, <1>2 DEF DispatchOk, DispatchFails, CompleteFails, FailRead, Goto, Held, OnJob,
                      TypeOK
  <2> QED
    BY <1>2, <2>1 DEF DispatchOk, DispatchFails, CompleteFails, FailRead, queueVars, Keeps
<1>3. CASE Claim(d)
  <2>1. PICK S \in SUBSET JobId :
          /\ \A j \in S : status[j] = "pending"
          /\ ClaimBatch(S) /\ todo' = [todo EXCEPT ![d] = S]
    BY <1>3, NextBatchPending DEF Claim, WithStatus
  <2>2. Held(d) = {} /\ Held(d)' = S
    BY <1>0, <1>3, <2>1 DEF Claim, Held, OnJob, TypeOK, AtRest
  <2>3. /\ \A j \in S : status'[j] = "processing"
        /\ \A j \in JobId \ S : status'[j] = status[j]
    BY <2>1 DEF ClaimBatch
  <2>4. Claims(d, S)
    BY <1>3, <2>1, <2>2, <2>3 DEF Claim, Claims
  <2> QED
    BY <2>4
<1>4. CASE Take(d)
  <2>1. Held(d)' = Held(d)
    BY <1>0, <1>4 DEF Take, Held, OnJob, TypeOK
  <2> QED
    BY <1>4, <2>1 DEF Take, queueVars, Keeps
<1>5. CASE CompleteOk(d) \/ FailWrite(d)
  <2>1. /\ cur[d] \in JobId /\ cur[d] \in Held(d)
        /\ Held(d)' = Held(d) \ {cur[d]}
    BY <1>0, <1>5 DEF CompleteOk, FailWrite, LeaveJob, Held, OnJob, TypeOK, Ownership
  <2>2. PICK j \in JobId : j = cur[d]
    BY <2>1
  <2>3. /\ status'[j] # "processing"
        /\ \A k \in JobId \ {j} :
             status'[k] = status[k] \/ (status[k] = "absent" /\ status'[k] = "pending")
    <3>1. CASE CompleteOk(d)
      <4> DEFINE rows == Downstream(work[j])
      <4>0. rows \in Seq(JobRow)
        BY WorkRow, RowsType
      <4>1a. /\ EnqueueMany(rows)
             /\ status' = [Inserted(status, rows) EXCEPT ![j] = "absent"]
        BY <2>2, <3>1 DEF CompleteOk, CompleteJob
      <4> HIDE DEF rows
      <4>1. PICK new \in Seq(JobRow) :
              status' = [Inserted(status, new) EXCEPT ![j] = "absent"]
        BY <4>0, <4>1a
      <4>2. /\ \A k \in InsertedBy(new) : k > lastId
            /\ \A k \in JobId : k > lastId => status[k] = "absent"
        BY <1>0, <4>1 DEF InsertedBy, TypeOK, QueueTypeOK
      <4> QED
        BY <1>0, <2>2, <4>1, <4>2 DEF Inserted, TypeOK, QueueTypeOK
    <3>2. CASE FailWrite(d)
      BY <1>0, <2>2, <3>2 DEF FailWrite, FailJob, Bury, Retry, TypeOK, QueueTypeOK
    <3> QED
      BY <1>5, <3>1, <3>2
  <2> QED
    BY <1>5, <2>1, <2>2, <2>3 DEF CompleteOk, FailWrite, GivesBack
<1>6. CASE FailGivesUp(d)
  <2>1. /\ {cur[d]} \in SUBSET JobId /\ {cur[d]} \subseteq Held(d)
        /\ Held(d)' = Held(d) \ {cur[d]}
    BY <1>0, <1>6 DEF FailGivesUp, LeaveJob, Held, OnJob, TypeOK, Ownership
  <2>2. Loses(d, {cur[d]})
    BY <1>6, <2>1 DEF FailGivesUp, Loses, queueVars
  <2> QED
    BY <2>1, <2>2
<1>7. CASE Crash(d)
  <2>1. Held(d)' = {}
    BY <1>0, <1>7 DEF Crash, Reset, Held, OnJob, TypeOK
  <2>2. Loses(d, Held(d))
    BY <1>7, <2>1 DEF Crash, Reset, Loses, queueVars
  <2> QED
    BY <1>0, <2>2
<1> QED
  BY <1>1, <1>2, <1>3, <1>4, <1>5, <1>6, <1>7 DEF DaemonStep

\* Nobody else's hands change, and a daemon comes to rest only with none left.
LEMMA OthersStill ==
  ASSUME IInv, Accounted, NEW d \in Daemons,
         DaemonStep(d) \/ Cancel(d) \/ CleanupExpires(d) \/ Crash(d) \/ Restart(d)
  PROVE  AtRest' /\ \A e \in Daemons \ {d} : Held(e)' = Held(e)
<1>0. TypeOK /\ AtRest
  BY DEF IInv, Accounted
<1>1. \A e \in Daemons \ {d} : pc'[e] = pc[e] /\ todo'[e] = todo[e] /\ cur'[e] = cur[e]
  BY <1>0
     DEF DaemonStep, Stop, Claim, Take, EndBatch, DispatchOk, DispatchFails, CompleteOk,
         CompleteFails, FailRead, FailWrite, FailGivesUp, Cancel, CleanupExpires, Crash,
         Restart, Reset, Goto, LeaveJob, TypeOK
<1>2. pc'[d] \in {"poll", "stopped", "crashed"} => todo'[d] = {}
  <2>1. CASE Stop(d) \/ EndBatch(d) \/ Cancel(d) \/ CleanupExpires(d) \/ Crash(d) \/ Restart(d)
    BY <1>0, <2>1 DEF Stop, EndBatch, Cancel, CleanupExpires, Crash, Restart, Reset, TypeOK, AtRest
  <2>2. CASE Claim(d) \/ Take(d) \/ DispatchOk(d) \/ DispatchFails(d) \/ CompleteFails(d)
             \/ FailRead(d) \/ CompleteOk(d) \/ FailWrite(d) \/ FailGivesUp(d)
    <3>1. pc'[d] \in {"loop", "dispatch", "complete", "fail", "failWrite"}
      BY <1>0, <2>2 DEF Claim, Take, DispatchOk, DispatchFails, CompleteFails, FailRead,
                        CompleteOk, FailWrite, FailGivesUp, Goto, LeaveJob, TypeOK
    <3> QED
      BY <3>1
  <2> QED
    BY <2>1, <2>2 DEF DaemonStep
<1> QED
  BY <1>0, <1>1, <1>2 DEF AtRest, Held, OnJob

LEMMA KeepsAccounted ==
  ASSUME IInv, Accounted, NEW d \in Daemons,
         DaemonStep(d) \/ Cancel(d) \/ CleanupExpires(d) \/ Crash(d) \/ Restart(d)
  PROVE  Accounted'
<1>0. TypeOK /\ Ownership /\ StrandedAreLost
  BY DEF IInv, Accounted
<1>1. AtRest' /\ \A e \in Daemons \ {d} : Held(e)' = Held(e)
  BY OthersStill
<1>2. /\ \A e \in Daemons : \A j \in Held(e) : j \in JobId /\ status[j] = "processing"
      /\ \A e \in Daemons \ {d} : Held(e) \cap Held(d) = {}
      /\ \A j \in JobId : j \in lost <=> status[j] = "processing" /\ Unheld(j)
      /\ lost \subseteq JobId
  BY <1>0 DEF Ownership, StrandedAreLost, WithStatus, TypeOK, Held
<1>3. ASSUME NEW j \in JobId
      PROVE  j \in lost' <=> status'[j] = "processing" /\ Unheld(j)'
  <2>1. /\ Unheld(j) <=> j \notin Held(d) /\ \A e \in Daemons \ {d} : j \notin Held(e)
        /\ Unheld(j)' <=> j \notin Held(d)' /\ \A e \in Daemons \ {d} : j \notin Held(e)
    BY <1>1 DEF Unheld
  <2>2. ASSUME NEW S \in SUBSET JobId, Claims(d, S)
        PROVE  j \in lost' <=> status'[j] = "processing" /\ Unheld(j)'
    BY <1>2, <2>1, <2>2 DEF Claims
  <2>3. CASE Keeps(d)
    BY <1>2, <2>1, <2>3 DEF Keeps
  <2>4. CASE GivesBack(d)
    BY <1>2, <2>1, <2>4 DEF GivesBack
  <2>5. ASSUME NEW S \in SUBSET JobId, Loses(d, S)
        PROVE  j \in lost' <=> status'[j] = "processing" /\ Unheld(j)'
    BY <1>2, <2>1, <2>5 DEF Loses
  <2> QED
    BY <2>2, <2>3, <2>4, <2>5, StepAccounts
<1>4. lost' \subseteq JobId
  BY NextInv DEF Next, Environment, IInv, TypeOK
<1> QED
  BY <1>1, <1>3, <1>4 DEF Accounted, StrandedAreLost, WithStatus

LEMMA SubmitAccounted ==
  ASSUME IInv, Accounted, Submit PROVE Accounted'
<1>1. UNCHANGED <<pc, todo, cur, lost>>
  BY DEF Submit
<1>2. \A j \in JobId : status'[j] = status[j] \/ (status[j] = "absent" /\ status'[j] = "pending")
  BY DEF Submit, Enqueue, Inserted, InsertedBy, IInv, TypeOK, QueueTypeOK
<1> QED
  BY <1>1, <1>2 DEF Accounted, StrandedAreLost, AtRest, WithStatus, Unheld, Held, OnJob

\* Whatever fails, expires, is cancelled or dies: the jobs left processing with no
\* running daemon to answer for them are exactly those whose Fail was refused or
\* whose daemon died, and they stay so.
THEOREM StrandedAreLostHolds == Spec => []StrandedAreLost
<1>1. Init => IInv /\ Accounted
  BY InitInv, InitAccounted
<1>2. IInv /\ Accounted /\ [Next]_vars => IInv' /\ Accounted'
  <2> SUFFICES ASSUME IInv, Accounted, [Next]_vars PROVE Accounted'
    BY NextInv
  <2>1. CASE UNCHANGED vars
    BY <2>1 DEF vars, queueVars, daemonVars, Accounted, StrandedAreLost, AtRest, WithStatus,
                Unheld, Held, OnJob
  <2>2. CASE Next
    BY <2>2, KeepsAccounted, SubmitAccounted DEF Next, Environment
  <2> QED
    BY <2>1, <2>2
<1>3. Accounted => StrandedAreLost
  BY DEF Accounted
<1> QED
  BY <1>1, <1>2, <1>3, PTL DEF Spec
=============================================================================
