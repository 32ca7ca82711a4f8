------------------------------ MODULE JobQueue ------------------------------
(* The SQLite tables job_queue and dead_letter_queue, and the statements that *)
(* internal/store/job_store.go, internal/store/dlq_store.go and               *)
(* internal/queue/sqlite_queue.go run on them.  Every operator here is ONE    *)
(* committed transaction; who runs it, and what can happen between two        *)
(* transactions of one process, is for the modules that extend this one.      *)
(* A row is spread over columns, each a function of the row's id.             *)
EXTENDS Integers, Sequences, FiniteSets

CONSTANTS MaxId,   \* bound: the highest AUTOINCREMENT id the model hands out
          Work     \* what a row's immutable columns (stage, target) can be

ASSUME MaxIdAssumption == MaxId \in Nat
ASSUME WorkAssumption == Work # {}

JobId == 1 .. MaxId

\* Live rows carry one of the four statuses of domain.JobStatus that the code
\* writes; a row that is not there (never inserted, or deleted) is "absent".
Statuses == {"absent", "pending", "processing", "completed", "failed"}

VARIABLES
  lastId,       \* sqlite_sequence: the ids handed out so far are 1 .. lastId
  work,         \* immutable columns of the row
  status,       \* column status
  priority,     \* column priority
  retryCount,   \* column retry_count
  dlq           \* how many dead_letter_queue rows name the job

queueVars == <<lastId, work, status, priority, retryCount, dlq>>

MaxRetries == 3

WithStatus(s) == {j \in JobId : status[j] = s}

QueueTypeOK ==
  /\ lastId \in 0 .. MaxId
  /\ work \in [JobId -> Work]
  /\ status \in [JobId -> Statuses]
  /\ priority \in [JobId -> Nat]
  /\ retryCount \in [JobId -> 0 .. MaxRetries]
  /\ dlq \in [JobId -> Nat]
  /\ \A j \in JobId : j > lastId => status[j] = "absent"

QueueInit ==
  /\ lastId = 0
  /\ work = [j \in JobId |-> CHOOSE w \in Work : TRUE]
  /\ status = [j \in JobId |-> "absent"]
  /\ priority = [j \in JobId |-> 0]
  /\ retryCount = [j \in JobId |-> 0]
  /\ dlq = [j \in JobId |-> 0]

-----------------------------------------------------------------------------
(* Inserts.  new is a sequence of [work, priority] records; the rows take the *)
(* next ids in order, pending, with no retries.  No jobs, no statement.       *)

InsertedBy(new) == lastId + 1 .. lastId + Len(new)

\* prio is the priority column the statement before it in the transaction left.
InsertRows(prio, new) ==
  /\ lastId + Len(new) <= MaxId
  /\ lastId' = lastId + Len(new)
  /\ work' = [j \in JobId |->
                IF j \in InsertedBy(new) THEN new[j - lastId].work ELSE work[j]]
  /\ priority' = [j \in JobId |->
                IF j \in InsertedBy(new) THEN new[j - lastId].priority ELSE prio[j]]
  /\ retryCount' = [j \in JobId |-> IF j \in InsertedBy(new) THEN 0 ELSE retryCount[j]]

EnqueueMany(new) == InsertRows(priority, new)

\* The status column after an insert, of a table whose column was st before it.
Inserted(st, new) ==
  [j \in JobId |-> IF j \in InsertedBy(new) THEN "pending" ELSE st[j]]

Enqueue(new) ==
  /\ EnqueueMany(new)
  /\ status' = Inserted(status, new)
  /\ UNCHANGED dlq

\* ResetCompletedForTarget on the rows in old (those of one target), followed in
\* the same transaction by an insert.
\* (Variant: whatever their status.)
CompletedOrNot(old) == {j \in old : status[j] # "absent"}

Completed(old) == {j \in old : status[j] = "completed"}

ResetAndEnqueue(old, new) ==
  /\ InsertRows([j \in JobId |->
                   IF j \in Completed(old) THEN priority[j] + 10 ELSE priority[j]], new)
  /\ status' = Inserted([j \in JobId |->
                   IF j \in Completed(old) THEN "pending" ELSE status[j]], new)
  /\ UNCHANGED dlq

\* A row that is not there is not updated.
UpdateStatus(j, s) ==
  /\ status' = [status EXCEPT ![j] = IF @ = "absent" THEN "absent" ELSE s]
  /\ UNCHANGED <<lastId, work, priority, retryCount, dlq>>

-----------------------------------------------------------------------------
(* ClaimBatch: one UPDATE ... RETURNING over the first limit pending rows in  *)
(* the order priority DESC, id ASC.                                           *)

ClaimedBefore(i, j) ==
  \/ priority[i] > priority[j]
  \/ priority[i] = priority[j] /\ i < j

\* What a claim that read rows other than the pending ones would return.
NextBatchAnyLive(limit) ==
  LET live == WithStatus("pending") \cup WithStatus("processing")
  IN  {j \in live : Cardinality({i \in live : ClaimedBefore(i, j)}) < limit}

\* What a claim that skipped the rows of an earlier attempt would return.
NextBatchFirstTries(limit) ==
  {j \in WithStatus("pending") :
     retryCount[j] = 0 /\ Cardinality({i \in WithStatus("pending") : ClaimedBefore(i, j)}) < limit}

NextBatch(limit) ==
  {j \in WithStatus("pending") :
     Cardinality({i \in WithStatus("pending") : ClaimedBefore(i, j)}) < limit}

ClaimBatch(batch) ==
  /\ status' = [j \in JobId |-> IF j \in batch THEN "processing" ELSE status[j]]
  /\ UNCHANGED <<lastId, work, priority, retryCount, dlq>>

-----------------------------------------------------------------------------
(* Complete: the handler's function inserts the follow-up jobs new, and the   *)
(* row is deleted whatever its status, in the same transaction.               *)

CompleteKeepsRow(j, new) ==
  /\ EnqueueMany(new)
  /\ status' = [Inserted(status, new) EXCEPT ![j] = "pending"]
  /\ UNCHANGED dlq

CompleteJob(j, new) ==
  /\ EnqueueMany(new)
  /\ status' = [Inserted(status, new) EXCEPT ![j] = "absent"]
  /\ UNCHANGED dlq

-----------------------------------------------------------------------------
(* Fail: seen is the retry_count its SELECT returned.  An exhausted job gets  *)
(* a dead-letter row and keeps its row, failed; any other goes back to        *)
(* pending with one retry more.                                               *)

ExhaustedLate(seen) == seen > MaxRetries
ExhaustedEarly(seen) == seen >= MaxRetries - 1
Exhausted(seen) == seen >= MaxRetries

\* (Variant: the row goes back to pending as well.)
BuryButRetry(j) ==
  /\ dlq' = [dlq EXCEPT ![j] = @ + 1]
  /\ status' = [status EXCEPT ![j] = "pending"]
  /\ UNCHANGED retryCount

Bury(j) ==
  /\ dlq' = [dlq EXCEPT ![j] = @ + 1]
  /\ status' = [status EXCEPT ![j] = "failed"]
  /\ UNCHANGED retryCount

Retry(j) ==
  /\ retryCount' = [retryCount EXCEPT ![j] = @ + 1]
  /\ status' = [status EXCEPT ![j] = "pending"]
  /\ UNCHANGED dlq

FailJob(j, seen) ==
  /\ IF Exhausted(seen) THEN Bury(j) ELSE Retry(j)
  /\ UNCHANGED <<lastId, work, priority>>
=============================================================================
