------------------------------- MODULE Daemon -------------------------------
(* Worker daemons (internal/worker/daemon.go) over the job queue, with the    *)
(* dispatcher the container wires (internal/handlers/dispatcher.go).  Each    *)
(* daemon is a process of its own with a pool of one connection, so another   *)
(* process can commit between any two of its statements; a transaction of     *)
(* internal/txn is one step, except Fail's, which reads before it writes.     *)
EXTENDS JobQueue

CONSTANTS Daemons,      \* the daemon processes on one database
          BatchLimit,   \* jobs per claim (10 in processBatch)
          Submittable,  \* the [work, priority] rows other processes insert
          Faults        \* which of FaultKinds can happen

FaultKinds ==
  {"error",     \* a handler returns an error of its own (LLM, parse, prompt)
   "panic",     \* a handler, or the function it returns, panics
   "txfail",    \* a statement or the commit of the Complete transaction fails
   "cancel",    \* the daemon's context is cancelled (SIGINT, SIGTERM)
   "deadline",  \* the 5 s of the cleanup context run out
   "failtx",    \* a statement or the commit of Fail's own transaction fails
   "busy",      \* another process commits inside Fail's open transaction
   "crash"}     \* the process dies, and may be started again

ASSUME DaemonAssumption ==
  /\ BatchLimit \in Nat \ {0}
  /\ Faults \subseteq FaultKinds
  /\ "ANALYZE_STYLE" \in Work
  /\ Submittable \subseteq [work : Work, priority : Nat]

VARIABLES
  pc,         \* where each daemon is, in Start / processBatch / processJobSafe
  todo,       \* the claimed jobs the loop has not reached yet
  cur,        \* the job processJobSafe is on, 0 when none
  ctxDone,    \* the main context is cancelled
  late,       \* cleanupCtx has expired
  seen,       \* the retry_count Fail's SELECT returned
  stale,      \* somebody committed after that SELECT: the snapshot is old
  attempts,   \* history: how many times each job was dispatched
  applied,    \* history: how many times each job's TxFunc committed
  lost        \* history: the jobs let go of and not given back, because Fail
              \* returned an error or the process died

daemonVars == <<pc, todo, cur, ctxDone, late, seen, stale>>
vars == <<queueVars, daemonVars, attempts, applied, lost>>

PCs == {"poll", "loop", "dispatch", "complete", "fail", "failWrite",
        "stopped", "crashed"}

\* Inside processJobSafe.
OnJob(d) == pc[d] \in {"dispatch", "complete", "fail", "failWrite"}

\* The jobs a running daemon has claimed and not yet given back.
Held(d) == todo[d] \cup (IF OnJob(d) THEN {cur[d]} ELSE {})

TypeOK ==
  /\ QueueTypeOK
  /\ pc \in [Daemons -> PCs]
  /\ todo \in [Daemons -> SUBSET JobId]
  /\ cur \in [Daemons -> JobId \cup {0}]
  /\ ctxDone \in [Daemons -> BOOLEAN]
  /\ late \in [Daemons -> BOOLEAN]
  /\ seen \in [Daemons -> 0 .. MaxRetries]
  /\ stale \in [Daemons -> BOOLEAN]
  /\ attempts \in [JobId -> Nat]
  /\ applied \in [JobId -> Nat]
  /\ lost \subseteq JobId
  /\ \A d \in Daemons : OnJob(d) <=> cur[d] # 0

Init ==
  /\ QueueInit
  /\ pc = [d \in Daemons |-> "poll"]
  /\ todo = [d \in Daemons |-> {}]
  /\ cur = [d \in Daemons |-> 0]
  /\ ctxDone = [d \in Daemons |-> FALSE]
  /\ late = [d \in Daemons |-> FALSE]
  /\ seen = [d \in Daemons |-> 0]
  /\ stale = [d \in Daemons |-> FALSE]
  /\ attempts = [j \in JobId |-> 0]
  /\ applied = [j \in JobId |-> 0]
  /\ lost = {}

-----------------------------------------------------------------------------
(* The wired dispatcher knows one stage.  Its handler's TxFunc writes the     *)
(* summary and the features and inserts one job at priority 5.                *)

Dispatches(w) == w = "PARSE"

Downstream(w) ==
  IF Dispatches(w) THEN <<[work |-> "ANALYZE_STYLE", priority |-> 5]>> ELSE <<>>

\* Bound: outside jobs are inserted only while every follow-up job they and
\* the live jobs can still produce also has an id, so MaxId never blocks a
\* daemon.
Outstanding ==
  {j \in WithStatus("pending") \cup WithStatus("processing") : Dispatches(work[j])}
Room(job) ==
  lastId + 1 + Len(Downstream(job.work)) + Cardinality(Outstanding) <= MaxId

-----------------------------------------------------------------------------
(* Every commit makes the snapshot of the OTHER processes' open Fail          *)
(* transactions old.  Without the fault "busy" no other process commits, and  *)
(* no second one opens, while one is open.                                    *)

OpenFails(d) == {e \in Daemons \ {d} : pc[e] = "failWrite"}

CommitBeside(others) ==
  /\ "busy" \in Faults \/ others = {}
  /\ stale' = [e \in Daemons |-> IF e \in others THEN TRUE ELSE stale[e]]

\* Another process (prowiki ingest, a user of the queue) inserts a job.
Submit ==
  \E job \in Submittable :
    /\ Room(job)
    /\ Enqueue(<<job>>)
    /\ CommitBeside({e \in Daemons : pc[e] = "failWrite"})
    /\ UNCHANGED <<pc, todo, cur, ctxDone, late, seen, attempts, applied, lost>>

-----------------------------------------------------------------------------
(* Start: one select per round; the context is looked at nowhere else.        *)

\* Variant: the loop over the batch watches the context too.
StopInLoop(d) ==
  /\ pc[d] \in {"poll", "loop"}
  /\ ctxDone[d]
  /\ pc' = [pc EXCEPT ![d] = "stopped"]
  /\ todo' = [todo EXCEPT ![d] = {}]
  /\ UNCHANGED <<queueVars, cur, ctxDone, late, seen, stale, attempts, applied, lost>>

Stop(d) ==
  /\ pc[d] = "poll"
  /\ ctxDone[d]
  /\ pc' = [pc EXCEPT ![d] = "stopped"]
  /\ UNCHANGED <<queueVars, todo, cur, ctxDone, late, seen, stale, attempts, applied, lost>>

\* processBatch claims; an empty batch changes no row.  (A claim the database
\* refuses returns an error and changes nothing.)
Claim(d) ==
  /\ pc[d] = "poll"
  /\ ~ctxDone[d]
  /\ LET batch == NextBatch(BatchLimit) IN
       /\ ClaimBatch(batch)
       /\ todo' = [todo EXCEPT ![d] = batch]
       /\ CommitBeside(IF batch = {} THEN {} ELSE OpenFails(d))
  /\ pc' = [pc EXCEPT ![d] = "loop"]
  /\ UNCHANGED <<cur, ctxDone, late, seen, attempts, applied, lost>>

\* The next job of the batch, in the order RETURNING happened to give them:
\* a fresh cleanup context, then Dispatch.
Take(d) ==
  /\ pc[d] = "loop"
  /\ \E j \in todo[d] :
       /\ todo' = [todo EXCEPT ![d] = @ \ {j}]
       /\ cur' = [cur EXCEPT ![d] = j]
       /\ attempts' = [attempts EXCEPT ![j] = @ + 1]
  /\ pc' = [pc EXCEPT ![d] = "dispatch"]
  /\ UNCHANGED <<queueVars, ctxDone, late, seen, stale, applied, lost>>

\* Variant: a break that leaves the select and not the loop.
EndBatchUnlessDone(d) ==
  /\ pc[d] = "loop"
  /\ todo[d] = {} /\ ~ctxDone[d]
  /\ pc' = [pc EXCEPT ![d] = "poll"]
  /\ UNCHANGED <<queueVars, todo, cur, ctxDone, late, seen, stale, attempts, applied, lost>>

EndBatch(d) ==
  /\ pc[d] = "loop"
  /\ todo[d] = {}
  /\ pc' = [pc EXCEPT ![d] = "poll"]
  /\ UNCHANGED <<queueVars, todo, cur, ctxDone, late, seen, stale, attempts, applied, lost>>

-----------------------------------------------------------------------------
(* processJobSafe.                                                            *)

Goto(d, label) ==
  /\ pc' = [pc EXCEPT ![d] = label]
  /\ UNCHANGED <<todo, cur, ctxDone, late, seen, stale>>

\* The job is over for this daemon: back to the loop, cleanup context gone.
LeaveJob(d) ==
  /\ pc' = [pc EXCEPT ![d] = "loop"]
  /\ cur' = [cur EXCEPT ![d] = 0]
  /\ late' = [late EXCEPT ![d] = FALSE]
  /\ seen' = [seen EXCEPT ![d] = 0]
  /\ UNCHANGED <<todo, ctxDone>>

\* Dispatch returns a TxFunc.  The handler runs on the main context.
DispatchOk(d) ==
  /\ pc[d] = "dispatch"
  /\ Dispatches(work[cur[d]])
  /\ ~ctxDone[d]
  /\ Goto(d, "complete")
  /\ UNCHANGED <<queueVars, attempts, applied, lost>>

\* Dispatch returns an error, or panics and the deferred recover catches it.
DispatchFails(d) ==
  /\ pc[d] = "dispatch"
  /\ \/ ~Dispatches(work[cur[d]])
     \/ ctxDone[d]
     \/ Faults \cap {"error", "panic"} # {}
  /\ Goto(d, "fail")
  /\ UNCHANGED <<queueVars, attempts, applied, lost>>

\* Complete commits: TxFunc's statements, which run on the main context, and
\* the DELETE, which runs on the cleanup context.
CompleteOk(d) ==
  /\ pc[d] = "complete"
  /\ ~late[d] /\ ~ctxDone[d]
  /\ CompleteJob(cur[d], Downstream(work[cur[d]]))
  /\ applied' = [applied EXCEPT ![cur[d]] = @ + 1]
  /\ LeaveJob(d)
  /\ CommitBeside(OpenFails(d))
  /\ UNCHANGED <<attempts, lost>>

\* Complete rolls back and returns an error, or TxFunc panics: Fail is next.
CompleteFails(d) ==
  /\ pc[d] = "complete"
  /\ late[d] \/ ctxDone[d] \/ Faults \cap {"txfail", "panic"} # {}
  /\ Goto(d, "fail")
  /\ UNCHANGED <<queueVars, attempts, applied, lost>>

\* Fail begins its transaction (a deferred BEGIN) and reads retry_count.
FailRead(d) ==
  /\ pc[d] = "fail"
  /\ ~late[d]
  /\ status[cur[d]] # "absent"
  /\ "busy" \in Faults \/ OpenFails(d) = {}
  /\ seen' = [seen EXCEPT ![d] = retryCount[cur[d]]]
  /\ pc' = [pc EXCEPT ![d] = "failWrite"]
  /\ UNCHANGED <<queueVars, todo, cur, ctxDone, late, stale, attempts, applied, lost>>

\* Fail writes and commits: its snapshot is still the newest one.
FailWrite(d) ==
  /\ pc[d] = "failWrite"
  /\ ~late[d] /\ ~stale[d]
  /\ FailJob(cur[d], seen[d])
  /\ LeaveJob(d)
  /\ CommitBeside(OpenFails(d))
  /\ UNCHANGED <<attempts, applied, lost>>

\* Fail returns an error, which processJobSafe ignores: no row, cleanup context
\* expired, a snapshot too old to be upgraded (SQLITE_BUSY_SNAPSHOT), or any
\* other error of BEGIN, of a statement or of the commit.  Nothing is written.
FailGivesUp(d) ==
  /\ \/ pc[d] = "fail" /\ status[cur[d]] = "absent"
     \/ pc[d] = "failWrite" /\ stale[d]
     \/ pc[d] \in {"fail", "failWrite"} /\ (late[d] \/ "failtx" \in Faults)
  /\ LeaveJob(d)
  /\ stale' = [stale EXCEPT ![d] = FALSE]
  /\ lost' = lost \cup {cur[d]}
  /\ UNCHANGED <<queueVars, attempts, applied>>

-----------------------------------------------------------------------------
(* What happens to a daemon from outside.                                     *)

Cancel(d) ==
  /\ "cancel" \in Faults
  /\ pc[d] \notin {"stopped", "crashed"}
  /\ ~ctxDone[d]
  /\ ctxDone' = [ctxDone EXCEPT ![d] = TRUE]
  /\ UNCHANGED <<queueVars, pc, todo, cur, late, seen, stale, attempts, applied, lost>>

CleanupExpires(d) ==
  /\ "deadline" \in Faults
  /\ OnJob(d)
  /\ ~late[d]
  /\ late' = [late EXCEPT ![d] = TRUE]
  /\ UNCHANGED <<queueVars, pc, todo, cur, ctxDone, seen, stale, attempts, applied, lost>>

\* The process and everything it held in memory are gone; an open transaction
\* is rolled back.
Reset(d, label) ==
  /\ pc' = [pc EXCEPT ![d] = label]
  /\ todo' = [todo EXCEPT ![d] = {}]
  /\ cur' = [cur EXCEPT ![d] = 0]
  /\ ctxDone' = [ctxDone EXCEPT ![d] = FALSE]
  /\ late' = [late EXCEPT ![d] = FALSE]
  /\ seen' = [seen EXCEPT ![d] = 0]
  /\ stale' = [stale EXCEPT ![d] = FALSE]
  /\ UNCHANGED <<queueVars, attempts, applied>>

Crash(d) ==
  /\ "crash" \in Faults
  /\ pc[d] \notin {"stopped", "crashed"}
  /\ Reset(d, "crashed")
  /\ lost' = lost \cup Held(d)

\* prowiki daemon is started again; nothing is recovered from the tables.
Restart(d) ==
  /\ pc[d] \in {"stopped", "crashed"}
  /\ Reset(d, "poll")
  /\ UNCHANGED lost

-----------------------------------------------------------------------------
DaemonStep(d) ==
  \/ Stop(d) \/ Claim(d) \/ Take(d) \/ EndBatch(d)
  \/ DispatchOk(d) \/ DispatchFails(d)
  \/ CompleteOk(d) \/ CompleteFails(d)
  \/ FailRead(d) \/ FailWrite(d) \/ FailGivesUp(d)

Environment ==
  \/ Submit
  \/ \E d \in Daemons : Cancel(d) \/ CleanupExpires(d) \/ Crash(d) \/ Restart(d)

Next == Environment \/ \E d \in Daemons : DaemonStep(d)

Spec == Init /\ [][Next]_vars

\* The loop of a running daemon goes on: time.Sleep returns, database/sql's
\* calls return, and the LLM client's retries are bounded.
Fairness == \A d \in Daemons : WF_vars(DaemonStep(d))

FairSpec == Spec /\ Fairness

-----------------------------------------------------------------------------
(* Safety.                                                                    *)

\* A claimed job is in one daemon's hands only, and its row says processing as
\* long as it is: no two daemons of one database ever work on one job
\* (ClaimBatch's single UPDATE, job_store.go; Complete and Fail by job id).
Ownership ==
  \A d \in Daemons :
    /\ \A j \in Held(d) : status[j] = "processing"
    /\ \A e \in Daemons \ {d} : Held(d) \cap Held(e) = {}
    /\ cur[d] \notin todo[d]

\* The dead-letter queue names a job exactly once when the job has failed for
\* good and never otherwise, through crashes, late answers and lost upgrades
\* (Fail, sqlite_queue.go).
DeadLetterOnce ==
  \A j \in JobId : dlq[j] = IF status[j] = "failed" THEN 1 ELSE 0

\* retry_count counts the attempts that were given back, none twice and none
\* forgotten, and a job is parked after the first attempt and three retries: the
\* fourth Fail that commits (retryCount >= 3, sqlite_queue.go:59).  README.md:11
\* says "after 3 retries".  design.md does not agree with the code: its line 550
\* has MAX_RETRIES, "default 5", failures before the dead-letter queue, and its
\* line 549 has a job that panicked marked failed, which here goes back to
\* pending like any other.
AttemptsCounted ==
  \A j \in JobId :
    /\ status[j] = "pending" => attempts[j] = retryCount[j]
    /\ status[j] = "processing" => attempts[j] - retryCount[j] \in {0, 1}
    /\ status[j] = "failed" => attempts[j] = MaxRetries + 1

\* What a handler asked to be written is committed at most once per job, and
\* exactly for the jobs whose row the queue has deleted (Complete's one
\* transaction).
EffectsOnce ==
  \A j \in JobId :
    applied[j] = IF j <= lastId /\ status[j] = "absent" THEN 1 ELSE 0

\* The inductive invariant behind these four: what a daemon remembers about its
\* jobs agrees with the jobs' rows.
Bookkeeping ==
  /\ \A j \in JobId : status[j] # "completed"
  /\ \A j \in JobId : j > lastId => attempts[j] = 0 /\ retryCount[j] = 0
  /\ \A d \in Daemons :
       /\ \A j \in todo[d] : attempts[j] = retryCount[j]
       /\ OnJob(d) => attempts[cur[d]] = retryCount[cur[d]] + 1
       /\ pc[d] = "failWrite" => seen[d] = retryCount[cur[d]]

IInv ==
  /\ TypeOK
  /\ Ownership
  /\ DeadLetterOnce
  /\ AttemptsCounted
  /\ EffectsOnce
  /\ Bookkeeping

\* No running daemon has it.
Unheld(j) == \A d \in Daemons : j \notin Held(d)

\* The jobs that say processing while no running daemon has them are exactly the
\* ones whose Fail was refused (its error is dropped, daemon.go:80, 87, 94) or
\* whose daemon died holding them: no error, panic, rollback, cancellation or
\* end of a batch strands another, and nothing ever takes up one of these again
\* (ClaimBatch reads pending rows).  design.md:548 promises as much of a failed
\* Fail: "the job remains processing and will be timed out by a future cleanup
\* pass", a pass the repository does not have.
StrandedAreLost ==
  {j \in WithStatus("processing") : Unheld(j)} = lost

-----------------------------------------------------------------------------
(* What the repository says and the code does not do.                         *)

\* daemon.go:72, on the cleanup context: "so they succeed even if main ctx is
\* canceled".  If cleanup always succeeds, no job stays behind as processing
\* once its daemon has turned to something else.
CleanupSucceeds == \A j \in WithStatus("processing") : ~Unheld(j)

\* README.md:57: the daemon processes the background jobs that prowiki ingest
\* queues; with nothing going wrong none of them is parked as a poison pill.
IngestedJobsProcessed ==
  \A j \in JobId : work[j] = "level_1_overview" => status[j] # "failed"

-----------------------------------------------------------------------------
(* Liveness, under FairSpec.                                                  *)

Running(d) == ~ctxDone[d] /\ pc[d] \notin {"stopped", "crashed"}

\* As long as one daemon is left running, a job that waits is in the end
\* processed, parked in the dead-letter queue, or lost to a refused Fail (which
\* leaves it processing for good): however often handlers and transactions fail
\* and the other daemons are cancelled and started again, none circles between
\* pending and processing for ever, and none is passed over for ever by claims
\* smaller than the backlog.
EveryJobSettles ==
  (\E d \in Daemons : <>[]Running(d)) =>
    \A j \in JobId :
      status[j] = "pending" ~> status[j] \in {"absent", "failed"} \/ j \in lost

\* A daemon whose context is cancelled works its batch off and stops.
ShutdownCompletes ==
  \A d \in Daemons : ctxDone[d] ~> pc[d] = "stopped"

-----------------------------------------------------------------------------
(* The daemons implement the abstract life of a job.                          *)

LifeOf(j) ==
  CASE status[j] = "absent" /\ j > lastId  -> "new"
    [] status[j] = "absent" /\ j <= lastId -> "finished"
    [] status[j] = "pending"               -> "waiting"
    [] status[j] = "failed"                -> "buried"
    [] OTHER                               -> "running"

Lifecycle ==
  INSTANCE JobLifecycle WITH
    Job <- JobId, MaxTries <- MaxRetries,
    life <- [j \in JobId |-> LifeOf(j)], tries <- retryCount

\* Every step of the daemons, crashes and late cleanups included, is a step of
\* JobLifecycle or leaves every job as it is.
ImplementsLifecycle == Lifecycle!Spec
=============================================================================
