------------------------------ MODULE Pipeline ------------------------------
(* Ingestion, the queue and the level-1 extraction together: workers take the *)
(* jobs through worker.ServiceDispatcher (which the container does not        *)
(* construct yet: di/container.go wires handlers.Dispatcher), and it runs     *)
(* ProcessOverview of internal/app/extract/service.go.  That writes with one  *)
(* autocommitted statement after the other, so ingestion, other workers and   *)
(* an error or a crash can come between any two of them.  The daemon's own    *)
(* faults are Daemon's subject: here its Fail is one step, which is refused   *)
(* where any of its statements, its commit or the cleanup context fails.      *)
EXTENDS Ingest

CONSTANTS Workers,      \* the daemon processes
          BatchLimit,   \* jobs per claim
          Answers,      \* the feature lists the model can answer with
          MayFail,      \* whether a call or a statement can fail
          MayCrash      \* whether a daemon can die

ASSUME PipelineAssumption ==
  /\ MayFail \in BOOLEAN /\ MayCrash \in BOOLEAN
  /\ Answers # {} /\ Answers \subseteq Seq(Feature)
  /\ [stage : {"level_1_overview", "level_2_entity"}, target : VersionId] \subseteq Work

VARIABLES
  features,   \* table features: the names there are (unique in a project)
  at,         \* where each worker is in processBatch / ProcessOverview
  batch,      \* the claimed jobs it has not reached yet
  job,        \* the job it is on, 0 when none
  rest        \* the features of the model's answer still to be written

workerVars == <<at, batch, job, rest>>
vars == <<ingestVars, features, workerVars>>

Places == {"poll", "loop", "dispatch", "summary", "create", "link", "enqueue",
           "mark", "complete", "fail"}

OnJob(w) == at[w] \notin {"poll", "loop"}

\* The jobs a worker has claimed and not yet given back.
Held(w) == batch[w] \cup (IF OnJob(w) THEN {job[w]} ELSE {})

TypeOK ==
  /\ IngestTypeOK
  /\ features \subseteq Feature
  /\ at \in [Workers -> Places]
  /\ batch \in [Workers -> SUBSET JobId]
  /\ job \in [Workers -> JobId \cup {0}]
  /\ \A w \in Workers : OnJob(w) <=> job[w] # 0
  /\ \A w \in Workers : \E a \in Answers : \E n \in 1 .. Len(a) + 1 :
       rest[w] = SubSeq(a, n, Len(a))

Init ==
  /\ IngestInit
  /\ features = {}
  /\ at = [w \in Workers |-> "poll"]
  /\ batch = [w \in Workers |-> {}]
  /\ job = [w \in Workers |-> 0]
  /\ rest = [w \in Workers |-> <<>>]

Target(w) == work[job[w]].target

Ingestion ==
  /\ IngestNext
  /\ UNCHANGED <<features, workerVars>>

-----------------------------------------------------------------------------
Claim(w) ==
  /\ at[w] = "poll"
  /\ NextBatch(BatchLimit) # {}
  /\ ClaimBatch(NextBatch(BatchLimit))
  /\ batch' = [batch EXCEPT ![w] = NextBatch(BatchLimit)]
  /\ at' = [at EXCEPT ![w] = "loop"]
  /\ UNCHANGED <<storeVars, disk, ingesterVars, features, job, rest>>

Take(w) ==
  /\ at[w] = "loop"
  /\ \E j \in batch[w] :
       /\ batch' = [batch EXCEPT ![w] = @ \ {j}]
       /\ job' = [job EXCEPT ![w] = j]
  /\ at' = [at EXCEPT ![w] = "dispatch"]
  /\ UNCHANGED <<ingestVars, features, rest>>

EndBatch(w) ==
  /\ at[w] = "loop"
  /\ batch[w] = {}
  /\ at' = [at EXCEPT ![w] = "poll"]
  /\ UNCHANGED <<ingestVars, features, batch, job, rest>>

Goto(w, place) ==
  /\ at' = [at EXCEPT ![w] = place]
  /\ UNCHANGED <<batch, job>>

LeaveJob(w) ==
  /\ at' = [at EXCEPT ![w] = "loop"]
  /\ job' = [job EXCEPT ![w] = 0]
  /\ rest' = [rest EXCEPT ![w] = <<>>]
  /\ UNCHANGED batch

-----------------------------------------------------------------------------
(* ProcessOverview.                                                           *)

\* Everything up to the parsed answer only reads.
Answer(w) ==
  /\ at[w] = "dispatch"
  /\ work[job[w]].stage = "level_1_overview"
  /\ \E a \in Answers : rest' = [rest EXCEPT ![w] = a]
  /\ Goto(w, "summary")
  /\ UNCHANGED <<ingestVars, features>>

\* Variant: the last feature ends the extraction.
AfterFeatureEnds(w) == IF rest'[w] = <<>> THEN "mark" ELSE "create"

AfterFeature(w) == IF rest'[w] = <<>> THEN "enqueue" ELSE "create"

Summarise(w) ==
  /\ at[w] = "summary"
  /\ UpdateSummary(Target(w))
  /\ UNCHANGED rest
  /\ Goto(w, AfterFeature(w))
  /\ UNCHANGED <<queueVars, disk, ingesterVars, features>>

\* FeatureStore.Create; the unique index on (project_id, name) refuses a name
\* the project has already.
CreateFeature(w) ==
  /\ at[w] = "create"
  /\ Head(rest[w]) \notin features
  /\ features' = features \cup {Head(rest[w])}
  /\ Goto(w, "link")
  /\ UNCHANGED <<ingestVars, rest>>

LinkFeature(w) ==
  /\ at[w] = "link"
  /\ AddToFileVersion(Target(w), Head(rest[w]))
  /\ rest' = [rest EXCEPT ![w] = Tail(@)]
  /\ Goto(w, AfterFeature(w))
  /\ UNCHANGED <<queueVars, disk, ingesterVars, features>>

EntityJob(v) == [work |-> [stage |-> "level_2_entity", target |-> v], priority |-> 1]

EnqueueEntity(w) ==
  /\ at[w] = "enqueue"
  /\ Enqueue(<<EntityJob(Target(w))>>)
  /\ Goto(w, "mark")
  /\ UNCHANGED <<storeVars, disk, ingesterVars, features, rest>>

MarkCompleted(w) ==
  /\ at[w] = "mark"
  /\ UpdateStatus(job[w], "completed")
  /\ Goto(w, "complete")
  /\ UNCHANGED <<storeVars, disk, ingesterVars, features, rest>>

\* The dispatcher's TxFunc is empty: Complete deletes the row.
Complete(w) ==
  /\ at[w] = "complete"
  /\ CompleteJob(job[w], <<>>)
  /\ LeaveJob(w)
  /\ UNCHANGED <<storeVars, disk, ingesterVars, features>>

Refused(w) == at[w] = "create" /\ Head(rest[w]) \in features

\* Variant: processJobSafe returns without calling Fail.
ErrsWithoutFail(w) ==
  /\ \/ at[w] = "dispatch" /\ work[job[w]].stage # "level_1_overview"
     \/ Refused(w)
     \/ MayFail /\ OnJob(w) /\ at[w] # "fail"
  /\ LeaveJob(w)
  /\ UNCHANGED <<ingestVars, features>>

\* An error: of a stage the dispatcher does not implement, of the model or a
\* statement, or of the unique index.
Errs(w) ==
  /\ \/ at[w] = "dispatch" /\ work[job[w]].stage # "level_1_overview"
     \/ Refused(w)
     \/ MayFail /\ OnJob(w) /\ at[w] # "fail"
  /\ Goto(w, "fail")
  /\ rest' = [rest EXCEPT ![w] = <<>>]
  /\ UNCHANGED <<ingestVars, features>>

Fail(w) ==
  /\ at[w] = "fail"
  /\ status[job[w]] # "absent"
  /\ FailJob(job[w], retryCount[job[w]])
  /\ LeaveJob(w)
  /\ UNCHANGED <<storeVars, disk, ingesterVars, features>>

\* Fail returns an error and has written nothing: its SELECT finds no row, or
\* BEGIN, a statement or the commit fails, because the database refuses it or
\* because the cleanup context, which was made before Dispatch, has expired.
\* processJobSafe drops the error and goes on.
FailRefused(w) ==
  /\ at[w] = "fail"
  /\ MayFail \/ status[job[w]] = "absent"
  /\ LeaveJob(w)
  /\ UNCHANGED <<ingestVars, features>>

\* The process dies and is started again.
Crash(w) ==
  /\ MayCrash
  /\ at[w] # "poll"
  /\ at' = [at EXCEPT ![w] = "poll"]
  /\ batch' = [batch EXCEPT ![w] = {}]
  /\ job' = [job EXCEPT ![w] = 0]
  /\ rest' = [rest EXCEPT ![w] = <<>>]
  /\ UNCHANGED <<ingestVars, features>>

WorkerStep(w) ==
  \/ Claim(w) \/ Take(w) \/ EndBatch(w)
  \/ Answer(w) \/ Summarise(w) \/ CreateFeature(w) \/ LinkFeature(w)
  \/ EnqueueEntity(w) \/ MarkCompleted(w) \/ Complete(w)
  \/ Errs(w) \/ Fail(w) \/ FailRefused(w)

Next == Ingestion \/ \E w \in Workers : WorkerStep(w) \/ Crash(w)

Spec == Init /\ [][Next]_vars

\* A running daemon's loop goes on, as in Daemon; nothing makes ingestion run.
FairSpec == Spec /\ \A w \in Workers : WF_vars(WorkerStep(w))

-----------------------------------------------------------------------------
(* Properties.                                                                *)

OverviewJobs == {j \in 1 .. lastId : work[j].stage = "level_1_overview"}
EntityJobsOf(v) == {j \in 1 .. lastId : work[j] = EntityJob(v).work}

\* An overview job leaves the queue only when everything it was for is in the
\* database: the summary, every feature of one answer, and the job of the next
\* stage; no order of errors, crashes, retries and resets deletes it earlier
\* (ProcessOverview's statements before Complete's DELETE).
ExtractedBeforeGone ==
  \A j \in OverviewJobs : status[j] = "absent" =>
    LET v == work[j].target IN
      /\ versions[v].summary
      /\ \E a \in Answers : \A n \in DOMAIN a : a[n] \in junctions[v]
      /\ EntityJobsOf(v) # {}

\* Without errors, two workers have the same job only in the window between
\* ProcessOverview's UpdateStatus and Complete, where a re-ingested file resets
\* the completed row of a job that is still held; one of them is in it.
SharedOnlyAfterReset ==
  \A w, x \in Workers : \A j \in Held(w) \cap Held(x) :
    w # x => \E y \in {w, x} : job[y] = j /\ at[y] = "complete"

\* A row that says processing or completed and that no worker has: only the
\* reset of a completed row of a file that changes back takes it up again.
Limbo(j) ==
  /\ status[j] \in {"processing", "completed"}
  /\ \A w \in Workers : j \notin Held(w)

\* Only two things put a job there, and both happen to the worker that has it: its
\* Fail is refused (daemon.go:80, 87 and 94 drop the error, and design.md:548 says
\* the job then remains processing) or its process dies.  No error or retry of
\* ProcessOverview does, no status write of its own, no reset of a row that two
\* workers share, and no end of a batch.
OnlyRefusalsStrand ==
  [][\A j \in JobId : ~Limbo(j) /\ Limbo(j)' =>
       \E w \in Workers : j \in Held(w) /\ (FailRefused(w) \/ Crash(w))]_vars

\* Every job that waits is deleted, parked or stranded so in the end: none circles
\* for ever between errors, resets and retries, and none is never claimed, the jobs
\* of stages nobody implements and the jobs of a daemon that keeps dying included.
\* (Stranded is no rare end: a transient error of the model leaves Fail no time.)
JobsSettle ==
  \A j \in JobId :
    status[j] = "pending" ~> status[j] \in {"absent", "failed"} \/ Limbo(j)

\* design.md:402, Property 1: when a file that has features is ingested again
\* unchanged, the new version has the junctions of the version before it.  (No
\* job works on such a version: its junctions are the ones it got then.)
UnchangedKeepsFeatures ==
  \A f \in DOMAIN files : \A v, w \in VersionsOf(f) :
    w = v + 1 /\ AstHash(w) = AstHash(v) /\ junctions[w] # {} =>
      junctions[w] = junctions[v]

\* design.md:420, Property 4: whatever the model answers, ProcessOverview
\* persists it; so with no failing call no overview job is parked.
OverviewFansOut == \A j \in OverviewJobs : status[j] # "failed"
=============================================================================
