# A verification development for prowiki

prowiki reads a code base into SQLite and lets language models describe it. `prowiki ingest` walks the
files and records versions; a change of a file's structure inserts a job; `prowiki daemon` claims jobs,
runs a handler for each (which calls a model through a LiteLLM proxy) and deletes, retries or parks the
job. The processes share nothing but the database. What can go wrong is therefore mostly a matter of
order: who commits between two statements of somebody else, what a crash or an expired context leaves
behind, and what a retry meets of its predecessor.

This directory models that core in TLA+: fourteen modules translated from the Go code (and two abstract ones, which
the queue with its daemons and ingestion implement), model-checked by TLC on small instances. Every safety
property of those runs, those of the pure algorithms included, is proved by TLAPS for every instance; liveness
is model-checked only. `PROJECT.json` lists the components, the runs, the lines each definition models, the
hazards and the theorems; this file explains them.

## 1. The system

| Part (`internal/...`) | State it keeps | Operations | Correct when |
|---|---|---|---|
| Job queue: `queue`, `store/job_store`, `store/dlq_store` | tables `job_queue`, `dead_letter_queue` | Enqueue, EnqueueMany, ClaimBatch, UpdateStatus, ResetCompletedForTarget, Complete, Fail | a job is in one pair of hands; retries counted exactly; one dead letter per exhausted job |
| Worker daemon: `worker/daemon` | the claimed batch, the current job, the main and the cleanup context | Start, processBatch, processJobSafe | a job stranded only by a refused Fail or by death, effects of a handler once per job, stops when told to |
| Wired dispatcher: `handlers` | none | Dispatch, ParseHandler.Handle | knows the stages that producers insert |
| Transactions: `txn`, `db` | one connection per process, WAL, 5 s busy timeout | Immediate | one step for everybody else |
| Ingestion: `app/ingest`, version tables in `store/file_store` | `files`, `file_versions`, `file_features`; per file: the row and the latest version it read | Run, ProcessFile | one row per file, one latest version, one overview job per change |
| Structural hash: `ast`, `domain/language` | none | Parse, StructuralHash | equal exactly for equal lines of code, where comments are plain |
| File scanner: `scanner` | a goroutine, two channels | Walk; drained by ingestion's Run | returns; nil only after every wanted file |
| Extraction: `app/extract`, `worker/dispatcher`, `store/feature_store` | version summary, `features`, `file_features`, follow-up jobs | ProcessOverview, ServiceDispatcher.Dispatch | a job leaves the queue only when its results are stored |
| LLM client and its callers: `llm/client`, `llm/discovery`, `app/extract`, `app/graph`, `app/style` | attempt, backoff, context | Complete, DiscoverBoundary, Synthesize, Evaluate | bounded retries, one retry of an overflow in ProcessOverview and none elsewhere, stops on cancellation |
| Conversations and answers: `llm/history`, `llm/schema`, `tokenizer/counter` | messages | TrimToBudget, ParseStrict | drops the fewest, oldest messages; reads the object in the answer |
| Macro pipelines: `store/graph_store` | table `feature_interactions` | DiscoverMacroPipelines | the depth limit loses nothing of the project |
| Commands and container: `cli`, `di` | table `projects`; per process: the project's id, the context, the exit code | ingest, daemon, server; NewContainer | one project for all; code 0 only after every wanted file was handed over; every signalled command ends |
| HTTP server: `api` | the listener, the requests, the goroutine that waits for the signal | Start, the handlers | a request is lost only in a shutdown |
| Not modelled | | init, prompts, scrubber, metrics, migrations, logging, configuration, keys | see section 8 |

How they interact:

- **Through rows.** Ingestion inserts `level_1_overview` jobs and resets completed ones; the daemons claim
  by `UPDATE ... RETURNING`, and afterwards name a job by its id only. Each process has a pool of one
  connection, so within a process statements are serial, and between processes a commit can fall between
  any two statements that are not in one transaction. `txn.Immediate` is a deferred `BEGIN`: `Fail`, which
  reads before it writes, can find its snapshot too old (SQLITE_BUSY_SNAPSHOT, which the busy timeout does
  not retry).
- **Through contexts.** A signal cancels the main context, on which handlers, `TxFunc` statements and LLM
  calls run. `processJobSafe` makes a cleanup context of five seconds *before* it dispatches; `Complete`
  and `Fail` run on that.
- **Through processes' starts and ends.** Each command looks its project up and creates it if it is not there,
  in two statements; a deferred `Close` of the database follows the command's work, while the server's handlers
  and its shutdown goroutine may still run.
- **Through channels.** The walker's goroutine hands files to `Run` over an unbuffered channel and its
  error over a buffered one.

Behaviours that are hard to test, and that the models contain: two daemons on one queue; cancellation at
any point; panics; failed transactions, Fail's own among them; an expired cleanup context; a lost upgrade of Fail's transaction;
crash and restart between any two steps; ingestion resetting a row a worker still holds; retries that meet
half of what the previous attempt wrote; the walk's shutdown; commands that start and stop side by side; the
server's listener, requests and shutdown against the closing of the database; backoff against deadlines.

## 2. Modules

    JobQueue ──┬── JobQueueProofs                    (TLAPS, EXTENDed by the proofs below)
               ├── Daemon ──┬── MCDaemon             (TLC)
               │            ├── DaemonProofs ── DaemonRefinement ── implements JobLifecycle
               ├── Ingest ──┬── MCIngest
    VersionStore ┘   │      ├── IngestProofs ────────── implements Catalog
    Structure ───────┘      │     └─────────────────────┐
                            └── Pipeline ──┬── MCPipeline
                                           └── PipelineProofs
    Walker ── Commands ──┬── MCWalker
                         └── CommandsProofs
    Selection ── History, Structure ─┐
    Schema, Interactions ────────────┴── AlgorithmProofs ── EXTENDed by IngestProofs and LlmProofs
    LlmClient ── LlmCallers ── MCLlm (with the four modules above) ── LlmProofs

**JobQueue** is the two tables as functions of the job's id (a column each) and every statement that writes
them as one committed transaction: `Enqueue`, `ResetAndEnqueue`, `UpdateStatus`, `ClaimBatch`, `CompleteJob`
and `FailJob`. Ids are AUTOINCREMENT: they are handed out in order and never again, so "absent" for an id
that was handed out means deleted.

**JobLifecycle** is what a user of the queue wants to rely on, without tables and processes: a job waits,
runs, and is finished (with its follow-up jobs appearing in the same step), given back one try older, or
buried after the last try; nothing touches a finished or buried job.

**Catalog** is what a reader of ingestion's tables relies on, without rows, versions and hashes: the code of each path, and
the sequence of requests to describe it. A step changes the code of one path and appends one request, and nothing
else is ever seen: not an aborted file, not a comment, not a second row.

**Daemon** has one action per step of `daemon.go` at which another process, or a fault, can come between:
`Claim`, `Take`, `DispatchOk/Fails`, `CompleteOk/Fails`, `FailRead`, `FailWrite`, `FailGivesUp`, `EndBatch`,
`Stop`. `pc` says where a daemon is, `todo` and `cur` what it has in hand, `late` that the cleanup context
has expired, `seen` and `stale` what Fail's open transaction has read and whether somebody committed since.
The environment inserts jobs, cancels, lets deadlines pass, kills and restarts. `Faults` says which of it
happens, so that one module answers both "what holds whatever happens" and "what holds unless X happens".
`attempts`, `applied` and `lost` are history variables; `lost` collects the jobs a daemon let go of without giving them
back, because Fail returned an error (`FailGivesUp`: the cleanup context has expired, the row is gone, the snapshot is too
old, or, with the fault `failtx`, any statement or the commit just fails) or because the process died.

**VersionStore** and **Ingest** are the version tables and `ProcessFile`: the file row and its latest version
are read (and the row inserted) outside the transaction `Bypass` or `Replace` then commits. **Structure** is
the normaliser: a text is a sequence of words, `StripByLanguage` are the three passes over it, and `Code`
is an independent reader that goes through the text once, with a mode, as the language does.

**Pipeline** composes ingestion with workers that run `ProcessOverview`, which writes with one autocommitted
statement after the other. It takes the jobs through `ServiceDispatcher`. The container does not construct
that one yet (it wires `handlers.Dispatcher`); Pipeline is thus the system the two packages are written
for, and Daemon the one that runs today. What happens inside Fail's transaction is Daemon's subject; here Fail is one step,
which is taken (`Fail`) or refused as a whole (`FailRefused`: no row, or with `MayFail` whatever error, the expired
cleanup context included), and a refused one leaves the row as it is.

**Walker** is the goroutine of `Walk`, `filepath.Walk`'s order over a tree (an entry knows the last entry
below it), the two channels with their buffers and closing order, and `Run`'s loop.

**Commands** puts the processes around it: each command starts, looks up or creates its project (`Lookup`, `Create`
or `ContainerFails`), works, closes the database and ends with an exit code, and can be signalled at any moment.
The ingest command's work is the walk, action by action; the daemon's is only that it returns when cancelled
(what it does before is Daemon's subject); the server's is `Listen`, the goroutine that waits for the signal and calls
`Shutdown` (`BeginShutdown`, `EndShutdown`, which gives up after five seconds), and requests that are accepted, run
one SELECT and are answered. `ServeReturns` follows `BeginShutdown` at once, as `ListenAndServe` does, so `Close`
and `Exit` race with requests that are still open.

**LlmClient** is `Complete` with metadata, call, error mapping and backoff, time in seconds. **LlmCallers**
adds the four callers. Tokens are the program's own (four bytes); `density` is how many bytes the model
makes a token of, so that the program's estimate and the model's window can disagree, as they do.
**History**, **Schema** and **Interactions** are pure functions, compared with reference definitions. **Selection** is the
slice that is left when a loop drops some elements, written with the ranks of their places instead of a recursion.

Some modules contain a second form of a definition, marked "Variant": the same step with a plausible mistake.
Nothing refers to them. Putting one in the place of its original makes TLC find the property violated
that `PROJECT.json` names under "mutants".

## 3. Runs

| Run | Shows |
|---|---|
| `daemon_faults` | Two daemons, three jobs, all eight faults at once. `Ownership`, `DeadLetterOnce`, `AttemptsCounted`, `EffectsOnce` hold, the jobs left `processing` in nobody's hands are exactly the lost ones (`StrandedAreLost`), and every step is a step of `JobLifecycle`. About 940,000 states. |
| `daemon_graceful` | Liveness of two daemons whose handlers, Complete and Fail may fail or panic and that are cancelled and started again, claiming one job at a time so that a backlog stays behind: `EveryJobSettles` (finished, parked, or lost to a refused Fail), `ShutdownCompletes`. About 250,000 states. |
| `daemon_deadline` | Expected violation of `CleanupSucceeds`: the comment in `daemon.go:72` against the five seconds that start before Dispatch. |
| `daemon_ingested` | Expected violation of `IngestedJobsProcessed`: what ingestion inserts, the wired dispatcher does not know. |
| `ingest_single` | One ingest process, files that keep changing, aborted anywhere: `OneRowPerPath`, `OneLatest`, `JobPerChange` (a job exactly for each version whose *code* differs from the one before it), and every step is a step of `Catalog`. TLC also evaluates that the contents' comments are plain in their languages (`ContentsPlain`), from which `HashTellsCode`, which two theorems assume, is proved to follow. About 570,000 states. |
| `ingest_two` | Expected violation of `SetLatestSwaps`: two ingest processes make two latest versions. |
| `pipeline_shared` | Two workers that crash, ingestion resetting rows under them, answers with and without a feature: `SharedOnlyAfterReset` says exactly in which window a job has two workers. About 2.6 million states. |
| `pipeline_faults` | One worker whose every call and statement can fail, Fail's too, and that can die: `ExtractedBeforeGone` (an overview job that is gone has left the summary, every feature of one answer, and the next stage's job), `OnlyRefusalsStrand` (nothing but a refused Fail or a death leaves a job in nobody's hands), and `JobsSettle` under fairness. About 630,000 states. |
| `pipeline_clone` | Expected violation of `UnchangedKeepsFeatures` (design Property 1): the bypass clones the half-written features of a running extraction. |
| `pipeline_fanout` | Expected violation of `OverviewFansOut` (design Property 4): a feature name that exists already can never be stored again. |
| `walker` | The ingest command over two trees, every choice of two refused entries and one broken one: `NilMeansComplete`, `OnlyWanted`, `ZeroMeansComplete`. Over one of the trees a daemon and a server with a request run beside it, each started and signalled at any moment: `SplitOnlyByCreator`, `CutOnlyInShutdown`. And, under fairness, `CommandsEnd`. |
| `llm` | `TransientOutlivesCleanup`, `CancelStopsCalls`, `OverflowRetries`, `CutPromptFits`, `ThresholdIsBoundary`, `StoredWhenNil`; and, for the pure algorithms, `TrimDropsFewest`, `AnswerRead` and `HashIsCode` (the normaliser against the reader, every text of up to five words in three languages) and `DepthHidesNothing` (the recursive query against the interactions' graph), each input a state of its own. |

The five violations are disagreements between a sentence of the repository and what the code does;
"findings" in `PROJECT.json` quotes the sentence.

Two of the passing properties deserve a second look. `TransientOutlivesCleanup` is not good news: a completion
that fails for good has waited at least 1 + 2 + 4 seconds, so the Fail that follows in `processJobSafe` always
finds its five-second context expired, and the job stays `processing`. And `SharedOnlyAfterReset` describes
a window that does exist: `ProcessOverview` writes `completed` itself, ingestion may make that row pending
again before `Complete` deletes it, and the second worker's job is deleted under it.

Some passing properties state what the code does where a document says something else. The code is the reference
here, and each of these is said again at the property:

| Document | Code | Stated by |
|---|---|---|
| design.md:548: a refused `Fail` leaves the job `processing` until "a future cleanup pass" | there is no such pass, and the job stays so for good; the error is not logged either | `StrandedAreLost`, `OnlyRefusalsStrand` |
| design.md:549: a job that panicked is marked `failed` | it is given back like any other failure, up to three times | `AttemptsCounted` |
| design.md:550: a dead letter after MAX_RETRIES (default 5) failures | after four; the number is written in `Fail`. README.md:11 agrees with the code | `AttemptsCounted` |
| design.md:556: a database error of ingestion is returned to the caller | `Run` drops what `ProcessFile` returns (service.go:62-64): `nil`, and code 0, mean that every wanted file was handed over, not that its rows were written | `NilMeansComplete`, `ZeroMeansComplete` |
| design.md:462, requirements.md:101: every completion that overflows is retried exactly once, with TrimToBudget | only ProcessOverview does, and it cuts the text; `Synthesize` and `Evaluate` return the overflow | `OverflowRetries` |
| design.md:456: TrimToBudget(B) yields at most B tokens and keeps the system message | below the cost of the system messages it cannot do both, and keeps them | `TrimDropsFewest` |
| README.md:9: extraction is bypassed if only whitespace or comments changed | indentation and blanks in a line change the hash | `HashIsCode` |
| README.md:9, requirements.md:257, design.md:492 (Property 16): `//` behind code and every `/* */` are ignored | `//` behind code is hashed, and so is the blank that a block comment behind code leaves | `HashIsCode`, whose `Plain` leaves out the former |
| README.md:17: `DiscoverBoundary` searches for the safe capacity of a model | for every window below 515,625 tokens it reports an error, its step being used up before it gets there | `ThresholdIsBoundary`, of the thresholds it returns |

Seen in the runs, and to our knowledge promised otherwise nowhere: a retried
`ProcessOverview` can insert a second `level_2_entity` job; the bypass inserts the new version without the
summary of the old one; two commands that start together on a new database make two projects, and each works
with its own until it ends (`SplitOnlyByCreator` says how far that goes); a request that is open when the server
is told to stop can be answered with an error because the database is closed already, or be cut off
(`CutOnlyInShutdown`); the macro pipelines of a project include features of other projects that its interactions
name; a mark of a block comment inside a string or line comment hides the code behind it from the structural
hash (`Plain` excludes such texts).

## 4. Bounds

- `MaxId` bounds the ids. In Daemon the guard `Room` lets outside jobs in only while each live job's
  follow-up job also has an id, so the bound never stops a daemon; in Pipeline `MaxId` is one overview job per
  version and one entity job, and a feature name is created once, so again no worker is stopped (only in
`pipeline_shared`, where an answer can be empty, the bound can stop one; that run has no liveness property). Three ids
  are enough for a parent, its follow-up, and a competitor with another priority; a job's whole life (four
  attempts) is in every run.
- `BatchLimit` (10 in the code) is 2, and 1 in `daemon_graceful` and `pipeline_faults`. With 2 the loop goes over a batch;
  with 1 a claim leaves pending jobs behind, which is where one could be passed over for ever. `MaxId` also bounds how many
  jobs of higher priority can ever arrive: that an endless stream of them starves a job is not excluded by
  `EveryJobSettles`, and by the claim's order it would.
- `MaxVersion` and `MaxFile` bound ingestion: four versions over two files (with one path as a Go file and one
  the parser has no rules for), so a file can change, change back and be re-ingested unchanged. In Pipeline two
  versions of one file are enough for a reset and a clone.
- Contents are three texts in ingestion (two programs, and the first with comments and empty lines), two in
  Pipeline. Texts of five words contain every interplay of two marks with code between or around them.
- The walker's trees have five entries: nested directories, an empty one, one at the end. The three commands run
  side by side over one of them only (`Together`), with one request: the walk's outcome and the other commands
  meet in the project row and in nothing else.
- The interactions are every part of a chain of nine features, two longer than the query is deep, with two ways back.
- Context windows are picked around each threshold of the two algorithms; a call takes nothing or a second.
- Symmetry: the daemons in `daemon_faults` and the workers in `pipeline_shared` are interchangeable; no run with
  a liveness property uses it.
- `CHECK_DEADLOCK FALSE` stands only in the walker and LLM runs, where a walk or a caller ends.

## 5. Fairness

`daemon_graceful` and `pipeline_faults` assume weak fairness of each running daemon's own steps: the loop of
`Start` goes on because `time.Sleep` returns, `database/sql` returns (a busy timeout bounds the wait), and the
client's retries are bounded. Nothing is assumed to insert, cancel, crash or restart. A stopped daemon is
restarted only if somebody does it: `EveryJobSettles` therefore assumes one daemon that is left running,
and nothing about the others. Nor is Fail assumed to succeed: a job it could not give back counts as settled in `lost`
(`Limbo` in Pipeline), as nothing in the program takes it up again. `walker` (`CommandsFairness`) assumes that each goroutine of a process that was started
is scheduled, that its statements return, and that a cancelled daemon returns, which is `ShutdownCompletes` of
`daemon_graceful`; nobody is assumed to start, signal or ask anything, and a client need not get its answer.

## 6. Proofs

TLAPS checks the theorems below for every value of the constants that satisfies the named ASSUMEs of the modules
(types of the constants; the stages that are inserted are stages; in Pipeline, that the model has at least one
possible answer, which is a sequence of features; in Walker, that the trees are trees). Further assumptions
are in the theorem's own ASSUME.

**JobQueueProofs** says what each statement on `job_queue` keeps and which rows it touches; Daemon's, Ingest's and
Pipeline's proofs cite it instead of the statements' definitions.

**DaemonProofs**, for every number of daemons and jobs, every batch size, and every set of faults. `Ownership`, `DeadLetterOnce`, `AttemptsCounted` and `EffectsOnce` are not inductive one by one.
A retry count cannot be exact unless what a daemon remembers is: the claimed jobs it has not begun have
`attempts = retryCount`, the one it is on has one attempt more, and Fail's `seen` is the row's count. That is
`Bookkeeping`, and

    IInv == TypeOK /\ Ownership /\ DeadLetterOnce /\ AttemptsCounted /\ EffectsOnce /\ Bookkeeping

is inductive. The argument hangs on `Ownership`: since only the holder changes a processing row, what a daemon
read about its job stays true until it writes, which is also why a stale snapshot can refuse Fail's write but
never make it write an old count. One lemma per action proves that it keeps `IInv`; the theorems
`TypeCorrect`, `OwnershipHolds`, `DeadLetterOnceHolds`, `AttemptsCountedHolds` and `EffectsOnceHolds` follow.
`StrandedAreLostHolds` has no assumption on the faults either. `Accounted` (the property, and `AtRest`: a daemon outside
the loop and processJobSafe has nothing in hand) is inductive on top of `IInv`: `StepAccounts` shows that a step of a
daemon claims, keeps, gives back or loses jobs (`Claims`, `Keeps`, `GivesBack`, `Loses`), and that only the last adds to `lost`.

**DaemonRefinement.** `Implementation`: `Spec => Lifecycle!Spec` under the mapping `LifeOf`. Each action is a step of
`JobLifecycle` or a stutter; that FailWrite is `Bury` or `GiveBack` with the right count needs
`seen = retryCount` from `IInv`.

**AlgorithmProofs** is about the pure algorithms, for inputs of every length. The library states induction with an operator
parameter, which the provers cannot instantiate; `SetInduction` states it with a set and is proved from the
well-foundedness of `<` on the naturals, and with it `FoldExists` shows that the recursive functions of the
models are defined, and `FoldSteps` what one more word does to them. `TextInduction` is induction over a text.
- *The trim.* A round takes what is left `Without` the n oldest messages to what is left without n + 1, unless that is within
  the budget already or only the system's are left (`RoundIs`). So the loop ends at the first n that is enough
  (`TrimDropsTheFewest`). Nothing is assumed of how tokens are counted, not even that fewer messages are fewer tokens.
- *The answer.* An object's first bracket opens it and its last closes it, and it holds every bracket of
  the answer if there are as many in it as in the answer; hence the repair finds it (`ReadsTheObjectOf`).
- *The query.* A set of ids that the interactions do not lead out of and that the seeds are in contains every depth's rows
  (`HidesNothing`); and both ends of the project's interactions are found at depth 1 and 2.
- *The hash.* A simulation: `Agree` relates what the normaliser's passes have done with a prefix of the text (`Standing`: is
  a pass holding words back, and for which mark; the lines so far) to the reader's mode and lines. It holds of the empty text and every
  word keeps it, as long as the reader finds nothing unclear (`AgreeOnWord`, by the reader's four modes and three languages).
  At the end of a plain text nothing is held back, so the lines agree up to comments and blank ones, which both drop:
  `HashIsCodeOf`. `Plain` is needed: the README's section 3 names texts on which the two differ.

**IngestProofs.** `IngestTypeCorrect` holds for any number of ingest processes. The rest is false for two
(`ingest_two`), so it assumes at most one, `AtMostOne`: `OneRowPerPathHolds`, `OneLatestHolds`. The invariant is
that what the ingester read is still so (`StillSo`: the row it found is its path's only one, the version it read is
the file's latest, and "none" means none), which is what a second process breaks. `JobPerHashHolds` says of files of
any content that a version has a job exactly if its *hash* is not that of the version before. That it is the *code* that
differs (`JobPerChangeHolds`) needs besides that the hash tells codes apart on the contents there are, each in the
languages its paths give it (`HashTellsCode`). `PlainTellsCode` derives that
from `HashIsCodeOf` for contents whose comments are plain in those languages, of any length (the run's are: `ContentsPlain`); nothing in the program
guarantees it for every file (section 3).
`IngestIsCatalog`: under `AtMostOne` and `HashTellsCode`, `IngestSpec` implies `Catalog!Spec`, with the code of a path's latest
versions as `current` and the targets of the jobs, in the order of their ids, as `asked`. `Bypass` is a stutter because
equal hashes are equal code, `Replace` a `Change` because different ones are not (`CommitShows`); file rows
without versions do not show.

**PipelineProofs**, for any number of workers, ingest processes, features and answers, on top of IngestProofs. `PInv` says
for each worker what of its answer is written (`Progress`: before the n-th feature is created the summary and the
junctions of the first n - 1 are there). Nothing takes these away again, whoever resets the row or works on it too,
and that is why `ExtractedBeforeGoneHolds` needs no assumption about faults, and no exclusive ownership.
`WorkerEffects` sums up what a step does to the rows and to what is held (claim, write, mark completed, leave,
drop, crash); with it `SharedOnlyAfterResetHolds` follows for workers that crash anywhere while no call or statement fails (a
Complete that fails after a reset makes a row `pending` that another worker holds already), and `OnlyRefusalsStrandHolds`
without any such assumption: a worker lets go of a row that says processing or completed only by a refused Fail (`Drops`)
or a crash, and no other step makes a row say so that nobody holds.

**CommandsProofs**, for every tree, every choice of refused and broken entries and every finite set of requests. The walk:
what was handed over is what is wanted before the walk's position (`GoneThrough`), and how its end travels through the
two channels (`Reported`); thence `NilMeansCompleteHolds` (handed over: what `ProcessFile` made of a file is not in it) and `OnlyWantedHolds`. `CommandsTypes` is the type invariant of all. `CommandsRunTheWalk` shows that
the commands' steps are steps of the walk or stutters, so that its invariant carries over; `ProjectRows`,
`IngestExit` and `ServerInv` then give `SplitOnlyByCreatorHolds`, `ZeroMeansCompleteHolds` and `CutOnlyInShutdownHolds`.

**LlmProofs**, for every window, density, prompt, answer length and call duration. `IInv` consists of `Types`,
`SleptSoFar` (the backoff is a function of the attempt, and the seconds slept so far are one less than it),
`LateIsLast` (inside the loop no call was begun after the cancellation) and `AskedSoFar`; it gives
`BackoffOutlivesCleanup`, `CancelEndsCalls` and `OverflowRetriesHold`. `CallersInv` adds that Complete's verdict on the last
request is true of the window (`Judged`), that items become rows one by one (`Stored`), and the search's `Bracket`: the
last accepted probe is in the window and at most two steps under the next probe, and what is two steps above it is
not, if anything in reach is not. `Odd` is what integer halving loses on the way, and `FitsMono` says that a shorter
text fits as well. `CallersTypeCorrect`, `CutPromptAlwaysFits`, `SearchFindsTheBoundary` and `NilMeansStored` follow. The last four theorems,
`TrimDropsFewestHolds`, `AnswerReadHolds`, `HashIsCodeHolds` and `DepthHidesNothingHolds`, state what AlgorithmProofs says for every
input, and that the run's property holds because each sample the run draws is such an input.

Only model-checked: liveness (`EveryJobSettles`, `ShutdownCompletes`, `JobsSettle`, `CommandsEnd`), because fairness and
ENABLED are out of the prover's reach. Every other property of a passing run is stated by a theorem. Not proved
either: that SHA-256 and `json.Unmarshal` are what the models take them for, and anything about texts
whose comments are not plain.

## 7. Plan

Order of work: (1) queue and daemons, with the abstract life of a job; (2) ingestion and the version store;
(3) the two composed with extraction; (4) walker; (5) client and callers; (6) the pure algorithms; (7) the
commands around the walk, the container and the server; (8) the proofs about ingestion, pipeline, commands and
callers; (9) the query for macro pipelines; (10) the proofs about the pure
algorithms, and ingestion as a catalog. All ten are there. What could come next:

1. When the container wires `ServiceDispatcher`: Daemon's faults (an expired cleanup context, a lost upgrade) in Pipeline
   too, and what its second write of the status does to `EffectsOnce`.
2. How many `level_2_entity` jobs and dead letters one version can cause in Pipeline; and Catalog, with an answer to
   each request, as what Pipeline implements.
3. When levels 2 to 4 get their code: their actions in Pipeline, where they are now the error they return.
4. When the daemon calls the metrics: the depth gauge against the queue.

## 8. Not modelled

- Prompt registry, scrubber, configuration, logging, tiktoken, key lookup: read-only, or text work without state. Their
  errors appear as handler errors (Daemon, Pipeline, `PromptFails`, `PrepareFails`). `init` runs the migrations once; that
  it was not run is `ContainerFails`.
- Metrics: counters and a gauge that nothing in the repository calls. `SetQueueDepth` would leave the gauge of a status
  without rows at its old value.
- What the HTTP handlers select and how they lay out their answers: each is one SELECT of committed rows.
- Migrations (a library) and the stores of entities, endpoints, LLM configurations: single INSERTs and SELECTs without
  a caller in the pipeline.
- Data: what a summary or a description says, prices, formats. SHA-256 is taken to tell any two texts apart.
- Inside a transaction of `txn.Immediate` nothing of other processes is visible, and a failed one leaves nothing:
  SQLite's own guarantee is assumed, not modelled.
