------------------------------ MODULE Commands ------------------------------
(* The commands of prowiki as processes on one database: NewContainer         *)
(* (internal/di/container.go) and its get-or-create of the project row, the   *)
(* work of the command, the signal handling of internal/cli/root.go, and the  *)
(* end of each process.  The ingest command's work is Walker; of the daemon   *)
(* only its return matters here (module Daemon); the server's is the listener, *)
(* its requests, and the goroutine that shuts it down (internal/api).         *)
EXTENDS Walker, Sequences

CONSTANT Requests   \* the requests clients send

Command == {"ingest", "daemon", "server"}

ASSUME CommandsAssumption == IsFiniteSet(Requests)

VARIABLES
  phase,      \* where each command is in RunE
  exit,       \* its exit code
  projects,   \* the rows of table projects that have this directory's name: who inserted each
  project,    \* the id of the project each command works with, 0 before it has one
  signalled,  \* commands other than ingest whose context is cancelled
  listener,   \* the server's listener
  shutdown,   \* where the goroutine is that waits for ctx.Done
  request     \* where each request is

commandVars == <<phase, exit, projects, project>>
serverVars == <<listener, shutdown, request>>
allVars == <<vars, commandVars, signalled, serverVars>>

Phases == {"off", "lookup", "create", "work", "close", "closed", "exited"}

CommandsTypeOK ==
  /\ TypeOK
  /\ phase \in [Command -> Phases]
  /\ exit \in [Command -> {0, 1}]
  /\ projects \in Seq(Command)
  /\ project \in [Command -> 0 .. Len(projects)]
  /\ \A c \in Command : phase[c] \in {"work", "close", "closed"} => project[c] # 0
  /\ signalled \subseteq Command \ {"ingest"}
  /\ listener \in {"none", "open", "closed"}
  /\ shutdown \in {"waits", "shutting", "drained", "timedOut"}
  /\ request \in [Requests -> {"unsent", "accepted", "read", "answered", "refused", "cut"}]

CommandsInit ==
  /\ Init
  /\ phase = [c \in Command |-> "off"]
  /\ exit = [c \in Command |-> 0]
  /\ projects = <<>>
  /\ project = [c \in Command |-> 0]
  /\ signalled = {}
  /\ listener = "none" /\ shutdown = "waits"
  /\ request = [r \in Requests |-> "unsent"]

-----------------------------------------------------------------------------
(* Execute: the first SIGINT or SIGTERM cancels the context.                  *)

CtxDone(c) == IF c = "ingest" THEN cancelled ELSE c \in signalled

Up(c) == phase[c] \notin {"off", "exited"}

Signal(c) ==
  /\ Up(c)
  /\ IF c = "ingest" THEN Cancel /\ UNCHANGED signalled
                     ELSE signalled' = signalled \cup {c} /\ UNCHANGED vars
  /\ UNCHANGED <<commandVars, serverVars>>

Enter(c, ph) == phase' = [phase EXCEPT ![c] = ph]

Start(c) ==
  /\ phase[c] = "off"
  /\ Enter(c, "lookup")
  /\ UNCHANGED <<vars, exit, projects, project, signalled, serverVars>>

-----------------------------------------------------------------------------
(* NewContainer.                                                              *)

\* Variant: the newest row is taken.
NewestProject == Len(projects)

\* QueryRow's first row: the table is scanned in the order of its ids.
FirstProject == IF projects = <<>> THEN 0 ELSE 1

Lookup(c) ==
  /\ phase[c] = "lookup" /\ ~CtxDone(c)
  /\ IF projects = <<>>
     THEN Enter(c, "create") /\ UNCHANGED project
     ELSE Enter(c, "work") /\ project' = [project EXCEPT ![c] = FirstProject]
  /\ UNCHANGED <<vars, exit, projects, signalled, serverVars>>

\* ProjectStore.Create.  No index keeps a name from having two rows.
Create(c) ==
  /\ phase[c] = "create" /\ ~CtxDone(c)
  /\ projects' = Append(projects, c)
  /\ project' = [project EXCEPT ![c] = Len(projects) + 1]
  /\ Enter(c, "work")
  /\ UNCHANGED <<vars, exit, signalled, serverVars>>

\* db.Open, the SELECT or the INSERT fails (no init was run, the database is
\* locked, the context is cancelled): the process ends with code 1.
ContainerFails(c) ==
  /\ phase[c] \in {"lookup", "create"}
  /\ Enter(c, "exited")
  /\ exit' = [exit EXCEPT ![c] = 1]
  /\ UNCHANGED <<vars, projects, project, signalled, serverVars>>

-----------------------------------------------------------------------------
(* The work of the command, and the deferred DB.Close.                        *)

Leave(c, code) ==
  /\ phase[c] = "work"
  /\ Enter(c, "close")
  /\ exit' = [exit EXCEPT ![c] = code]
  /\ UNCHANGED <<vars, projects, project, signalled, serverVars>>

IngestWorks ==
  /\ phase["ingest"] = "work"
  /\ Goroutine \/ Loop
  /\ UNCHANGED <<commandVars, signalled, serverVars>>

\* Variant: the error is printed and dropped.
IngestReturnsNil == run = "returned" /\ Leave("ingest", 0)

IngestReturns ==
  run = "returned" /\ Leave("ingest", IF result = "error" THEN 1 ELSE 0)

DaemonReturns == CtxDone("daemon") /\ Leave("daemon", 0)

\* Close waits for the statements that run, not for those who mean to run one.
Close(c) ==
  /\ phase[c] = "close"
  /\ Enter(c, "closed")
  /\ UNCHANGED <<vars, exit, projects, project, signalled, serverVars>>

\* The process ends, with whatever its other goroutines were doing.
Exit(c) ==
  /\ phase[c] = "closed"
  /\ Enter(c, "exited")
  /\ request' = IF c # "server" THEN request
                ELSE [r \in Requests |->
                        IF request[r] \in {"accepted", "read"} THEN "cut" ELSE request[r]]
  /\ UNCHANGED <<vars, exit, projects, project, signalled, listener, shutdown>>

-----------------------------------------------------------------------------
(* The server.                                                                *)

\* ListenAndServe binds the port, unless Shutdown was faster.
Listen ==
  /\ phase["server"] = "work" /\ listener = "none" /\ shutdown = "waits"
  /\ listener' = "open"
  /\ UNCHANGED <<vars, commandVars, signalled, shutdown, request>>

ListenFails ==
  /\ listener = "none" /\ shutdown = "waits"
  /\ Leave("server", 1)

\* Variant: Start itself waits for the context.
ServeUntilDone ==
  /\ shutdown # "waits" \/ CtxDone("server")
  /\ Leave("server", 0)

\* ListenAndServe returns ErrServerClosed as soon as Shutdown has begun.
ServeReturns ==
  /\ shutdown # "waits"
  /\ Leave("server", 0)

\* The goroutine is started before ListenAndServe; Shutdown closes the listener
\* first.
BeginShutdown ==
  /\ phase["server"] = "work" /\ CtxDone("server") /\ shutdown = "waits"
  /\ shutdown' = "shutting"
  /\ listener' = "closed"
  /\ UNCHANGED <<vars, commandVars, signalled, request>>

Open == {r \in Requests : request[r] \in {"accepted", "read"}}

\* Shutdown returns when no request is open, or after five seconds.
EndShutdown ==
  /\ shutdown = "shutting" /\ Up("server")
  /\ shutdown' \in IF Open = {} THEN {"drained"} ELSE {"timedOut"}
  /\ UNCHANGED <<vars, commandVars, signalled, listener, request>>

Put(r, s) ==
  /\ request' = [request EXCEPT ![r] = s]
  /\ UNCHANGED <<vars, commandVars, signalled, listener, shutdown>>

Accept(r) == listener = "open" /\ request[r] = "unsent" /\ Put(r, "accepted")

\* A handler's one SELECT (handleGetProject has none); after DB.Close it is refused
\* and the client gets a 500, or handleGetFile's 404.
Query(r) ==
  /\ request[r] = "accepted" /\ Up("server")
  /\ Put(r, IF phase["server"] = "closed" THEN "refused" ELSE "read")

Answer(r) == request[r] = "read" /\ Up("server") /\ Put(r, "answered")

-----------------------------------------------------------------------------
Own(c) == Lookup(c) \/ Create(c) \/ ContainerFails(c) \/ Close(c) \/ Exit(c)

ServerMain == Listen \/ ListenFails \/ ServeReturns

CommandsNext ==
  \/ \E c \in Command : Start(c) \/ Signal(c) \/ Own(c)
  \/ IngestWorks \/ IngestReturns \/ DaemonReturns
  \/ ServerMain \/ BeginShutdown \/ EndShutdown
  \/ \E r \in Requests : Accept(r) \/ Query(r) \/ Answer(r)

CommandsSpec == CommandsInit /\ [][CommandsNext]_allVars

\* Every goroutine is scheduled and every statement returns; the daemon's batch
\* ends (Daemon).  Nobody has to start, signal or ask anything.
CommandsFairness ==
  /\ \A c \in Command : WF_allVars(Own(c))
  /\ WF_allVars(Goroutine /\ IngestWorks) /\ WF_allVars(Loop /\ IngestWorks)
  /\ WF_allVars(IngestReturns) /\ WF_allVars(DaemonReturns)
  /\ WF_allVars(ServerMain) /\ WF_allVars(BeginShutdown)

-----------------------------------------------------------------------------
(* Properties.                                                                *)

\* Commands that run side by side disagree about the project's row only when one
\* of them has inserted a row beside the first: whoever finds a row works with
\* the first one, so a split ends with the process that caused it
\* (NewContainer's SELECT and INSERT).
SplitOnlyByCreator ==
  \A c, d \in Command : 0 \notin {project[c], project[d]} /\ project[c] # project[d] =>
    \E e \in {c, d} : project[e] > 1 /\ projects[project[e]] = e

\* A request goes without its rows, refused by a closed database or cut off by the
\* end of the process, only if it came in before a server that was told to stop
\* closed its listener, and it is cut off only while Shutdown still waits for it or
\* has given up (Start's goroutine against serverCmd's deferred Close).
CutOnlyInShutdown ==
  \A r \in Requests :
    /\ request[r] \in {"refused", "cut"} => CtxDone("server") /\ listener = "closed"
    /\ request[r] = "cut" => shutdown \in {"shutting", "timedOut"}

\* An ingest command that ends with code 0 has handed every wanted file to
\* ProcessFile, under a project that exists.  As for NilMeansComplete, the code does
\* not say that their rows were written: a database error in ProcessFile ends with
\* code 0 too, whatever design.md:556 says.
ZeroMeansComplete ==
  phase["ingest"] = "exited" /\ exit["ingest"] = 0 =>
    got = Wanted /\ project["ingest"] \in DOMAIN projects

\* Every command that is signalled ends, whatever it was doing, a server that is
\* signalled before it listens included; an ingest command ends by itself, and
\* its walker's goroutine before it, unless NewContainer failed.
CommandsEnd ==
  /\ \A c \in Command : Up(c) /\ CtxDone(c) ~> phase[c] = "exited"
  /\ phase["ingest"] = "work" ~>
       run = "returned" /\ at = "gone" /\ phase["ingest"] = "exited"
=============================================================================
