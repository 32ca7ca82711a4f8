--------------------------- MODULE CommandsProofs ---------------------------
(* Proofs about the walk, for every tree and every choice of refused and      *)
(* broken entries, and about the commands around it, for any requests.        *)
EXTENDS Commands, TLAPS

-----------------------------------------------------------------------------
(* The walk.                                                                  *)

\* What has been handed over is what is wanted of the part the walk has gone
\* through, and the walk is never inside a directory that is refused or broken.
GoneThrough ==
  /\ got = {e \in Wanted : e < pos}
  /\ \A d \in refused \cup broken : d < pos => tree.last[d] < pos
  /\ at = "send" => pos \in Entry \ (tree.dirs \cup refused \cup broken)

\* How the end of the walk travels through the channels to Run's result.
Reported ==
  /\ at \in {"report", "close", "gone"} => walkErr \/ pos = N + 1
  /\ at \in {"walk", "send"} => ~walkErr
  /\ walkErr => cancelled
  /\ errc = "error" => walkErr
  /\ closed # {} => at \in {"close", "gone"}
  /\ at \in {"close", "gone"} /\ walkErr => errc = "error" \/ run = "returned"
  /\ run \in {"await", "returned"} => "out" \in closed
  /\ run = "returned" <=> result # "none"
  /\ result = "nil" => ~walkErr
  /\ result = "error" => walkErr

WalkInv == TypeOK /\ GoneThrough /\ Reported

LEMMA TreeFacts ==
  ASSUME TypeOK
  PROVE  /\ N \in Nat
         /\ tree.dirs \subseteq Entry
         /\ tree.last \in [Entry -> Entry]
         /\ \A e \in Entry :
              /\ tree.last[e] >= e
              /\ e \notin tree.dirs => tree.last[e] = e
              /\ \A d \in e .. tree.last[e] : tree.last[d] <= tree.last[e]
BY WalkerAssumption DEF TypeOK

LEMMA WalkInit == Init => WalkInv
<1> SUFFICES ASSUME Init PROVE WalkInv
  OBVIOUS
<1>1. TypeOK
  <2>1. N \in Nat
    BY WalkerAssumption
  <2>2. broken \subseteq Entry
    BY DEF Init
  <2>3. pos \in 1 .. N + 1
    BY <2>1 DEF Init
  <2>4. tree \in Trees /\ refused \in Unwanted
    BY DEF Init
  <2>5. got \subseteq Entry /\ closed \subseteq {"out", "errc"}
    BY DEF Init
  <2> QED
    BY <2>2, <2>3, <2>4, <2>5 DEF Init, TypeOK
<1>2. GoneThrough
  <2>1. pos = 1 /\ got = {} /\ at = "walk"
    BY DEF Init
  <2>2. Wanted \subseteq 1 .. N /\ refused \cup broken \subseteq 1 .. N /\ N \in Nat
    BY <1>1, WalkerAssumption DEF Wanted, TypeOK, Entry
  <2>3. \A e \in Wanted : ~(e < pos)
    BY <2>1, <2>2
  <2>4. \A d \in refused \cup broken : ~(d < pos)
    BY <2>1, <2>2
  <2> QED
    BY <2>1, <2>3, <2>4 DEF GoneThrough
<1>3. Reported
  BY DEF Init, Reported
<1> QED
  BY <1>1, <1>2, <1>3 DEF WalkInv

\* An entry that is gone through and no wanted file leaves got as it has to be,
\* as does a jump over everything below an entry that is refused or broken.
LEMMA PassStep ==
  ASSUME WalkInv, Pass
  PROVE  WalkInv'
<1> USE DEF WalkInv
<1>0. /\ N \in Nat /\ pos \in Entry /\ pos \in 1 .. N /\ at = "walk"
      /\ UNCHANGED <<treeVars, at, got>>
  BY WalkerAssumption DEF Pass, TypeOK, Entry, runVars, treeVars
<1>1. Wanted' = Wanted
  BY <1>0 DEF Wanted, Below, IsDir, treeVars
<1>2. CASE pos \in refused \cup broken /\ pos' = tree.last[pos] + 1
  <2>1. tree.last[pos] \in 1 .. N /\ pos <= tree.last[pos]
    BY <1>0, TreeFacts DEF Entry
  <2>2. TypeOK'
    BY <1>2, <2>1, <1>0 DEF Pass, TypeOK, chanVars, runVars, treeVars
  <2>3. ASSUME NEW e \in Wanted, pos <= e, e <= tree.last[pos]
        PROVE  FALSE
    <3>1. e \in Entry /\ e # pos
      BY <2>3, <1>2 DEF Wanted
    <3>2. pos \in tree.dirs
      <4>1. pos \notin tree.dirs => tree.last[pos] = pos
        BY <1>0, TreeFacts
      <4> QED
        BY <4>1, <3>1, <2>3, <1>0 DEF Entry
    <3>3. Below(pos, e)
      BY <3>1, <3>2, <2>3, <1>0 DEF Below, IsDir, Entry
    <3> QED
      BY <3>3, <2>3, <1>2 DEF Wanted
  <2>4. {e \in Wanted : e < pos'} = {e \in Wanted : e < pos}
    <3>1. Wanted \subseteq 1 .. N
      BY DEF Wanted, Entry
    <3>2. \A e \in Wanted : e < pos' <=> e < pos
      BY <3>1, <2>1, <2>3, <1>0, <1>2
    <3> QED
      BY <3>2
  <2>5. ASSUME NEW d \in refused \cup broken, d < pos'
        PROVE  tree.last[d] < pos'
    <3>1. d \in Entry /\ d \in 1 .. N
      BY WalkerAssumption DEF TypeOK, Entry
    <3>2. tree.last[d] \in 1 .. N
      BY <3>1, TreeFacts DEF Entry
    <3>3. CASE d < pos
      BY <3>1, <3>2, <3>3, <2>1, <1>0, <1>2 DEF GoneThrough
    <3>4. CASE d \in pos .. tree.last[pos]
      <4>1. tree.last[d] <= tree.last[pos]
        BY <3>4, <1>0, TreeFacts
      <4> QED
        BY <4>1, <3>2, <2>1, <1>2
    <3> QED
      BY <3>1, <3>3, <3>4, <2>1, <2>5, <1>0, <1>2
  <2>6. GoneThrough'
    BY <2>4, <2>5, <1>0, <1>1 DEF GoneThrough, treeVars
  <2>7. Reported'
    BY <1>0 DEF Pass, Reported, chanVars, runVars
  <2> QED
    BY <2>2, <2>6, <2>7
<1>3. CASE pos \notin refused \cup broken /\ IsDir(pos) /\ pos' = pos + 1
  <2>1. TypeOK'
    BY <1>3, <1>0 DEF Pass, TypeOK, chanVars, runVars, treeVars
  <2>2. pos \notin Wanted
    BY <1>3 DEF Wanted, IsDir
  <2>3. {e \in Wanted : e < pos'} = {e \in Wanted : e < pos}
    <3>1. Wanted \subseteq 1 .. N
      BY DEF Wanted, Entry
    <3>2. \A e \in Wanted : e < pos' <=> e < pos
      BY <3>1, <2>2, <1>0, <1>3
    <3> QED
      BY <3>2
  <2>4. ASSUME NEW d \in refused \cup broken, d < pos'
        PROVE  tree.last[d] < pos'
    <3>1. d \in Entry /\ d \in 1 .. N /\ d < pos
      BY <2>4, <1>0, <1>3, WalkerAssumption DEF TypeOK, Entry
    <3>2. tree.last[d] \in 1 .. N /\ tree.last[d] < pos
      BY <3>1, TreeFacts DEF Entry, GoneThrough
    <3> QED
      BY <3>2, <1>0, <1>3
  <2>5. GoneThrough'
    BY <2>3, <2>4, <1>0, <1>1 DEF GoneThrough, treeVars
  <2>6. Reported'
    BY <1>0 DEF Pass, Reported, chanVars, runVars
  <2> QED
    BY <2>1, <2>5, <2>6
<1> QED
  BY <1>2, <1>3 DEF Pass, Behind

\* A file that is handed over was wanted: no directory above it is refused or
\* broken, since the walk is not inside one.
LEMMA HandOverStep ==
  ASSUME WalkInv, HandOver
  PROVE  WalkInv'
<1> USE DEF WalkInv
<1>0. /\ N \in Nat /\ pos \in Entry \ (tree.dirs \cup refused \cup broken) /\ pos \in 1 .. N
      /\ UNCHANGED treeVars /\ pos' = pos + 1 /\ got' = got \cup {pos}
  BY WalkerAssumption DEF HandOver, GoneThrough, Entry
<1>1. Wanted' = Wanted
  BY <1>0 DEF Wanted, Below, IsDir, treeVars
<1>2. ASSUME NEW d \in refused \cup broken
      PROVE  ~Below(d, pos)
  <2>1. d \in Entry
    BY WalkerAssumption DEF TypeOK
  <2>2. tree.last[d] \in 1 .. N
    BY <2>1, TreeFacts DEF Entry
  <2> QED
    BY <2>1, <2>2, <1>0 DEF Below, GoneThrough, Entry
<1>3. pos \in Wanted
  BY <1>0, <1>2 DEF Wanted
<1>4. TypeOK'
  <2>1. got' \subseteq Entry /\ pos' \in 1 .. N + 1
    BY <1>0 DEF TypeOK, Entry
  <2> QED
    BY <2>1, <1>0 DEF HandOver, TypeOK, chanVars, treeVars
<1>5. got' = {e \in Wanted : e < pos'}
  BY <1>0, <1>3 DEF GoneThrough, Wanted, Entry
<1>6. ASSUME NEW d \in refused \cup broken, d < pos'
      PROVE  tree.last[d] < pos'
  <2>1. d \in Entry /\ d # pos
    BY <1>0, WalkerAssumption DEF TypeOK
  <2>2. tree.last[d] \in 1 .. N /\ d < pos
    BY <2>1, <1>6, <1>0, TreeFacts DEF Entry
  <2> QED
    BY <2>2, <1>0 DEF GoneThrough
<1>7. GoneThrough'
  BY <1>0, <1>1, <1>5, <1>6 DEF GoneThrough, treeVars, HandOver
<1>8. Reported'
  BY DEF HandOver, Reported, chanVars
<1> QED
  BY <1>4, <1>7, <1>8

LEMMA WalkStep ==
  ASSUME WalkInv, [Next]_vars
  PROVE  WalkInv'
<1> USE DEF WalkInv
<1>0. UNCHANGED treeVars
  BY DEF Next, Goroutine, Loop, Cancel, Pass, Offer, Stop, WalkEnds, Report, CloseChannel,
         HandOver, Processed, RangeEnds, Return, vars
<1>1. Wanted' = Wanted
  BY <1>0 DEF Wanted, Below, IsDir, treeVars
<1>2. CASE Cancel
  BY <1>2, <1>1 DEF Cancel, TypeOK, GoneThrough, Reported, treeVars, walkVars, chanVars,
     runVars
<1>3. CASE Offer
  <2>1. TypeOK'
    BY <1>3 DEF Offer, TypeOK, treeVars, chanVars, runVars
  <2>2. GoneThrough'
    <3>1. pos \in Entry /\ UNCHANGED <<treeVars, pos, got>>
      BY <1>3, WalkerAssumption DEF Offer, TypeOK, Entry, runVars
    <3> QED
      BY <3>1, <1>3, <1>1 DEF Offer, GoneThrough, treeVars, IsDir
  <2>3. Reported'
    BY <1>3 DEF Offer, Reported, treeVars, chanVars, runVars
  <2> QED
    BY <2>1, <2>2, <2>3
<1>4. CASE Stop
  BY <1>4, <1>1 DEF Stop, TypeOK, GoneThrough, Reported, treeVars, chanVars, runVars
<1>5. CASE WalkEnds
  BY <1>5, <1>1 DEF WalkEnds, TypeOK, GoneThrough, Reported, treeVars, chanVars, runVars
<1>6. CASE Report
  BY <1>6, <1>1 DEF Report, TypeOK, GoneThrough, Reported, treeVars, runVars
<1>7. CASE CloseChannel
  BY <1>7, <1>1 DEF CloseChannel, TypeOK, GoneThrough, Reported, treeVars, runVars
<1>8. CASE Processed
  BY <1>8, <1>1 DEF Processed, TypeOK, GoneThrough, Reported, treeVars, walkVars, chanVars
<1>9. CASE RangeEnds
  BY <1>9, <1>1 DEF RangeEnds, TypeOK, GoneThrough, Reported, treeVars, walkVars, chanVars
<1>10. CASE Return
  BY <1>10, <1>1 DEF Return, TypeOK, GoneThrough, Reported, treeVars, walkVars
<1>11. CASE UNCHANGED vars
  <2>1. TypeOK'
    BY <1>11 DEF vars, TypeOK, treeVars, walkVars, chanVars, runVars
  <2>2. GoneThrough'
    BY <1>11, <1>1 DEF vars, GoneThrough, TypeOK, treeVars, walkVars, chanVars, runVars, Entry
  <2>3. Reported'
    BY <1>11 DEF vars, Reported, treeVars, walkVars, chanVars, runVars
  <2> QED
    BY <2>1, <2>2, <2>3
<1> QED
  BY <1>2, <1>3, <1>4, <1>5, <1>6, <1>7, <1>8, <1>9, <1>10, <1>11, PassStep, HandOverStep
  DEF Next, Goroutine, Loop

LEMMA WalkInvImplies ==
  ASSUME WalkInv
  PROVE  NilMeansComplete /\ OnlyWanted
<1>1. OnlyWanted
  BY DEF WalkInv, GoneThrough, OnlyWanted
<1>2. ASSUME result = "nil" PROVE got = Wanted
  <2>1. pos = N + 1 /\ N \in Nat
    BY <1>2, WalkerAssumption DEF WalkInv, Reported
  <2> QED
    BY <2>1 DEF WalkInv, GoneThrough, Wanted, Entry
<1> QED
  BY <1>1, <1>2 DEF NilMeansComplete

LEMMA WalkInvariant == Spec => []WalkInv
BY WalkInit, WalkStep, PTL DEF Spec

\* Run answers nil only after it has handed over every wanted file, for every tree
\* and wherever the walk is cancelled.
THEOREM NilMeansCompleteHolds == Spec => []NilMeansComplete
BY WalkInvariant, WalkInvImplies, PTL

\* Nothing refused, and nothing below it, is ever handed over, for every tree.
THEOREM OnlyWantedHolds == Spec => []OnlyWanted
BY WalkInvariant, WalkInvImplies, PTL

-----------------------------------------------------------------------------
(* The commands.                                                              *)

\* A project that is not the first row's was inserted by who works with it; a
\* command without a project has not come further than NewContainer.
ProjectRows ==
  /\ projects \in Seq(Command)
  /\ project \in [Command -> Nat]
  /\ phase \in [Command -> Phases]
  /\ exit \in [Command -> {0, 1}]
  /\ \A c \in Command :
       /\ project[c] \in 0 .. Len(projects)
       /\ project[c] > 1 => projects[project[c]] = c
       /\ phase[c] \in {"work", "close", "closed"} => project[c] # 0
       /\ phase[c] = "exited" /\ exit[c] = 0 => project[c] # 0

\* The exit code of the ingest command is what Run returned.
IngestExit ==
  phase["ingest"] \in {"close", "closed", "exited"} /\ exit["ingest"] = 0 => result = "nil"

\* The shutdown of the server: the listener closes with it and only after a
\* signal, and nothing is open once it is drained.
ServerInv ==
  /\ request \in [Requests -> {"unsent", "accepted", "read", "answered", "refused", "cut"}]
  /\ listener \in {"none", "open", "closed"}
  /\ shutdown \in {"waits", "shutting", "drained", "timedOut"}
  /\ listener = "closed" <=> shutdown # "waits"
  /\ shutdown # "waits" => CtxDone("server")
  /\ shutdown = "drained" => Open = {}
  /\ phase["server"] \in {"off", "lookup", "create"} => listener = "none"
  /\ phase["server"] \in {"close", "closed", "exited"} => listener # "open"
  /\ listener = "none" => \A r \in Requests : request[r] = "unsent"
  /\ \A r \in Requests : request[r] = "cut" => phase["server"] = "exited"
  /\ CutOnlyInShutdown

CommandsInv == WalkInv /\ ProjectRows /\ IngestExit /\ ServerInv

LEMMA CommandsInitInv == CommandsInit => CommandsInv
<1> SUFFICES ASSUME CommandsInit PROVE CommandsInv
  OBVIOUS
<1>1. WalkInv
  BY WalkInit DEF CommandsInit
<1>2. ProjectRows
  BY DEF CommandsInit, ProjectRows, Phases, Command
<1>3. IngestExit
  BY DEF CommandsInit, IngestExit, Command
<1>4. ServerInv
  BY DEF CommandsInit, ServerInv, CutOnlyInShutdown, Open, Command
<1> QED
  BY <1>1, <1>2, <1>3, <1>4 DEF CommandsInv

\* A step of a command is a step of the walk or leaves the walk as it is.
LEMMA CommandIsWalk ==
  ASSUME [CommandsNext]_allVars
  PROVE  [Next]_vars
<1>1. ASSUME NEW c \in Command, Start(c) \/ Signal(c) \/ Own(c)
      PROVE  Cancel \/ UNCHANGED vars
  BY <1>1 DEF Start, Signal, Own, Lookup, Create, ContainerFails, Close, Exit
<1>2. ASSUME IngestReturns \/ DaemonReturns \/ ServerMain \/ BeginShutdown \/ EndShutdown
      PROVE  UNCHANGED vars
  BY <1>2 DEF IngestReturns, DaemonReturns, ServerMain, Listen, ListenFails, ServeReturns,
     BeginShutdown, EndShutdown, Leave
<1>3. ASSUME NEW r \in Requests, Accept(r) \/ Query(r) \/ Answer(r)
      PROVE  UNCHANGED vars
  BY <1>3 DEF Accept, Query, Answer, Put
<1>4. CASE IngestWorks
  BY <1>4 DEF IngestWorks, Next
<1>5. CASE UNCHANGED allVars
  BY <1>5 DEF allVars
<1> QED
  BY <1>1, <1>2, <1>3, <1>4, <1>5 DEF CommandsNext, Next

\* The walk a command runs is the walk by itself, whatever is around it.
THEOREM CommandsRunTheWalk == CommandsSpec => Spec
<1>1. CommandsInit => Init
  BY DEF CommandsInit
<1> QED
  BY <1>1, CommandIsWalk, PTL DEF CommandsSpec, Spec

LEMMA ProjectRowsStep ==
  ASSUME CommandsInv, [CommandsNext]_allVars
  PROVE  ProjectRows'
<1> USE DEF CommandsInv, ProjectRows
<1>1. ASSUME NEW c \in Command, Create(c)
      PROVE  ProjectRows'
  <2>1. /\ projects' = Append(projects, c) /\ exit' = exit
        /\ project' = [project EXCEPT ![c] = Len(projects) + 1]
        /\ phase' = [phase EXCEPT ![c] = "work"]
        /\ project[c] \in 0 .. Len(projects)
    BY <1>1 DEF Create, Enter
  <2>2. /\ projects' \in Seq(Command) /\ Len(projects') = Len(projects) + 1
        /\ Len(projects) \in Nat
        /\ projects'[Len(projects) + 1] = c
        /\ \A n \in 1 .. Len(projects) : projects'[n] = projects[n]
    BY <2>1
  <2>3. ASSUME NEW d \in Command
        PROVE  /\ project'[d] \in 0 .. Len(projects')
               /\ project'[d] > 1 => projects'[project'[d]] = d
               /\ phase'[d] \in {"work", "close", "closed"} => project'[d] # 0
               /\ phase'[d] = "exited" /\ exit'[d] = 0 => project'[d] # 0
    <3>1. CASE d = c
      BY <3>1, <2>1, <2>2
    <3>2. CASE d # c
      <4>1. project'[d] = project[d] /\ phase'[d] = phase[d]
        BY <3>2, <2>1
      <4> QED
        BY <4>1, <2>1, <2>2
    <3> QED
      BY <3>1, <3>2
  <2> QED
    BY <2>1, <2>2, <2>3 DEF Phases
<1>2. ASSUME NEW c \in Command, Lookup(c)
      PROVE  ProjectRows'
  <2>1. CASE projects = <<>>
    BY <1>2, <2>1 DEF Lookup, Enter, Phases
  <2>2. CASE projects # <<>>
    <3>1. Len(projects) \in Nat \ {0}
      BY <2>2
    <3>2. /\ project' = [project EXCEPT ![c] = 1] /\ phase' = [phase EXCEPT ![c] = "work"]
          /\ UNCHANGED <<exit, projects>>
      BY <1>2, <2>2 DEF Lookup, Enter, FirstProject
    <3>3. ASSUME NEW d \in Command
          PROVE  /\ project'[d] \in 0 .. Len(projects)
                 /\ project'[d] > 1 => projects[project'[d]] = d
                 /\ phase'[d] \in {"work", "close", "closed"} => project'[d] # 0
                 /\ phase'[d] = "exited" /\ exit[d] = 0 => project'[d] # 0
      <4>1. CASE d = c
        BY <3>1, <3>2, <4>1
      <4>2. CASE d # c
        BY <3>1, <3>2, <4>2
      <4> QED
        BY <4>1, <4>2
    <3> QED
      BY <3>1, <3>2, <3>3 DEF Phases
  <2> QED
    BY <2>1, <2>2
<1>3. ASSUME NEW c \in Command, Start(c) \/ ContainerFails(c) \/ Close(c) \/ Exit(c)
      PROVE  ProjectRows'
  <2>1. CASE Start(c)
    BY <2>1 DEF Start, Enter, Phases
  <2>2. CASE ContainerFails(c)
    BY <2>2 DEF ContainerFails, Enter, Phases
  <2>3. CASE Close(c)
    BY <2>3 DEF Close, Enter, Phases
  <2>4. CASE Exit(c)
    BY <2>4 DEF Exit, Enter, Phases
  <2> QED
    BY <1>3, <2>1, <2>2, <2>3, <2>4
<1>4. ASSUME NEW c \in Command, Signal(c)
      PROVE  ProjectRows'
  BY <1>4 DEF Signal, commandVars
<1>5. ASSUME NEW c \in Command, NEW code \in {0, 1}, Leave(c, code)
      PROVE  ProjectRows'
  BY <1>5 DEF Leave, Enter, Phases
<1>6. ASSUME IngestReturns \/ DaemonReturns \/ ServerMain
      PROVE  ProjectRows'
  <2>1. ASSUME Listen PROVE ProjectRows'
    BY <2>1 DEF Listen, commandVars
  <2> QED
    BY <1>5, <1>6, <2>1 DEF IngestReturns, DaemonReturns, ServerMain, ListenFails, ServeReturns, Command
<1>7. ASSUME UNCHANGED commandVars
      PROVE  ProjectRows'
  BY <1>7 DEF commandVars
<1>8. ASSUME NEW r \in Requests, Accept(r) \/ Query(r) \/ Answer(r)
      PROVE  UNCHANGED commandVars
  BY <1>8 DEF Accept, Query, Answer, Put
<1> QED
  BY <1>1, <1>2, <1>3, <1>4, <1>6, <1>7, <1>8
  DEF CommandsNext, Own, IngestWorks, BeginShutdown, EndShutdown, allVars

LEMMA IngestExitStep ==
  ASSUME CommandsInv, [CommandsNext]_allVars
  PROVE  IngestExit'
<1> USE DEF CommandsInv, IngestExit
<1>0. phase \in [Command -> Phases] /\ exit \in [Command -> {0, 1}] /\ "ingest" \in Command
  BY DEF ProjectRows, Command
<1>1. ASSUME NEW c \in Command,
             Start(c) \/ Lookup(c) \/ Create(c) \/ ContainerFails(c) \/ Close(c) \/ Exit(c)
      PROVE  IngestExit'
  BY <1>0, <1>1 DEF Start, Lookup, Create, ContainerFails, Close, Exit, Enter, vars, runVars
<1>2. ASSUME NEW c \in Command, Signal(c)
      PROVE  IngestExit'
  BY <1>2 DEF Signal, Cancel, commandVars, vars, runVars
<1>3. ASSUME IngestWorks PROVE IngestExit'
  BY <1>3 DEF IngestWorks, commandVars
<1>4. ASSUME IngestReturns PROVE IngestExit'
  <2>1. result \in {"nil", "error"}
    BY <1>4 DEF IngestReturns, WalkInv, Reported, TypeOK
  <2> QED
    BY <1>0, <1>4, <2>1 DEF IngestReturns, Leave, Enter, vars, runVars
<1>5. ASSUME DaemonReturns \/ ServerMain PROVE IngestExit'
  BY <1>0, <1>5 DEF DaemonReturns, ServerMain, Listen, ListenFails, ServeReturns, Leave, Enter,
     commandVars, vars, runVars
<1>6. ASSUME BeginShutdown \/ EndShutdown PROVE IngestExit'
  BY <1>6 DEF BeginShutdown, EndShutdown, commandVars, vars, runVars
<1>7. ASSUME NEW r \in Requests, Accept(r) \/ Query(r) \/ Answer(r) PROVE IngestExit'
  BY <1>7 DEF Accept, Query, Answer, Put, commandVars, vars, runVars
<1>8. CASE UNCHANGED allVars
  BY <1>8 DEF allVars, commandVars, vars, runVars
<1> QED
  BY <1>1, <1>2, <1>3, <1>4, <1>5, <1>6, <1>7, <1>8 DEF CommandsNext, Own

LEMMA ServerStep ==
  ASSUME CommandsInv, [CommandsNext]_allVars
  PROVE  ServerInv'
<1> USE DEF CommandsInv, ServerInv, CutOnlyInShutdown, Open, CtxDone
<1>0. phase \in [Command -> Phases] /\ "server" \in Command /\ "server" # "ingest"
  BY DEF ProjectRows, Command
<1>1. ASSUME NEW c \in Command,
             Start(c) \/ Lookup(c) \/ Create(c) \/ ContainerFails(c) \/ Close(c)
      PROVE  ServerInv'
  BY <1>0, <1>1 DEF Start, Lookup, Create, ContainerFails, Close, Enter, serverVars, vars
<1>2. ASSUME NEW c \in Command, Signal(c)
      PROVE  ServerInv'
  BY <1>0, <1>2 DEF Signal, commandVars, serverVars
<1>3. ASSUME NEW c \in Command, Exit(c)
      PROVE  ServerInv'
  <2>1. CASE c = "server"
    BY <1>0, <1>3, <2>1 DEF Exit, Enter
  <2>2. CASE c # "server"
    BY <1>0, <1>3, <2>2 DEF Exit, Enter
  <2> QED
    BY <2>1, <2>2
<1>4. ASSUME IngestWorks PROVE ServerInv'
  BY <1>4 DEF IngestWorks, commandVars, serverVars
<1>5. ASSUME IngestReturns \/ DaemonReturns PROVE ServerInv'
  BY <1>0, <1>5 DEF IngestReturns, DaemonReturns, Leave, Enter, serverVars
<1>6. ASSUME ListenFails \/ ServeReturns PROVE ServerInv'
  BY <1>0, <1>6 DEF ListenFails, ServeReturns, Leave, Enter, serverVars
<1>7. ASSUME Listen PROVE ServerInv'
  BY <1>0, <1>7 DEF Listen, commandVars
<1>8. ASSUME BeginShutdown PROVE ServerInv'
  BY <1>0, <1>8 DEF BeginShutdown, commandVars
<1>9. ASSUME EndShutdown PROVE ServerInv'
  BY <1>0, <1>9 DEF EndShutdown, commandVars, Up
<1>10. ASSUME NEW r \in Requests, Accept(r)
       PROVE  ServerInv'
  <2>1. /\ listener = "open" /\ shutdown = "waits"
        /\ request' = [request EXCEPT ![r] = "accepted"]
        /\ UNCHANGED <<phase, listener, shutdown, signalled>>
    BY <1>10 DEF Accept, Put, commandVars
  <2> QED
    BY <2>1
<1>11. ASSUME NEW r \in Requests, Query(r) \/ Answer(r)
       PROVE  ServerInv'
  BY <1>0, <1>11 DEF Query, Answer, Put, commandVars, Up
<1>12. CASE UNCHANGED allVars
  BY <1>12 DEF allVars, commandVars, serverVars
<1> QED
  BY <1>1, <1>2, <1>3, <1>4, <1>5, <1>6, <1>7, <1>8, <1>9, <1>10, <1>11, <1>12
  DEF CommandsNext, Own, ServerMain

LEMMA CommandsInvariant == CommandsSpec => []CommandsInv
<1>1. ASSUME CommandsInv, [CommandsNext]_allVars
      PROVE  CommandsInv'
  <2>1. WalkInv'
    BY <1>1, CommandIsWalk, WalkStep DEF CommandsInv
  <2> QED
    BY <1>1, <2>1, ProjectRowsStep, IngestExitStep, ServerStep DEF CommandsInv
<1> QED
  BY <1>1, CommandsInitInv, PTL DEF CommandsSpec

\* The ingest command's context is the walk's, so that no signal of its own is kept.
SignalledOthers == signalled \subseteq Command \ {"ingest"}

LEMMA SignalledStep ==
  ASSUME SignalledOthers, [CommandsNext]_allVars
  PROVE  SignalledOthers'
<1> USE DEF SignalledOthers
<1>1. ASSUME NEW c \in Command, Signal(c)
      PROVE  SignalledOthers'
  BY <1>1 DEF Signal
<1>2. ASSUME NEW c \in Command, Start(c) \/ Own(c)
      PROVE  UNCHANGED signalled
  BY <1>2 DEF Start, Own, Lookup, Create, ContainerFails, Close, Exit
<1>3. ASSUME \/ IngestWorks \/ IngestReturns \/ DaemonReturns
             \/ ServerMain \/ BeginShutdown \/ EndShutdown
      PROVE  UNCHANGED signalled
  BY <1>3 DEF IngestWorks, IngestReturns, DaemonReturns, ServerMain, Listen, ListenFails,
     ServeReturns, BeginShutdown, EndShutdown, Leave
<1>4. ASSUME NEW r \in Requests, Accept(r) \/ Query(r) \/ Answer(r)
      PROVE  UNCHANGED signalled
  BY <1>4 DEF Accept, Query, Answer, Put
<1>5. CASE UNCHANGED allVars
  BY <1>5 DEF allVars
<1> QED
  BY <1>1, <1>2, <1>3, <1>4, <1>5 DEF CommandsNext

\* The types of the commands, of the walk inside one of them, and of the server; a
\* command that works has a project.
THEOREM CommandsTypes == CommandsSpec => []CommandsTypeOK
<1>1. CommandsInit => SignalledOthers
  BY DEF CommandsInit, SignalledOthers
<1>2. ASSUME CommandsInv, SignalledOthers
      PROVE  CommandsTypeOK
  <2>1. Len(projects) \in Nat /\ project \in [Command -> 0 .. Len(projects)]
    BY <1>2 DEF CommandsInv, ProjectRows
  <2> QED
    BY <1>2, <2>1 DEF CommandsTypeOK, CommandsInv, WalkInv, ProjectRows, ServerInv,
       SignalledOthers
<1> QED
  BY <1>1, <1>2, CommandsInvariant, SignalledStep, PTL DEF CommandsSpec

\* Commands side by side disagree about the project only when one of them has
\* inserted a row beside the first.
THEOREM SplitOnlyByCreatorHolds == CommandsSpec => []SplitOnlyByCreator
<1>1. CommandsInv => SplitOnlyByCreator
  BY DEF CommandsInv, ProjectRows, SplitOnlyByCreator
<1> QED
  BY <1>1, CommandsInvariant, PTL

\* Requests lose their rows only in the window of a shutdown that still waits or
\* has given up, however many there are.
THEOREM CutOnlyInShutdownHolds == CommandsSpec => []CutOnlyInShutdown
<1>1. CommandsInv => CutOnlyInShutdown
  BY DEF CommandsInv, ServerInv
<1> QED
  BY <1>1, CommandsInvariant, PTL

\* Exit code 0 of an ingest command means that every wanted file went through
\* ProcessFile, under a project row that exists.
THEOREM ZeroMeansCompleteHolds == CommandsSpec => []ZeroMeansComplete
<1>1. ASSUME CommandsInv PROVE ZeroMeansComplete
  <2>1. ASSUME phase["ingest"] = "exited", exit["ingest"] = 0
        PROVE  got = Wanted /\ project["ingest"] \in DOMAIN projects
    <3>1. got = Wanted
      BY <1>1, <2>1, WalkInvImplies DEF CommandsInv, IngestExit, NilMeansComplete
    <3>2. project["ingest"] \in 1 .. Len(projects)
      BY <1>1, <2>1 DEF CommandsInv, ProjectRows, Command
    <3> QED
      BY <1>1, <3>1, <3>2 DEF CommandsInv, ProjectRows
  <2> QED
    BY <2>1 DEF ZeroMeansComplete
<1> QED
  BY <1>1, CommandsInvariant, PTL
=============================================================================
