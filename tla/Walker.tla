------------------------------- MODULE Walker -------------------------------
(* The file walk of an ingest run: the goroutine of DefaultWalker.Walk        *)
(* (internal/scanner/walker.go), the two channels it hands out, and the loop  *)
(* of ingest.Service.Run that drains them.  out is unbuffered, errc has room  *)
(* for one error.                                                             *)
EXTENDS Integers, FiniteSets

CONSTANTS N,         \* how many entries the tree below the root has
          Trees,     \* the directory trees an entry can sit in
          Unwanted   \* which sets of entries the ignore rules or the size refuse

Entry == 1 .. N

\* A tree numbers its entries in the order of filepath.Walk: last[e] is the last
\* entry below e, which is e itself unless e is a directory with entries in it.
ASSUME WalkerAssumption ==
  /\ N \in Nat
  /\ Trees \subseteq [dirs : SUBSET Entry, last : [Entry -> Entry]]
  /\ \A t \in Trees : \A e \in Entry :
       /\ t.last[e] >= e
       /\ e \notin t.dirs => t.last[e] = e
       /\ \A d \in e .. t.last[e] : t.last[d] <= t.last[e]
  /\ Unwanted \subseteq SUBSET Entry

VARIABLES
  tree,        \* the tree
  refused,     \* entries that .gitignore or ExcludePatterns match, or too large
  broken,      \* entries Lstat or ReadDir fails on
  cancelled,   \* the context
  at,          \* where the goroutine is
  pos,         \* the entry the walk has come to; N + 1 after the last
  walkErr,     \* filepath.Walk returned the context's error
  errc,        \* what errc holds
  closed,      \* which of the channels are closed
  run,         \* where Run is
  got,         \* the entries handed to ProcessFile
  result       \* what Run returned

walkVars == <<at, pos, walkErr>>
chanVars == <<errc, closed>>
runVars == <<run, got, result>>
treeVars == <<tree, refused, broken>>
vars == <<treeVars, cancelled, walkVars, chanVars, runVars>>

TypeOK ==
  /\ tree \in Trees
  /\ refused \in Unwanted /\ broken \subseteq Entry
  /\ cancelled \in BOOLEAN
  /\ at \in {"walk", "send", "report", "close", "gone"}
  /\ pos \in 1 .. N + 1
  /\ walkErr \in BOOLEAN
  /\ errc \in {"empty", "error"}
  /\ closed \subseteq {"out", "errc"}
  /\ run \in {"range", "process", "await", "returned"}
  /\ got \subseteq Entry
  /\ result \in {"none", "nil", "error"}

Init ==
  /\ tree \in Trees
  /\ refused \in Unwanted
  /\ broken \in {b \in SUBSET Entry : Cardinality(b) <= 1}
  /\ cancelled = FALSE
  /\ at = "walk" /\ pos = 1 /\ walkErr = FALSE
  /\ errc = "empty" /\ closed = {}
  /\ run = "range" /\ got = {} /\ result = "none"

IsDir(e) == e \in tree.dirs

Cancel ==
  /\ ~cancelled
  /\ cancelled' = TRUE
  /\ UNCHANGED <<treeVars, walkVars, chanVars, runVars>>

-----------------------------------------------------------------------------
(* The goroutine.                                                             *)

\* SkipDir, or nothing more in it: the walk goes on behind e and all below it.
\* (Variant: the walk forgets that last is part of the subtree.)
BehindLast(e) == tree.last[e] + 2

Behind(e) == tree.last[e] + 1

\* The callback returns nil or SkipDir: the entry cannot be read, is refused,
\* or is a directory the walk descends into.
\* (Variant: a refused directory's entries are walked all the same.)
PassFlat ==
  /\ at = "walk" /\ pos <= N
  /\ \/ pos \in broken
     \/ ~cancelled /\ pos \in refused
     \/ ~cancelled /\ IsDir(pos)
  /\ pos' = pos + 1
  /\ UNCHANGED <<treeVars, cancelled, at, walkErr, chanVars, runVars>>

Pass ==
  /\ at = "walk" /\ pos <= N
  /\ \/ pos \in broken /\ pos' = Behind(pos)
     \/ pos \notin broken /\ ~cancelled /\ pos \in refused /\ pos' = Behind(pos)
     \/ pos \notin broken /\ ~cancelled /\ pos \notin refused /\ IsDir(pos) /\ pos' = pos + 1
  /\ UNCHANGED <<treeVars, cancelled, at, walkErr, chanVars, runVars>>

\* A wanted file is read and hashed.
Offer ==
  /\ at = "walk" /\ pos <= N
  /\ pos \notin broken \cup refused /\ ~IsDir(pos)
  /\ ~cancelled
  /\ at' = "send"
  /\ UNCHANGED <<treeVars, cancelled, pos, walkErr, chanVars, runVars>>

\* The callback returns ctx.Err(), at the next entry or out of the select.
Stop ==
  /\ cancelled
  /\ \/ at = "walk" /\ pos <= N /\ pos \notin broken
     \/ at = "send"
  /\ at' = "report"
  /\ walkErr' = TRUE
  /\ UNCHANGED <<treeVars, cancelled, pos, chanVars, runVars>>

WalkEnds ==
  /\ at = "walk" /\ pos = N + 1
  /\ at' = "report"
  /\ UNCHANGED <<treeVars, cancelled, pos, walkErr, chanVars, runVars>>

\* Variant: errc has no buffer.
ReportUnbuffered ==
  /\ at = "report"
  /\ ~walkErr \/ run = "await"
  /\ errc' = IF walkErr THEN "error" ELSE errc
  /\ at' = "close"
  /\ UNCHANGED <<treeVars, cancelled, pos, walkErr, closed, runVars>>

\* Variant: the error of the walk is dropped.
ReportNothing ==
  /\ at = "report"
  /\ at' = "close"
  /\ UNCHANGED <<treeVars, cancelled, pos, walkErr, errc, closed, runVars>>

Report ==
  /\ at = "report"
  /\ errc' = IF walkErr THEN "error" ELSE errc
  /\ at' = "close"
  /\ UNCHANGED <<treeVars, cancelled, pos, walkErr, closed, runVars>>

\* The deferred calls, last one first: errc, then out.
CloseChannel ==
  /\ at = "close"
  /\ \/ closed = {} /\ closed' = {"errc"} /\ at' = "close"
     \/ closed = {"errc"} /\ closed' = {"errc", "out"} /\ at' = "gone"
  /\ UNCHANGED <<treeVars, cancelled, pos, walkErr, errc, runVars>>

-----------------------------------------------------------------------------
(* Run.                                                                       *)

\* out is unbuffered: the send and the receive are one step.
HandOver ==
  /\ at = "send" /\ run = "range"
  /\ got' = got \cup {pos}
  /\ pos' = pos + 1
  /\ at' = "walk"
  /\ run' = "process"
  /\ UNCHANGED <<treeVars, cancelled, walkErr, chanVars, result>>

\* ProcessFile returns; an error, of the database too, only skips the file.
Processed ==
  /\ run = "process"
  /\ run' = "range"
  /\ UNCHANGED <<treeVars, cancelled, walkVars, chanVars, got, result>>

RangeEnds ==
  /\ run = "range" /\ "out" \in closed
  /\ run' = "await"
  /\ UNCHANGED <<treeVars, cancelled, walkVars, chanVars, got, result>>

\* return <-errc: the error it holds, or nil once it is closed and empty.
Return ==
  /\ run = "await"
  /\ errc = "error" \/ "errc" \in closed
  /\ result' = IF errc = "error" THEN "error" ELSE "nil"
  /\ errc' = "empty"
  /\ run' = "returned"
  /\ UNCHANGED <<treeVars, cancelled, walkVars, closed, got>>

Goroutine == Pass \/ Offer \/ Stop \/ WalkEnds \/ Report \/ CloseChannel
Loop == HandOver \/ Processed \/ RangeEnds \/ Return

Next == Cancel \/ Goroutine \/ Loop

Spec == Init /\ [][Next]_vars

-----------------------------------------------------------------------------
(* Properties.                                                                *)

\* What a complete walk has to hand over: the files that are not refused, nor
\* below a directory that is, nor out of the walk's reach.
Below(d, e) == IsDir(d) /\ d < e /\ e <= tree.last[d]

Wanted ==
  {e \in Entry \ (tree.dirs \cup refused \cup broken) :
     \A d \in refused \cup broken : ~Below(d, e)}

\* Run answers nil only when every wanted file has been handed to ProcessFile: a
\* walk that a signal cuts short at any entry, in the hand-over or while a file is
\* worked on is never taken for a whole one (Walk's callback, the two channels and
\* Run's last line together).  Handed over is not stored: Run drops what ProcessFile
\* returns (service.go:62-64), against design.md:556, where a database error of
\* ingestion is "returned to the caller", so nil says nothing about the rows.
NilMeansComplete == result = "nil" => got = Wanted

\* Nothing that is refused, or below something refused, reaches ProcessFile
\* (SkipDir, walker.go).
OnlyWanted == got \subseteq Wanted
=============================================================================
