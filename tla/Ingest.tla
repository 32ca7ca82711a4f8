------------------------------- MODULE Ingest -------------------------------
(* prowiki ingest (internal/app/ingest/service.go) over the version store and *)
(* the job queue.  Run takes the files one after the other; for each, the     *)
(* file row and its latest version are read outside the transaction that then *)
(* inserts the new version.                                                   *)
EXTENDS JobQueue, VersionStore, Structure

CONSTANTS Ext,         \* the extension of each path, in lower case
          Ingesters,   \* the ingest processes on one database
          MayAbort     \* whether a file can be given up half way

ASSUME IngestAssumption ==
  /\ DOMAIN Ext = Path
  /\ MayAbort \in BOOLEAN
  /\ [stage : {"level_1_overview"}, target : VersionId] \subseteq Work

VARIABLES
  disk,      \* the content of each file as it is on disk
  step,      \* where each ingester is in ProcessFile
  path,      \* the file it is on
  content,   \* what it read
  fileRow,   \* what GetOrCreate returned
  latestID   \* what LatestByFileID returned, 0 for ErrNotFound

ingesterVars == <<step, path, content, fileRow, latestID>>
ingestVars == <<queueVars, storeVars, disk, ingesterVars>>

Steps == {"idle", "getFile", "createFile", "latest", "commit"}

IngestTypeOK ==
  /\ QueueTypeOK
  /\ StoreTypeOK
  /\ disk \in [Path -> Content]
  /\ step \in [Ingesters -> Steps]
  /\ path \in [Ingesters -> Path]
  /\ content \in [Ingesters -> Content]
  /\ fileRow \in [Ingesters -> FileId \cup {0}]
  /\ latestID \in [Ingesters -> VersionId \cup {0}]

\* What path and content hold between two files, when nothing reads them.
AnyPath == CHOOSE p \in Path : TRUE
AnyContent == CHOOSE c \in Content : TRUE

IngestInit ==
  /\ QueueInit
  /\ StoreInit
  /\ disk \in [Path -> Content]
  /\ step = [i \in Ingesters |-> "idle"]
  /\ path = [i \in Ingesters |-> AnyPath]
  /\ content = [i \in Ingesters |-> AnyContent]
  /\ fileRow = [i \in Ingesters |-> 0]
  /\ latestID = [i \in Ingesters |-> 0]

-----------------------------------------------------------------------------
\* Somebody edits a file.
Edit ==
  /\ \E p \in Path, c \in Content : disk[p] # c /\ disk' = [disk EXCEPT ![p] = c]
  /\ UNCHANGED <<queueVars, storeVars, ingesterVars>>

\* The next file of the walk is read, parsed and hashed.
Read(i) ==
  /\ step[i] = "idle"
  /\ \E p \in Path :
       /\ path' = [path EXCEPT ![i] = p]
       /\ content' = [content EXCEPT ![i] = disk[p]]
  /\ step' = [step EXCEPT ![i] = "getFile"]
  /\ UNCHANGED <<queueVars, storeVars, disk, fileRow, latestID>>

\* GetOrCreate's SELECT.
GetFile(i) ==
  /\ step[i] = "getFile"
  /\ LET rows == RowsOfPath(path[i]) IN
       \/ /\ rows = {}
          /\ step' = [step EXCEPT ![i] = "createFile"]
          /\ UNCHANGED fileRow
       \/ \E f \in rows :
          /\ step' = [step EXCEPT ![i] = "latest"]
          /\ fileRow' = [fileRow EXCEPT ![i] = f]
  /\ UNCHANGED <<queueVars, storeVars, disk, path, content, latestID>>

\* GetOrCreate's INSERT.  No index keeps a path from having two rows.
GetOrInsert(i) ==
  /\ step[i] = "createFile"
  /\ CreateFile(path[i])
  /\ step' = [step EXCEPT ![i] = "latest"]
  /\ fileRow' = [fileRow EXCEPT ![i] = Len(files) + 1]
  /\ UNCHANGED <<queueVars, versions, junctions, disk, path, content, latestID>>

\* LatestByFileID.
ReadLatest(i) ==
  /\ step[i] = "latest"
  /\ LET latest == LatestOf(fileRow[i]) IN
       \E v \in IF latest = {} THEN {0} ELSE latest :
         latestID' = [latestID EXCEPT ![i] = v]
  /\ step' = [step EXCEPT ![i] = "commit"]
  /\ UNCHANGED <<queueVars, storeVars, disk, path, content, fileRow>>

\* The run turns to the next file; ProcessFile's locals are gone.
NextFile(i) ==
  /\ step' = [step EXCEPT ![i] = "idle"]
  /\ path' = [path EXCEPT ![i] = AnyPath]
  /\ content' = [content EXCEPT ![i] = AnyContent]
  /\ fileRow' = [fileRow EXCEPT ![i] = 0]
  /\ latestID' = [latestID EXCEPT ![i] = 0]
  /\ UNCHANGED disk

\* Column ast_hash of a version, and the hash of the content that was read.
LanguageFromPath(p) == LanguageFromExt(Ext[p])
LanguageOf(v) == LanguageFromPath(files[versions[v].file])
AstHash(v) == StructuralHash(LanguageOf(v), versions[v].content)
ReadHash(i) == StructuralHash(LanguageFromPath(path[i]), content[i])

\* Variant: any earlier version of the file counts.
SameAsAny(i) ==
  \E v \in VersionsOf(fileRow[i]) : AstHash(v) = ReadHash(i)

\* latestHash is "" when there is no latest version, and no file hashes to "".
SameStructure(i) ==
  latestID[i] # 0 /\ AstHash(latestID[i]) = ReadHash(i)

OverviewJob(v) ==
  [work |-> [stage |-> "level_1_overview", target |-> v], priority |-> 1]

TargetedAt(v) == {j \in 1 .. lastId : work[j].target = v}

\* The transaction, structure unchanged: the new version takes over the old
\* one's features, and no job is enqueued.
Bypass(i) ==
  /\ step[i] = "commit"
  /\ SameStructure(i)
  /\ InsertAsLatest(fileRow[i], content[i], latestID[i])
  /\ junctions' = Cloned(latestID[i], Len(versions) + 1)
  /\ NextFile(i)
  /\ UNCHANGED <<queueVars, files>>

\* The transaction, new or changed file: completed jobs of the old version are
\* reset, and one overview job for the new version is enqueued.
Replace(i) ==
  /\ step[i] = "commit"
  /\ ~SameStructure(i)
  /\ InsertAsLatest(fileRow[i], content[i], latestID[i])
  /\ ResetAndEnqueue(IF latestID[i] = 0 THEN {} ELSE TargetedAt(latestID[i]),
                     <<OverviewJob(Len(versions) + 1)>>)
  /\ NextFile(i)
  /\ UNCHANGED <<files, junctions>>

\* An error (Run skips the file) or the end of the process; what was committed
\* stays, the transaction does not.
Abort(i) ==
  /\ MayAbort
  /\ step[i] # "idle"
  /\ NextFile(i)
  /\ UNCHANGED <<queueVars, storeVars>>

IngestStep(i) ==
  \/ Read(i) \/ GetFile(i) \/ GetOrInsert(i) \/ ReadLatest(i)
  \/ Bypass(i) \/ Replace(i) \/ Abort(i)

IngestNext == Edit \/ \E i \in Ingesters : IngestStep(i)

IngestSpec == IngestInit /\ [][IngestNext]_ingestVars

-----------------------------------------------------------------------------
(* Properties.                                                                *)

\* A file of the project has one row, however often and from wherever ingestion
\* was interrupted (GetOrCreate, file_store.go).
OneRowPerPath == \A f, g \in DOMAIN files : files[f] = files[g] => f = g

\* Of a file's versions exactly one is latest, and it is the newest one
\* (InsertVersion and SetLatest in one transaction, on an id read before it).
OneLatest ==
  \A f \in DOMAIN files :
    VersionsOf(f) # {} =>
      \E v \in VersionsOf(f) : LatestOf(f) = {v} /\ \A w \in VersionsOf(f) : w <= v

\* The code of every content in every language, as the reader takes it.
CodeIn == [lang \in Languages |-> [c \in Content |-> Code(lang, c)]]
Codes == {CodeIn[lang][c] : lang \in Languages, c \in Content}
CodeOf(v) == CodeIn[LanguageOf(v)][versions[v].content]

\* What the properties about code need of the contents: in the language its path
\* gives a file, the hash tells two contents apart exactly when their code differs.
\* It does not for every text (README of this directory, section 3).
HashTellsCode ==
  \A p \in Path, c, d \in Content :
    LET lang == LanguageFromPath(p)
    IN  StructuralHash(lang, c) = StructuralHash(lang, d) <=> Code(lang, c) = Code(lang, d)

\* An overview job exists for a version, and only one, exactly when the version
\* differs in its code from the one before it: no change of the code is left out,
\* and nothing is sent to the model for comments and empty lines (ProcessFile's
\* two branches, and the normaliser behind their hashes), as far as the hash tells
\* the contents' code apart (HashTellsCode).
JobPerChange ==
  \A v \in DOMAIN versions :
    LET older == {w \in VersionsOf(versions[v].file) : w < v}
        unchanged == \E w \in older : /\ \A x \in older : x <= w
                                      /\ CodeOf(w) = CodeOf(v)
    IN  Cardinality(TargetedAt(v)) = IF unchanged THEN 0 ELSE 1

CurrentOf(p) ==
  {CodeOf(v) : v \in {w \in DOMAIN versions : versions[w].latest /\ files[versions[w].file] = p}}
Request(v) == <<files[versions[v].file], CodeOf(v)>>

Catalog ==
  INSTANCE Catalog WITH
    Place <- Path,
    Text <- Codes,
    current <- [p \in Path |-> CurrentOf(p)],
    asked <- [j \in 1 .. lastId |-> Request(work[j].target)]

\* Whatever is edited, read, committed or given up: a step of ingestion changes
\* the code of one path, with one request to describe it (an overview job, README
\* of the repository, line 47), or neither, and never an earlier request.
ImplementsCatalog == Catalog!Spec

\* file_store.go:109: SetLatest "atomically swaps the is_latest flag", so no
\* file ever has two latest versions.
SetLatestSwaps == \A f \in DOMAIN files : Cardinality(LatestOf(f)) <= 1
=============================================================================
