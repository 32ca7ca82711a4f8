---------------------------- MODULE VersionStore ----------------------------
(* The tables files, file_versions and file_features and the statements of    *)
(* internal/store/file_store.go on them.  Ids are AUTOINCREMENT; no row is    *)
(* ever deleted.  A file is its path; a version its file, its content (which   *)
(* ast_hash is computed from), whether it has a summary, and is_latest.       *)
EXTENDS Integers, Sequences, FiniteSets

CONSTANTS Path,        \* paths relative to the project root
          Content,     \* what a file can contain
          Feature,     \* feature names a model can answer with
          MaxFile,     \* bound: file rows
          MaxVersion   \* bound: version rows

ASSUME VersionStoreAssumption ==
  /\ Path # {} /\ Content # {}
  /\ MaxFile \in Nat /\ MaxVersion \in Nat

FileId == 1 .. MaxFile
VersionId == 1 .. MaxVersion

VARIABLES
  files,       \* the path of each file row
  versions,    \* each version row
  junctions    \* file_features: the features linked to each version

storeVars == <<files, versions, junctions>>

VersionRow ==
  [file : FileId, content : Content, summary : BOOLEAN, latest : BOOLEAN]

StoreTypeOK ==
  /\ files \in Seq(Path) /\ Len(files) <= MaxFile
  /\ versions \in Seq(VersionRow) /\ Len(versions) <= MaxVersion
  /\ junctions \in [VersionId -> SUBSET Feature]
  /\ \A v \in VersionId : v > Len(versions) => junctions[v] = {}
  /\ \A v \in DOMAIN versions : versions[v].file \in DOMAIN files

StoreInit ==
  /\ files = <<>>
  /\ versions = <<>>
  /\ junctions = [v \in VersionId |-> {}]

\* Variant: a join with file_versions finds no row for a file without versions.
RowsWithVersions(p) ==
  {f \in DOMAIN files : files[f] = p /\ \E v \in DOMAIN versions : versions[v].file = f}

RowsOfPath(p) == {f \in DOMAIN files : files[f] = p}
VersionsOf(f) == {v \in DOMAIN versions : versions[v].file = f}
LatestOf(f) == {v \in VersionsOf(f) : versions[v].latest}

\* Variant: the INSERT is rolled back with the transaction it was in.
CreateNothing(p) ==
  /\ Len(files) < MaxFile
  /\ UNCHANGED files

\* The INSERT of GetOrCreate.
CreateFile(p) ==
  /\ Len(files) < MaxFile
  /\ files' = Append(files, p)

\* InsertVersion, then SetLatest: the new row is inserted as latest already, and
\* the flag of the old version, if there is one, is cleared.
\* (Variant: the old flag is left alone.)
InsertOnly(f, c, old) ==
  /\ Len(versions) < MaxVersion
  /\ versions' = Append(versions, [file |-> f, content |-> c, summary |-> FALSE, latest |-> TRUE])

InsertAsLatest(f, c, old) ==
  /\ Len(versions) < MaxVersion
  /\ versions' =
       Append([v \in DOMAIN versions |->
                 IF v = old THEN [versions[v] EXCEPT !.latest = FALSE] ELSE versions[v]],
              [file |-> f, content |-> c, summary |-> FALSE, latest |-> TRUE])

\* The junctions after CloneJunctions(old, new); nothing is linked to version 0.
Cloned(old, new) ==
  IF old \in VersionId THEN [junctions EXCEPT ![new] = @ \cup junctions[old]] ELSE junctions

UpdateSummary(v) ==
  /\ versions' = [versions EXCEPT ![v].summary = TRUE]
  /\ UNCHANGED <<files, junctions>>

AddToFileVersion(v, feat) ==
  /\ junctions' = [junctions EXCEPT ![v] = @ \cup {feat}]
  /\ UNCHANGED <<files, versions>>
=============================================================================
