---------------------------- MODULE IngestProofs ----------------------------
(* For any paths, contents and bounds: the types of Ingest for any number of  *)
(* processes and, for at most one, that a file has one row and one latest     *)
(* version, a version an overview job exactly when the code has changed, and  *)
(* that ingestion implements Catalog.                                         *)
EXTENDS Ingest, JobQueueProofs, AlgorithmProofs

\* An ingester that is past GetOrCreate has a row.
RowFound ==
  \A i \in Ingesters : step[i] \in {"latest", "commit"} => fileRow[i] \in DOMAIN files

TInv == IngestTypeOK /\ RowFound

USE DEF JobId, FileId, VersionId

-----------------------------------------------------------------------------
(* The statements on the tables.                                              *)

LEMMA VersionsSeq ==
  ASSUME StoreTypeOK
  PROVE  /\ Len(versions) \in 0 .. MaxVersion
         /\ DOMAIN versions = 1 .. Len(versions)
         /\ \A v \in DOMAIN versions : versions[v] \in VersionRow
BY VersionStoreAssumption DEF StoreTypeOK

LEMMA FilesSeq ==
  ASSUME StoreTypeOK
  PROVE  /\ Len(files) \in 0 .. MaxFile
         /\ DOMAIN files = 1 .. Len(files)
         /\ \A f \in DOMAIN files : files[f] \in Path
BY VersionStoreAssumption DEF StoreTypeOK

\* The rows that are there keep everything but the flag of the old one.
KeptBut(old) ==
  \A v \in DOMAIN versions :
    /\ versions'[v].file = versions[v].file
    /\ versions'[v].content = versions[v].content
    /\ versions'[v].summary = versions[v].summary
    /\ v # old => versions'[v].latest = versions[v].latest
    /\ v = old => versions'[v].latest = FALSE

\* The old flag is cleared, the new row appended, the rest is as it was.
LEMMA InsertKeeps ==
  ASSUME StoreTypeOK, NEW f \in FileId, NEW c \in Content, NEW old \in VersionId \cup {0},
         InsertAsLatest(f, c, old)
  PROVE  /\ Len(versions) + 1 \in VersionId
         /\ versions' \in Seq(VersionRow)
         /\ Len(versions') = Len(versions) + 1
         /\ DOMAIN versions' = DOMAIN versions \cup {Len(versions) + 1}
         /\ KeptBut(old)
         /\ versions'[Len(versions) + 1].file = f
         /\ versions'[Len(versions) + 1].content = c
         /\ versions'[Len(versions) + 1].latest = TRUE
<1> DEFINE row == [file |-> f, content |-> c, summary |-> FALSE, latest |-> TRUE]
           kept == [v \in DOMAIN versions |->
                      IF v = old THEN [versions[v] EXCEPT !.latest = FALSE] ELSE versions[v]]
           n == Len(versions)
<1>1. n \in Nat /\ DOMAIN versions = 1 .. n /\ n < MaxVersion
  BY VersionsSeq DEF InsertAsLatest
<1>2. row \in VersionRow
  BY DEF VersionRow
<1>3. \A v \in 1 .. n : kept[v] \in VersionRow
  BY <1>1, VersionsSeq DEF VersionRow
<1>4. kept \in Seq(VersionRow) /\ Len(kept) = n
  <2>1. kept \in [1 .. n -> VersionRow]
    BY <1>1, <1>3
  <2> QED
    BY <1>1, <2>1
<1>5. versions' = Append(kept, row)
  BY DEF InsertAsLatest
<1> HIDE DEF row, kept
<1>6. /\ versions' \in Seq(VersionRow)
      /\ Len(versions') = n + 1
      /\ DOMAIN versions' = 1 .. n + 1
      /\ \A v \in 1 .. n : versions'[v] = kept[v]
      /\ versions'[n + 1] = row
  BY <1>1, <1>2, <1>4, <1>5
<1>7. \A v \in 1 .. n : /\ kept[v].file = versions[v].file
                        /\ kept[v].content = versions[v].content
                        /\ kept[v].summary = versions[v].summary
                        /\ v # old => kept[v].latest = versions[v].latest
                        /\ v = old => kept[v].latest = FALSE
  BY <1>1, VersionsSeq DEF kept, VersionRow
<1>8. 1 .. n + 1 = (1 .. n) \cup {n + 1} /\ n + 1 \in VersionId
  BY <1>1, VersionStoreAssumption
<1>9. KeptBut(old)
  BY <1>1, <1>6, <1>7 DEF KeptBut
<1>10. row.file = f /\ row.content = c /\ row.latest = TRUE
  BY DEF row
<1> QED
  BY <1>1, <1>6, <1>8, <1>9, <1>10

LEMMA CreateKeeps ==
  ASSUME StoreTypeOK, NEW p \in Path, CreateFile(p)
  PROVE  /\ Len(files) + 1 \in FileId
         /\ files' \in Seq(Path)
         /\ Len(files') = Len(files) + 1
         /\ DOMAIN files' = DOMAIN files \cup {Len(files) + 1}
         /\ \A f \in DOMAIN files : files'[f] = files[f]
         /\ files'[Len(files) + 1] = p
<1> DEFINE n == Len(files)
<1>1. n \in Nat /\ DOMAIN files = 1 .. n /\ n < MaxFile /\ files \in Seq(Path)
  BY FilesSeq DEF CreateFile, StoreTypeOK
<1>2. files' = Append(files, p)
  BY DEF CreateFile
<1>3. 1 .. n + 1 = (1 .. n) \cup {n + 1} /\ n + 1 \in FileId
  BY <1>1, VersionStoreAssumption
<1> QED
  BY <1>1, <1>2, <1>3

\* One overview job more, with a fresh id; a reset changes status and priority
\* only.
LEMMA OneJobMore ==
  ASSUME QueueTypeOK, NEW old \in SUBSET JobId, NEW v \in VersionId,
         ResetAndEnqueue(old, <<OverviewJob(v)>>)
  PROVE  /\ QueueTypeOK'
         /\ lastId' = lastId + 1
         /\ \A j \in 1 .. lastId : work'[j] = work[j]
         /\ work'[lastId + 1].target = v /\ status'[lastId + 1] = "pending"
         /\ \A j \in JobId : \/ status'[j] = status[j]
                             \/ status[j] = "completed" /\ status'[j] = "pending"
                             \/ j = lastId + 1 /\ status'[j] = "pending"
<1> DEFINE new == <<OverviewJob(v)>>
<1>1. OverviewJob(v).work \in Work /\ OverviewJob(v).work.target = v /\ OverviewJob(v).priority \in Nat
  BY IngestAssumption DEF OverviewJob
<1>2. Len(new) = 1 /\ new[1] = OverviewJob(v)
  OBVIOUS
<1>3. lastId \in Nat /\ MaxId \in Nat
  BY MaxIdAssumption DEF QueueTypeOK
<1>4. lastId' = lastId + 1 /\ lastId + 1 <= MaxId /\ lastId + 1 \in JobId
  BY <1>2, <1>3 DEF ResetAndEnqueue, InsertRows
<1>5. InsertedBy(new) = {lastId + 1}
  BY <1>2, <1>3 DEF InsertedBy
<1>6. \A j \in InsertedBy(new) : new[j - lastId] = OverviewJob(v)
  <2>1. \A j \in InsertedBy(new) : j - lastId = 1
    BY <1>3, <1>5
  <2> QED
    BY <2>1, <1>2
<1> HIDE DEF new
<1>7. work' = [j \in JobId |-> IF j = lastId + 1 THEN OverviewJob(v).work ELSE work[j]]
  <2>1. work' = [j \in JobId |-> IF j \in InsertedBy(new) THEN new[j - lastId].work ELSE work[j]]
    BY DEF ResetAndEnqueue, InsertRows, new
  <2> QED
    BY <2>1, <1>5, <1>6
<1>8. priority' \in [JobId -> Nat]
  <2> DEFINE prio == [j \in JobId |-> IF j \in Completed(old) THEN priority[j] + 10 ELSE priority[j]]
  <2>1. prio \in [JobId -> Nat]
    BY DEF QueueTypeOK
  <2>2. priority' = [j \in JobId |-> IF j \in InsertedBy(new) THEN new[j - lastId].priority ELSE prio[j]]
    BY DEF ResetAndEnqueue, InsertRows, new
  <2> HIDE DEF prio
  <2>3. \A j \in JobId : j \in InsertedBy(new) => new[j - lastId].priority \in Nat
    BY <1>1, <1>6
  <2> QED
    BY <2>1, <2>2, <2>3
<1>9. retryCount' \in [JobId -> 0 .. MaxRetries]
  BY DEF ResetAndEnqueue, InsertRows, QueueTypeOK, MaxRetries
<1>10. /\ status' \in [JobId -> Statuses] /\ dlq' \in [JobId -> Nat]
       /\ \A j \in JobId : j > lastId' => status'[j] = "absent"
       /\ status'[lastId + 1] = "pending"
       /\ \A j \in JobId : \/ status'[j] = status[j]
                           \/ status[j] = "completed" /\ status'[j] = "pending"
                           \/ j = lastId + 1 /\ status'[j] = "pending"
  <2>1. status' = [j \in JobId |-> IF j = lastId + 1 THEN "pending"
                                   ELSE IF j \in Completed(old) THEN "pending" ELSE status[j]]
    <3>1. status' = Inserted([j \in JobId |-> IF j \in Completed(old) THEN "pending" ELSE status[j]], new)
      BY DEF ResetAndEnqueue, new
    <3> QED
      BY <3>1, <1>5 DEF Inserted
  <2>2. \A j \in Completed(old) : j \in JobId /\ j <= lastId
    BY <1>3 DEF Completed, QueueTypeOK
  <2>3. status' \in [JobId -> Statuses]
    BY <2>1 DEF QueueTypeOK, Statuses
  <2>4. \A j \in JobId : j > lastId' => status'[j] = "absent"
    BY <2>1, <2>2, <1>3, <1>4 DEF QueueTypeOK
  <2>5. \A j \in JobId : \/ status'[j] = status[j]
                         \/ status[j] = "completed" /\ status'[j] = "pending"
                         \/ j = lastId + 1 /\ status'[j] = "pending"
    BY <2>1 DEF Completed
  <2>6. status'[lastId + 1] = "pending"
    <3>1. PICK k \in JobId : k = lastId + 1
      BY <1>4
    <3>2. status'[k] = IF k = lastId + 1 THEN "pending"
                       ELSE IF k \in Completed(old) THEN "pending" ELSE status[k]
      BY <2>1
    <3> QED
      BY <3>1, <3>2
  <2>7. dlq' \in [JobId -> Nat]
    BY DEF ResetAndEnqueue, QueueTypeOK
  <2> QED
    BY <2>3, <2>4, <2>5, <2>6, <2>7
<1>11. QueueTypeOK'
  <2>1. work' \in [JobId -> Work]
    BY <1>1, <1>7 DEF QueueTypeOK
  <2>2. /\ status' \in [JobId -> Statuses] /\ dlq' \in [JobId -> Nat]
        /\ \A j \in JobId : j > lastId' => status'[j] = "absent"
    BY <1>10
  <2> QED
    BY <2>1, <2>2, <1>3, <1>4, <1>8, <1>9 DEF QueueTypeOK
<1> QED
  BY <1>1, <1>3, <1>4, <1>7, <1>10, <1>11

-----------------------------------------------------------------------------
(* The types, for any number of ingesters.                                    *)

LEMMA TypesInit == IngestInit => TInv
<1> SUFFICES ASSUME IngestInit PROVE TInv
  OBVIOUS
<1>1. QueueTypeOK
  BY MaxIdAssumption, WorkAssumption DEF IngestInit, QueueInit, QueueTypeOK, Statuses, MaxRetries
<1>2. StoreTypeOK
  BY VersionStoreAssumption DEF IngestInit, StoreInit, StoreTypeOK
<1>3. AnyPath \in Path /\ AnyContent \in Content
  BY VersionStoreAssumption DEF AnyPath, AnyContent
<1> QED
  BY <1>1, <1>2, <1>3 DEF IngestInit, TInv, IngestTypeOK, RowFound, Steps

LEMMA TypesStep == TInv /\ [IngestNext]_ingestVars => TInv'
<1> SUFFICES ASSUME TInv, [IngestNext]_ingestVars PROVE TInv'
  OBVIOUS
<1> USE DEF TInv
<1>0. AnyPath \in Path /\ AnyContent \in Content
  BY VersionStoreAssumption DEF AnyPath, AnyContent
<1>s. ASSUME UNCHANGED queueVars PROVE QueueTypeOK'
  BY <1>s DEF IngestTypeOK, QueueTypeOK, queueVars
<1>t. ASSUME UNCHANGED storeVars PROVE StoreTypeOK' /\ DOMAIN files' = DOMAIN files
  BY <1>t DEF IngestTypeOK, StoreTypeOK, storeVars
<1>1. CASE UNCHANGED ingestVars
  BY <1>1, <1>s, <1>t DEF ingestVars, ingesterVars, IngestTypeOK, RowFound
<1>2. CASE Edit
  BY <1>2, <1>s, <1>t DEF Edit, ingesterVars, IngestTypeOK, RowFound
<1>3. ASSUME NEW i \in Ingesters, Read(i) \/ GetFile(i) \/ ReadLatest(i) \/ Abort(i)
      PROVE  TInv'
  <2>1. UNCHANGED <<queueVars, storeVars>>
    BY <1>3 DEF Read, GetFile, ReadLatest, Abort
  <2>2. CASE Read(i)
    BY <1>s, <1>t, <2>1, <2>2 DEF Read, IngestTypeOK, RowFound, Steps
  <2>3. CASE GetFile(i)
    <3>1. RowsOfPath(path[i]) \subseteq DOMAIN files /\ DOMAIN files \subseteq FileId
      BY FilesSeq, VersionStoreAssumption DEF RowsOfPath, IngestTypeOK
    <3> QED
      BY <1>s, <1>t, <2>1, <2>3, <3>1 DEF GetFile, IngestTypeOK, RowFound, Steps
  <2>4. CASE ReadLatest(i)
    <3>1. LatestOf(fileRow[i]) \subseteq VersionId
      BY VersionsSeq, VersionStoreAssumption DEF LatestOf, VersionsOf, IngestTypeOK
    <3> QED
      BY <1>s, <1>t, <2>1, <2>4, <3>1 DEF ReadLatest, IngestTypeOK, RowFound, Steps
  <2>5. CASE Abort(i)
    BY <1>s, <1>t, <1>0, <2>1, <2>5 DEF Abort, NextFile, IngestTypeOK, RowFound, Steps
  <2> QED
    BY <1>3, <2>2, <2>3, <2>4, <2>5
<1>4. ASSUME NEW i \in Ingesters, GetOrInsert(i)
      PROVE  TInv'
  <2>1. path[i] \in Path /\ CreateFile(path[i])
    BY <1>4 DEF GetOrInsert, IngestTypeOK
  <2>2. StoreTypeOK
    BY DEF IngestTypeOK
  <2>3. StoreTypeOK' /\ DOMAIN files \subseteq DOMAIN files' /\ Len(files) + 1 \in FileId \cap DOMAIN files'
    <3>1. Len(files') <= MaxFile
      BY <2>1, <2>2, CreateKeeps, VersionStoreAssumption
    <3> QED
      BY <1>4, <2>1, <2>2, <3>1, CreateKeeps DEF StoreTypeOK, GetOrInsert
  <2> QED
    BY <1>4, <1>s, <2>3 DEF GetOrInsert, IngestTypeOK, RowFound, Steps
<1>5. ASSUME NEW i \in Ingesters, Bypass(i) \/ Replace(i)
      PROVE  TInv'
  <2>1. /\ InsertAsLatest(fileRow[i], content[i], latestID[i])
        /\ fileRow[i] \in DOMAIN files /\ fileRow[i] \in FileId
        /\ content[i] \in Content /\ latestID[i] \in VersionId \cup {0}
    <3>1. step[i] = "commit"
      BY <1>5 DEF Bypass, Replace
    <3> QED
      BY <1>5, <3>1, FilesSeq, VersionStoreAssumption DEF Bypass, Replace, IngestTypeOK, RowFound
  <2>2. StoreTypeOK /\ QueueTypeOK
    BY DEF IngestTypeOK
  <2>3. /\ Len(versions) + 1 \in VersionId
        /\ versions' \in Seq(VersionRow) /\ Len(versions') = Len(versions) + 1
        /\ DOMAIN versions' = DOMAIN versions \cup {Len(versions) + 1}
        /\ \A v \in DOMAIN versions' : versions'[v].file \in DOMAIN files
    <3>1. versions'[Len(versions) + 1].file = fileRow[i]
      BY <2>1, <2>2, InsertKeeps
    <3>2. \A v \in DOMAIN versions : versions'[v].file = versions[v].file
      BY <2>1, <2>2, InsertKeeps DEF KeptBut
    <3>3. /\ Len(versions) + 1 \in VersionId
          /\ versions' \in Seq(VersionRow) /\ Len(versions') = Len(versions) + 1
          /\ DOMAIN versions' = DOMAIN versions \cup {Len(versions) + 1}
      BY <2>1, <2>2, InsertKeeps
    <3>4. \A v \in DOMAIN versions : versions[v].file \in DOMAIN files
      BY <2>2 DEF StoreTypeOK
    <3> QED
      BY <2>1, <3>1, <3>2, <3>3, <3>4
  <2>4. files' = files
    BY <1>5 DEF Bypass, Replace
  <2>5. junctions' \in [VersionId -> SUBSET Feature] /\
        \A v \in VersionId : v > Len(versions') => junctions'[v] = {}
    <3>0. Len(versions) \in Nat
      BY <2>2, VersionsSeq
    <3>1. CASE Bypass(i)
      <4>1. /\ junctions' = Cloned(latestID[i], Len(versions) + 1)
            /\ junctions \in [VersionId -> SUBSET Feature]
            /\ \A v \in VersionId : v > Len(versions) => junctions[v] = {}
        BY <3>1, <2>2 DEF Bypass, StoreTypeOK
      <4> QED
        BY <2>3, <3>0, <4>1 DEF Cloned
    <3>2. CASE Replace(i)
      BY <2>2, <2>3, <3>0, <3>2 DEF Replace, StoreTypeOK
    <3> QED
      BY <1>5, <3>1, <3>2
  <2>6. StoreTypeOK'
    <3>1. Len(versions') <= MaxVersion
      BY <2>3
    <3> QED
      BY <2>2, <2>3, <2>4, <2>5, <3>1 DEF StoreTypeOK
  <2>7. QueueTypeOK'
    <3>1. CASE Bypass(i)
      BY <1>s, <3>1 DEF Bypass
    <3>2. CASE Replace(i)
      <4>1. TargetedAt(latestID[i]) \subseteq JobId
        BY <2>2, MaxIdAssumption DEF TargetedAt, QueueTypeOK
      <4>2. PICK old \in SUBSET JobId : ResetAndEnqueue(old, <<OverviewJob(Len(versions) + 1)>>)
        BY <3>2, <4>1 DEF Replace
      <4> QED
        BY <2>2, <2>3, <4>2, OneJobMore
    <3> QED
      BY <1>5, <3>1, <3>2
  <2>8. NextFile(i)
    BY <1>5 DEF Bypass, Replace
  <2> QED
    BY <1>0, <2>4, <2>6, <2>7, <2>8 DEF NextFile, IngestTypeOK, RowFound, Steps
<1> QED
  BY <1>1, <1>2, <1>3, <1>4, <1>5 DEF IngestNext, IngestStep

\* Type correctness, for any number of ingest processes.
THEOREM IngestTypeCorrect == IngestSpec => []IngestTypeOK
<1>1. TInv => IngestTypeOK
  BY DEF TInv
<1> QED
  BY TypesInit, TypesStep, <1>1, PTL DEF IngestSpec

-----------------------------------------------------------------------------
(* What others may rely on, for any number of ingesters: rows only gain.      *)

TargetsExist == \A j \in 1 .. lastId : work[j].target \in DOMAIN versions

Grown ==
  /\ lastId \in Nat /\ lastId' \in Nat /\ lastId <= lastId'
  /\ \A j \in 1 .. lastId : work'[j] = work[j]
  /\ DOMAIN versions \subseteq DOMAIN versions'
  /\ \A v \in DOMAIN versions : versions[v].summary => versions'[v].summary
  /\ \A v \in VersionId : junctions[v] \subseteq junctions'[v]

\* Of the rows that were there, a step of ingestion only resets completed ones;
\* the new ones are pending.
OnlyResets ==
  /\ \A j \in JobId : \/ status'[j] = status[j]
                      \/ status[j] = "completed" /\ status'[j] = "pending"
                      \/ j > lastId /\ status'[j] = "pending"
  /\ \A j \in 1 .. lastId' : j \in 1 .. lastId \/ status'[j] = "pending"

LEMMA IngestionGrows ==
  ASSUME TInv, TargetsExist, [IngestNext]_ingestVars
  PROVE  TargetsExist' /\ Grown /\ OnlyResets
<1>1. /\ lastId \in Nat /\ QueueTypeOK /\ StoreTypeOK
      /\ junctions \in [VersionId -> SUBSET Feature]
  BY MaxIdAssumption DEF TInv, IngestTypeOK, QueueTypeOK, StoreTypeOK
<1>2. ASSUME UNCHANGED <<queueVars, versions, junctions>>
      PROVE  TargetsExist' /\ Grown /\ OnlyResets
  BY <1>1, <1>2 DEF TargetsExist, Grown, OnlyResets, queueVars
<1>3. CASE UNCHANGED ingestVars \/ Edit
  BY <1>2, <1>3 DEF ingestVars, Edit, storeVars
<1>4. ASSUME NEW i \in Ingesters, Read(i) \/ GetFile(i) \/ GetOrInsert(i) \/ ReadLatest(i) \/ Abort(i)
      PROVE  TargetsExist' /\ Grown /\ OnlyResets
  BY <1>2, <1>4 DEF Read, GetFile, GetOrInsert, ReadLatest, Abort, storeVars
<1>5. ASSUME NEW i \in Ingesters, Bypass(i) \/ Replace(i)
      PROVE  TargetsExist' /\ Grown /\ OnlyResets
  <2>1. /\ InsertAsLatest(fileRow[i], content[i], latestID[i])
        /\ fileRow[i] \in FileId /\ content[i] \in Content /\ latestID[i] \in VersionId \cup {0}
    <3>1. step[i] = "commit"
      BY <1>5 DEF Bypass, Replace
    <3>2. fileRow[i] \in DOMAIN files
      BY <3>1 DEF TInv, RowFound
    <3>3. DOMAIN files \subseteq FileId
      BY <1>1, FilesSeq, VersionStoreAssumption
    <3> QED
      BY <1>5, <3>2, <3>3 DEF Bypass, Replace, TInv, IngestTypeOK
  <2>2. /\ Len(versions) + 1 \in VersionId /\ KeptBut(latestID[i])
        /\ DOMAIN versions' = DOMAIN versions \cup {Len(versions) + 1}
    BY <1>1, <2>1, InsertKeeps
  <2>3. \A v \in DOMAIN versions : versions[v].summary => versions'[v].summary
    BY <2>2 DEF KeptBut
  <2>4. CASE Bypass(i)
    <3>1. UNCHANGED queueVars /\ junctions' = Cloned(latestID[i], Len(versions) + 1)
      BY <2>4 DEF Bypass
    <3>2. \A v \in VersionId : junctions[v] \subseteq junctions'[v]
      BY <1>1, <3>1 DEF Cloned
    <3> QED
      BY <1>1, <2>2, <2>3, <3>1, <3>2 DEF TargetsExist, Grown, OnlyResets, queueVars
  <2>5. CASE Replace(i)
    <3>1. TargetedAt(latestID[i]) \subseteq JobId
      BY <1>1, MaxIdAssumption DEF TargetedAt, QueueTypeOK
    <3>2. PICK old \in SUBSET JobId : ResetAndEnqueue(old, <<OverviewJob(Len(versions) + 1)>>)
      BY <2>5, <3>1 DEF Replace
    <3>v. PICK v \in VersionId : v = Len(versions) + 1
      BY <2>2
    <3>j. ResetAndEnqueue(old, <<OverviewJob(v)>>)
      BY <3>2, <3>v
    <3>3. /\ lastId' = lastId + 1
          /\ \A j \in 1 .. lastId : work'[j] = work[j]
          /\ work'[lastId + 1].target = v /\ status'[lastId + 1] = "pending"
      BY <1>1, <3>j, OneJobMore
    <3>n. lastId + 1 > lastId /\ 1 .. lastId' = (1 .. lastId) \cup {lastId + 1}
      BY <1>1, <3>3
    <3>4. OnlyResets
      <4>1. \A j \in JobId : \/ status'[j] = status[j]
                             \/ status[j] = "completed" /\ status'[j] = "pending"
                             \/ j = lastId + 1 /\ status'[j] = "pending"
        BY <1>1, <3>j, OneJobMore
      <4>2. \A j \in JobId : j = lastId + 1 => j > lastId
        BY <1>1
      <4>3. \A j \in 1 .. lastId' : j \in 1 .. lastId \/ status'[j] = "pending"
        <5>1. \A j \in 1 .. lastId' : j \in 1 .. lastId \/ j = lastId + 1
          BY <3>n
        <5> QED
          BY <3>3, <5>1
      <4> QED
        BY <4>1, <4>2, <4>3 DEF OnlyResets
    <3>5. TargetsExist'
      BY <2>2, <3>v, <3>3, <3>n DEF TargetsExist
    <3>6. junctions' = junctions
      BY <2>5 DEF Replace
    <3> QED
      BY <1>1, <2>2, <2>3, <3>3, <3>4, <3>5, <3>6 DEF Grown
  <2> QED
    BY <1>5, <2>4, <2>5
<1> QED
  BY <1>3, <1>4, <1>5 DEF IngestNext, IngestStep

-----------------------------------------------------------------------------
(* At most one ingester.                                                      *)

AtMostOne == \A i, j \in Ingesters : i = j

\* What an ingester has read is still so when it writes.
StillSo ==
  \A i \in Ingesters :
    /\ step[i] = "createFile" => RowsOfPath(path[i]) = {}
    /\ step[i] \in {"latest", "commit"} => files[fileRow[i]] = path[i]
    /\ step[i] = "commit" =>
         LatestOf(fileRow[i]) = IF latestID[i] = 0 THEN {} ELSE {latestID[i]}

OneInv == TInv /\ OneRowPerPath /\ OneLatest /\ StillSo

\* The steps that write no version and no file row.
LEMMA ReadingSteps ==
  ASSUME AtMostOne, OneInv, UNCHANGED storeVars,
         NEW i \in Ingesters, Read(i) \/ GetFile(i) \/ ReadLatest(i) \/ Abort(i)
  PROVE  StillSo'
<1> USE DEF OneInv
<1>1. /\ \A j \in Ingesters : j = i
      /\ step \in [Ingesters -> Steps] /\ path \in [Ingesters -> Path]
      /\ fileRow \in [Ingesters -> FileId \cup {0}]
      /\ latestID \in [Ingesters -> VersionId \cup {0}]
  BY DEF AtMostOne, TInv, IngestTypeOK
<1>2. \A p : RowsOfPath(p)' = RowsOfPath(p)
  BY DEF RowsOfPath, storeVars
<1>3. \A f : LatestOf(f)' = LatestOf(f)
  BY DEF LatestOf, VersionsOf, storeVars
<1>4. CASE Read(i)
  BY <1>1, <1>4 DEF Read, StillSo
<1>5. CASE GetFile(i)
  <2>1. path' = path /\ files' = files
    BY <1>5 DEF GetFile, storeVars
  <2>2. CASE RowsOfPath(path[i]) = {} /\ step' = [step EXCEPT ![i] = "createFile"]
    BY <1>1, <1>2, <2>1, <2>2 DEF StillSo
  <2>3. CASE \E f \in RowsOfPath(path[i]) : /\ step' = [step EXCEPT ![i] = "latest"]
                                            /\ fileRow' = [fileRow EXCEPT ![i] = f]
    <3>1. PICK f \in RowsOfPath(path[i]) : /\ step' = [step EXCEPT ![i] = "latest"]
                                           /\ fileRow' = [fileRow EXCEPT ![i] = f]
      BY <2>3
    <3>2. files[f] = path[i]
      BY DEF RowsOfPath
    <3> QED
      BY <1>1, <2>1, <3>1, <3>2 DEF StillSo
  <2> QED
    BY <1>5, <2>2, <2>3 DEF GetFile
<1>6. CASE ReadLatest(i)
  <2> DEFINE latest == LatestOf(fileRow[i])
  <2>1. PICK v \in (IF latest = {} THEN {0} ELSE latest) : latestID' = [latestID EXCEPT ![i] = v]
    BY <1>6 DEF ReadLatest
  <2>2. latest = IF v = 0 THEN {} ELSE {v}
    <3>1. 0 \notin latest
      BY VersionsSeq DEF TInv, IngestTypeOK, LatestOf, VersionsOf
    <3>2. CASE latest = {}
      BY <2>1, <3>2
    <3>3. CASE latest # {}
      <4>1. fileRow[i] \in DOMAIN files
        BY <1>6 DEF ReadLatest, TInv, RowFound
      <4>2. \E w : latest = {w}
        BY <3>3, <4>1 DEF OneLatest, LatestOf
      <4> QED
        BY <2>1, <3>1, <3>3, <4>2
    <3> QED
      BY <3>2, <3>3
  <2>3. /\ step' = [step EXCEPT ![i] = "commit"] /\ step[i] = "latest"
        /\ UNCHANGED <<files, path, fileRow>>
    BY <1>6 DEF ReadLatest, storeVars
  <2>4. files[fileRow[i]] = path[i]
    BY <2>3 DEF StillSo
  <2>5. latestID'[i] = v
    BY <1>1, <2>1
  <2>6. /\ step'[i] = "commit" /\ files'[fileRow'[i]] = path'[i]
        /\ LatestOf(fileRow[i])' = IF latestID'[i] = 0 THEN {} ELSE {latestID'[i]}
    BY <1>1, <1>3, <2>2, <2>3, <2>4, <2>5
  <2> QED
    BY <1>1, <2>3, <2>6 DEF StillSo
<1>7. CASE Abort(i)
  BY <1>1, <1>7 DEF Abort, NextFile, StillSo
<1> QED
  BY <1>4, <1>5, <1>6, <1>7

\* A version n is inserted into file g, behind the one that was the latest.
NewVersion(i, g, n) ==
  /\ n \notin DOMAIN versions /\ n \in VersionId
  /\ \A v \in DOMAIN versions : v < n
  /\ DOMAIN versions' = DOMAIN versions \cup {n}
  /\ files' = files /\ g \in DOMAIN files /\ files[g] = path[i]
  /\ \A v \in DOMAIN versions : /\ versions'[v].file = versions[v].file
                                /\ versions'[v].content = versions[v].content
  /\ versions'[n].file = g /\ versions'[n].content = content[i]
  /\ \A f : f # g => VersionsOf(f)' = VersionsOf(f) /\ LatestOf(f)' = LatestOf(f)
  /\ VersionsOf(g)' = VersionsOf(g) \cup {n}
  /\ LatestOf(g)' = {n}

LEMMA VersionAdded ==
  ASSUME OneInv, NEW i \in Ingesters, Bypass(i) \/ Replace(i),
         NEW g, g = fileRow[i], NEW n, n = Len(versions) + 1
  PROVE  NewVersion(i, g, n)
<1> USE DEF OneInv, TInv
<1>1. /\ InsertAsLatest(g, content[i], latestID[i]) /\ step[i] = "commit" /\ files' = files
  BY DEF Bypass, Replace
<1>2. /\ g \in DOMAIN files /\ g \in FileId /\ files[g] = path[i]
      /\ content[i] \in Content /\ latestID[i] \in VersionId \cup {0}
      /\ LatestOf(g) = IF latestID[i] = 0 THEN {} ELSE {latestID[i]}
      /\ StoreTypeOK
  BY <1>1, FilesSeq, VersionStoreAssumption DEF IngestTypeOK, RowFound, StillSo
<1>3. /\ n \in VersionId
      /\ DOMAIN versions' = DOMAIN versions \cup {n}
      /\ KeptBut(latestID[i])
      /\ versions'[n].file = g
      /\ versions'[n].content = content[i]
      /\ versions'[n].latest = TRUE
  <2>1. /\ Len(versions) + 1 \in VersionId
        /\ DOMAIN versions' = DOMAIN versions \cup {Len(versions) + 1}
        /\ versions'[Len(versions) + 1].file = g
        /\ versions'[Len(versions) + 1].content = content[i]
        /\ versions'[Len(versions) + 1].latest = TRUE
    BY <1>1, <1>2, InsertKeeps
  <2>2. KeptBut(latestID[i])
    BY <1>1, <1>2, InsertKeeps
  <2> QED
    BY <2>1, <2>2
<1>4. n \notin DOMAIN versions /\ \A v \in DOMAIN versions : v < n
  BY <1>2, VersionsSeq
<1>5. \A v \in DOMAIN versions : versions[v].latest \in BOOLEAN
  BY <1>2, VersionsSeq DEF VersionRow
<1>6. ASSUME NEW f, f # g
      PROVE  VersionsOf(f)' = VersionsOf(f) /\ LatestOf(f)' = LatestOf(f)
  <2>1. VersionsOf(f)' = VersionsOf(f)
    BY <1>3, <1>6 DEF VersionsOf, KeptBut
  <2>2. latestID[i] \notin VersionsOf(f)
    <3>1. CASE latestID[i] = 0
      BY <1>2, <3>1, VersionsSeq DEF VersionsOf
    <3>2. CASE latestID[i] # 0
      BY <1>2, <1>6, <3>2 DEF LatestOf, VersionsOf
    <3> QED
      BY <3>1, <3>2
  <2>3. \A v \in VersionsOf(f) : versions'[v].latest <=> versions[v].latest
    BY <1>3, <1>5, <2>2 DEF VersionsOf, KeptBut
  <2> QED
    BY <2>1, <2>3 DEF LatestOf
<1>7. VersionsOf(g)' = VersionsOf(g) \cup {n}
  BY <1>3, <1>4 DEF VersionsOf, KeptBut
<1>8. \A v \in VersionsOf(g) : ~versions'[v].latest
  BY <1>2, <1>3, <1>5 DEF LatestOf, VersionsOf, KeptBut
<1>9. LatestOf(g)' = {n}
  BY <1>3, <1>7, <1>8 DEF LatestOf
<1> QED
  BY <1>1, <1>2, <1>3, <1>4, <1>6, <1>7, <1>9 DEF KeptBut, NewVersion

\* OneRowPerPath, OneLatest and StillSo together are inductive.
LEMMA OneInit == IngestInit => OneInv
<1> SUFFICES ASSUME IngestInit PROVE OneInv
  OBVIOUS
<1>1. files = <<>> /\ DOMAIN files = {} /\ \A i \in Ingesters : step[i] = "idle"
  BY DEF IngestInit, StoreInit
<1> QED
  BY <1>1, TypesInit DEF OneInv, OneRowPerPath, OneLatest, StillSo

LEMMA OneStep ==
  ASSUME AtMostOne, OneInv, [IngestNext]_ingestVars
  PROVE  OneInv'
<1> USE DEF OneInv
<1>0. TInv'
  BY TypesStep
<1>1. ASSUME UNCHANGED storeVars PROVE OneRowPerPath' /\ OneLatest'
  <2>1. /\ files' = files
        /\ \A f : VersionsOf(f)' = VersionsOf(f)
        /\ \A f : LatestOf(f)' = LatestOf(f)
    BY <1>1 DEF VersionsOf, LatestOf, storeVars
  <2> QED
    BY <2>1 DEF OneRowPerPath, OneLatest
<1>2. CASE UNCHANGED ingestVars \/ Edit
  <2>1. UNCHANGED <<storeVars, ingesterVars>>
    BY <1>2 DEF ingestVars, Edit
  <2>2. StillSo'
    BY <2>1 DEF StillSo, RowsOfPath, LatestOf, VersionsOf, storeVars, ingesterVars
  <2> QED
    BY <1>0, <1>1, <2>1, <2>2
<1>3. ASSUME NEW i \in Ingesters, Read(i) \/ GetFile(i) \/ ReadLatest(i) \/ Abort(i)
      PROVE  OneInv'
  <2>1. UNCHANGED storeVars
    BY <1>3 DEF Read, GetFile, ReadLatest, Abort
  <2> QED
    BY <1>0, <1>1, <1>3, <2>1, ReadingSteps
<1>4. ASSUME NEW i \in Ingesters, GetOrInsert(i)
      PROVE  OneInv'
  <2> DEFINE n == Len(files) + 1
  <2>1. /\ StoreTypeOK /\ path[i] \in Path /\ CreateFile(path[i])
        /\ RowsOfPath(path[i]) = {}
    BY <1>4 DEF GetOrInsert, TInv, IngestTypeOK, StillSo
  <2>2. /\ DOMAIN files' = DOMAIN files \cup {n} /\ n \notin DOMAIN files
        /\ \A f \in DOMAIN files : files'[f] = files[f]
        /\ files'[n] = path[i]
    <3>1. n \notin DOMAIN files
      BY <2>1, FilesSeq
    <3> QED
      BY <2>1, <3>1, CreateKeeps
  <2>3. n' = n + 1 /\ n \in Nat
    BY <2>1, CreateKeeps, FilesSeq
  <2>4. PICK k : k = n
    OBVIOUS
  <2> HIDE DEF n
  <2>5. OneRowPerPath'
    <3>1. \A f \in DOMAIN files : files[f] # path[i]
      BY <2>1 DEF RowsOfPath
    <3> QED
      BY <2>2, <2>4, <3>1 DEF OneRowPerPath
  <2>6. OneLatest'
    <3>1. versions' = versions
      BY <1>4 DEF GetOrInsert
    <3>2. \A f : VersionsOf(f)' = VersionsOf(f) /\ LatestOf(f)' = LatestOf(f)
      BY <3>1 DEF VersionsOf, LatestOf
    <3>3. VersionsOf(k) = {}
      BY <2>1, <2>2, <2>4 DEF VersionsOf, StoreTypeOK
    <3> QED
      BY <2>2, <2>4, <3>2, <3>3 DEF OneLatest
  <2>7. StillSo'
    <3>1. /\ step'[i] = "latest" /\ fileRow'[i] = n /\ path' = path
      BY <1>4 DEF GetOrInsert, TInv, IngestTypeOK, n
    <3> QED
      BY <2>2, <3>1 DEF AtMostOne, StillSo
  <2> QED
    BY <1>0, <2>5, <2>6, <2>7
<1>5. ASSUME NEW i \in Ingesters, Bypass(i) \/ Replace(i)
      PROVE  OneInv'
  <2>1. PICK g, n : g = fileRow[i] /\ n = Len(versions) + 1
    OBVIOUS
  <2>2. /\ files' = files /\ g \in DOMAIN files
        /\ \A v \in DOMAIN versions : v < n
        /\ \A f : f # g => VersionsOf(f)' = VersionsOf(f) /\ LatestOf(f)' = LatestOf(f)
        /\ VersionsOf(g)' = VersionsOf(g) \cup {n}
        /\ LatestOf(g)' = {n}
        /\ n \in VersionId
    <3>1. NewVersion(i, g, n)
      BY <1>5, <2>1, VersionAdded
    <3> QED
      BY <3>1 DEF NewVersion
  <2>3. OneRowPerPath'
    BY <2>2 DEF OneRowPerPath
  <2>4. OneLatest'
    <3>1. \A w \in VersionsOf(g)' : w <= n
      <4>1. \A w \in VersionsOf(g) : w < n /\ w \in Int /\ n \in Int
        BY <2>2, VersionsSeq DEF VersionsOf, TInv, IngestTypeOK
      <4> QED
        BY <2>2, <4>1
    <3> QED
      BY <2>2, <3>1 DEF OneLatest
  <2>5. StillSo'
    <3>1. NextFile(i)
      BY <1>5 DEF Bypass, Replace
    <3>2. step'[i] = "idle"
      BY <3>1 DEF NextFile, TInv, IngestTypeOK
    <3> QED
      BY <3>2 DEF AtMostOne, StillSo
  <2> QED
    BY <1>0, <2>3, <2>4, <2>5
<1> QED
  BY <1>2, <1>3, <1>4, <1>5 DEF IngestNext, IngestStep

\* With one ingest process, however often it is interrupted, a path has one row.
THEOREM OneRowPerPathHolds ==
  ASSUME AtMostOne
  PROVE  IngestSpec => []OneRowPerPath
<1>1. OneInv => OneRowPerPath
  BY DEF OneInv
<1>2. OneInv /\ [IngestNext]_ingestVars => OneInv'
  BY OneStep
<1> QED
  BY OneInit, <1>1, <1>2, PTL DEF IngestSpec

\* With one ingest process a file has exactly one latest version, its newest.
THEOREM OneLatestHolds ==
  ASSUME AtMostOne
  PROVE  IngestSpec => []OneLatest
<1>1. OneInv => OneLatest
  BY DEF OneInv
<1>2. OneInv /\ [IngestNext]_ingestVars => OneInv'
  BY OneStep
<1> QED
  BY OneInit, <1>1, <1>2, PTL DEF IngestSpec

-----------------------------------------------------------------------------
(* The jobs.                                                                  *)

LEMMA PathLanguages == \A p : LanguageFromPath(p) \in Languages
BY DEF LanguageFromPath, LanguageFromExt, Languages

\* Where the comments of every content are plain in the languages of the paths,
\* the hash tells their code apart.
LEMMA PlainTellsCode ==
  ASSUME NEW W, Content \subseteq Seq(W),
         \A p \in Path, c \in Content : Plain(LanguageFromPath(p), c)
  PROVE  HashTellsCode
<1>1. ASSUME NEW p \in Path, NEW c \in Content
      PROVE  StructuralHash(LanguageFromPath(p), c) = Code(LanguageFromPath(p), c)
  <2>1. PICK lang \in Languages : lang = LanguageFromPath(p)
    BY PathLanguages
  <2> QED
    BY <2>1, HashIsCodeOf
<1> QED
  BY <1>1 DEF HashTellsCode

\* A version has an overview job, and only one, exactly when its hash is not that of
\* the version before it.
Older(v) == {w \in VersionsOf(versions[v].file) : w < v}

Unchanged(v) ==
  \E w \in Older(v) : (\A x \in Older(v) : x <= w) /\ AstHash(w) = AstHash(v)

JobPerHash ==
  \A v \in DOMAIN versions : Cardinality(TargetedAt(v)) = IF Unchanged(v) THEN 0 ELSE 1

JobsOf(v) == IF Unchanged(v) THEN TargetedAt(v) = {} ELSE \E j : TargetedAt(v) = {j}

JobInv == OneInv /\ TargetsExist /\ \A v \in DOMAIN versions : JobsOf(v)

LEMMA JobInvImplies == JobInv => JobPerHash
<1> SUFFICES ASSUME JobInv, NEW v \in DOMAIN versions
             PROVE  Cardinality(TargetedAt(v)) = IF Unchanged(v) THEN 0 ELSE 1
  BY DEF JobPerHash
<1>1. JobsOf(v)
  BY DEF JobInv
<1> QED
  BY <1>1, FS_EmptySet, FS_Singleton DEF JobsOf

\* The versions of one file are in one language.
LEMMA HashesAsCode ==
  ASSUME HashTellsCode, JobInv
  PROVE  JobPerHash <=> JobPerChange
<1>1. ASSUME NEW v \in DOMAIN versions, NEW w \in Older(v)
      PROVE  AstHash(w) = AstHash(v) <=> CodeOf(w) = CodeOf(v)
  <2>1. /\ w \in DOMAIN versions /\ versions[w].file = versions[v].file
        /\ versions[v].content \in Content /\ versions[w].content \in Content
    BY <1>1, VersionsSeq DEF Older, VersionsOf, JobInv, OneInv, TInv, IngestTypeOK, VersionRow
  <2>2. PICK p \in Path : p = files[versions[v].file]
    BY FilesSeq DEF JobInv, OneInv, TInv, IngestTypeOK, StoreTypeOK
  <2>3. LanguageOf(v) = LanguageFromPath(p) /\ LanguageOf(w) = LanguageFromPath(p)
    BY <2>1, <2>2 DEF LanguageOf
  <2>4. LanguageFromPath(p) \in Languages
    BY PathLanguages
  <2> QED
    BY <2>1, <2>3, <2>4 DEF AstHash, CodeOf, CodeIn, HashTellsCode
<1> QED
  BY <1>1 DEF JobPerHash, JobPerChange, Unchanged, Older

\* The normaliser's answer is that of the reader.
LEMMA SameMeansUnchanged ==
  ASSUME HashTellsCode, OneInv, NEW i \in Ingesters, step[i] = "commit"
  PROVE  SameStructure(i) <=>
           /\ latestID[i] # 0
           /\ CodeOf(latestID[i]) = CodeIn[LanguageFromPath(path[i])][content[i]]
<1> USE DEF OneInv, TInv
<1>1. CASE latestID[i] = 0
  BY <1>1 DEF SameStructure
<1>2. CASE latestID[i] # 0
  <2> DEFINE v == latestID[i]
  <2>1. v \in LatestOf(fileRow[i]) /\ files[fileRow[i]] = path[i]
    BY <1>2 DEF StillSo
  <2>2. v \in DOMAIN versions /\ versions[v].file = fileRow[i]
    BY <2>1 DEF LatestOf, VersionsOf
  <2>3. versions[v].content \in Content /\ content[i] \in Content
    BY <2>2, VersionsSeq DEF IngestTypeOK, VersionRow
  <2>4. LanguageOf(v) = LanguageFromPath(path[i])
    BY <2>1, <2>2 DEF LanguageOf
  <2>5. path[i] \in Path /\ LanguageFromPath(path[i]) \in Languages
    BY PathLanguages DEF IngestTypeOK
  <2> QED
    BY <1>2, <2>3, <2>4, <2>5 DEF SameStructure, AstHash, ReadHash, CodeOf, CodeIn, HashTellsCode
<1> QED
  BY <1>1, <1>2

LEMMA JobStep ==
  ASSUME AtMostOne, JobInv, [IngestNext]_ingestVars
  PROVE  JobInv'
<1> USE DEF JobInv
<1>0. OneInv'
  BY OneStep
<1>1. ASSUME UNCHANGED <<lastId, work, versions>>,
             \A v \in DOMAIN versions : files'[versions[v].file] = files[versions[v].file]
      PROVE  JobInv'
  <2>1. TargetsExist' /\ \A v : TargetedAt(v)' = TargetedAt(v)
    BY <1>1 DEF TargetsExist, TargetedAt
  <2>2. \A v \in DOMAIN versions : AstHash(v)' = AstHash(v)
    BY <1>1 DEF AstHash, LanguageOf
  <2>3. \A v : Older(v)' = Older(v) /\ Older(v) \subseteq DOMAIN versions
    BY <1>1 DEF Older, VersionsOf
  <2>4. ASSUME NEW v \in DOMAIN versions PROVE JobsOf(v)'
    <3>1. Unchanged(v)' <=> Unchanged(v)
      BY <2>2, <2>3, <2>4 DEF Unchanged
    <3> QED
      BY <2>1, <2>4, <3>1 DEF JobsOf
  <2> QED
    BY <1>0, <1>1, <2>1, <2>4
<1>2. CASE UNCHANGED ingestVars \/ Edit
  BY <1>1, <1>2 DEF ingestVars, Edit, queueVars, storeVars
<1>3. ASSUME NEW i \in Ingesters, Read(i) \/ GetFile(i) \/ ReadLatest(i) \/ Abort(i)
      PROVE  JobInv'
  BY <1>1, <1>3 DEF Read, GetFile, ReadLatest, Abort, queueVars, storeVars
<1>4. ASSUME NEW i \in Ingesters, GetOrInsert(i)
      PROVE  JobInv'
  <2>1. StoreTypeOK /\ path[i] \in Path /\ CreateFile(path[i])
    BY <1>4 DEF GetOrInsert, OneInv, TInv, IngestTypeOK
  <2>2. \A f \in DOMAIN files : files'[f] = files[f]
    BY <2>1, CreateKeeps
  <2>3. \A v \in DOMAIN versions : versions[v].file \in DOMAIN files
    BY <2>1 DEF StoreTypeOK
  <2> QED
    BY <1>1, <1>4, <2>2, <2>3 DEF GetOrInsert, queueVars
<1>5. ASSUME NEW i \in Ingesters, Bypass(i) \/ Replace(i)
      PROVE  JobInv'
  <2>1. PICK g, n : g = fileRow[i] /\ n = Len(versions) + 1
    OBVIOUS
  <2>2. /\ n \notin DOMAIN versions /\ n \in VersionId
        /\ \A v \in DOMAIN versions : v < n
        /\ DOMAIN versions' = DOMAIN versions \cup {n}
        /\ files' = files /\ g \in DOMAIN files /\ files[g] = path[i]
        /\ \A v \in DOMAIN versions : /\ versions'[v].file = versions[v].file
                                      /\ versions'[v].content = versions[v].content
        /\ versions'[n].file = g /\ versions'[n].content = content[i]
        /\ \A f : f # g => VersionsOf(f)' = VersionsOf(f)
        /\ VersionsOf(g)' = VersionsOf(g) \cup {n}
    <3>1. NewVersion(i, g, n)
      BY <1>5, <2>1, VersionAdded
    <3> QED
      BY <3>1 DEF NewVersion
  <2>3. /\ \A v \in DOMAIN versions : AstHash(v)' = AstHash(v)
        /\ AstHash(n)' = ReadHash(i)
    BY <2>2 DEF AstHash, ReadHash, LanguageOf
  <2>4. ASSUME NEW v \in DOMAIN versions
        PROVE  Older(v)' = Older(v) /\ Older(v) \subseteq DOMAIN versions
    <3>1. versions'[v].file = versions[v].file /\ v < n /\ v \in Nat /\ n \in Nat
      BY <2>2, <2>4, VersionsSeq DEF OneInv, TInv, IngestTypeOK
    <3>2. ~(n < v)
      BY <3>1
    <3> QED
      BY <2>2, <3>1, <3>2 DEF Older, VersionsOf
  <2>5. Older(n)' = VersionsOf(g)
    <3>1. \A w \in VersionsOf(g) : w < n
      BY <2>2 DEF VersionsOf
    <3>2. ~(n < n)
      BY <2>2
    <3> QED
      BY <2>2, <3>1, <3>2 DEF Older
  <2>6. Unchanged(n)' <=> SameStructure(i)
    <3>1. SameStructure(i) <=> /\ latestID[i] # 0
                               /\ AstHash(latestID[i]) = AstHash(n)'
      BY <2>3 DEF SameStructure
    <3>2. Unchanged(n)' <=>
            \E w \in VersionsOf(g) : (\A x \in VersionsOf(g) : x <= w) /\ AstHash(w) = AstHash(n)'
      BY <2>3, <2>5 DEF Unchanged, VersionsOf
    <3>3. LatestOf(g) = IF latestID[i] = 0 THEN {} ELSE {latestID[i]}
      BY <1>5, <2>1 DEF Bypass, Replace, OneInv, StillSo
    <3>4. VersionsOf(g) # {} =>
            \E w \in VersionsOf(g) : LatestOf(g) = {w} /\ \A x \in VersionsOf(g) : x <= w
      BY <2>2 DEF OneInv, OneLatest
    <3>5. CASE VersionsOf(g) = {}
      BY <3>1, <3>2, <3>3, <3>5 DEF LatestOf
    <3>6. CASE VersionsOf(g) # {}
      <4>1. PICK w \in VersionsOf(g) : LatestOf(g) = {w} /\ \A x \in VersionsOf(g) : x <= w
        BY <3>4, <3>6
      <4>2. latestID[i] = w /\ w # 0
        BY <3>3, <4>1
      <4>3. \A u \in VersionsOf(g) : (\A x \in VersionsOf(g) : x <= u) => u = w
        <5>1. VersionsOf(g) \subseteq Int
          BY VersionsSeq DEF VersionsOf, OneInv, TInv, IngestTypeOK
        <5> QED
          BY <4>1, <5>1
      <4> QED
        BY <3>1, <3>2, <4>1, <4>2, <4>3
    <3> QED
      BY <3>5, <3>6
  <2>7. ASSUME NEW v \in DOMAIN versions PROVE Unchanged(v)' <=> Unchanged(v)
    BY <2>3, <2>4, <2>7 DEF Unchanged
  <2>8. TargetedAt(n) = {} /\ lastId \in Nat
    BY <2>2, MaxIdAssumption DEF TargetedAt, TargetsExist, OneInv, TInv, IngestTypeOK, QueueTypeOK
  <2>9. CASE Bypass(i)
    <3>1. UNCHANGED queueVars /\ SameStructure(i)
      BY <2>9 DEF Bypass
    <3>2. TargetsExist' /\ \A v : TargetedAt(v)' = TargetedAt(v)
      BY <2>2, <3>1 DEF TargetsExist, TargetedAt, queueVars
    <3>3. JobsOf(n)'
      BY <2>6, <2>8, <3>1, <3>2 DEF JobsOf
    <3>4. ASSUME NEW v \in DOMAIN versions PROVE JobsOf(v)'
      BY <2>7, <3>2, <3>4 DEF JobsOf
    <3> QED
      BY <1>0, <2>2, <3>2, <3>3, <3>4
  <2>10. CASE Replace(i)
    <3>1. /\ lastId' = lastId + 1
          /\ \A j \in 1 .. lastId : work'[j] = work[j]
          /\ work'[lastId + 1].target = n
      <4>1. QueueTypeOK
        BY DEF OneInv, TInv, IngestTypeOK
      <4>2. TargetedAt(latestID[i]) \subseteq JobId
        BY <4>1, MaxIdAssumption DEF TargetedAt, QueueTypeOK
      <4>3. PICK old \in SUBSET JobId : ResetAndEnqueue(old, <<OverviewJob(n)>>)
        BY <2>1, <2>10, <4>2 DEF Replace
      <4> QED
        BY <2>2, <4>1, <4>3, OneJobMore
    <3>2. 1 .. lastId' = (1 .. lastId) \cup {lastId + 1}
      BY <2>8, <3>1
    <3>3. TargetsExist'
      BY <2>2, <3>1, <3>2 DEF TargetsExist
    <3>4. TargetedAt(n)' = {lastId + 1}
      BY <2>8, <3>1, <3>2 DEF TargetedAt
    <3>5. ASSUME NEW v \in DOMAIN versions PROVE TargetedAt(v)' = TargetedAt(v)
      BY <2>2, <3>1, <3>2, <3>5 DEF TargetedAt
    <3>6. ~SameStructure(i)
      BY <2>10 DEF Replace
    <3>7. JobsOf(n)'
      BY <2>6, <3>4, <3>6 DEF JobsOf
    <3>8. ASSUME NEW v \in DOMAIN versions PROVE JobsOf(v)'
      BY <2>7, <3>5, <3>8 DEF JobsOf
    <3> QED
      BY <1>0, <2>2, <3>3, <3>7, <3>8
  <2> QED
    BY <1>5, <2>9, <2>10
<1> QED
  BY <1>2, <1>3, <1>4, <1>5 DEF IngestNext, IngestStep

LEMMA JobInit == IngestInit => JobInv
<1> SUFFICES ASSUME IngestInit PROVE JobInv
  OBVIOUS
<1>1. lastId = 0 /\ DOMAIN versions = {}
  BY DEF IngestInit, QueueInit, StoreInit
<1> QED
  BY <1>1, OneInit DEF JobInv, TargetsExist

\* With one ingest process and files of any content, a version has an overview job,
\* and one, exactly when its hash is not that of the version before (ProcessFile's
\* two branches, over aborts and files that change back).
THEOREM JobPerHashHolds ==
  ASSUME AtMostOne
  PROVE  IngestSpec => []JobPerHash
<1>1. IngestInit => JobInv
  BY JobInit
<1>2. JobInv /\ [IngestNext]_ingestVars => JobInv'
  BY JobStep
<1> QED
  BY <1>1, <1>2, JobInvImplies, PTL DEF IngestSpec

\* With one ingest process and a hash that tells code apart, a version has an
\* overview job, and one, exactly when its code is not that of the one before.
THEOREM JobPerChangeHolds ==
  ASSUME HashTellsCode, AtMostOne
  PROVE  IngestSpec => []JobPerChange
<1>1. IngestInit => JobInv
  BY JobInit
<1>2. JobInv /\ [IngestNext]_ingestVars => JobInv'
  BY JobStep
<1>3. JobInv => JobPerChange
  BY JobInvImplies, HashesAsCode
<1> QED
  BY <1>1, <1>2, <1>3, PTL DEF IngestSpec

-----------------------------------------------------------------------------
(* Ingestion implements Catalog.                                              *)

CatalogCurrent == [p \in Path |-> CurrentOf(p)]
CatalogAsked == [j \in 1 .. lastId |-> Request(work[j].target)]

\* The latest versions of a path, whatever row they belong to.
LatestAt(p) == {w \in DOMAIN versions : versions[w].latest /\ files[versions[w].file] = p}

LEMMA CatalogStarts == IngestInit => Catalog!Init
<1> SUFFICES ASSUME IngestInit PROVE Catalog!Init
  OBVIOUS
<1>1. lastId = 0 /\ DOMAIN versions = {}
  BY DEF IngestInit, QueueInit, StoreInit
<1>2. CatalogCurrent = [p \in Path |-> {}]
  BY <1>1 DEF CatalogCurrent, CurrentOf
<1>3. CatalogAsked = <<>>
  <2>1. 1 .. lastId = {}
    BY <1>1
  <2> QED
    BY <2>1 DEF CatalogAsked
<1> QED
  BY <1>2, <1>3 DEF Catalog!Init, CatalogCurrent, CatalogAsked

\* What is read of a version that was there stays the same.
SameToReaders ==
  \A v \in DOMAIN versions : CodeOf(v)' = CodeOf(v) /\ Request(v)' = Request(v)

LEMMA KeptToReaders ==
  ASSUME NEW v, versions'[v].file = versions[v].file, versions'[v].content = versions[v].content,
         files'[versions[v].file] = files[versions[v].file]
  PROVE  CodeOf(v)' = CodeOf(v) /\ Request(v)' = Request(v)
<1>1. CodeOf(v)' = CodeOf(v)
  BY DEF CodeOf, LanguageOf
<1> QED
  BY <1>1 DEF Request

\* Steps that write no version and no job do not show.
LEMMA ReadersSeeNothing ==
  ASSUME TargetsExist, UNCHANGED <<lastId, work, versions>>,
         \A v \in DOMAIN versions : files'[versions[v].file] = files[versions[v].file]
  PROVE  UNCHANGED <<CatalogCurrent, CatalogAsked>>
<1>1. SameToReaders
  BY KeptToReaders DEF SameToReaders
<1>2. \A p : LatestAt(p)' = LatestAt(p) /\ LatestAt(p) \subseteq DOMAIN versions
  BY DEF LatestAt
<1>3. \A p : CurrentOf(p)' = CurrentOf(p)
  BY <1>1, <1>2 DEF SameToReaders, CurrentOf, LatestAt
<1>4. CatalogAsked' = CatalogAsked
  BY <1>1 DEF CatalogAsked, TargetsExist, SameToReaders
<1> QED
  BY <1>3, <1>4 DEF CatalogCurrent

\* A commit changes the code of its own path only, to the one that was read.
LEMMA CommitShows ==
  ASSUME OneInv, TargetsExist, NEW i \in Ingesters, Bypass(i) \/ Replace(i),
         NEW n, n = Len(versions) + 1, NEW code, code = CodeIn[LanguageFromPath(path[i])][content[i]]
  PROVE  /\ path[i] \in Path /\ code \in Codes
         /\ n \notin DOMAIN versions /\ n \in VersionId
         /\ SameToReaders
         /\ Request(n)' = <<path[i], code>>
         /\ CurrentOf(path[i]) = IF latestID[i] = 0 THEN {} ELSE {CodeOf(latestID[i])}
         /\ CatalogCurrent' = [CatalogCurrent EXCEPT ![path[i]] = {code}]
<1> USE DEF OneInv, TInv
<1>1. PICK g, q : g = fileRow[i] /\ q = path[i]
  OBVIOUS
<1>2. NewVersion(i, g, n)
  BY <1>1, VersionAdded
<1>3. /\ step[i] = "commit" /\ path[i] \in Path /\ content[i] \in Content
      /\ LanguageFromPath(path[i]) \in Languages
      /\ \A v \in DOMAIN versions : versions[v].file \in DOMAIN files
      /\ \A v \in DOMAIN versions' : versions'[v].file \in DOMAIN files
  <2>1. step[i] = "commit"
    BY DEF Bypass, Replace
  <2>2. LanguageFromPath(path[i]) \in Languages
    BY PathLanguages
  <2>3. \A v \in DOMAIN versions : versions[v].file \in DOMAIN files
    BY DEF IngestTypeOK, StoreTypeOK
  <2> QED
    BY <1>2, <2>1, <2>2, <2>3 DEF IngestTypeOK, NewVersion
<1>4. code \in Codes
  BY <1>3 DEF Codes
<1>5. SameToReaders
  BY <1>2, KeptToReaders DEF NewVersion, SameToReaders
<1>6. CodeOf(n)' = code /\ Request(n)' = <<path[i], code>>
  <2>1. CodeOf(n)' = code
    BY <1>2 DEF NewVersion, CodeOf, LanguageOf
  <2> QED
    BY <1>2, <2>1 DEF NewVersion, Request
<1>7. LatestAt(q) = LatestOf(g) /\ LatestAt(q)' = {n}
  <2>1. \A f \in DOMAIN files : files[f] = q <=> f = g
    BY <1>1, <1>2 DEF NewVersion, OneRowPerPath
  <2>2. \A v \in DOMAIN versions : files[versions[v].file] = q <=> versions[v].file = g
    BY <1>3, <2>1
  <2>3. \A v \in DOMAIN versions' : files'[versions'[v].file] = q <=> versions'[v].file = g
    BY <1>2, <1>3, <2>1 DEF NewVersion
  <2>4. LatestAt(q) = LatestOf(g)
    BY <2>2 DEF LatestAt, LatestOf, VersionsOf
  <2>5. LatestAt(q)' = LatestOf(g)'
    BY <2>3 DEF LatestAt, LatestOf, VersionsOf
  <2> QED
    BY <1>2, <2>4, <2>5 DEF NewVersion
<1>8. ASSUME NEW p, p # q PROVE LatestAt(p)' = LatestAt(p)
  <2>1. ASSUME NEW w \in DOMAIN versions' PROVE w \in LatestAt(p)' <=> w \in LatestAt(p)
    <3>1. CASE w = n
      BY <1>1, <1>2, <1>8, <3>1 DEF NewVersion, LatestAt
    <3>2. CASE w # n /\ versions[w].file = g
      BY <1>1, <1>2, <1>8, <2>1, <3>2 DEF NewVersion, LatestAt
    <3>3. CASE w # n /\ versions[w].file # g
      <4>1. w \in DOMAIN versions /\ versions'[w].file = versions[w].file /\ files' = files
        BY <1>2, <2>1, <3>3 DEF NewVersion
      <4>2. LatestOf(versions[w].file)' = LatestOf(versions[w].file)
        BY <1>2, <3>3 DEF NewVersion
      <4>3. versions'[w].latest <=> versions[w].latest
        BY <2>1, <4>1, <4>2 DEF LatestOf, VersionsOf
      <4> QED
        BY <2>1, <4>1, <4>3 DEF LatestAt
    <3> QED
      BY <3>1, <3>2, <3>3
  <2>2. LatestAt(p) \subseteq DOMAIN versions' /\ LatestAt(p)' \subseteq DOMAIN versions'
    BY <1>2 DEF NewVersion, LatestAt
  <2> QED
    BY <2>1, <2>2
<1>9. CurrentOf(q) = IF latestID[i] = 0 THEN {} ELSE {CodeOf(latestID[i])}
  <2>1. LatestOf(g) = IF latestID[i] = 0 THEN {} ELSE {latestID[i]}
    BY <1>1, <1>3 DEF StillSo
  <2>2. CurrentOf(q) = {CodeOf(v) : v \in LatestAt(q)}
    BY DEF CurrentOf, LatestAt
  <2> QED
    BY <1>7, <2>1, <2>2
<1>10. CurrentOf(q)' = {code}
  <2>1. CurrentOf(q)' = {CodeOf(v)' : v \in LatestAt(q)'}
    BY <1>2 DEF NewVersion, CurrentOf, LatestAt
  <2>2. CurrentOf(q)' = {CodeOf(v)' : v \in {n}}
    BY <1>7, <2>1
  <2> QED
    BY <1>6, <2>2
<1>11. ASSUME NEW p, p # q PROVE CurrentOf(p)' = CurrentOf(p)
  <2>1. LatestAt(p)' = LatestAt(p) /\ \A v \in LatestAt(p) : CodeOf(v)' = CodeOf(v)
    BY <1>5, <1>8, <1>11 DEF SameToReaders, LatestAt
  <2> QED
    BY <2>1 DEF CurrentOf, LatestAt
<1>12. CatalogCurrent' = [CatalogCurrent EXCEPT ![path[i]] = {code}]
  BY <1>1, <1>3, <1>10, <1>11 DEF CatalogCurrent
<1> QED
  BY <1>1, <1>2, <1>3, <1>4, <1>5, <1>6, <1>9, <1>12 DEF NewVersion

\* Bypass does not show, Replace is a change with its request.
LEMMA BypassShowsNothing ==
  ASSUME HashTellsCode, OneInv, TargetsExist, NEW i \in Ingesters, Bypass(i)
  PROVE  UNCHANGED <<CatalogCurrent, CatalogAsked>>
<1>1. PICK n, code : n = Len(versions) + 1 /\ code = CodeIn[LanguageFromPath(path[i])][content[i]]
  OBVIOUS
<1>2. /\ path[i] \in Path /\ SameToReaders
      /\ CurrentOf(path[i]) = IF latestID[i] = 0 THEN {} ELSE {CodeOf(latestID[i])}
      /\ CatalogCurrent' = [CatalogCurrent EXCEPT ![path[i]] = {code}]
  BY <1>1, CommitShows
<1>3. latestID[i] # 0 /\ CodeOf(latestID[i]) = code
  BY <1>1, SameMeansUnchanged DEF Bypass
<1>4. CatalogCurrent[path[i]] = {code}
  BY <1>2, <1>3 DEF CatalogCurrent
<1>5. CatalogCurrent' = CatalogCurrent
  <2>1. CatalogCurrent = [p \in Path |-> CatalogCurrent[p]]
    BY DEF CatalogCurrent
  <2> QED
    BY <1>2, <1>4, <2>1
<1>6. CatalogAsked' = CatalogAsked
  BY <1>2 DEF Bypass, queueVars, CatalogAsked, TargetsExist, SameToReaders
<1> QED
  BY <1>5, <1>6

LEMMA ReplaceIsChange ==
  ASSUME HashTellsCode, OneInv, TargetsExist, NEW i \in Ingesters, Replace(i)
  PROVE  \E p \in Path : Catalog!Change(p)
<1>1. PICK n, code : n = Len(versions) + 1 /\ code = CodeIn[LanguageFromPath(path[i])][content[i]]
  OBVIOUS
<1>2. /\ path[i] \in Path /\ code \in Codes
      /\ n \in VersionId
      /\ SameToReaders
      /\ Request(n)' = <<path[i], code>>
      /\ CurrentOf(path[i]) = IF latestID[i] = 0 THEN {} ELSE {CodeOf(latestID[i])}
      /\ CatalogCurrent' = [CatalogCurrent EXCEPT ![path[i]] = {code}]
  BY <1>1, CommitShows
<1>3. CatalogCurrent'[path[i]] # CatalogCurrent[path[i]]
  <2>1. ~(latestID[i] # 0 /\ CodeOf(latestID[i]) = code)
    BY <1>1, SameMeansUnchanged DEF Replace
  <2>2. CatalogCurrent[path[i]] # {code}
    BY <1>2, <2>1 DEF CatalogCurrent
  <2> QED
    BY <1>2, <2>2 DEF CatalogCurrent
<1>4. /\ lastId \in Nat /\ lastId' = lastId + 1
      /\ \A j \in 1 .. lastId : work'[j] = work[j]
      /\ work'[lastId + 1].target = n
  <2>1. QueueTypeOK
    BY DEF OneInv, TInv, IngestTypeOK
  <2>2. TargetedAt(latestID[i]) \subseteq JobId
    BY <2>1, MaxIdAssumption DEF TargetedAt, QueueTypeOK
  <2>3. PICK old \in SUBSET JobId : ResetAndEnqueue(old, <<OverviewJob(n)>>)
    BY <1>1, <2>2 DEF Replace
  <2>4. /\ lastId' = lastId + 1
        /\ \A j \in 1 .. lastId : work'[j] = work[j]
        /\ work'[lastId + 1].target = n
    BY <1>2, <2>1, <2>3, OneJobMore
  <2> QED
    BY <2>1, <2>4, MaxIdAssumption DEF QueueTypeOK
<1>5. CatalogAsked' = Append(CatalogAsked, <<path[i], code>>)
  <2> DEFINE last == <<path[i], code>>
             S == {Request(work[j].target) : j \in 1 .. lastId} \cup {last}
             longer == Append(CatalogAsked, last)
  <2>1. CatalogAsked \in [1 .. lastId -> S]
    BY DEF CatalogAsked
  <2>2. CatalogAsked \in Seq(S) /\ Len(CatalogAsked) = lastId /\ last \in S
    BY <1>4, <2>1
  <2>3. Request(n)' = last
    BY <1>2
  <2> HIDE DEF S, last
  <2>4. /\ longer \in Seq(S) /\ Len(longer) = lastId + 1
        /\ \A j \in 1 .. lastId : longer[j] = CatalogAsked[j]
        /\ longer[lastId + 1] = last
    BY <1>4, <2>2
  <2> HIDE DEF longer
  <2>5. ASSUME NEW j \in 1 .. lastId + 1 PROVE CatalogAsked'[j] = longer[j]
    <3>1. PICK v : v = work'[j].target
      OBVIOUS
    <3>2. CatalogAsked'[j] = Request(v)'
      BY <1>4, <2>5, <3>1 DEF CatalogAsked, Request, CodeOf, LanguageOf
    <3>3. CASE j \in 1 .. lastId
      <4>1. v = work[j].target /\ v \in DOMAIN versions
        BY <1>4, <3>1, <3>3 DEF TargetsExist
      <4>2. Request(v)' = Request(v)
        BY <1>2, <4>1 DEF SameToReaders
      <4>3. longer[j] = Request(v)
        BY <2>4, <3>3, <4>1 DEF CatalogAsked
      <4> QED
        BY <3>2, <4>2, <4>3
    <3>4. CASE j = lastId + 1
      BY <1>4, <2>3, <2>4, <3>1, <3>2, <3>4
    <3> QED
      BY <1>4, <2>5, <3>3, <3>4
  <2>6. /\ longer = [j \in 1 .. lastId + 1 |-> longer[j]]
        /\ CatalogAsked' = [j \in 1 .. lastId + 1 |-> CatalogAsked'[j]]
    BY <1>4, <2>4 DEF CatalogAsked
  <2>7. CatalogAsked' = longer
    BY <2>5, <2>6
  <2> QED
    BY <2>7 DEF longer, last
<1>6. Catalog!Change(path[i])
  BY <1>2, <1>3, <1>5 DEF Catalog!Change, CatalogCurrent, CatalogAsked
<1> QED
  BY <1>2, <1>6

LEMMA CatalogStep ==
  ASSUME HashTellsCode, AtMostOne, JobInv, [IngestNext]_ingestVars
  PROVE  [Catalog!Next]_(Catalog!catalogVars)
<1> USE DEF JobInv
<1>s. ASSUME UNCHANGED <<CatalogCurrent, CatalogAsked>>
      PROVE  UNCHANGED Catalog!catalogVars
  BY <1>s DEF Catalog!catalogVars, CatalogCurrent, CatalogAsked
<1>1. CASE UNCHANGED ingestVars \/ Edit
  BY <1>1, <1>s, ReadersSeeNothing DEF ingestVars, Edit, queueVars, storeVars
<1>2. ASSUME NEW i \in Ingesters, Read(i) \/ GetFile(i) \/ ReadLatest(i) \/ Abort(i)
      PROVE  UNCHANGED Catalog!catalogVars
  BY <1>2, <1>s, ReadersSeeNothing DEF Read, GetFile, ReadLatest, Abort, queueVars, storeVars
<1>3. ASSUME NEW i \in Ingesters, GetOrInsert(i)
      PROVE  UNCHANGED Catalog!catalogVars
  <2>1. StoreTypeOK /\ path[i] \in Path /\ CreateFile(path[i])
    BY <1>3 DEF GetOrInsert, OneInv, TInv, IngestTypeOK
  <2>2. \A f \in DOMAIN files : files'[f] = files[f]
    BY <2>1, CreateKeeps
  <2>3. \A v \in DOMAIN versions : versions[v].file \in DOMAIN files
    BY <2>1 DEF StoreTypeOK
  <2> QED
    BY <1>s, <1>3, <2>2, <2>3, ReadersSeeNothing DEF GetOrInsert, queueVars
<1>4. ASSUME NEW i \in Ingesters, Bypass(i)
      PROVE  UNCHANGED Catalog!catalogVars
  BY <1>s, <1>4, BypassShowsNothing
<1>5. ASSUME NEW i \in Ingesters, Replace(i)
      PROVE  Catalog!Next
  BY <1>5, ReplaceIsChange DEF Catalog!Next
<1> QED
  BY <1>1, <1>2, <1>3, <1>4, <1>5 DEF IngestNext, IngestStep

\* With one ingest process and a hash that tells code apart, ingestion is the
\* catalog: a step that shows is one path's change of code and one request to
\* describe it, whatever is edited, aborted or read in between (ProcessFile).
THEOREM IngestIsCatalog ==
  ASSUME HashTellsCode, AtMostOne
  PROVE  IngestSpec => ImplementsCatalog
<1>1. IngestInit => JobInv
  BY JobInit
<1>2. JobInv /\ [IngestNext]_ingestVars => JobInv'
  BY JobStep
<1>3. JobInv /\ [IngestNext]_ingestVars => [Catalog!Next]_(Catalog!catalogVars)
  BY CatalogStep
<1> QED
  BY <1>1, <1>2, <1>3, CatalogStarts, PTL DEF IngestSpec, ImplementsCatalog, Catalog!Spec
=============================================================================
