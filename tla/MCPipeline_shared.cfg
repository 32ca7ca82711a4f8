SPECIFICATION Spec
CONSTANTS
  p1 = p1
  i1 = i1
  stmt1 = stmt1
  stmt2 = stmt2
  f1 = f1
  f2 = f2
  w1 = w1
  w2 = w2
  Path = {p1}
  Content <- MCContent
  Ext <- MCExt
  Feature = {f1}
  MaxFile = 1
  MaxVersion = 2
  MaxId = 3
  Work <- MCWork
  Ingesters = {i1}
  MayAbort = FALSE
  Workers = {w1, w2}
  BatchLimit = 2
  Answers <- OneOrNone
  MayFail = FALSE
  MayCrash = TRUE
SYMMETRY WorkerSymmetry
INVARIANTS
  TypeOK
  SharedOnlyAfterReset
