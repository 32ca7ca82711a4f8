SPECIFICATION IngestSpec
CONSTANTS
  p1 = p1
  p2 = p2
  i1 = i1
  i2 = i2
  stmt1 = stmt1
  stmt2 = stmt2
  Path = {p1}
  Content <- Short
  Ext <- MCExt
  Feature = {}
  MaxFile = 2
  MaxVersion = 4
  MaxId = 4
  Work <- MCWork
  Ingesters = {i1, i2}
  MayAbort = FALSE
INVARIANT
  SetLatestSwaps
