----------------------------- MODULE MCPipeline -----------------------------
(* Constants for the runs over Pipeline.  MaxId is MaxVersion overview jobs   *)
(* and one entity job: where every answer has features, an entity job follows *)
(* the creation of their names, and a name is created once, so MaxId never    *)
(* stops a worker; with OneOrNone it can, in a run about safety only.         *)
EXTENDS Pipeline, TLC

CONSTANTS p1, i1, stmt1, stmt2, f1, f2, w1, w2

MCExt == [p \in Path |-> ".go"]
MCContent == {<<stmt1>>, <<stmt2>>}

MCWork == [stage : {"level_1_overview", "level_2_entity"}, target : VersionId]

OneOrNone == {<<>>, <<f1>>}
Both == {<<f1, f2>>}

WorkerSymmetry == Permutations(Workers)
=============================================================================
