------------------------------ MODULE MCIngest ------------------------------
(* Constants for the runs over Ingest: a Go file, and a file of a language    *)
(* the parser has no rules for.                                               *)
EXTENDS Ingest, TLC

CONSTANTS p1, p2, i1, i2, stmt1, stmt2

MCWork == [stage : {"level_1_overview"}, target : VersionId]

MCExt == [p \in Path |-> IF p = p1 THEN ".go" ELSE ".md"]

\* Two pieces of code; the first again with a comment, an empty line and a
\* block comment over two lines.
Short == {<<stmt1>>, <<stmt2>>}
Commented ==
  Short \cup {<<"tab", "//", stmt2, "nl", "nl",
              "/*", stmt2, "nl", "//", "*/", stmt1>>}

\* The contents' comments are plain in the languages of the paths, and so the hash
\* tells their code apart, which is what the theorems on changed code assume
\* (PlainTellsCode, IngestProofs).
ASSUME ContentsPlain ==
  \A p \in Path, c \in Content : Plain(LanguageFromPath(p), c)
=============================================================================
