------------------------------- MODULE Catalog -------------------------------
(* What ingestion promises to those who read its tables: each path has the    *)
(* code of its newest version, and whenever that changes, and only then, the  *)
(* model is asked once more to describe it, in the same step.  Aborted runs,  *)
(* and edits of comments and empty lines, are not seen.  What was asked for   *)
(* stays as it was.                                                           *)
EXTENDS Sequences

CONSTANTS Place,   \* the paths
          Text     \* the code a file can have

VARIABLES current,   \* the code of each path; empty if it has no version yet
          asked      \* what the model was asked to describe, in that order

catalogVars == <<current, asked>>

Init ==
  /\ current = [p \in Place |-> {}]
  /\ asked = <<>>

Change(p) ==
  /\ current'[p] # current[p]
  /\ \E c \in Text : /\ current' = [current EXCEPT ![p] = {c}]
                     /\ asked' = Append(asked, <<p, c>>)

Next == \E p \in Place : Change(p)

Spec == Init /\ [][Next]_catalogVars
=============================================================================
