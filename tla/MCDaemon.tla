------------------------------ MODULE MCDaemon ------------------------------
(* Constants for the runs over Daemon.                                        *)
EXTENDS Daemon, TLC

CONSTANTS d1, d2

MCWork == {"PARSE", "level_1_overview", "ANALYZE_STYLE"}

\* A job the wired dispatcher knows, and the job prowiki ingest inserts.
BothKinds == {[work |-> "PARSE", priority |-> 1],
              [work |-> "level_1_overview", priority |-> 1]}
OnlyParse == {[work |-> "PARSE", priority |-> 1]}
OnlyIngested == {[work |-> "level_1_overview", priority |-> 1]}

DaemonSymmetry == Permutations(Daemons)
=============================================================================
