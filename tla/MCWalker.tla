------------------------------ MODULE MCWalker ------------------------------
(* Constants for the run over Walker and Commands: a file, a directory with   *)
(* two entries (one of them a directory with a file), and a file behind it;   *)
(* and a flat directory whose walk ends in a directory.  The three commands   *)
(* run side by side over the second tree with its first directory refused;    *)
(* over every other choice the ingest command runs alone.                     *)
EXTENDS Commands

MCTrees ==
  {[dirs |-> {2, 3}, last |-> <<1, 4, 4, 4, 5>>],
   [dirs |-> {1, 2, 5}, last |-> <<4, 2, 3, 4, 5>>]}

MCUnwanted == {u \in SUBSET Entry : Cardinality(u) <= 2}

Together == refused = {1} /\ 1 \in tree.dirs /\ broken = {}

MCNext ==
  /\ CommandsNext
  /\ Together \/ \A c \in {"daemon", "server"} : phase'[c] = "off"

MCSpec == CommandsInit /\ [][MCNext]_allVars /\ CommandsFairness
=============================================================================
