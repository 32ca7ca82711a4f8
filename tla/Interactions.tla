---------------------------- MODULE Interactions ----------------------------
(* GraphStore.DiscoverMacroPipelines (internal/store/graph_store.go): the     *)
(* recursive query over feature_interactions.  An interaction is a pair       *)
(* <<from, to>> of feature ids; nothing keeps it inside one project.          *)
EXTENDS Integers, FiniteSets

\* WHERE fp.depth < 7, with the project's features at depth 1.
MaxDepth == 7

Froms(interactions) == {i[1] : i \in interactions}
Targets(interactions, ids) == {i[2] : i \in {j \in interactions : j[1] \in ids}}

\* Variant: the project is looked up by the interaction's other end.
SeededByTarget(interactions, project) ==
  {i[1] : i \in {j \in interactions : j[2] \in project}}

\* The features of the project that an interaction starts from.
Seeds(interactions, project) == Froms(interactions) \cap project

\* The ids of the query's rows at each depth.  UNION ALL keeps a row for every
\* path, so that only the depth ends the recursion on a cycle; DISTINCT drops
\* the repetitions at the end.
Rows(interactions, project) ==
  LET rows[d \in 1 .. MaxDepth] == IF d = 1 THEN Seeds(interactions, project)
                                         ELSE Targets(interactions, rows[d - 1])
  IN  rows

DiscoverMacroPipelines(interactions, project) ==
  LET rows == Rows(interactions, project)
  IN  UNION {rows[d] : d \in 1 .. MaxDepth}

-----------------------------------------------------------------------------
\* A set of ids that the interactions do not lead out of.
Closed(interactions, ids) == Targets(interactions, ids) \subseteq ids

\* The depth hides nothing of the project: both ends of every interaction that
\* starts in it are found, however far from the others.  And nothing is found
\* that the interactions do not lead to: it is in every closed set of ids that
\* the project's own are in.
HidesNothingOf(interactions, project) ==
  LET found == DiscoverMacroPipelines(interactions, project)
      ids == Froms(interactions) \cup {i[2] : i \in interactions}
  IN  /\ \A i \in interactions : i[1] \in project => {i[1], i[2]} \subseteq found
      /\ \A S \in SUBSET ids :
           Seeds(interactions, project) \subseteq S /\ Closed(interactions, S) => found \subseteq S
=============================================================================
