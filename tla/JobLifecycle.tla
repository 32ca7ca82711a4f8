---------------------------- MODULE JobLifecycle ----------------------------
(* What the queue and its daemons promise about a job, whatever happens to    *)
(* the processes: it is handed to one processing at a time; a processing ends *)
(* by finishing the job (its follow-up jobs appear in the same step), by      *)
(* giving it back one retry older, or, after the last retry, by burying it;   *)
(* a finished or buried job is never touched again.                           *)
EXTENDS Naturals

CONSTANTS Job,       \* the jobs there can be
          MaxTries   \* how often a job is given back before it is buried

VARIABLES life,      \* new, waiting, running, finished or buried
          tries      \* how often the job has been given back

Lives == {"new", "waiting", "running", "finished", "buried"}

lifeVars == <<life, tries>>

Init ==
  /\ life = [j \in Job |-> "new"]
  /\ tries = [j \in Job |-> 0]

Become(S, l) == [j \in Job |-> IF j \in S THEN l ELSE life[j]]

AllAre(S, l) == \A j \in S : life[j] = l

Submit(S) ==
  /\ AllAre(S, "new")
  /\ life' = Become(S, "waiting")
  /\ UNCHANGED tries

Start(S) ==
  /\ AllAre(S, "waiting")
  /\ life' = Become(S, "running")
  /\ UNCHANGED tries

Finish(j, S) ==
  /\ life[j] = "running"
  /\ AllAre(S, "new")
  /\ life' = [Become(S, "waiting") EXCEPT ![j] = "finished"]
  /\ UNCHANGED tries

GiveBack(j) ==
  /\ life[j] = "running"
  /\ tries[j] < MaxTries
  /\ life' = Become({j}, "waiting")
  /\ tries' = [tries EXCEPT ![j] = @ + 1]

Bury(j) ==
  /\ life[j] = "running"
  /\ tries[j] = MaxTries
  /\ life' = Become({j}, "buried")
  /\ UNCHANGED tries

Next ==
  \/ \E S \in SUBSET Job : Submit(S) \/ Start(S)
  \/ \E j \in Job : GiveBack(j) \/ Bury(j) \/ \E S \in SUBSET Job : Finish(j, S)

Spec == Init /\ [][Next]_lifeVars
=============================================================================
