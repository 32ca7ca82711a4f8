------------------------------- MODULE History -------------------------------
(* The trimming of a conversation to a budget of tokens (internal/llm/        *)
(* history.go), counted by internal/tokenizer's HeuristicCounter.  A message  *)
(* is its role and the bytes of its content.                                  *)
EXTENDS Naturals, Sequences, SequencesExt, Selection

Roles == {"system", "user"}

CountMessages(msgs) == 3 + FoldLeft(LAMBDA n, m : n + m.bytes \div 4 + 4, 0, msgs)

\* Variant: the newest message goes first.
Newest(msgs) == {i \in DOMAIN msgs : msgs[i].role # "system" /\
                   \A j \in DOMAIN msgs : msgs[j].role # "system" => j <= i}

\* The message to be removed, if there is one left that is not the system's.
Oldest(msgs) == {i \in DOMAIN msgs : msgs[i].role # "system" /\
                   \A j \in DOMAIN msgs : msgs[j].role # "system" => j >= i}

\* One round of the loop; a round that breaks changes nothing.
Round(msgs, maxTokens) ==
  IF CountMessages(msgs) <= maxTokens \/ Oldest(msgs) = {} THEN msgs
  ELSE RemoveAt(msgs, CHOOSE i \in Oldest(msgs) : TRUE)

\* Every round but the last removes a message.
TrimToBudget(msgs, maxTokens) ==
  LET after[n \in 0 .. Len(msgs)] ==
        IF n = 0 THEN msgs ELSE Round(after[n - 1], maxTokens)
  IN  after[Len(msgs)]

-----------------------------------------------------------------------------
Trimmable(msgs) == {i \in DOMAIN msgs : msgs[i].role # "system"}

\* What is left when the n oldest messages that are not the system's are gone.
Without(msgs, n) ==
  Those(msgs, {i \in DOMAIN msgs : i \in Trimmable(msgs) =>
                                    Cardinality({j \in Trimmable(msgs) : j <= i}) > n})

\* TrimToBudget drops as few messages as the budget asks for, the oldest ones,
\* never the system's, and all of the others if even that is not enough.
DropsFewestOldest(msgs, maxTokens) ==
  LET all == Cardinality(Trimmable(msgs))
      enough == {n \in 0 .. all : CountMessages(Without(msgs, n)) <= maxTokens}
      fewest == CHOOSE n \in enough \cup {all} : \A k \in enough : n <= k
  IN  TrimToBudget(msgs, maxTokens) = Without(msgs, fewest)
=============================================================================
