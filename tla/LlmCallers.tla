----------------------------- MODULE LlmCallers -----------------------------
(* The four callers of a completion.  Two react to a context overflow:        *)
(* ProcessOverview (internal/app/extract/service.go) cuts the prompt and asks *)
(* once more, DiscoverBoundary (internal/llm/discovery.go) searches for the   *)
(* window.  Two store what the answer lists: Synthesize (internal/app/graph)  *)
(* and Evaluate (internal/app/style).  Each gets one call of its own.         *)
EXTENDS LlmClient

CONSTANTS PromptSizes,   \* what a rendered prompt can measure, in four-byte tokens
          MaxItems       \* how many items an answer can list

ASSUME LlmCallersAssumption == PromptSizes \subseteq Nat /\ MaxItems \in Nat

VARIABLES
  caller,      \* who runs
  asks,        \* how many times it called Complete
  asking,      \* it waits for Complete
  current,     \* DiscoverBoundary's currentT
  gap,         \* its step
  converged,   \* its convergedThreshold
  items,       \* the items of the parsed answer still to be inserted
  listed,      \* history: how many it listed
  rows,        \* the rows inserted: interactions, or anomalies
  outcome      \* what the caller returned: "none" while it runs

searchVars == <<current, gap, converged>>
itemVars == <<items, listed, rows>>
callerVars == <<caller, asks, asking, searchVars, itemVars, outcome>>
vars == <<clientVars, callerVars>>

TInit == 1000000
StepInit == 250000
Epsilon == 5000
BudgetLimit == 4096 \div 2   \* tokens; the cut is made at four bytes a token

Storing == {"synthesizer", "evaluator"}
Callers == {"overview", "discovery"} \cup Storing

TypeOK ==
  /\ ClientTypeOK
  /\ caller \in Callers
  /\ asks \in Nat
  /\ asking \in BOOLEAN
  /\ current \in Nat /\ gap \in 1 .. StepInit /\ converged \in Nat
  /\ items \in 0 .. MaxItems /\ listed \in 0 .. MaxItems /\ rows \in 0 .. MaxItems
  /\ outcome \in {"none", "parsed", "stored", "failed", "threshold"}

Init ==
  /\ ClientInit
  /\ size \in PromptSizes
  /\ caller \in Callers
  /\ asks = 0 /\ asking = FALSE
  /\ current = TInit /\ gap = StepInit /\ converged = 0
  /\ items = 0 /\ listed = 0 /\ rows = 0
  /\ outcome = "none"

Ask(n) ==
  /\ at = "caller" /\ outcome = "none"
  /\ Begin(n)
  /\ asks' = asks + 1
  /\ asking' = TRUE
  /\ UNCHANGED <<caller, outcome>>

Answer(v) == at = "caller" /\ asking /\ verdict = v

Finish(o) ==
  /\ outcome' = o
  /\ asking' = FALSE
  /\ UNCHANGED <<clientVars, caller, asks>>

Client ==
  /\ ClientNext
  /\ UNCHANGED callerVars

\* No version, no active prompt, or a template that does not render.
PromptFails ==
  /\ caller # "discovery" /\ asks = 0 /\ outcome = "none"
  /\ Finish("failed")
  /\ UNCHANGED <<searchVars, itemVars>>

-----------------------------------------------------------------------------
(* ProcessOverview.                                                           *)

\* Variant: the bytes are compared with the tokens.
CutTokens(n) == IF n > BudgetLimit * 4 THEN BudgetLimit * 4 ELSE n

Cut(n) == IF n > BudgetLimit THEN BudgetLimit ELSE n

FirstAsk ==
  /\ caller = "overview" /\ asks = 0
  /\ Ask(size)
  /\ UNCHANGED <<searchVars, itemVars>>

\* Variant: the overflow branch as a loop.
AskAgainAlways ==
  /\ caller = "overview" /\ asks \in 1 .. 5
  /\ Answer("overflow")
  /\ Ask(Cut(size))
  /\ UNCHANGED <<searchVars, itemVars>>

AskAgain ==
  /\ caller = "overview" /\ asks = 1
  /\ Answer("overflow")
  /\ Ask(Cut(size))
  /\ UNCHANGED <<searchVars, itemVars>>

OverviewReturns ==
  /\ caller = "overview" /\ outcome = "none"
  /\ \/ Answer("ok") /\ \E o \in {"parsed", "failed"} : Finish(o)   \* ParseStrict
     \/ \E v \in Verdicts \ {"ok"} :
          /\ Answer(v)
          /\ v = "overflow" => asks = 2
          /\ Finish("failed")
  /\ UNCHANGED <<searchVars, itemVars>>

-----------------------------------------------------------------------------
(* DiscoverBoundary.                                                          *)

Probe ==
  /\ caller = "discovery" /\ ~asking
  /\ gap > Epsilon
  /\ Ask(current)
  /\ UNCHANGED <<searchVars, itemVars>>

\* Variant: the threshold is recorded after the step forward.
RecordNext == current + gap
Record == current

Adjust ==
  /\ caller = "discovery" /\ outcome = "none"
  /\ \/ /\ Answer("overflow")
        /\ current' = current - gap
        /\ UNCHANGED converged
     \/ /\ Answer("ok")
        /\ converged' = Record
        /\ current' = current + gap
  /\ gap' = gap \div 2
  /\ asking' = FALSE
  /\ UNCHANGED <<clientVars, caller, asks, itemVars, outcome>>

DiscoveryReturns ==
  /\ caller = "discovery" /\ outcome = "none"
  /\ \/ ~asking /\ gap <= Epsilon /\ Finish(IF converged = 0 THEN "failed" ELSE "threshold")
     \/ \E v \in Verdicts \ {"ok", "overflow"} : Answer(v) /\ Finish("failed")
  /\ UNCHANGED <<searchVars, itemVars>>

\* int(float64(convergedThreshold) * 0.9)
TSafe == (converged * 9) \div 10

-----------------------------------------------------------------------------
(* Synthesize and Evaluate: one completion, and an INSERT for every item of   *)
(* the answer, each a transaction of its own, on the caller's context.        *)

AskOnce ==
  /\ asks = 0
  /\ Ask(size)
  /\ UNCHANGED <<searchVars, itemVars>>

SynthesizerAsks == caller = "synthesizer" /\ AskOnce
EvaluatorAsks == caller = "evaluator" /\ AskOnce

\* ParseStrict has read the answer.
Parsed ==
  /\ caller \in Storing /\ outcome = "none"
  /\ Answer("ok")
  /\ \E n \in 0 .. MaxItems : items' = n /\ listed' = n
  /\ asking' = FALSE
  /\ UNCHANGED <<clientVars, caller, asks, searchVars, rows, outcome>>

Loops == caller \in Storing /\ asks = 1 /\ ~asking /\ outcome = "none"

\* Variant: an item whose INSERT fails is skipped.
InsertOrSkip ==
  /\ Loops /\ items > 0
  /\ items' = items - 1
  /\ rows' \in {rows, rows + 1}
  /\ UNCHANGED <<clientVars, caller, asks, asking, searchVars, listed, outcome>>

Insert ==
  /\ Loops /\ items > 0 /\ ~cancelled
  /\ items' = items - 1
  /\ rows' = rows + 1
  /\ UNCHANGED <<clientVars, caller, asks, asking, searchVars, listed, outcome>>

StoringReturns ==
  /\ caller \in Storing /\ outcome = "none"
  /\ \/ Loops /\ items = 0 /\ Finish("stored")
     \/ Loops /\ items > 0 /\ Finish("failed")     \* the INSERT returns an error
     \/ asking /\ at = "caller" /\ Finish("failed") \* Complete or ParseStrict does
  /\ UNCHANGED <<searchVars, itemVars>>

Next ==
  \/ Client
  \/ PromptFails \/ FirstAsk \/ AskAgain \/ OverviewReturns
  \/ Probe \/ Adjust \/ DiscoveryReturns
  \/ SynthesizerAsks \/ EvaluatorAsks \/ Parsed \/ Insert \/ StoringReturns

Spec == Init /\ [][Next]_vars

-----------------------------------------------------------------------------
(* Properties.                                                                *)

\* A completion that ends in an error which could have passed has waited out
\* 1 + 2 + 4 seconds of backoff: more than the 5 seconds that processJobSafe's
\* cleanup context, made before Dispatch, gives Fail (client.go:83-107,
\* daemon.go:73).
TransientOutlivesCleanup == verdict = "transient" => elapsed >= 7

\* Once the context is cancelled at most one more call reaches the proxy, over
\* all the retries of a completion and all the completions of a caller.
CancelStopsCalls == lateCalls <= 1

\* How often a prompt that overflows is sent.  ProcessOverview asks exactly once
\* more, with the cut prompt, and the second overflow is final (service.go:112-124);
\* Synthesize and Evaluate never ask again (synthesizer.go:83-86,
\* evaluator.go:81-84).  The design has one rule for all of them: design.md:462
\* (Property 11) and requirements.md:101 want every completion that overflows retried
\* "exactly once" with TrimToBudget(limit / 2).  The two storing callers break it,
\* and ProcessOverview keeps to it but for the trim, which is a cut of the text.
OverflowRetries ==
  /\ caller = "overview" =>
       /\ asks <= 2
       /\ asks = 2 => size <= BudgetLimit
       /\ outcome = "failed" /\ verdict = "overflow" => asks = 2
  /\ caller \in Storing => asks <= 1

\* A model whose window takes the cut prompt never fails a job by overflow.
CutPromptFits ==
  caller = "overview" /\ outcome = "failed" /\ Fits(BudgetLimit) => verdict # "overflow"

\* Synthesize and Evaluate report success only when every item of the answer is
\* a row, and never write a row an answer does not list: an INSERT that fails or
\* a context cancelled half way is reported (the loops of synthesizer.go and
\* evaluator.go).
StoredWhenNil ==
  caller \in Storing =>
    /\ outcome = "stored" => rows = listed
    /\ rows + items = listed

\* What DiscoverBoundary returns is in the window, and, if the window is below
\* the last probe's reach, at most two of its smallest steps under 90% of it.
ThresholdIsBoundary ==
  outcome = "threshold" =>
    /\ Fits(TSafe)
    /\ ~Fits(1500000) => ~Fits(converged + 15626)
=============================================================================
