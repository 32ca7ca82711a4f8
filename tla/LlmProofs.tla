------------------------------ MODULE LlmProofs ------------------------------
(* Proofs about LitellmClient.Complete and its callers, for every window,     *)
(* text, prompt and duration of a call; at the end, what AlgorithmProofs says *)
(* of the pure algorithms, as properties of the run that checks them.         *)
EXTENDS MCLlm, AlgorithmProofs

\* The part of the type invariant the proofs need: DiscoverBoundary's own
\* numbers play no role.
Types ==
  /\ at \in {"caller", "prepare", "call", "reply", "wait"}
  /\ attempt \in 0 .. Retries
  /\ elapsed \in Nat
  /\ lateCalls \in Nat
  /\ asks \in Nat
  /\ caller \in Callers
  /\ caller = "overview" => size \in Nat

BackoffAt(a) == CASE a = 0 -> 1 [] a = 1 -> 2 [] a = 2 -> 4 [] OTHER -> 8

\* The backoff follows the loop variable, and inside the loop the seconds slept
\* so far are one less than the next backoff.
SleptSoFar ==
  /\ backoff = BackoffAt(attempt)
  /\ at # "caller" => elapsed >= backoff - 1
  /\ at = "wait" => attempt < Retries
  /\ TransientOutlivesCleanup

\* A call with the context cancelled is the last one: the loop comes back to a
\* call only while nothing is cancelled.
LateIsLast ==
  /\ ~cancelled => lateCalls = 0
  /\ at = "call" => lateCalls = 0
  /\ CancelStopsCalls

\* A caller that has not asked yet waits for nothing, and one that has returned
\* asks no more.
AskedSoFar ==
  /\ OverflowRetries
  /\ asks = 0 => at = "caller" /\ ~asking /\ verdict = "none"
  /\ caller = "overview" /\ outcome # "none" => at = "caller" /\ ~asking

IInv == Types /\ SleptSoFar /\ LateIsLast /\ AskedSoFar

-----------------------------------------------------------------------------
LEMMA InitIInv == Init => IInv
<1> SUFFICES ASSUME Init PROVE IInv
  OBVIOUS
<1>1. Types
  BY LlmCallersAssumption, SMT DEF Init, ClientInit, Types, Retries, Callers
<1>2. SleptSoFar
  BY SMT DEF Init, ClientInit, SleptSoFar, BackoffAt, TransientOutlivesCleanup
<1>3. LateIsLast
  BY SMT DEF Init, ClientInit, LateIsLast, CancelStopsCalls
<1>4. AskedSoFar
  BY SMT DEF Init, ClientInit, AskedSoFar, OverflowRetries, Storing
<1> QED
  BY <1>1, <1>2, <1>3, <1>4 DEF IInv

\* The invariant holds again after every step of Complete.
LEMMA ClientStep ==
  ASSUME IInv, ClientNext, UNCHANGED callerVars
  PROVE  IInv'
<1> USE DEF IInv, Types, SleptSoFar, BackoffAt, LateIsLast, AskedSoFar,
        TransientOutlivesCleanup, CancelStopsCalls, OverflowRetries, Storing,
        Retries, callerVars, model
<1>1. CASE PrepareFails
  BY <1>1, SMT DEF PrepareFails, Return
<1>2. CASE Prepare
  BY <1>2, SMT DEF Prepare
<1>3. CASE Call
  BY <1>3, SMT DEF Call
<1>4. CASE Answered
  <2>1. PICK s \in CallSeconds : Took(s)
    BY <1>4 DEF Answered
  <2>2. s \in Nat
    BY LlmClientAssumption
  <2>3. \E v \in {"ok", "overflow", "auth"} : Return(v)
    BY <1>4 DEF Answered
  <2> QED
    BY <1>4, <2>1, <2>2, <2>3, SMT DEF Answered, Took, Return
<1>5. CASE GiveUp
  <2>1. PICK s \in CallSeconds : Took(s)
    BY <1>5 DEF GiveUp
  <2>2. s \in Nat
    BY LlmClientAssumption
  <2> QED
    BY <1>5, <2>1, <2>2, SMT DEF GiveUp, Took, Return
<1>6. CASE Retry
  <2>1. PICK s \in CallSeconds : Took(s)
    BY <1>6 DEF Retry
  <2>2. s \in Nat
    BY LlmClientAssumption
  <2> QED
    BY <1>6, <2>1, <2>2, SMT DEF Retry, Took
<1>7. CASE Slept
  BY <1>7, SMT DEF Slept, Took, NextBackoff
<1>8. CASE WaitCancelled
  BY <1>8, SMT DEF WaitCancelled, Return
<1>9. CASE Cancel
  BY <1>9, SMT DEF Cancel
<1> QED
  BY <1>1, <1>2, <1>3, <1>4, <1>5, <1>6, <1>7, <1>8, <1>9 DEF ClientNext

\* And after every step of a caller.
LEMMA CallerStep ==
  ASSUME IInv, Next, ~Client
  PROVE  IInv'
<1> USE DEF IInv, Types, SleptSoFar, BackoffAt, LateIsLast, AskedSoFar,
        TransientOutlivesCleanup, CancelStopsCalls, OverflowRetries, Storing,
        Retries, model, clientVars
<1>0. CASE PromptFails
  BY <1>0, SMT DEF PromptFails, Finish
<1>1. CASE FirstAsk
  BY <1>1, SMT DEF FirstAsk, Ask, Begin
<1>2. CASE AskAgain
  <2>1. Cut(size) \in Nat /\ Cut(size) <= BudgetLimit
    BY <1>2, SMT DEF AskAgain, Cut, BudgetLimit
  <2> QED
    BY <1>2, <2>1, SMT DEF AskAgain, Ask, Begin
<1>3. CASE OverviewReturns
  BY <1>3, SMT DEF OverviewReturns, Answer, Finish
<1>4. CASE Probe
  BY <1>4, SMT DEF Probe, Ask, Begin
<1>5. CASE Adjust
  BY <1>5, SMT DEF Adjust
<1>6. CASE DiscoveryReturns
  BY <1>6, SMT DEF DiscoveryReturns, Finish
<1>7. CASE SynthesizerAsks \/ EvaluatorAsks
  BY <1>7, SMT DEF SynthesizerAsks, EvaluatorAsks, AskOnce, Ask, Begin
<1>8. CASE Parsed
  BY <1>8, SMT DEF Parsed
<1>9. CASE Insert
  BY <1>9, SMT DEF Insert
<1>10. CASE StoringReturns
  BY <1>10, SMT DEF StoringReturns, Finish, Storing
<1> QED
  BY <1>0, <1>1, <1>2, <1>3, <1>4, <1>5, <1>6, <1>7, <1>8, <1>9, <1>10 DEF Next

\* The four parts together are inductive.
THEOREM Invariance == Spec => []IInv
<1>1. Init => IInv
  BY InitIInv
<1>2. IInv /\ [Next]_vars => IInv'
  <2> SUFFICES ASSUME IInv, [Next]_vars PROVE IInv'
    OBVIOUS
  <2>1. CASE Client
    BY <2>1, ClientStep DEF Client
  <2>2. CASE Next /\ ~Client
    BY <2>2, CallerStep
  <2>3. CASE UNCHANGED vars
    BY <2>3 DEF vars, clientVars, callerVars, model, IInv, Types, SleptSoFar, LateIsLast,
       AskedSoFar, TransientOutlivesCleanup, CancelStopsCalls, OverflowRetries
  <2> QED
    BY <2>1, <2>2, <2>3
<1> QED
  BY <1>1, <1>2, PTL DEF Spec

\* A completion that gives up on an error that might have passed has waited
\* seven seconds, however fast the proxy answers: longer than the cleanup
\* context lives that its job's Fail is going to use (client.go:83-107).
THEOREM BackoffOutlivesCleanup == Spec => []TransientOutlivesCleanup
<1>1. IInv => TransientOutlivesCleanup
  BY DEF IInv, SleptSoFar
<1> QED
  BY <1>1, Invariance, PTL

\* After a cancellation at most one more call reaches the proxy (the select of
\* Complete, and the metadata call before its loop).
THEOREM CancelEndsCalls == Spec => []CancelStopsCalls
<1>1. IInv => CancelStopsCalls
  BY DEF IInv, LateIsLast
<1> QED
  BY <1>1, Invariance, PTL

\* After an overflow ProcessOverview asks exactly once more, on the cut prompt;
\* Synthesize and Evaluate do not ask again.
THEOREM OverflowRetriesHold == Spec => []OverflowRetries
<1>1. IInv => OverflowRetries
  BY DEF IInv, AskedSoFar
<1> QED
  BY <1>1, Invariance, PTL

-----------------------------------------------------------------------------
(* What the window decides: what fits, and where the search ends.             *)

\* Fits, for a window of l tokens and d bytes to the token.
FitsIn(l, d, n) == (n * 4) \div d <= l

LEMMA DivMono ==
  ASSUME NEW d \in Nat \ {0}, NEW a \in Nat, NEW b \in Nat, a <= b
  PROVE  a \div d <= b \div d
<1>1. PICK p : p = a \div d
  OBVIOUS
<1>2. PICK q : q = b \div d
  OBVIOUS
<1>3. p \in Int /\ q \in Int /\ d * p <= a /\ a < d * (p + 1) /\ d * q <= b /\ b < d * (q + 1)
  BY <1>1, <1>2
<1>4. d * p < d * (q + 1)
  BY <1>3
<1>5. p < q + 1
  BY <1>3, <1>4
<1> QED
  BY <1>1, <1>2, <1>3, <1>5

\* A shorter text is in the window as well.
LEMMA FitsMono ==
  ASSUME NEW d \in Nat \ {0}, NEW l \in Nat, NEW a \in Nat, NEW b \in Nat, a <= b, FitsIn(l, d, b)
  PROVE  FitsIn(l, d, a)
BY DivMono DEF FitsIn

LEMMA FitsAsIn == \A n : Fits(n) <=> FitsIn(limit, density, n)
BY DEF Fits, FitsIn

Gaps == {250000, 125000, 62500, 31250, 15625, 7812, 3906}

\* The farthest a probe can reach.
Reach == 1500000

\* What truncation has taken off a bracket of four steps.
Odd(g) == IF g < 15625 THEN 1 ELSE 0

\* What Complete said of the last request is so.
Judged ==
  /\ verdict = "ok" => FitsIn(limit, density, size)
  /\ verdict = "overflow" => ~FitsIn(limit, density, size)

\* A window of l tokens, b bytes to the token, is at most two steps g from the
\* next probe c: what was recorded, v, is in it, and what is two steps further is
\* not.
Bracketed(l, b, c, g, v) ==
  /\ g \in Gaps /\ c \in Nat /\ v \in Nat
  /\ c >= 2 * g + 2
  /\ v # 0 => FitsIn(l, b, v) /\ v >= c - 2 * g - Odd(g)
  /\ ~FitsIn(l, b, Reach) => ~FitsIn(l, b, c + 2 * g + Odd(g))

Bracket == Bracketed(limit, density, current, gap, converged)

\* What is asked is the probe, and the search ends below Epsilon.
Searching ==
  /\ caller = "discovery" /\ asking => size = current /\ gap > Epsilon
  /\ outcome = "threshold" => caller = "discovery" /\ gap <= Epsilon /\ converged # 0

\* An item is in the list or a row; rows come after the answer.
Stored ==
  /\ items \in Nat /\ listed \in Nat /\ rows \in Nat /\ rows + items = listed
  /\ asking \/ asks = 0 \/ caller \notin Storing => rows = 0 /\ items = 0
  /\ outcome = "stored" => items = 0

CallersInv == IInv /\ TypeOK /\ Judged /\ Bracket /\ Searching /\ Stored

LEMMA CallersInit == Init => CallersInv
<1> SUFFICES ASSUME Init PROVE CallersInv
  OBVIOUS
<1>1. TypeOK
  <2>0. cancelled \in BOOLEAN /\ asking \in BOOLEAN
    BY Zenon DEF Init, ClientInit
  <2>1. ClientTypeOK
    BY <2>0, LlmCallersAssumption, SMT DEF Init, ClientInit, ClientTypeOK, Retries
  <2>2. gap \in 1 .. StepInit /\ current \in Nat /\ converged \in Nat
    BY SMT DEF Init, StepInit, TInit
  <2>3. items \in 0 .. MaxItems /\ listed \in 0 .. MaxItems /\ rows \in 0 .. MaxItems
    BY LlmCallersAssumption, SMT DEF Init
  <2> QED
    BY <2>0, <2>1, <2>2, <2>3, SMT DEF Init, TypeOK
<1>2. Bracket
  BY SMT DEF Reach, Init, Bracket, Bracketed, Gaps, Odd, TInit, StepInit
<1>3. Judged /\ Searching /\ Stored
  BY SMT DEF Init, ClientInit, Judged, Searching, Stored
<1> QED
  BY <1>1, <1>2, <1>3, InitIInv DEF CallersInv

\* The model of a run does not change.
LEMMA SameModel == ASSUME TypeOK, Next PROVE UNCHANGED model
BY DEF Next, Client, ClientNext, PrepareFails, Prepare, Call, Answered, GiveUp, Retry, Slept,
       WaitCancelled, Cancel, Return, PromptFails, FirstAsk, AskAgain, OverviewReturns, Probe,
       Adjust, DiscoveryReturns, SynthesizerAsks, EvaluatorAsks, AskOnce, Parsed, Insert,
       StoringReturns, Ask, Begin, Finish, model, clientVars

\* The wait ends with the backoff doubled, and it was not the last.
LEMMA SleptTypes ==
  ASSUME IInv, TypeOK, Slept
  PROVE  backoff' \in {1, 2, 4, 8} /\ attempt' \in 0 .. Retries /\ elapsed' \in Nat
<1>1. attempt \in 0 .. 2 /\ backoff = BackoffAt(attempt)
  BY DEF Slept, IInv, SleptSoFar, Types, Retries
<1>2. backoff \in {1, 2, 4} /\ backoff' = backoff * 2
  BY <1>1 DEF BackoffAt, Slept, NextBackoff
<1>3. attempt' = attempt + 1 /\ elapsed' = elapsed + backoff /\ elapsed \in Nat
  BY DEF Slept, Took, TypeOK, ClientTypeOK
<1> QED
  BY <1>1, <1>2, <1>3 DEF Retries

\* Complete changes nothing of its caller, and judges only what it was given.
LEMMA ClientKeeps ==
  ASSUME CallersInv, Client
  PROVE  CallersInv'
<1> USE DEF CallersInv
<1>1. UNCHANGED callerVars /\ ClientNext /\ UNCHANGED model
  BY SameModel DEF Client, Next
<1>2. size' = size
  BY <1>1 DEF ClientNext, PrepareFails, Prepare, Call, Answered, GiveUp, Retry, Slept,
              WaitCancelled, Cancel, Return
<1>3. Judged'
  <2>1. CASE Answered
    BY <1>1, <1>2, <2>1, FitsAsIn DEF Answered, Return, Judged, model
  <2>2. CASE ~Answered
    <3>1. verdict' \in {verdict, "setup", "transient", "cancelled"}
      BY <1>1, <2>2 DEF ClientNext, PrepareFails, Prepare, Call, GiveUp, Retry, Slept,
                        WaitCancelled, Cancel, Return
    <3> QED
      BY <1>1, <1>2, <3>1 DEF Judged, model
  <2> QED
    BY <2>1, <2>2
<1>4. ClientTypeOK'
  <2> USE DEF TypeOK, ClientTypeOK, Retries, Verdicts
  <2>1. CASE PrepareFails \/ Prepare \/ WaitCancelled \/ Cancel
    BY <2>1 DEF PrepareFails, Prepare, WaitCancelled, Cancel, Return, model
  <2>2. CASE Call
    BY <2>2 DEF Call, model
  <2>3. CASE Answered \/ GiveUp \/ Retry
    <3>1. PICK s \in CallSeconds : Took(s)
      BY <2>3 DEF Answered, GiveUp, Retry
    <3>2. elapsed' \in Nat
      BY <3>1, LlmClientAssumption DEF Took
    <3> QED
      BY <2>3, <3>2 DEF Answered, GiveUp, Retry, Return, model
  <2>4. CASE Slept
    <3>1. backoff' \in {1, 2, 4, 8} /\ attempt' \in 0 .. Retries /\ elapsed' \in Nat
      BY <2>4, SleptTypes DEF Slept
    <3> QED
      BY <2>4, <3>1 DEF Slept, model
  <2> QED
    BY <1>1, <2>1, <2>2, <2>3, <2>4 DEF ClientNext
<1>5. TypeOK'
  BY <1>1, <1>4 DEF TypeOK, callerVars, searchVars, itemVars
<1>6. Bracket' /\ Searching' /\ Stored'
  BY <1>1, <1>2, SMT DEF Bracket, Bracketed, Searching, Stored, callerVars, searchVars, itemVars, model
<1>7. IInv'
  BY <1>1, ClientStep
<1> QED
  BY <1>3, <1>5, <1>6, <1>7

\* A caller asks for something, or leaves Complete as it is.
LEMMA AsksOrLeaves ==
  ASSUME CallersInv, Next, ~Client
  PROVE  \/ UNCHANGED <<clientVars, caller, asks>> /\ asking' \in {asking, FALSE}
         \/ (\E n \in Nat : Begin(n)) /\ asks' = asks + 1 /\ asking' = TRUE
              /\ UNCHANGED <<caller, outcome, searchVars, itemVars>>
<1> USE DEF Ask
<1>1. size \in Nat /\ current \in Nat
  BY DEF CallersInv, TypeOK, ClientTypeOK
<1>2. CASE FirstAsk \/ SynthesizerAsks \/ EvaluatorAsks
  BY <1>1, <1>2 DEF FirstAsk, SynthesizerAsks, EvaluatorAsks, AskOnce
<1>3. CASE AskAgain
  <2>1. Cut(size) \in Nat
    BY <1>1, SMT DEF Cut, BudgetLimit
  <2> QED
    BY <1>3, <2>1 DEF AskAgain
<1>4. CASE Probe
  BY <1>1, <1>4 DEF Probe
<1>5. CASE ~(FirstAsk \/ SynthesizerAsks \/ EvaluatorAsks \/ AskAgain \/ Probe)
  BY <1>5 DEF Next, PromptFails, OverviewReturns, Adjust, DiscoveryReturns, Parsed, Insert,
              StoringReturns, Finish
<1> QED
  BY <1>2, <1>3, <1>4, <1>5

LEMMA CallerKeepsJudged ==
  ASSUME CallersInv, Next, ~Client
  PROVE  Judged'
<1>1. CASE UNCHANGED clientVars
  BY <1>1 DEF CallersInv, Judged, clientVars, model
<1>2. CASE \E n \in Nat : Begin(n)
  BY <1>2 DEF Judged, Begin
<1> QED
  BY <1>1, <1>2, AsksOrLeaves

\* A step of the search: the next gap is half of this one but for what Odd
\* accounts for, and the bracket follows the probe.
LEMMA Halved ==
  ASSUME NEW g \in Gaps, g > Epsilon
  PROVE  LET h == g \div 2
         IN  /\ h \in Gaps /\ g \in Nat /\ h \in Nat
             /\ 2 * h <= g /\ g + Odd(g) <= 2 * h + Odd(h)
             /\ Odd(g) \in {0, 1} /\ Odd(h) \in {0, 1}
BY SMT DEF Gaps, Epsilon, Odd

LEMMA StepBack ==
  ASSUME NEW l \in Nat, NEW b \in Nat \ {0}, NEW c, NEW g, NEW v,
         Bracketed(l, b, c, g, v), g > Epsilon, ~FitsIn(l, b, c)
  PROVE  Bracketed(l, b, c - g, g \div 2, v)
<1> DEFINE h == g \div 2
<1>1. h \in Gaps /\ g \in Nat /\ h \in Nat /\ 2 * h <= g /\ g + Odd(g) <= 2 * h + Odd(h)
        /\ Odd(g) \in {0, 1} /\ Odd(h) \in {0, 1}
  BY Halved DEF Bracketed
<1> HIDE DEF h
<1>2. c \in Nat /\ v \in Nat /\ c >= 2 * g + 2
  BY DEF Bracketed
<1>3. c - g \in Nat /\ c - g >= 2 * h + 2
  BY <1>1, <1>2
<1>4. v # 0 => v >= c - g - 2 * h - Odd(h)
  BY <1>1, <1>2, SMT DEF Bracketed
<1>5. c - g + 2 * h + Odd(h) \in Nat /\ c <= c - g + 2 * h + Odd(h)
  BY <1>1, <1>2, <1>3
<1>6. ~FitsIn(l, b, c - g + 2 * h + Odd(h))
  BY <1>2, <1>5, FitsMono
<1>7. Bracketed(l, b, c - g, h, v)
  BY <1>1, <1>2, <1>3, <1>4, <1>6 DEF Bracketed
<1> QED
  BY <1>7 DEF h

LEMMA StepForward ==
  ASSUME NEW l \in Nat, NEW b \in Nat \ {0}, NEW c, NEW g, NEW v,
         Bracketed(l, b, c, g, v), g > Epsilon, FitsIn(l, b, c)
  PROVE  Bracketed(l, b, c + g, g \div 2, c)
<1> DEFINE h == g \div 2
<1>1. h \in Gaps /\ g \in Nat /\ h \in Nat /\ 2 * h <= g /\ g + Odd(g) <= 2 * h + Odd(h)
        /\ Odd(g) \in {0, 1} /\ Odd(h) \in {0, 1}
  BY Halved DEF Bracketed
<1> HIDE DEF h
<1>2. c \in Nat /\ c >= 2 * g + 2
  BY DEF Bracketed
<1>3. c + g \in Nat /\ c + g >= 2 * h + 2
  BY <1>1, <1>2
<1>4. c >= c + g - 2 * h - Odd(h)
  BY <1>1, <1>2
<1>5. /\ c + 2 * g + Odd(g) \in Nat /\ c + g + 2 * h + Odd(h) \in Nat
      /\ c + 2 * g + Odd(g) <= c + g + 2 * h + Odd(h)
  BY <1>1, <1>2, <1>3
<1>6. ~FitsIn(l, b, Reach) => ~FitsIn(l, b, c + g + 2 * h + Odd(h))
  BY <1>5, FitsMono DEF Bracketed
<1>7. Bracketed(l, b, c + g, h, c)
  BY <1>1, <1>2, <1>3, <1>4, <1>6 DEF Bracketed
<1> QED
  BY <1>7 DEF h

LEMMA AdjustKeeps ==
  ASSUME CallersInv, Adjust
  PROVE  Bracket'
<1>1. gap > Epsilon /\ size = current /\ Bracket /\ Judged
  BY SMT DEF Adjust, Answer, CallersInv, Searching
<1>2. limit \in Nat /\ density \in Nat \ {0}
  BY LlmClientAssumption DEF CallersInv, TypeOK, ClientTypeOK
<1>3. Bracketed(limit, density, current, gap, converged)
  BY <1>1 DEF Bracket
<1>4. limit' = limit /\ density' = density /\ gap' = gap \div 2
  BY DEF Adjust, clientVars, model
<1>5. CASE verdict = "overflow"
  <2>1. current' = current - gap /\ converged' = converged
    BY <1>5, SMT DEF Adjust, Answer
  <2>2. Bracketed(limit, density, current - gap, gap \div 2, converged)
    BY <1>1, <1>2, <1>3, <1>5, StepBack DEF Judged
  <2> QED
    BY <1>4, <2>1, <2>2 DEF Bracket, Bracketed
<1>6. CASE verdict = "ok"
  <2>1. current' = current + gap /\ converged' = current
    BY <1>6, SMT DEF Adjust, Answer, Record
  <2>2. Bracketed(limit, density, current + gap, gap \div 2, current)
    BY <1>1, <1>2, <1>3, <1>6, StepForward DEF Judged
  <2> QED
    BY <1>4, <2>1, <2>2 DEF Bracket, Bracketed
<1> QED
  BY <1>5, <1>6 DEF Adjust, Answer

\* Only Adjust moves the probe.
LEMMA CallerKeepsBracket ==
  ASSUME CallersInv, Next, ~Client
  PROVE  Bracket'
<1>1. CASE Adjust
  BY <1>1, AdjustKeeps
<1>2. CASE ~Adjust
  <2>1. UNCHANGED searchVars
    BY <1>2 DEF Next, PromptFails, FirstAsk, AskAgain, OverviewReturns, Probe, DiscoveryReturns,
                SynthesizerAsks, EvaluatorAsks, AskOnce, Parsed, Insert, StoringReturns
  <2>2. UNCHANGED model
    BY SameModel DEF CallersInv
  <2> QED
    BY <2>1, <2>2 DEF CallersInv, Bracket, searchVars, model
<1> QED
  BY <1>1, <1>2

\* A probe is at the current size, and the search ends below Epsilon.
LEMMA CallerKeepsSearching ==
  ASSUME CallersInv, Next, ~Client
  PROVE  Searching'
<1> USE DEF CallersInv, Searching
<1>1. SUFFICES ASSUME caller = "discovery" PROVE Searching'
  BY DEF Next, PromptFails, FirstAsk, AskAgain, OverviewReturns, Probe, Adjust, DiscoveryReturns,
         SynthesizerAsks, EvaluatorAsks, AskOnce, Ask, Parsed, Insert, StoringReturns, Finish
<1>2. Probe \/ Adjust \/ DiscoveryReturns
  BY <1>1 DEF Next, PromptFails, FirstAsk, AskAgain, OverviewReturns, SynthesizerAsks,
              EvaluatorAsks, Parsed, Insert, StoringReturns, Loops, Storing
<1>3. CASE Probe
  BY <1>1, <1>3, SMT DEF Probe, Ask, Begin, searchVars
<1>4. CASE Adjust
  BY <1>1, <1>4, SMT DEF Adjust, clientVars
<1>5. CASE DiscoveryReturns
  BY <1>1, <1>5, SMT DEF DiscoveryReturns, Finish, clientVars, searchVars
<1> QED
  BY <1>2, <1>3, <1>4, <1>5

\* An item leaves the list only as a row.
LEMMA CallerKeepsStored ==
  ASSUME CallersInv, Next, ~Client
  PROVE  Stored'
<1> USE DEF CallersInv, Stored
<1>1. CASE Parsed
  <2>1. PICK n \in 0 .. MaxItems : items' = n /\ listed' = n
    BY <1>1 DEF Parsed
  <2>2. rows = 0 /\ n \in Nat
    BY <1>1, LlmCallersAssumption, SMT DEF Parsed, Answer
  <2>3. caller \in Storing /\ asks # 0 /\ outcome # "stored"
    BY <1>1, SMT DEF Parsed, Answer, IInv, AskedSoFar
  <2> QED
    BY <1>1, <2>1, <2>2, <2>3 DEF Parsed
<1>2. CASE Insert
  BY <1>2, SMT DEF Insert, Loops
<1>3. CASE StoringReturns
  BY <1>3, SMT DEF StoringReturns, Finish, Loops, itemVars
<1>4. CASE FirstAsk \/ AskAgain \/ Probe \/ SynthesizerAsks \/ EvaluatorAsks
  BY <1>4, SMT DEF FirstAsk, AskAgain, Probe, SynthesizerAsks, EvaluatorAsks, AskOnce, Ask,
                   itemVars, Storing
<1>5. CASE PromptFails \/ OverviewReturns \/ DiscoveryReturns \/ Adjust
  BY <1>5, SMT DEF PromptFails, OverviewReturns, DiscoveryReturns, Adjust, Finish, itemVars, Storing
<1> QED
  BY <1>1, <1>2, <1>3, <1>4, <1>5 DEF Next

LEMMA BeginTypes ==
  ASSUME ClientTypeOK, NEW n \in Nat, Begin(n)
  PROVE  ClientTypeOK'
BY DEF ClientTypeOK, Begin, Retries, model

LEMMA GapsInRange == \A g \in Gaps : g \in 1 .. StepInit
<1> SUFFICES ASSUME NEW g \in Gaps PROVE g \in 1 .. StepInit
  OBVIOUS
<1>1. g \in Nat /\ 1 <= g /\ g <= 250000
  BY SMT DEF Gaps
<1>2. g <= StepInit /\ StepInit \in Nat
  BY <1>1, SMT DEF StepInit
<1> QED
  BY <1>1, <1>2, SMT

LEMMA CallerKeepsTypes ==
  ASSUME CallersInv, Next, ~Client
  PROVE  TypeOK'
<1> USE DEF CallersInv, TypeOK
<1>1. ClientTypeOK'
  <2>1. CASE UNCHANGED clientVars
    BY <2>1 DEF clientVars, model, ClientTypeOK
  <2>2. CASE \E n \in Nat : Begin(n)
    BY <2>2, BeginTypes
  <2> QED
    BY <2>1, <2>2, AsksOrLeaves
<1>2. gap' \in 1 .. StepInit /\ current' \in Nat /\ converged' \in Nat
  <2>1. gap' \in Gaps /\ current' \in Nat /\ converged' \in Nat
    BY CallerKeepsBracket, Zenon DEF Bracket, Bracketed
  <2> QED
    BY <2>1, GapsInRange
<1>3. asks' \in Nat /\ asking' \in BOOLEAN /\ caller' \in Callers
  <2>1. asks' \in {asks, asks + 1} /\ asking' \in {asking, TRUE, FALSE} /\ caller' = caller
    BY AsksOrLeaves, Zenon
  <2>2. asks' \in Nat
    BY <2>1
  <2> QED
    BY <2>1, <2>2, Zenon
<1>4. listed' \in 0 .. MaxItems
  BY SMT DEF Next, PromptFails, FirstAsk, AskAgain, OverviewReturns, Probe, Adjust, DiscoveryReturns,
         SynthesizerAsks, EvaluatorAsks, AskOnce, Parsed, Insert, StoringReturns, itemVars
<1>5. items' \in 0 .. MaxItems /\ rows' \in 0 .. MaxItems
  BY <1>4, LlmCallersAssumption, CallerKeepsStored, SMT DEF Stored
<1>6. outcome' \in {"none", "parsed", "stored", "failed", "threshold"}
  BY DEF Next, PromptFails, FirstAsk, AskAgain, OverviewReturns, Probe, Adjust, DiscoveryReturns,
         SynthesizerAsks, EvaluatorAsks, AskOnce, Ask, Parsed, Insert, StoringReturns, Finish
<1> QED
  BY <1>1, <1>2, <1>3, <1>4, <1>5, <1>6

\* The parts together are inductive.
THEOREM CallersInvariance == Spec => []CallersInv
<1>1. Init => CallersInv
  BY CallersInit
<1>2. CallersInv /\ [Next]_vars => CallersInv'
  <2> SUFFICES ASSUME CallersInv, [Next]_vars PROVE CallersInv'
    OBVIOUS
  <2>1. CASE Client
    BY <2>1, ClientKeeps
  <2>2. CASE Next /\ ~Client
    <3>1. IInv'
      BY <2>2, CallerStep DEF CallersInv
    <3> QED
      BY <2>2, <3>1, CallerKeepsTypes, CallerKeepsJudged, CallerKeepsBracket,
         CallerKeepsSearching, CallerKeepsStored DEF CallersInv
  <2>3. CASE UNCHANGED vars
    BY <2>3 DEF vars, clientVars, callerVars, searchVars, itemVars, model, CallersInv, IInv,
       Types, SleptSoFar, LateIsLast, AskedSoFar, TransientOutlivesCleanup, CancelStopsCalls,
       OverflowRetries, TypeOK, ClientTypeOK, Judged, Bracket, Searching, Stored
  <2> QED
    BY <2>1, <2>2, <2>3
<1> QED
  BY <1>1, <1>2, PTL DEF Spec

\* Every variable of the callers keeps its type; in particular the probe never
\* goes below zero and no more rows are written than an answer can list.
THEOREM CallersTypeCorrect == Spec => []TypeOK
<1>1. CallersInv => TypeOK
  BY DEF CallersInv
<1> QED
  BY <1>1, CallersInvariance, PTL

\* ProcessOverview fails by an overflow only in a window the cut prompt does not
\* fit (service.go's branch for CONTEXT_OVERFLOW), whatever the prompt measures
\* and however its text is tokenised.
THEOREM CutPromptAlwaysFits == Spec => []CutPromptFits
<1>1. CallersInv => CutPromptFits
  <2> SUFFICES ASSUME CallersInv, caller = "overview", outcome = "failed", verdict = "overflow"
               PROVE  ~Fits(BudgetLimit)
    BY DEF CutPromptFits
  <2>1. asks = 2 /\ size <= BudgetLimit
    BY DEF CallersInv, IInv, AskedSoFar, OverflowRetries
  <2>2. ~FitsIn(limit, density, size) /\ size \in Nat /\ limit \in Nat /\ density \in Nat \ {0}
    BY LlmClientAssumption DEF CallersInv, Judged, TypeOK, ClientTypeOK
  <2>3. BudgetLimit \in Nat
    BY SMT DEF BudgetLimit
  <2> QED
    BY <2>1, <2>2, <2>3, FitsMono, FitsAsIn
<1> QED
  BY <1>1, CallersInvariance, PTL

\* What DiscoverBoundary returns is in the window and close under it
\* (discovery.go's search), for every window and every text.
THEOREM SearchFindsTheBoundary == Spec => []ThresholdIsBoundary
<1>1. CallersInv => ThresholdIsBoundary
  <2> SUFFICES ASSUME CallersInv, outcome = "threshold" PROVE ThresholdIsBoundary
    BY DEF ThresholdIsBoundary
  <2>1. caller = "discovery"
    BY DEF CallersInv, Searching
  <2>2. gap = 3906 /\ converged # 0
    BY <2>1, SMT DEF CallersInv, Searching, Bracket, Bracketed, Gaps, Epsilon
  <2>3. /\ current \in Nat /\ converged \in Nat /\ FitsIn(limit, density, converged)
        /\ converged >= current - 2 * 3906 - 1
        /\ ~FitsIn(limit, density, Reach) => ~FitsIn(limit, density, current + 2 * 3906 + 1)
    BY <2>2, SMT DEF CallersInv, Bracket, Bracketed, Odd
  <2>4. limit \in Nat /\ density \in Nat \ {0}
    BY LlmClientAssumption DEF CallersInv, TypeOK, ClientTypeOK
  <2>5. TSafe \in Nat /\ TSafe <= converged
    BY <2>3, SMT DEF TSafe
  <2>6. FitsIn(limit, density, TSafe)
    BY <2>3, <2>4, <2>5, FitsMono
  <2>7. /\ current + 2 * 3906 + 1 \in Nat /\ converged + 15626 \in Nat
        /\ current + 2 * 3906 + 1 <= converged + 15626
    BY <2>3, SMT
  <2>8. ~FitsIn(limit, density, Reach) => ~FitsIn(limit, density, converged + 15626)
    BY <2>3, <2>4, <2>7, FitsMono
  <2> QED
    BY <2>6, <2>8, SMT DEF ThresholdIsBoundary, Fits, FitsIn, Reach
<1> QED
  BY <1>1, CallersInvariance, PTL

\* Synthesize and Evaluate return nil only when every item of the answer is a
\* row (the loops of synthesizer.go and evaluator.go).
THEOREM NilMeansStored == Spec => []StoredWhenNil
<1>1. CallersInv => StoredWhenNil
  BY SMT DEF CallersInv, Stored, StoredWhenNil
<1> QED
  BY <1>1, CallersInvariance, PTL

-----------------------------------------------------------------------------
(* The pure algorithms: what the run draws are inputs of theirs.              *)

Sampled == sample \in {NoSample} \cup Conversations \cup Answers \cup Texts \cup Graphs

LEMMA AlwaysSampled == MCSpec => []Sampled
<1>1. MCInit => Sampled
  BY DEF MCInit, Sampled
<1>2. ASSUME Sampled, [MCNext]_<<vars, sample>> PROVE Sampled'
  <2>1. CASE sample' \in Conversations \cup Answers \cup Texts \cup Graphs
    BY <2>1 DEF Sampled
  <2>2. CASE UNCHANGED sample
    BY <1>2, <2>2 DEF Sampled
  <2> QED
    BY <1>2, <2>1, <2>2 DEF MCNext, Run, Draw
<1> QED
  BY <1>1, <1>2, PTL DEF MCSpec

LEMMA ShortSequences ==
  ASSUME NEW S, NEW n \in Nat
  PROVE  Sequences(S, n) \subseteq Seq(S)
<1>1. \A k \in 0 .. n : [1 .. k -> S] \subseteq Seq(S)
  BY SeqDef
<1> QED
  BY <1>1 DEF Sequences

\* A sample is told by its fields.
LEMMA DrawnIs ==
  ASSUME Sampled
  PROVE  /\ Drawn({"messages", "maxTokens"}) => sample \in Conversations
         /\ Drawn({"raw"}) => sample \in Answers
         /\ Drawn({"language", "text"}) => sample \in Texts
<1>1. sample = NoSample => DOMAIN sample = {"none"}
  BY DEF NoSample
<1>2. sample \in Conversations => DOMAIN sample = {"messages", "maxTokens"}
  BY DEF Conversations
<1>3. sample \in Answers => DOMAIN sample = {"raw"}
  BY DEF Answers
<1>4. sample \in Texts => DOMAIN sample = {"language", "text"}
  BY DEF Texts
<1>5. sample \in Graphs => DOMAIN sample = {"interactions", "project"}
  BY DEF Graphs
<1>6. \/ sample = NoSample \/ sample \in Conversations \/ sample \in Answers
      \/ sample \in Texts \/ sample \in Graphs
  BY DEF Sampled
<1>7. /\ "none" \notin {"messages", "maxTokens"} /\ "none" # "raw" /\ "none" \notin {"language", "text"}
      /\ "raw" \notin {"messages", "maxTokens"} /\ "raw" \notin {"language", "text"}
      /\ "language" \notin {"messages", "maxTokens"} /\ "language" # "raw"
      /\ "messages" \notin {"language", "text"} /\ "messages" # "raw"
      /\ "interactions" \notin {"messages", "maxTokens"} /\ "interactions" # "raw"
      /\ "interactions" \notin {"language", "text"}
  OBVIOUS
<1>8. Drawn({"messages", "maxTokens"}) => sample \in Conversations
  BY <1>1, <1>3, <1>4, <1>5, <1>6, <1>7 DEF Drawn
<1>9. Drawn({"raw"}) => sample \in Answers
  BY <1>1, <1>2, <1>4, <1>5, <1>6, <1>7 DEF Drawn
<1>10. Drawn({"language", "text"}) => sample \in Texts
  BY <1>1, <1>2, <1>3, <1>5, <1>6, <1>7 DEF Drawn
<1> QED
  BY <1>8, <1>9, <1>10

\* Every conversation, of any length, loses to every budget the fewest and oldest
\* messages that let it fit, never one of the system's, and all the others only if
\* nothing less is enough (History.TrimToBudget); so do those of the run.
THEOREM TrimDropsFewestHolds ==
  /\ \A S : \A msgs \in Seq(S) : \A maxTokens : DropsFewestOldest(msgs, maxTokens)
  /\ MCSpec => []TrimDropsFewest
<1>1. ASSUME NEW S, NEW msgs \in Seq(S), NEW maxTokens PROVE DropsFewestOldest(msgs, maxTokens)
  BY TrimDropsTheFewest
<1>2. ASSUME Sampled PROVE TrimDropsFewest
  <2> SUFFICES ASSUME Drawn({"messages", "maxTokens"})
               PROVE  DropsFewestOldest(sample.messages, sample.maxTokens)
    BY DEF TrimDropsFewest
  <2> DEFINE S == [role : Roles, bytes : {3, 4, 40}]
  <2>1. sample \in Conversations
    BY <1>2, DrawnIs
  <2>2. sample.messages \in Sequences(S, 4)
    BY <2>1 DEF Conversations
  <2> HIDE DEF S
  <2>3. sample.messages \in Seq(S)
    BY <2>2, ShortSequences
  <2> QED
    BY <1>1, <2>3
<1>3. Sampled => TrimDropsFewest
  BY <1>2
<1>4. MCSpec => []TrimDropsFewest
  BY <1>3, AlwaysSampled, PTL
<1> QED
  BY <1>1, <1>4

\* In every answer, of any length, that has an object and no other bracket, the
\* object is what is read, and nothing is ever read but a whole object
\* (Schema.ParseStrict); so it is in those of the run.
THEOREM AnswerReadHolds ==
  /\ \A W : \A raw \in Seq(W) : ReadsTheObject(raw)
  /\ MCSpec => []AnswerRead
<1>1. ASSUME NEW W, NEW raw \in Seq(W) PROVE ReadsTheObject(raw)
  BY ReadsTheObjectOf
<1>2. ASSUME Sampled PROVE AnswerRead
  <2> SUFFICES ASSUME Drawn({"raw"}) PROVE ReadsTheObject(sample.raw)
    BY DEF AnswerRead
  <2> DEFINE W == Openers \cup Closers \cup {"text"}
  <2>1. sample \in Answers
    BY <1>2, DrawnIs
  <2>2. sample.raw \in Sequences(W, 6)
    BY <2>1 DEF Answers
  <2> HIDE DEF W
  <2>3. sample.raw \in Seq(W)
    BY <2>2, ShortSequences
  <2> QED
    BY <1>1, <2>3
<1>3. Sampled => AnswerRead
  BY <1>2
<1>4. MCSpec => []AnswerRead
  BY <1>3, AlwaysSampled, PTL
<1> QED
  BY <1>1, <1>4

\* In every language, the structural hash of a text of any length over any words
\* is its lines of code, blanks included, as a reader who goes through it once finds
\* them, as long as the text is plain (StripByLanguage's passes: no block of one
\* kind hides in another or in a string, no line comment stands behind code); so it
\* is in the texts of the run.
THEOREM HashIsCodeHolds ==
  /\ \A W : \A lang \in Languages : \A text \in Seq(W) :
       Plain(lang, text) => StructuralHash(lang, text) = Code(lang, text)
  /\ MCSpec => []HashIsCode
<1>1. ASSUME NEW W, NEW lang \in Languages, NEW text \in Seq(W), Plain(lang, text)
      PROVE  StructuralHash(lang, text) = Code(lang, text)
  BY <1>1, HashIsCodeOf
<1>2. ASSUME Sampled PROVE HashIsCode
  <2> SUFFICES ASSUME Drawn({"language", "text"}), Plain(sample.language, sample.text)
               PROVE  StructuralHash(sample.language, sample.text) = Code(sample.language, sample.text)
    BY DEF HashIsCode
  <2>1. sample \in Texts
    BY <1>2, DrawnIs
  <2>2. PICK lang \in Languages :
          sample.language = lang /\ sample.text \in Sequences(WordsOf(lang), 5)
    BY <2>1 DEF Texts
  <2> DEFINE W == WordsOf(lang)
  <2> HIDE DEF W
  <2>3. sample.text \in Seq(W)
    BY <2>2, ShortSequences DEF W
  <2> QED
    BY <1>1, <2>2, <2>3
<1>3. Sampled => HashIsCode
  BY <1>2
<1>4. MCSpec => []HashIsCode
  BY <1>3, AlwaysSampled, PTL
<1> QED
  BY <1>1, <1>4

\* For every set of interactions, with whatever cycles and chains, and every set
\* of features as the project: both ends of every interaction that starts in the
\* project are found, and nothing that the interactions do not lead to.
THEOREM DepthHidesNothingHolds ==
  /\ \A interactions, project : HidesNothingOf(interactions, project)
  /\ MCSpec => []DepthHidesNothing
<1>1. ASSUME NEW interactions, NEW project PROVE HidesNothingOf(interactions, project)
  BY HidesNothing
<1>2. DepthHidesNothing
  BY <1>1 DEF DepthHidesNothing
<1>3. MCSpec => []DepthHidesNothing
  BY <1>2, PTL
<1> QED
  BY <1>1, <1>3
=============================================================================
