------------------------------ MODULE LlmClient ------------------------------
(* LitellmClient.Complete (internal/llm/client.go): one completion, with its  *)
(* retries and their backoff.  The proxy and the model are the environment.   *)
(* Time is whole seconds, counted from the moment the caller got its job.     *)
EXTENDS Integers

CONSTANTS Limits,      \* the context windows a model can have, in tokens
          Densities,   \* how many bytes of a text can make a token
          CallSeconds  \* how long one call to the proxy can take

ASSUME LlmClientAssumption ==
  Limits \subseteq Nat /\ Densities \subseteq Nat \ {0} /\ CallSeconds \subseteq Nat

VARIABLES
  limit,       \* the window of this model
  density,     \* the bytes per token of this text
  at,          \* where Complete is; "caller" when it is not running
  size,        \* the request, in the program's tokens of four bytes
  attempt,     \* the loop variable
  backoff,     \* the local of the same name, in seconds
  verdict,     \* what Complete returned last
  elapsed,     \* seconds since the caller began
  cancelled,   \* the caller's context
  calls,       \* history: calls of the proxy's completion endpoint
  lateCalls    \* history: those of them begun with the context cancelled

model == <<limit, density>>
clientVars == <<model, at, size, attempt, backoff, verdict, elapsed, cancelled,
                calls, lateCalls>>

\* maxRetries, a constant of Complete.
Retries == 3

Verdicts == {"ok", "setup", "auth", "overflow", "transient", "cancelled"}

\* A request of n four-byte tokens is in the window.
Fits(n) == (n * 4) \div density <= limit

ClientTypeOK ==
  /\ limit \in Limits /\ density \in Densities
  /\ at \in {"caller", "prepare", "call", "reply", "wait"}
  /\ size \in Nat
  /\ attempt \in 0 .. Retries
  /\ backoff \in {1, 2, 4, 8}
  /\ verdict \in Verdicts \cup {"none"}
  /\ elapsed \in Nat
  /\ cancelled \in BOOLEAN
  /\ calls \in Nat /\ lateCalls \in 0 .. calls

ClientInit ==
  /\ limit \in Limits /\ density \in Densities
  /\ at = "caller"
  /\ attempt = 0 /\ backoff = 1
  /\ verdict = "none"
  /\ elapsed = 0
  /\ cancelled = FALSE
  /\ calls = 0 /\ lateCalls = 0

\* The caller calls Complete with n tokens.
Begin(n) ==
  /\ at' = "prepare"
  /\ size' = n
  /\ attempt' = 0 /\ backoff' = 1
  /\ verdict' = "none"
  /\ UNCHANGED <<model, elapsed, cancelled, calls, lateCalls>>

Return(v) ==
  /\ at' = "caller"
  /\ verdict' = v
  /\ UNCHANGED <<model, size, attempt, backoff, cancelled, calls, lateCalls>>

\* The key, the client and the model's metadata.  Their errors are wrapped and
\* never mapped; the metadata come over the network, on the context.
PrepareFails ==
  /\ at = "prepare"
  /\ Return("setup")
  /\ UNCHANGED elapsed

Prepare ==
  /\ at = "prepare" /\ ~cancelled
  /\ at' = "call"
  /\ UNCHANGED <<model, size, attempt, backoff, verdict, elapsed, cancelled, calls, lateCalls>>

Call ==
  /\ at = "call"
  /\ at' = "reply"
  /\ calls' = calls + 1
  /\ lateCalls' = lateCalls + (IF cancelled THEN 1 ELSE 0)
  /\ UNCHANGED <<model, size, attempt, backoff, verdict, elapsed, cancelled>>

Took(s) == elapsed' = elapsed + s

\* The proxy answers.  401 and 413 are final.
Answered ==
  /\ at = "reply"
  /\ \E s \in CallSeconds : Took(s)
  /\ \/ Fits(size) /\ Return("ok")
     \/ ~Fits(size) /\ Return("overflow")
     \/ Return("auth")

\* Any other error, the context's included: a retry if there is one left.
GiveUp ==
  /\ at = "reply" /\ attempt = Retries
  /\ \E s \in CallSeconds : Took(s)
  /\ Return("transient")

Retry ==
  /\ at = "reply" /\ attempt < Retries
  /\ \E s \in CallSeconds : Took(s)
  /\ at' = "wait"
  /\ UNCHANGED <<model, size, attempt, backoff, verdict, cancelled, calls, lateCalls>>

\* Variant: the backoff is never doubled.
SameBackoff(b) == b

\* Variant: it grows by a second.
LinearBackoff(b) == b + 1

NextBackoff(b) == b * 2

\* Variant: only the timer ends the wait.
SleptAnyway ==
  /\ at = "wait"
  /\ Took(backoff)
  /\ backoff' = NextBackoff(backoff)
  /\ attempt' = attempt + 1
  /\ at' = "call"
  /\ UNCHANGED <<model, size, verdict, cancelled, calls, lateCalls>>

Slept ==
  /\ at = "wait" /\ ~cancelled
  /\ Took(backoff)
  /\ backoff' = NextBackoff(backoff)
  /\ attempt' = attempt + 1
  /\ at' = "call"
  /\ UNCHANGED <<model, size, verdict, cancelled, calls, lateCalls>>

WaitCancelled ==
  /\ at = "wait" /\ cancelled
  /\ Return("cancelled")
  /\ UNCHANGED elapsed

Cancel ==
  /\ ~cancelled
  /\ cancelled' = TRUE
  /\ UNCHANGED <<model, at, size, attempt, backoff, verdict, elapsed, calls, lateCalls>>

ClientNext ==
  \/ PrepareFails \/ Prepare \/ Call \/ Answered \/ GiveUp \/ Retry
  \/ Slept \/ WaitCancelled \/ Cancel
=============================================================================
