------------------------------ MODULE LLMClient ------------------------------
(***************************************************************************)
(* EmployeeLLM.Reply: attempts at the primary model within one deadline,   *)
(* with backoff in between, and one call of the fallback model.  Time is   *)
(* counted in seconds, per caller.                                         *)
(***************************************************************************)
EXTENDS Integers

CONSTANTS
  Caller,       \* the goroutines that reply
  TinyBudget,   \* a budget up to this is not sliced
  MinSlice, MaxSlice, MaxBackoff

Outcome == {"ok",         \* an answer
            "transient",  \* 429, 502, 503, no instances available
            "timeout",    \* the deadline of the call, or an i/o timeout
            "fatal"}      \* anything else

\* LLM_REPLY_TIMEOUT_SEC, LLM_MAX_RETRIES, LLM_RETRY_BACKOFF_MS, the timeout of
\* the fallback model (0 without such a model), what a call may come to, and
\* whether calls take time.
Client == [budget : Nat, retries : Nat, backoff : Nat, fallback : Nat,
           calls : SUBSET Outcome, slow : BOOLEAN]

ASSUME ClientAssumption ==
  /\ TinyBudget \in Nat /\ MinSlice \in Nat /\ MaxSlice \in Nat /\ MaxBackoff \in Nat
  /\ MinSlice <= MaxSlice

VARIABLES
  llm,   \* caller -> its call of Reply
  held   \* caller -> how long it has waited for models since it took b.mu

clientVars == <<llm, held>>

\* Where the call is, the number of the attempt, what is left of the deadline, the
\* next backoff, the last error, and whether the fallback was called.
NoCall == [at |-> "off", attempt |-> 0, left |-> 0, wait |-> 0, err |-> "none", fell |-> FALSE]

AtMost(n, max) == IF n > max THEN max ELSE n

\* IsFallbackEligibleLLMError
Eligible(err) == err \in {"transient", "timeout"}

Call(c, client) ==
  llm' = [llm EXCEPT ![c] = [NoCall EXCEPT !.at = "attempt", !.attempt = 1,
                                           !.left = client.budget,
                                           !.wait = AtMost(client.backoff, MaxBackoff)]]

\* Mutant: each attempt has the whole deadline.
SliceWhole(left, remaining) == left

\* primaryAttemptContext
Slice(left, remaining) ==
  LET share == AtMost(left \div remaining, MaxSlice)
      slice == IF share < MinSlice THEN MinSlice ELSE share
  IN  IF remaining <= 1 \/ left <= TinyBudget \/ slice >= left THEN left ELSE slice

\* A call ends after any time up to what it is allowed; with no time left it
\* can only time out.
Durations(allowed, client) == IF client.slow THEN 0 .. allowed ELSE {0}
MayEnd(allowed, outcome, client) == client.slow /\ allowed = 0 => outcome = "timeout"

Spend(c, next, d) ==
  /\ llm' = [llm EXCEPT ![c] = next]
  /\ held' = [held EXCEPT ![c] = @ + d]

\* After an error: an error that is not worth a retry ends the call.
AfterAttempt(call, err, client) ==
  IF err = "ok" THEN [call EXCEPT !.at = "done", !.err = "none"]
  ELSE [call EXCEPT !.err = err,
          !.at = IF ~Eligible(err) THEN "done"
                 ELSE IF call.attempt <= client.retries THEN "backoff"
                 ELSE IF client.fallback > 0 THEN "fallback" ELSE "done"]

Attempt(c, client) ==
  LET call == llm[c] IN
  /\ call.at = "attempt"
  /\ LET allowed == Slice(call.left, client.retries + 2 - call.attempt) IN
     \E d \in Durations(allowed, client), outcome \in client.calls :
       /\ MayEnd(allowed, outcome, client)
       /\ Spend(c, AfterAttempt([call EXCEPT !.left = @ - d], outcome, client), d)

\* Mutant: the wait does not look at the deadline.
BackoffBlind(c, client) ==
  LET call == llm[c]
      wait == IF client.slow THEN call.wait ELSE 0
  IN  /\ call.at = "backoff"
      /\ Spend(c, [call EXCEPT !.at = "attempt", !.attempt = @ + 1, !.left = @ - wait,
                               !.wait = AtMost(2 * @, MaxBackoff)], wait)

\* The wait doubles each time.  The deadline may pass during it: then its error
\* ends the call, and no fallback follows.
Backoff(c, client) ==
  LET call == llm[c]
      wait == IF client.slow THEN call.wait ELSE 0
  IN  /\ call.at = "backoff"
      /\ \/ /\ call.left >= wait
            /\ Spend(c, [call EXCEPT !.at = "attempt", !.attempt = @ + 1, !.left = @ - wait,
                                     !.wait = AtMost(2 * @, MaxBackoff)], wait)
         \/ /\ client.slow /\ call.left <= wait
            /\ Spend(c, [call EXCEPT !.at = "done", !.err = "timeout", !.left = 0], call.left)

\* Mutant: the fallback has a whole deadline.
FallbackBudgetWhole(call, client) == client.budget

\* After a timeout the fallback runs on a context of its own.
FallbackBudget(call, client) ==
  IF call.err = "timeout" THEN client.fallback ELSE AtMost(client.fallback, call.left)

Fallback(c, client) ==
  LET call == llm[c] IN
  /\ call.at = "fallback"
  /\ LET allowed == FallbackBudget(call, client) IN
     \E d \in Durations(allowed, client), outcome \in client.calls :
       /\ MayEnd(allowed, outcome, client)
       /\ Spend(c, [call EXCEPT !.at = "done", !.fell = TRUE,
                                !.err = IF outcome = "ok" THEN "none" ELSE outcome], d)

ClientStep(c, client) == Attempt(c, client) \/ Backoff(c, client) \/ Fallback(c, client)

\* The longest one call of Reply takes.
Longest(client) == client.budget + client.fallback
=============================================================================
