------------------------------- MODULE Client -------------------------------
(***************************************************************************)
(* The unary Client of client.h: Write, which retries with a strategy      *)
(* (RetryWithStrategy of retry.cc), against a server that may answer with  *)
(* any status or not at all.  Time passes in units; a point in time is     *)
(* kept as the time that is left until it.                                 *)
(***************************************************************************)
EXTENDS Retry, Sequences

CONSTANTS
  Strategies,  \* retry_strategy_
  Timeouts,    \* timeout_
  MaxRetries   \* bound: retries that are counted

\* timeout_ is not set: there is no deadline.
Never == -1

ASSUME TimeoutsAssumption == Timeouts \in SUBSET (Nat \cup {Never})
ASSUME MaxRetriesAssumption == MaxRetries \in Nat
ASSUME StrategiesAssumption ==
  /\ Strategies \subseteq RetryStrategies
  /\ \A s \in Strategies : s.indicator = "limited" => s.max_attempts <= MaxRetries

VARIABLES
  retry_strategy, timeout,  \* of the Client
  pc,               \* where Write is
  left,             \* until the deadline that Write has computed
  context,          \* client_context_: time until its deadline, and if it was used
  failed_attempts,
  status,           \* internal_status
  sleep,            \* until the end of sleep_for
  delays            \* the delays so far, as far as they are counted

vars == <<retry_strategy, timeout, pc, left, context, failed_attempts, status, sleep, delays>>

\* The next failed attempt; the count stops where no strategy looks any more.
OneMore(n) == IF n <= MaxRetries THEN n + 1 ELSE n

\* ResetContext: a new ClientContext with the deadline of Write.
ResetContext(deadline) == [left |-> deadline, used |-> FALSE]

Init ==
  /\ retry_strategy \in Strategies /\ timeout \in Timeouts
  /\ pc = "idle" /\ left = Never /\ context = ResetContext(Never)
  /\ failed_attempts = 0 /\ status = "OK" /\ sleep = 0 /\ delays = <<>>

\* Write up to the first call of op.
Write ==
  /\ pc = "idle"
  /\ left' = timeout /\ context' = ResetContext(timeout)
  /\ failed_attempts' = 0 /\ status' = "OK" /\ delays' = <<>>
  /\ pc' = "calling"
  /\ UNCHANGED <<retry_strategy, timeout, sleep>>

\* External: what BlockingUnaryCall can return.  Past the deadline of its
\* context it fails; before, the server or the channel may also fail it.
Answers == IF context.left = 0 THEN {"DEADLINE_EXCEEDED"} ELSE Codes

\* RetryWithStrategy returns, and with it Write.
GiveUp ==
  /\ pc' = "idle"
  /\ UNCHANGED <<failed_attempts, sleep, delays>>

\* RetryWithStrategy goes to sleep before the next attempt.
SleepBeforeRetry ==
  /\ failed_attempts' = OneMore(failed_attempts)
  /\ sleep' = Delay(retry_strategy, failed_attempts')
  /\ delays' = IF Len(delays) < MaxRetries THEN Append(delays, sleep') ELSE delays
  /\ pc' = "sleeping"

\* Mutant: the attempts are not counted.
RetryUncounted(s) ==
  IF s # "OK" /\ retry_strategy # NoStrategy /\ Indicates(retry_strategy, 1, s)
  THEN SleepBeforeRetry ELSE GiveUp

\* One turn of the loop of RetryWithStrategy, after op has returned s.
RetryWithStrategy(s) ==
  IF s # "OK" /\ retry_strategy # NoStrategy
     /\ Indicates(retry_strategy, OneMore(failed_attempts), s)
  THEN SleepBeforeRetry ELSE GiveUp

\* WriteImpl: the blocking call returns.
Answer(s) ==
  /\ pc = "calling" /\ s \in Answers
  /\ status' = s
  /\ context' = [context EXCEPT !.used = TRUE]
  /\ RetryWithStrategy(s)
  /\ UNCHANGED <<retry_strategy, timeout, left>>

\* Mutant: the context of the failed call is kept.
ResetNothing ==
  /\ pc = "sleeping" /\ sleep = 0
  /\ pc' = "calling"
  /\ UNCHANGED <<retry_strategy, timeout, left, context, failed_attempts, status, sleep, delays>>

\* Mutant: every retry gets the whole timeout.
ResetTimeout ==
  /\ pc = "sleeping" /\ sleep = 0
  /\ context' = ResetContext(timeout)
  /\ pc' = "calling"
  /\ UNCHANGED <<retry_strategy, timeout, left, failed_attempts, status, sleep, delays>>

\* The sleep is over: RetryWithStrategy calls reset and then op again.
Reset ==
  /\ pc = "sleeping" /\ sleep = 0
  /\ context' = ResetContext(left)
  /\ pc' = "calling"
  /\ UNCHANGED <<retry_strategy, timeout, left, failed_attempts, status, sleep, delays>>

\* External: a unit of time passes for a point in time that is t units away.
Elapse(t) == IF t > 0 THEN t - 1 ELSE t

\* External: time passes.  A call returns when the deadline of its context is
\* reached, and a thread wakes up when its sleep is over.
Tick ==
  /\ (pc = "calling" /\ context.left # 0) \/ (pc = "sleeping" /\ sleep > 0)
  /\ left' = Elapse(left) /\ sleep' = Elapse(sleep)
  /\ context' = [context EXCEPT !.left = Elapse(@)]
  /\ UNCHANGED <<retry_strategy, timeout, pc, failed_attempts, status, delays>>

Next == Write \/ (\E s \in Codes : Answer(s)) \/ Reset \/ Tick

Spec == Init /\ [][Next]_vars

\* Time passes, the thread of the caller is scheduled, and a call whose
\* deadline has passed returns; a call without a deadline may never return.
FairSpec ==
  /\ Spec
  /\ WF_vars(Tick) /\ WF_vars(Reset)
  /\ WF_vars(context.left = 0 /\ \E s \in Codes : Answer(s))

-----------------------------------------------------------------------------

\* The values the variables take; no time is left after a deadline.
TypeOK ==
  /\ retry_strategy \in Strategies /\ timeout \in Timeouts
  /\ pc \in {"idle", "calling", "sleeping"}
  /\ left \in Nat \cup {Never}
  /\ context \in [left : Nat \cup {Never}, used : BOOLEAN]
  /\ failed_attempts \in 0..(MaxRetries + 1)
  /\ status \in Codes
  /\ sleep \in Nat
  /\ delays \in Seq(Nat) /\ Len(delays) <= MaxRetries

\* Every attempt of Write, and not only the first, has a context of its own: a
\* ClientContext serves one call (client.h:78, 85).
ContextsAreFresh == pc = "calling" => ~context.used

\* "'timeout' is used for every 'Write' separately, but multiple retries count
\* towards a single timeout" (client.h:59): whatever attempt is running, its
\* context has the deadline of this Write, so no attempt outlasts it.
OneTimeout == pc = "calling" => context.left = left

\* README.md:206-211 explains the limited strategy by its delays: with 5 attempts
\* there are retries "after 100ms, 200ms, 400ms and 800ms", and then no more.
\* A Write that fails with such a strategy has slept exactly those delays, each
\* factor times the one before.
BacksOffAsDocumented ==
  retry_strategy.indicator = "limited" =>
    /\ Len(delays) < 1 \/ delays[1] = retry_strategy.delay
    /\ \A i \in 2..Len(delays) : delays[i] = delays[i - 1] * retry_strategy.factor
    /\ pc = "idle" /\ status # "OK" /\ retry_strategy.max_attempts > 0 =>
         Len(delays) = retry_strategy.max_attempts - 1

\* A Write with a timeout and at most a limited strategy comes back, whatever
\* the server does (client.h:71).  With an unlimited strategy it need not: once
\* the deadline has passed every attempt fails at once, and is retried.
LimitedWriteReturns ==
  (retry_strategy.indicator \in {"none", "limited"} /\ timeout # Never /\ pc # "idle") ~> pc = "idle"
=============================================================================
