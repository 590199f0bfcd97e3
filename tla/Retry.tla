------------------------------- MODULE Retry --------------------------------
(***************************************************************************)
(* The retry strategies of retry.cc.  A strategy is a value that says      *)
(* which indicator and which delay calculator it was made of; durations    *)
(* are whole units and backoff factors whole numbers.                      *)
(***************************************************************************)
EXTENDS Integers

\* ::grpc::StatusCode as far as the clients tell codes apart.
Codes == {"OK", "DEADLINE_EXCEEDED", "UNAVAILABLE", "INTERNAL"}

\* A RetryStrategy that is nullptr.
NoStrategy == [indicator |-> "none"]

LimitedBackoff(min_delay, backoff_factor, max_attempts) ==
  [indicator |-> "limited", max_attempts |-> max_attempts,
   delay |-> min_delay, factor |-> backoff_factor]

\* Both forms; the one without codes has an empty set of them.
UnlimitedConstantDelay(delay, unrecoverable_codes) ==
  [indicator |-> "unlimited", unrecoverable |-> unrecoverable_codes,
   delay |-> delay, factor |-> 1]

RetryStrategies ==
  {NoStrategy}
    \cup [indicator : {"limited"}, max_attempts : Nat, delay : Nat, factor : Nat]
    \cup [indicator : {"unlimited"}, unrecoverable : SUBSET Codes, delay : Nat, factor : {1}]

\* Mutant: one attempt too many.
IndicatesOneMore(s, failed_attempts, status) ==
  CASE s.indicator = "limited" -> failed_attempts <= s.max_attempts
    [] s.indicator = "unlimited" -> status \notin s.unrecoverable

\* The RetryIndicator of s.
Indicates(s, failed_attempts, status) ==
  CASE s.indicator = "limited" -> failed_attempts < s.max_attempts
    [] s.indicator = "unlimited" -> status \notin s.unrecoverable

\* External: std::pow, for whole numbers.
pow(base, exponent) ==
  LET p[n \in Nat] == IF n = 0 THEN 1 ELSE base * p[n - 1]
  IN  p[exponent]

\* The RetryDelayCalculator of s; a constant delay has factor 1.
Delay(s, failed_attempts) == pow(s.factor, failed_attempts - 1) * s.delay
=============================================================================
