----------------------------- MODULE RetryPolicy -----------------------------
(***************************************************************************)
(* The retry policy of a step and the pause before each attempt            *)
(* (retry/policy.go).  A duration is a signed integer of Width bits, in    *)
(* units of the default's initial pause; 64 bits in the code.              *)
(***************************************************************************)
EXTENDS Integers

CONSTANTS Width,       \* bits of a duration
          Overrides,   \* the retry: blocks of steps
          Hints,       \* the waits servers ask for
          MaxTries     \* bound: attempts of one step

ASSUME WidthAssumption == Width \in Nat /\ Width > 2

VARIABLE trying        \* [policy, attempt, hint, pause, jitter]
retryVars == <<trying>>

Unset == -1
Wrap(n) == LET r == n % 2^Width IN IF r >= 2^(Width - 1) THEN r - 2^Width ELSE r

AgentDefault == [attempts |-> 8, backoff |-> "exp", initial |-> 1, max |-> 60, codes |-> {78}, recovery |-> ""]
CodeDefault == [AgentDefault EXCEPT !.attempts = 1]
MaxHonoredRetryAfter == 300

backoffKindFromString(s) == IF s = "" THEN "exp" ELSE s
KnownBackoff(s) == s \in {"", "exp", "linear", "none"}
\* What the step sets wins, field by field; a zero count and an empty word are
\* unset, a zero duration and an empty list of codes are not.
Merge(dflt, o) ==
  [attempts |-> IF o.attempts # 0 THEN o.attempts ELSE dflt.attempts,
   backoff |-> IF o.backoff # "" THEN backoffKindFromString(o.backoff) ELSE dflt.backoff,
   initial |-> IF o.initial # Unset THEN o.initial ELSE dflt.initial,
   max |-> IF o.max # Unset THEN o.max ELSE dflt.max,
   codes |-> IF o.codes # {Unset} THEN o.codes ELSE dflt.codes,
   recovery |-> IF o.recovery # "" THEN o.recovery ELSE dflt.recovery]

Curve(p, attempt) ==
  CASE p.backoff = "linear" -> Wrap(p.initial * (attempt - 1))
    [] p.backoff = "exp" -> IF attempt - 2 >= Width - 2 THEN p.max ELSE Wrap(p.initial * 2^(attempt - 2))
BackoffFor(p, attempt) ==
  IF attempt <= 1 \/ p.backoff = "none" THEN 0
  ELSE IF p.max > 0 /\ Curve(p, attempt) > p.max THEN p.max ELSE Curve(p, attempt)
HintVerbatim(p, attempt, hint) == IF hint > BackoffFor(p, attempt) THEN hint ELSE BackoffFor(p, attempt)
\* The longer of the curve and what the server asked for, up to a ceiling.
baseFor(p, attempt, hint) ==
  LET capped == IF hint > MaxHonoredRetryAfter THEN MaxHonoredRetryAfter ELSE hint
  IN  IF hint > 0 /\ capped > BackoffFor(p, attempt) THEN capped ELSE BackoffFor(p, attempt)
\* A hash of the node's path and the attempt spreads over a quarter of the
\* pause; the two extremes stand for all of it.
jitterFor(base) == IF base <= 0 THEN {0} ELSE {0, base \div 4}
EffectiveBackoff(base, jitter) == IF base <= 0 THEN 0 ELSE base + jitter
IsRetryableExit(p, code) == code # 0 /\ code \notin p.codes

RetryInit == \E dflt \in {AgentDefault, CodeDefault}, o \in Overrides :
               /\ KnownBackoff(o.backoff)
               /\ trying = [policy |-> Merge(dflt, o), attempt |-> 1, hint |-> 0, pause |-> 0, jitter |-> 0]
NextAttempt(hint) ==
  LET p == trying.policy  n == trying.attempt + 1  base == baseFor(p, n, hint)
  IN  /\ trying.attempt < p.attempts /\ trying.attempt < MaxTries
      /\ \E j \in jitterFor(base) :
           trying' = [policy |-> p, attempt |-> n, hint |-> hint, pause |-> EffectiveBackoff(base, j), jitter |-> j]
RetryNext == \E hint \in Hints : NextAttempt(hint)
-----------------------------------------------------------------------------
Lesser(a, b) == IF a < b THEN a ELSE b
Greater(a, b) == IF a > b THEN a ELSE b
Exact(p, n) == IF p.backoff = "linear" THEN p.initial * (n - 1) ELSE p.initial * 2^(n - 2)
Fits(p, n) == Exact(p, n) < 2^(Width - 2)
\* A pause is never shorter than the server's wait, up to the ceiling, nor
\* longer than the larger of the two limits and a quarter; and while the curve
\* fits the width it is the curve, cut off at its maximum.  Beyond the width
\* (doubling overflows long before the guard on the shift) nothing is said.
PauseBounded ==
  LET p == trying.policy  n == trying.attempt  wait == Lesser(trying.hint, MaxHonoredRetryAfter)
      limit == Greater(wait, IF p.max > 0 THEN p.max ELSE Exact(p, n))
  IN  n > 1 =>
        /\ trying.pause >= wait
        /\ p.backoff # "none" /\ Fits(p, n) => trying.pause <= limit + limit \div 4
        /\ p.backoff # "none" /\ Fits(p, n) /\ Exact(p, n) > 0 =>
             trying.pause - trying.jitter = Greater(wait, IF p.max > 0 THEN Lesser(Exact(p, n), p.max) ELSE Exact(p, n))
\* A configuration error is given up at once unless the step lists its own
\* codes; success is never retried.
ExitsSorted == LET p == trying.policy IN ~IsRetryableExit(p, 0) /\ (p.codes = {78} => ~IsRetryableExit(p, 78)) /\ (78 \notin p.codes => IsRetryableExit(p, 78))
\* The pauses and exit codes of every retry block, merged with its default, over
\* all of its attempts (Merge, BackoffFor,
\* EffectiveBackoff, IsRetryableExit).
RetrySane == PauseBounded /\ ExitsSorted
=============================================================================
