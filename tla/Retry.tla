------------------------------- MODULE Retry --------------------------------
(***************************************************************************)
(* When a failed row is tried again: exponential backoff in floating       *)
(* point, saturating at max_backoff, spread by jitter.                     *)
(***************************************************************************)
EXTENDS Config

CONSTANT MaxFloat   \* the largest finite float, scaled down

ASSUME MaxFloatAssumption == MaxFloat \in Nat

\* A float product is not finite past the largest float.
Times(x, y) == IF NotFinite \in {x, y} \/ x * y > MaxFloat THEN NotFinite ELSE x * y

powi(x, n) == LET power[i \in 0 .. n] == IF i = 0 THEN 1 ELSE Times(x, power[i - 1]) IN power[n]

retry_backoff(policy, current_attempts) ==
    LET candidate == Times(policy.initial_backoff, powi(policy.multiplier, current_attempts))
    IN IF candidate = NotFinite \/ candidate > policy.max_backoff
       THEN policy.max_backoff ELSE candidate

\* Mutant: a base that cannot be halved is halved nonetheless.
jittered_always(base) == [least |-> base \div 2, most |-> 2 * (base \div 2)]

\* The range of the draw: half the base and up to as much again.
jittered(base) ==
    LET half == base \div 2
    IN IF half = 0 THEN [least |-> base, most |-> base] ELSE [least |-> half, most |-> half + half]

clamp_attempts(attempts) == IF attempts < 0 THEN 0 ELSE attempts

received_retry_outcome(policy, attempts, terminal) ==
    terminal \/ clamp_attempts(attempts) + 1 >= policy.max_attempts

\* The wait after a failure; none when it is the last.
received_failure_schedule(policy, attempts, terminal) ==
    IF received_retry_outcome(policy, attempts, terminal) THEN Absent
    ELSE jittered(retry_backoff(policy, clamp_attempts(attempts)))
=============================================================================
