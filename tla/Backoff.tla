------------------------------ MODULE Backoff ------------------------------
(***************************************************************************)
(* The retry policy shipped with the client (retry.go, BackoffPolicy): a   *)
(* pure function of the number of attempts made and of the last outcome.   *)
(*                                                                         *)
(* A definition marked Fault is the next one with a bug seeded in it. No    *)
(* specification uses it: it stands in for the original when the           *)
(* properties are tested.                                                  *)
(*                                                                         *)
(* Durations are signed integers of a fixed width: MaxInt is the largest.  *)
(* The code multiplies a power of two by a duration without looking at     *)
(* overflow, so the product wraps here as it does there.                   *)
(***************************************************************************)
EXTENDS Integers

CONSTANTS
    MaxInt,             \* largest time.Duration
    MaxAttempts,        \* BackoffPolicy.MaxAttempts, <= 0 means unset
    BaseDelay,          \* BackoffPolicy.BaseDelay, <= 0 means unset
    MaxDelay,           \* BackoffPolicy.MaxDelay, <= 0 means unset
    DefaultAttempts, DefaultBase, DefaultCap,  \* 4, 250ms, 30s
    RetryableStatuses,  \* a set of statuses, or Nil
    RetryableMethods,   \* a set of methods, or Nil
    HonorRetryAfter,    \* what honorRetryAfter() returns
    Nil

ASSUME DurationAssumption ==
    /\ MaxInt \in Nat
    /\ MaxAttempts \in Int /\ BaseDelay \in Int /\ MaxDelay \in Int
    /\ DefaultAttempts \in Nat \ {0}
    /\ DefaultBase \in 1..MaxInt /\ DefaultCap \in 1..MaxInt
    /\ BaseDelay <= MaxInt /\ MaxDelay <= MaxInt
    /\ HonorRetryAfter \in BOOLEAN

----------------------------------------------------------------------------

\* A 2xx reply; the only statuses the transport reads as success.
Success(status) == status \in 200..299

\* The absence of a Retry-After header.
NoHeader == -1

\* What one attempt came back with: nothing yet, a reply, or a transport error.
Pending == [kind |-> "none", status |-> 0, hint |-> NoHeader]
Failure == [kind |-> "err",  status |-> 0, hint |-> NoHeader]
Reply(status, hint) == [kind |-> "resp", status |-> status, hint |-> hint]

\* Two's complement: the value an int64 holds after an overflowing product.
Wrap(x) ==
    LET r == (x + MaxInt + 1) % (2 * (MaxInt + 1)) IN r - MaxInt - 1

Or(value, default) == IF value <= 0 THEN default ELSE value

Attempts == Or(MaxAttempts, DefaultAttempts)
Base == Or(BaseDelay, DefaultBase)
Cap == Or(MaxDelay, DefaultCap)

\* Converting a float that no Duration can hold is left to the architecture:
\* the smallest value on one, the largest on another.
ToDuration(power) ==
    IF power <= MaxInt THEN {power} ELSE {-MaxInt - 1, MaxInt}

\* Fault: the lower bound forgotten.
Clamp_UpperOnly(d) == IF d > Cap THEN Cap ELSE d

Clamp(d) == IF d > Cap \/ d <= 0 THEN Cap ELSE d

BackoffFrom(power) == {Clamp(Wrap(p * Base)) : p \in ToDuration(power)}

\* The delays backoff(attempt) may return.
BackoffDelays(attempt) == BackoffFrom(2 ^ (attempt - 1))

Statuses ==
    IF RetryableStatuses = Nil
    THEN {408, 429, 500, 502, 503, 504} ELSE RetryableStatuses

MethodAllowed(method) ==
    RetryableMethods = Nil \/ method \in RetryableMethods

\* Fault: any reply is worth another try.
ShouldRetry_AnyReply(out, method) == out.kind # "none" /\ MethodAllowed(method)

\* A transport error is retried whatever the method is: the method is looked at
\* only when there is a reply.
ShouldRetry(out, method) ==
    \/ out.kind = "err"
    \/ /\ out.kind = "resp"
       /\ MethodAllowed(method)
       /\ out.status \in Statuses

\* Fault: one attempt too many.
NextDecisions_OffByOne(attempt, out, method) ==
    IF attempt > Attempts \/ ~ShouldRetry(out, method)
    THEN {[retry |-> FALSE, delay |-> 0]}
    ELSE {[retry |-> TRUE, delay |-> d] : d \in BackoffDelays(attempt)}

\* BackoffPolicy.Next: the decisions it may take after the attempt'th attempt.
NextDecisions(attempt, out, method) ==
    IF attempt >= Attempts \/ ~ShouldRetry(out, method)
    THEN {[retry |-> FALSE, delay |-> 0]}
    ELSE IF HonorRetryAfter /\ out.hint # NoHeader
         THEN {[retry |-> TRUE, delay |-> 0]}
         ELSE {[retry |-> TRUE, delay |-> d] : d \in BackoffDelays(attempt)}
=============================================================================
