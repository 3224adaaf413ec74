----------------------------- MODULE RetryPolicy -----------------------------
(***************************************************************************)
(* The delay before a failed job runs again, jobs/retry.rs.  A duration is *)
(* a number of time units.  A policy is what build_policy makes of the     *)
(* attributes of #[job]: its kind and its delay.                           *)
(***************************************************************************)
EXTENDS Integers

CONSTANTS
    Week,         \* the cap of the exponential delay, one week
    Saturation,   \* an exponent from which the power of 4 exceeds Week
    FloatOverflow \* the exponent from which 4.0.powf(n) is infinite, 512 for an f64

\* 4.0.powf, as far as it matters.
FourTo[n \in 0 .. Saturation] == IF n = 0 THEN 1 ELSE 4 * FourTo[n - 1]

ASSUME RetryAssumption ==
    /\ Week \in Nat \ {0}
    /\ Saturation \in Nat /\ FourTo[Saturation] >= Week
    /\ FloatOverflow \in Nat /\ FloatOverflow >= Saturation

\* RetryPolicy, as built by build_policy: an unknown kind is exponential.
Policy(kind, delay) ==
    IF kind \in {"fixed", "none"} THEN [kind |-> kind, delay |-> delay]
    ELSE [kind |-> "exponential", delay |-> delay]

\* The job's id taken modulo the base: below the base.
jitter(base, job_id) == IF base = 0 THEN 0 ELSE job_id % base

\* Mutant: the exponent starts one step too late.
ScaledLate(base, exponent) ==
    IF exponent >= Saturation THEN Week
    ELSE IF base * FourTo[exponent + 1] < Week THEN base * FourTo[exponent + 1] ELSE Week

\* (base * 4^exponent).min(one week). Zero times infinity is NaN, and
\* f64::min returns its other argument for a NaN.
Scaled(base, exponent) ==
    IF base = 0 THEN IF exponent >= FloatOverflow THEN Week ELSE 0
    ELSE IF exponent >= Saturation THEN Week
    ELSE IF base * FourTo[exponent] < Week THEN base * FourTo[exponent] ELSE Week

exponential_delay(base, attempts, job_id) ==
    IF attempts <= 1 THEN 0
    ELSE Scaled(base, attempts - 2) + jitter(base, job_id)

backoff_delay(policy, attempts, job_id) ==
    CASE policy.kind = "exponential" -> exponential_delay(policy.delay, attempts, job_id)
      [] policy.kind = "fixed" -> IF attempts <= 1 THEN 0 ELSE policy.delay
      [] policy.kind = "none" -> 0

=============================================================================
