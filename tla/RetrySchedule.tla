---------------------------- MODULE RetrySchedule ----------------------------
(***************************************************************************)
(* One job that fails each time it runs: the decisions of apply_failure    *)
(* and the delays it schedules, next to a schedule computed step by step.  *)
(***************************************************************************)
EXTENDS RetryPolicy

CONSTANTS
    Kinds,      \* values of the retry_policy attribute
    Delays,     \* values of the retry_delay_secs attribute
    JobIds,     \* job ids, as numbers
    Budgets     \* values of the max_retries column

ASSUME ScheduleAssumption == Delays \subseteq Nat /\ JobIds \subseteq Nat /\ Budgets \subseteq Nat

VARIABLES
    policy,      \* the policy build_policy returned
    job_id,
    max_retries,
    status,      \* the status column, "none" before the job is inserted
    attempts,    \* the attempts column
    delay,       \* the delay of the last retry, 0 before the first
    reference    \* the last delay without jitter, computed from the one before

scheduleVars == <<policy, job_id, max_retries, status, attempts, delay, reference>>

Least(a, b) == IF a < b THEN a ELSE b

OutOfRetries(new_attempts) == new_attempts >= max_retries

\* apply_failure. The reference grows by itself: nothing, the base, then four
\* times as long each time.
Fail ==
    /\ status = "pending"
    /\ attempts' = attempts + 1
    /\ IF OutOfRetries(attempts + 1)
       THEN /\ status' = "failed"
            /\ UNCHANGED <<delay, reference>>
       ELSE /\ status' = "pending"
            /\ delay' = backoff_delay(policy, attempts + 1, job_id)
            /\ reference' = IF attempts = 0 \/ policy.kind = "none" THEN 0
                            ELSE IF attempts = 1 \/ policy.kind = "fixed"
                                 THEN IF policy.kind = "fixed" THEN policy.delay
                                      ELSE Least(policy.delay, Week)
                            ELSE Least(4 * reference, Week)
    /\ UNCHANGED <<policy, job_id, max_retries>>

\* The job is enqueued with what its #[job] attributes say.
NewJob ==
    /\ status = "none"
    /\ status' = "pending"
    /\ \E kind \in Kinds, d \in Delays : policy' = Policy(kind, d)
    /\ job_id' \in JobIds
    /\ max_retries' \in Budgets
    /\ UNCHANGED <<attempts, delay, reference>>

ScheduleInit ==
    /\ status = "none"
    /\ policy = Policy("none", 0)
    /\ job_id = 0
    /\ max_retries = 0
    /\ attempts = 0
    /\ delay = 0
    /\ reference = 0

ScheduleNext == NewJob \/ Fail

ScheduleSpec == ScheduleInit /\ [][ScheduleNext]_scheduleVars

\* Each delay is the one the step by step schedule gives, plus a jitter that
\* is smaller than the base; only exponential delays are jittered. A base of
\* zero is no delay, until the power is infinite: then it is a week. The job
\* runs max_retries times. Where the documents say something else than the code
\* does, nothing is said here: of the policy "none" with a budget above one,
\* which by retry.rs:43 fails on the first error and in the code is retried at
\* once; of a jittered delay beyond the cap, which by retry.rs:108 there is not;
\* and of a budget of zero, with which the job still runs once.
ScheduleKept ==
    LET exponential == policy.kind = "exponential" /\ attempts > 1
        jittered == exponential /\ policy.delay > 0
        infinite == exponential /\ policy.delay = 0 /\ attempts - 2 >= FloatOverflow
    IN  /\ status = "pending" /\ policy.kind # "none" =>
              \/ delay = reference /\ ~jittered /\ ~infinite
              \/ delay \in reference .. (reference + policy.delay - 1) /\ jittered
              \/ delay > Week /\ jittered
              \/ delay = Week /\ infinite
        /\ status = "failed" /\ max_retries > 0 =>
              attempts = max_retries \/ policy.kind = "none"
        /\ status = "failed" /\ max_retries = 1 => attempts = 1

=============================================================================
