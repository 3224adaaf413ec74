----------------------------- MODULE MCJobQueue -----------------------------
(* Small instances of JobQueue for TLC. *)
EXTENDS JobQueue, TLC

CONSTANTS j1, j2, w1, w2

\* All workers serve one queue, claim everything that is due, and their lease
\* lasts one tick.
MCConfig == [w \in Worker |-> [queue |-> "default", batch_size |-> 2, job_timeout |-> 1]]

\* The same with a batch smaller than the queue.
MCSingleConfig == [w \in Worker |-> [queue |-> "default", batch_size |-> 1, job_timeout |-> 1]]

MCQueue == [j \in Job |-> "default"]

MCMaxRetries == [j \in Job |-> 2]

MCMixedRetries == [j \in Job |-> IF j = j1 THEN 3 ELSE 0]

Retry == INSTANCE RetryPolicy WITH Week <- 4, Saturation <- 1, FloatOverflow <- 512

\* The first retry is due at once, later ones after a tick.
MCBackoffDelay(j, n) == Retry!backoff_delay(Retry!Policy("fixed", 1), n, 0)

=============================================================================
