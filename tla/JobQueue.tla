------------------------------ MODULE JobQueue ------------------------------
(***************************************************************************)
(* The background-job queue: the table rapina_jobs, the producers that     *)
(* insert rows, and the workers that reap, claim, execute and settle them. *)
(*                                                                         *)
(* Every SQL statement of jobs/backend.rs is one atomic step; the three    *)
(* backends differ in syntax only.  Between two statements of a worker     *)
(* anything may happen: other workers' statements, the passing of time, a  *)
(* crash, a statement that fails.                                          *)
(*                                                                         *)
(* Timestamps.  The statements only compare run_at and locked_until with   *)
(* the database's CURRENT_TIMESTAMP, so the model keeps them relative to   *)
(* it: run_at and locked_until are the ticks still missing (zero or less:  *)
(* the moment has come) and Tick lets one unit of time pass.  started_at   *)
(* and finished_at are only ever NULL or set.                              *)
(***************************************************************************)
EXTENDS Integers, FiniteSets

CONSTANTS
    Job,        \* the ids insert_job may generate
    Worker,     \* worker tasks, of one process or of several
    Config,     \* Config[w]: the ResolvedQueueConfig of worker w
    Queue,      \* Queue[j]: the queue column of job j
    MaxRetries, \* MaxRetries[j]: the max_retries column of job j
    Handled,    \* the jobs whose job_type has a registered handler
    BackoffDelay(_, _), \* RetryPolicy::backoff_delay, see module RetryPolicy
    NULL,       \* SQL's NULL
    NoJob,      \* a worker that executes nothing
    MaxLate,    \* bound: run_at is not followed further than this into the past
    MaxFaults   \* bound: crashes, shutdowns and database errors of a behaviour

ASSUME WorkerAssumption ==
    /\ IsFiniteSet(Worker)
    /\ \A w \in Worker : /\ Config[w].batch_size \in Nat
                         /\ Config[w].job_timeout \in Nat

ASSUME JobAssumption ==
    /\ IsFiniteSet(Job)
    /\ NoJob \notin Job
    /\ Handled \subseteq Job
    /\ MaxRetries \in [Job -> Nat]

ASSUME BackoffAssumption ==
    \A j \in Job : \A n \in 1 .. (MaxRetries[j] - 1) : BackoffDelay(j, n) \in Nat

ASSUME BoundAssumption == /\ MaxLate \in Nat
                          /\ MaxFaults \in Nat
                          /\ NULL \notin Int \cup {"set"}

VARIABLES
    rows,    \* rows[j]: the row with id j, as the committed table shows it
    pc,      \* pc[w]: where worker w is in Worker::run
    batch,   \* batch[w]: the jobs w claimed and has not settled yet
    snap,    \* snap[w][j]: the attempts column in the JobRow that w's claim returned
    cur,     \* cur[w]: the job w is dispatching
    faults,  \* faults injected so far
    claims,  \* history: how often each job was claimed
    overran  \* history: the jobs reaped while a live worker still held them

vars == <<rows, pc, batch, snap, cur, faults, claims, overran>>

workerVars == <<pc, batch, snap, cur>>

history == <<claims, overran>>

-----------------------------------------------------------------------------
(* The table. "absent" and "uncommitted" are not statuses of the code: no  *)
(* row, and a row of a transaction that has not committed.                 *)

JobStatus == {"pending", "running", "completed", "failed"}

Row == [status : JobStatus \cup {"absent", "uncommitted"},
        attempts : Nat,
        run_at : Int,
        locked_until : Nat \cup {NULL},
        started_at : {NULL, "set"},
        finished_at : {NULL, "set"}]

AbsentRow == [status |-> "absent", attempts |-> 0, run_at |-> 0,
              locked_until |-> NULL, started_at |-> NULL, finished_at |-> NULL]

\* build_insert_stmt with the column defaults of the migration.
InsertedRow == [AbsentRow EXCEPT !.status = "pending"]

\* Mutant: the claim forgets to stamp the lease.
ClaimedRowNoLease(r, timeout) == [r EXCEPT !.status = "running", !.started_at = "set"]

\* build_claim_stmt
ClaimedRow(r, timeout) == [r EXCEPT !.status = "running",
                                    !.started_at = "set",
                                    !.locked_until = timeout]

\* build_success_stmt
SucceededRow(r) == [r EXCEPT !.status = "completed",
                             !.finished_at = "set",
                             !.locked_until = NULL]

\* build_fail_stmt, and the SET clause of build_fail_expired_stmt: locked_until stays.
FailedRow(r) == [r EXCEPT !.attempts = @ + 1,
                          !.status = "failed",
                          !.finished_at = "set"]

\* Mutant: the reaper does not charge the crashed run.
ReclaimedRowUncharged(r) == [r EXCEPT !.status = "pending",
                                      !.locked_until = NULL,
                                      !.started_at = NULL]

\* build_reclaim_stmt: run_at stays, so a reclaimed job is due at once.
ReclaimedRow(r) == [r EXCEPT !.attempts = @ + 1,
                             !.status = "pending",
                             !.locked_until = NULL,
                             !.started_at = NULL]

\* build_retry_stmt
RetriedRow(r, delay) == [ReclaimedRow(r) EXCEPT !.run_at = delay]

\* One unit of time passes for a row. Past deadlines are not followed for ever.
AgedRow(r) ==
    [r EXCEPT !.run_at = IF @ > 0 - MaxLate THEN @ - 1 ELSE @,
              !.locked_until = IF @ # NULL /\ @ > 0 THEN @ - 1 ELSE @]

Running(j) == rows[j].status = "running"

\* Mutant: the reaper does not look at the lease.
ExpiredIgnoringLease(j) == Running(j)

\* locked_until <= CURRENT_TIMESTAMP; a comparison with NULL is not true in SQL.
Expired(j) == Running(j) /\ rows[j].locked_until # NULL /\ rows[j].locked_until <= 0

Exhausted(j) == rows[j].attempts + 1 >= MaxRetries[j]

\* Mutant: the claim does not look at the status.
DueAnyStatus(q) == {j \in Job : rows[j].status \in {"pending", "running"} /\ Queue[j] = q
                                 /\ rows[j].run_at <= 0}

Due(q) == {j \in Job : rows[j].status = "pending" /\ Queue[j] = q /\ rows[j].run_at <= 0}

\* What ORDER BY run_at LIMIT batch_size can return. Ties are broken arbitrarily.
ClaimResult(w) ==
    LET due == Due(Config[w].queue)
        limit == Config[w].batch_size
    IN  {S \in SUBSET due :
            /\ Cardinality(S) = IF Cardinality(due) < limit THEN Cardinality(due) ELSE limit
            /\ \A i \in S, k \in due \ S : rows[i].run_at <= rows[k].run_at}

Holders(j) == {w \in Worker : j \in batch[w]}

-----------------------------------------------------------------------------
Init == /\ rows = [j \in Job |-> AbsentRow]
        /\ pc = [w \in Worker |-> "fail_expired"]
        /\ batch = [w \in Worker |-> {}]
        /\ snap = [w \in Worker |-> [j \in Job |-> 0]]
        /\ cur = [w \in Worker |-> NoJob]
        /\ faults = 0
        /\ claims = [j \in Job |-> 0]
        /\ overran = {}

Fault == faults < MaxFaults /\ faults' = faults + 1

NoFault == UNCHANGED faults

(***************************************************************************)
(* Producers: Jobs::enqueue commits on its own, Jobs::enqueue_with inserts *)
(* inside the caller's transaction, which commits or rolls back later.     *)
(***************************************************************************)
Enqueue(j) == /\ rows[j].status = "absent"
              /\ rows' = [rows EXCEPT ![j] = InsertedRow]
              /\ NoFault /\ UNCHANGED <<workerVars, history>>

EnqueueWith(j) == /\ rows[j].status = "absent"
                  /\ rows' = [rows EXCEPT ![j] = [InsertedRow EXCEPT !.status = "uncommitted"]]
                  /\ NoFault /\ UNCHANGED <<workerVars, history>>

Commit(j) == /\ rows[j].status = "uncommitted"
             /\ rows' = [rows EXCEPT ![j].status = "pending"]
             /\ NoFault /\ UNCHANGED <<workerVars, history>>

Rollback(j) == /\ rows[j].status = "uncommitted"
               /\ rows' = [rows EXCEPT ![j] = AbsentRow]
               /\ NoFault /\ UNCHANGED <<workerVars, history>>

(***************************************************************************)
(* Workers: one iteration of the loop of Worker::run is                    *)
(*   fail_expired -> reclaim -> claim -> (dispatch -> execute -> settle)*  *)
(*   -> sleep.                                                             *)
(***************************************************************************)
\* Mutant: only the jobs without budget are reaped.
ReapedExhaustedOnly(w, exhausted) ==
    {j \in Job : exhausted /\ Expired(j) /\ Queue[j] = Config[w].queue /\ Exhausted(j)}

Reaped(w, exhausted) ==
    {j \in Job : Expired(j) /\ Queue[j] = Config[w].queue /\ (Exhausted(j) = exhausted)}

\* reap_expired, first statement: jobs without retry budget are failed.
FailExpired(w) ==
    /\ pc[w] = "fail_expired"
    /\ rows' = [j \in Job |-> IF j \in Reaped(w, TRUE) THEN FailedRow(rows[j]) ELSE rows[j]]
    /\ overran' = overran \cup {j \in Reaped(w, TRUE) : Holders(j) # {}}
    /\ pc' = [pc EXCEPT ![w] = "reclaim"]
    /\ NoFault /\ UNCHANGED <<batch, snap, cur, claims>>

\* reap_expired, second statement: the others return to pending.
Reclaim(w) ==
    /\ pc[w] = "reclaim"
    /\ rows' = [j \in Job |-> IF j \in Reaped(w, FALSE) THEN ReclaimedRow(rows[j]) ELSE rows[j]]
    /\ overran' = overran \cup {j \in Reaped(w, FALSE) : Holders(j) # {}}
    /\ pc' = [pc EXCEPT ![w] = "claim"]
    /\ NoFault /\ UNCHANGED <<batch, snap, cur, claims>>

\* Either statement fails: the error is logged and the worker goes on to claim.
ReapError(w) ==
    /\ pc[w] \in {"fail_expired", "reclaim"}
    /\ pc' = [pc EXCEPT ![w] = "claim"]
    /\ Fault /\ UNCHANGED <<rows, batch, snap, cur, history>>

ClaimRows(w, S) ==
    /\ rows' = [j \in Job |-> IF j \in S THEN ClaimedRow(rows[j], Config[w].job_timeout)
                                         ELSE rows[j]]
    /\ claims' = [j \in Job |-> IF j \in S THEN claims[j] + 1 ELSE claims[j]]

Claim(w) ==
    /\ pc[w] = "claim"
    /\ \E S \in ClaimResult(w) :
        /\ ClaimRows(w, S)
        /\ batch' = [batch EXCEPT ![w] = S]
        /\ snap' = [snap EXCEPT ![w] = [j \in Job |-> IF j \in S THEN rows[j].attempts ELSE 0]]
        /\ pc' = [pc EXCEPT ![w] = IF S = {} THEN "sleep" ELSE "dispatch"]
    /\ NoFault /\ UNCHANGED <<cur, overran>>

\* The claim fails: logged, nothing to dispatch.
ClaimError(w) ==
    /\ pc[w] = "claim"
    /\ pc' = [pc EXCEPT ![w] = "sleep"]
    /\ Fault /\ UNCHANGED <<rows, batch, snap, cur, history>>

\* The claim commits, but its answer is lost or one of its rows does not
\* decode: the rows are running and no worker has them.
ClaimLost(w) ==
    /\ pc[w] = "claim"
    /\ \E S \in ClaimResult(w) : S # {} /\ ClaimRows(w, S)
    /\ pc' = [pc EXCEPT ![w] = "sleep"]
    /\ Fault /\ UNCHANGED <<batch, snap, cur, overran>>

\* The next job of the batch; RETURNING promises no order. A job whose type
\* has no handler is failed without being executed.
Dispatch(w) ==
    /\ pc[w] = "dispatch"
    /\ \E j \in batch[w] :
        /\ cur' = [cur EXCEPT ![w] = j]
        /\ pc' = [pc EXCEPT ![w] = IF j \in Handled THEN "execute" ELSE "nohandler"]
    /\ NoFault /\ UNCHANGED <<rows, batch, snap, history>>

\* The handler answers Ok, or it answers Err or panics (caught by catch_unwind).
HandlerReturns(w) ==
    /\ pc[w] = "execute"
    /\ pc' = [pc EXCEPT ![w] = "success"]
    /\ NoFault /\ UNCHANGED <<rows, batch, snap, cur, history>>

HandlerFails(w) ==
    /\ pc[w] = "execute"
    /\ pc' = [pc EXCEPT ![w] = "failure"]
    /\ NoFault /\ UNCHANGED <<rows, batch, snap, cur, history>>

\* Mutant: the settled job stays in the batch.
NextJobAgain(w) ==
    /\ cur' = [cur EXCEPT ![w] = NoJob]
    /\ pc' = [pc EXCEPT ![w] = "dispatch"]
    /\ UNCHANGED <<batch, snap>>

\* dispatch returns and the loop takes the next job of the batch.
NextJob(w) ==
    /\ batch' = [batch EXCEPT ![w] = @ \ {cur[w]}]
    /\ snap' = [snap EXCEPT ![w][cur[w]] = 0]
    /\ cur' = [cur EXCEPT ![w] = NoJob]
    /\ pc' = [pc EXCEPT ![w] = IF batch[w] = {cur[w]} THEN "sleep" ELSE "dispatch"]

\* Mutant: WHERE id = .. only, so that a late success revives a failed row.
ApplySuccessUnguarded(w) ==
    /\ pc[w] = "success"
    /\ rows' = [rows EXCEPT ![cur[w]] = SucceededRow(@)]
    /\ NextJob(w)
    /\ NoFault /\ UNCHANGED history

\* apply_success. WHERE id = .. AND status = 'running': whose lease the row
\* is under is not asked.
ApplySuccess(w) ==
    /\ pc[w] = "success"
    /\ rows' = [rows EXCEPT ![cur[w]] = IF Running(cur[w]) THEN SucceededRow(@) ELSE @]
    /\ NextJob(w)
    /\ NoFault /\ UNCHANGED history

\* Mutant: one retry too many.
FailureRowOffByOne(w, j, max_retries) ==
    IF snap[w][j] + 1 <= max_retries
    THEN RetriedRow(rows[j], BackoffDelay(j, snap[w][j] + 1))
    ELSE FailedRow(rows[j])

\* The row apply_failure writes: retry or fail is decided on the attempts the
\* claim returned, not on the row's.
FailureRow(w, j, max_retries) ==
    IF snap[w][j] + 1 < max_retries
    THEN RetriedRow(rows[j], BackoffDelay(j, snap[w][j] + 1))
    ELSE FailedRow(rows[j])

ApplyFailure(w) ==
    /\ pc[w] \in {"failure", "nohandler"}
    /\ LET budget == IF pc[w] = "nohandler" THEN 0 ELSE MaxRetries[cur[w]]
       IN rows' = [rows EXCEPT ![cur[w]] = IF Running(cur[w])
                                           THEN FailureRow(w, cur[w], budget) ELSE @]
    /\ NextJob(w)
    /\ NoFault /\ UNCHANGED history

\* The settling statement fails: logged at most, the row stays as it is.
ApplyLost(w) ==
    /\ pc[w] \in {"success", "failure", "nohandler"}
    /\ NextJob(w)
    /\ Fault /\ UNCHANGED <<rows, history>>

\* poll_interval has passed.
Poll(w) ==
    /\ pc[w] = "sleep"
    /\ pc' = [pc EXCEPT ![w] = "fail_expired"]
    /\ NoFault /\ UNCHANGED <<rows, batch, snap, cur, history>>

\* SIGINT or SIGTERM, seen by the select! between two batches.
Stop(w) ==
    /\ pc[w] = "sleep"
    /\ pc' = [pc EXCEPT ![w] = "down"]
    /\ Fault /\ UNCHANGED <<rows, batch, snap, cur, history>>

\* The process dies, or its runtime drops the task: all its memory is lost.
Crash(w) ==
    /\ pc[w] # "down"
    /\ pc' = [pc EXCEPT ![w] = "down"]
    /\ batch' = [batch EXCEPT ![w] = {}]
    /\ snap' = [snap EXCEPT ![w] = [j \in Job |-> 0]]
    /\ cur' = [cur EXCEPT ![w] = NoJob]
    /\ Fault /\ UNCHANGED <<rows, history>>

Restart(w) ==
    /\ pc[w] = "down"
    /\ pc' = [pc EXCEPT ![w] = "fail_expired"]
    /\ NoFault /\ UNCHANGED <<rows, batch, snap, cur, history>>

Tick == /\ rows' = [j \in Job |-> AgedRow(rows[j])]
        /\ NoFault /\ UNCHANGED <<workerVars, history>>

Produce(j) == Enqueue(j) \/ EnqueueWith(j) \/ Commit(j) \/ Rollback(j)

Reap(w) == FailExpired(w) \/ Reclaim(w)

Settle(w) == ApplySuccess(w) \/ ApplyFailure(w)

\* The steps a worker takes as long as it is up and nothing fails.
Work(w) == \/ Reap(w) \/ Claim(w) \/ Dispatch(w)
           \/ HandlerReturns(w) \/ HandlerFails(w)
           \/ Settle(w) \/ Poll(w) \/ Restart(w)

Disturb(w) == \/ ReapError(w) \/ ClaimError(w) \/ ClaimLost(w)
              \/ ApplyLost(w) \/ Stop(w) \/ Crash(w)

Next == \/ \E j \in Job : Produce(j)
        \/ \E w \in Worker : Work(w) \/ Disturb(w)
        \/ Tick

Spec == Init /\ [][Next]_vars

\* tokio polls every task that can run, handlers return in the end, the
\* supervisor restarts a worker, and time passes. Faults are never owed.
Fairness == /\ \A w \in Worker : WF_vars(Work(w))
            /\ WF_vars(Tick)

FairSpec == Spec /\ Fairness

-----------------------------------------------------------------------------
(* Properties *)

TypeOK == /\ rows \in [Job -> Row]
          /\ pc \in [Worker -> {"fail_expired", "reclaim", "claim", "dispatch", "execute",
                                "success", "failure", "nohandler", "sleep", "down"}]
          /\ batch \in [Worker -> SUBSET Job]
          /\ snap \in [Worker -> [Job -> Nat]]
          /\ cur \in [Worker -> Job \cup {NoJob}]
          /\ faults \in 0 .. MaxFaults
          /\ claims \in [Job -> Nat]
          /\ overran \subseteq Job

\* No row can be stranded: a running row always carries a lease that the reaper
\* can see expire (a NULL locked_until never compares), and only a running row
\* can be reaped or settled, whatever faults and races there were.
NoStrandedRow ==
    \A j \in Job :
        /\ rows[j].status = "running" => rows[j].locked_until # NULL /\ rows[j].started_at # NULL
        /\ rows[j].status = "pending" => rows[j].locked_until = NULL /\ rows[j].started_at = NULL
        /\ rows[j].status = "completed" => rows[j].locked_until = NULL
        /\ rows[j].finished_at # NULL <=> rows[j].status \in {"completed", "failed"}

\* The attempts column accounts for every claim of the job exactly once, no
\* matter which of its owners, stale owners or reapers ended the claim and which
\* statements were lost: claims = attempts, plus the one that runs or completed.
ClaimsAccounted ==
    \A j \in Job :
        claims[j] = rows[j].attempts + (IF rows[j].status \in {"running", "completed"} THEN 1 ELSE 0)

\* (id, attempts) identifies a claim: no two workers hold the same job with the
\* same attempts in their JobRow, and a worker whose attempts is still the row's
\* is the one the row is running or completed for.
AttemptsFenceClaims ==
    \A j \in Job :
        /\ \A v, w \in Holders(j) : snap[v][j] = snap[w][j] => v = w
        /\ \A w \in Holders(j) :
            /\ snap[w][j] <= rows[j].attempts
            /\ snap[w][j] = rows[j].attempts => rows[j].status \in {"running", "completed"}

\* As long as no lease of a job ran out under a live worker, at most one worker
\* holds it, and the row is running for that worker. This is what FOR UPDATE SKIP
\* LOCKED and the pending -> running claim are for.
ExclusiveUnlessOverrun ==
    \A j \in Job \ overran :
        /\ \A v, w \in Holders(j) : v = w
        /\ \A w \in Holders(j) : Running(j) /\ snap[w][j] = rows[j].attempts

\* max_retries counts executions, so a value of 0 still means one.
Budget(j) == IF MaxRetries[j] = 0 THEN 1 ELSE MaxRetries[j]

Colleagues(j) == {w \in Worker : Config[w].queue = Queue[j]}

\* The retry budget. Without an overrun a job is never charged more than its
\* budget of executions; with overruns, a stale worker may grant executions
\* beyond it, but at most one per other worker of the queue.
AttemptsBounded ==
    \A j \in Job :
        /\ j \notin overran => rows[j].attempts <= Budget(j)
        /\ Colleagues(j) # {} =>
              rows[j].attempts <= Budget(j) + Cardinality(Colleagues(j)) - 1

(***************************************************************************)
(* What the inductive invariants in the proof modules need besides.        *)
(***************************************************************************)

\* A worker that is not inside dispatch holds nothing, and it only ever holds
\* jobs of its own queue.
WorkerShape ==
    \A w \in Worker :
        /\ pc[w] \in {"fail_expired", "reclaim", "claim", "sleep", "down"} => batch[w] = {}
        /\ pc[w] \in {"execute", "success", "failure", "nohandler"} => cur[w] \in batch[w]
        /\ \A j \in batch[w] : Queue[j] = Config[w].queue

\* The holders whose failure would send the job back to pending.
Granting(j) == {w \in Holders(j) : snap[w][j] + 1 < MaxRetries[j]}

\* The documented budget: max_retries is the total execution count, so no
\* execution starts on a job that was charged that many executions already.
ExecutionBudget ==
    \A w \in Worker : pc[w] = "execute" => snap[w][cur[w]] < Budget(cur[w])

\* The lock is honoured as long as no earlier lease of the job ran out under a
\* live worker: neither the reaper nor another worker's result ends it early.
LockHeldUnlessOverrun ==
    [][\A j \in Job \ overran :
        /\ Running(j) /\ rows[j].locked_until # NULL /\ rows[j].locked_until > 0
        /\ rows'[j].status # "running"
        => \E w \in Holders(j) : snap[w][j] = rows[j].attempts /\ j \notin batch'[w]]_vars

\* What a client may know of a job: an uncommitted row does not exist.
ClientState(j) == IF rows[j].status \in {"absent", "uncommitted"} THEN "unknown"
                                                                ELSE rows[j].status

Lifecycle == INSTANCE JobLifecycle WITH
    state <- [j \in Job |-> ClientState(j)],
    charged <- [j \in Job |-> rows[j].attempts]

\* The queue implements the documented lifecycle: a completed or failed job is
\* never touched again by a late worker or a reaper, a job is started only from
\* pending, and every end of a run but a success is charged exactly once.
ImplementsLifecycle == Lifecycle!Spec

\* Every job that was committed is completed or failed in the end, whatever is
\* lost on the way.
EventuallySettled ==
    \A j \in Job : rows[j].status = "pending" ~> rows[j].status \in {"completed", "failed"}
=============================================================================
