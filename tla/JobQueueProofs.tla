--------------------------- MODULE JobQueueProofs ---------------------------
(***************************************************************************)
(* Theorems about JobQueue, for any number of jobs and workers, any        *)
(* configuration, backoff policy and number of faults: who holds a job,    *)
(* how many executions it is charged, and that the queue implements the    *)
(* lifecycle that clients are promised.                                    *)
(*                                                                         *)
(* Then what the settings of jobs and workers come to: the delays of a job *)
(* that keeps failing, and the workers that a configuration starts.  Both  *)
(* compute with a loop, a power and a list without duplicates, which the   *)
(* facts of Rounds take apart.                                             *)
(***************************************************************************)
EXTENDS JobQueue, RetrySchedule, JobConfig, FiniteSetTheorems, Rounds

-----------------------------------------------------------------------------
(* What each SQL statement does to a row. *)

\* Nothing is locked, started, finished or charged.
Fresh(r) == /\ r \in Row
            /\ r.attempts = 0
            /\ r.locked_until = NULL
            /\ r.started_at = NULL
            /\ r.finished_at = NULL

\* The initial row, the inserted row, and the inserted row before its commit.
LEMMA NewRows ==
    /\ Fresh(AbsentRow) /\ AbsentRow.status = "absent"
    /\ Fresh(InsertedRow) /\ InsertedRow.status = "pending"
    /\ LET r == [InsertedRow EXCEPT !.status = "uncommitted"]
       IN  Fresh(r) /\ r.status = "uncommitted"
<1>1. AbsentRow \in Row
  BY BoundAssumption DEF AbsentRow, Row, JobStatus
<1>2. Fresh(AbsentRow) /\ AbsentRow.status = "absent"
  BY <1>1 DEF AbsentRow, Fresh
<1>3. Fresh(InsertedRow) /\ InsertedRow.status = "pending"
  BY <1>2 DEF InsertedRow, Fresh, Row, JobStatus
<1>. QED
  BY <1>2, <1>3 DEF Fresh, Row, JobStatus

\* build_claim_stmt makes a running row with a lease and charges nothing.
LEMMA ClaimedRowIs ==
    ASSUME NEW r \in Row, NEW t \in Nat
    PROVE  /\ ClaimedRow(r, t) \in Row
           /\ ClaimedRow(r, t).status = "running"
           /\ ClaimedRow(r, t).attempts = r.attempts
           /\ ClaimedRow(r, t).locked_until = t
           /\ ClaimedRow(r, t).started_at = "set"
           /\ ClaimedRow(r, t).finished_at = r.finished_at
  BY DEF ClaimedRow, Row, JobStatus

\* build_success_stmt ends a row without charging an execution.
LEMMA SucceededRowIs ==
    ASSUME NEW r \in Row
    PROVE  /\ SucceededRow(r) \in Row
           /\ SucceededRow(r).status = "completed"
           /\ SucceededRow(r).attempts = r.attempts
           /\ SucceededRow(r).locked_until = NULL
           /\ SucceededRow(r).finished_at = "set"
  BY DEF SucceededRow, Row, JobStatus

\* build_fail_stmt and build_fail_expired_stmt end a row and charge an execution.
LEMMA FailedRowIs ==
    ASSUME NEW r \in Row
    PROVE  /\ FailedRow(r) \in Row
           /\ FailedRow(r).status = "failed"
           /\ FailedRow(r).attempts = r.attempts + 1
           /\ FailedRow(r).finished_at = "set"
<1>1. r.attempts + 1 \in Nat
  BY DEF Row
<1>. QED
  BY <1>1 DEF FailedRow, Row, JobStatus

\* build_reclaim_stmt charges an execution and unlocks the row.
LEMMA ReclaimedRowIs ==
    ASSUME NEW r \in Row
    PROVE  /\ ReclaimedRow(r) \in Row
           /\ ReclaimedRow(r).status = "pending"
           /\ ReclaimedRow(r).attempts = r.attempts + 1
           /\ ReclaimedRow(r).locked_until = NULL
           /\ ReclaimedRow(r).started_at = NULL
           /\ ReclaimedRow(r).finished_at = r.finished_at
<1>1. r.attempts + 1 \in Nat
  BY DEF Row
<1>. QED
  BY <1>1 DEF ReclaimedRow, Row, JobStatus

\* build_retry_stmt is a reclaim that also moves run_at.
LEMMA RetriedRowIs ==
    ASSUME NEW r \in Row, NEW d \in Nat
    PROVE  /\ RetriedRow(r, d) \in Row
           /\ RetriedRow(r, d).status = "pending"
           /\ RetriedRow(r, d).attempts = r.attempts + 1
           /\ RetriedRow(r, d).locked_until = NULL
           /\ RetriedRow(r, d).started_at = NULL
           /\ RetriedRow(r, d).finished_at = r.finished_at
  BY ReclaimedRowIs DEF RetriedRow, Row, JobStatus

\* Time changes no row but for its two deadlines.
LEMMA AgedRowIs ==
    ASSUME NEW r \in Row
    PROVE  /\ AgedRow(r) \in Row
           /\ AgedRow(r).status = r.status
           /\ AgedRow(r).attempts = r.attempts
           /\ (AgedRow(r).locked_until = NULL) <=> (r.locked_until = NULL)
           /\ AgedRow(r).started_at = r.started_at
           /\ AgedRow(r).finished_at = r.finished_at
<1>1. PICK d \in Int : d = IF r.run_at > 0 - MaxLate THEN r.run_at - 1 ELSE r.run_at
  BY BoundAssumption DEF Row
<1>2. PICK l \in Nat \cup {NULL} :
         /\ l = IF r.locked_until # NULL /\ r.locked_until > 0
                THEN r.locked_until - 1 ELSE r.locked_until
         /\ l = NULL <=> r.locked_until = NULL
  <2>1. CASE r.locked_until = NULL
    BY <2>1
  <2>2. CASE r.locked_until # NULL
    <3>1. r.locked_until \in Nat
      BY <2>2 DEF Row
    <3>. QED
      BY <2>2, <3>1, BoundAssumption
  <2>. QED
    BY <2>1, <2>2
<1>3. AgedRow(r) = [r EXCEPT !.run_at = d, !.locked_until = l]
  BY <1>1, <1>2 DEF AgedRow
<1>. QED
  BY <1>2, <1>3 DEF Row, JobStatus

-----------------------------------------------------------------------------
(* Type correctness, with the shape of a worker's state. *)

\* What a claim may return: due jobs of the worker's queue.
LEMMA ClaimResultIs ==
    ASSUME NEW w \in Worker, NEW S \in ClaimResult(w)
    PROVE  /\ S \subseteq Job
           /\ \A j \in S : rows[j].status = "pending" /\ Queue[j] = Config[w].queue
  BY DEF ClaimResult, Due

\* The row apply_failure writes is a retried or a failed one.
LEMMA FailureRowIs ==
    ASSUME TypeOK, NEW w \in Worker, NEW j \in Job, NEW max \in {0, MaxRetries[j]}
    PROVE  /\ FailureRow(w, j, max) \in Row
           /\ FailureRow(w, j, max).attempts = rows[j].attempts + 1
           /\ FailureRow(w, j, max).finished_at = rows[j].finished_at
                \/ FailureRow(w, j, max).finished_at = "set"
           /\ \/ /\ FailureRow(w, j, max).status = "failed"
                 /\ FailureRow(w, j, max).finished_at = "set"
              \/ /\ FailureRow(w, j, max).status = "pending"
                 /\ FailureRow(w, j, max).finished_at = rows[j].finished_at
                 /\ FailureRow(w, j, max).locked_until = NULL
                 /\ FailureRow(w, j, max).started_at = NULL
                 /\ snap[w][j] + 1 < MaxRetries[j]
<1>. rows[j] \in Row /\ snap[w][j] \in Nat /\ MaxRetries[j] \in Nat
  BY JobAssumption DEF TypeOK
<1>1. CASE snap[w][j] + 1 < max
  <2>1. max = MaxRetries[j] /\ snap[w][j] + 1 \in 1 .. (MaxRetries[j] - 1)
    BY <1>1
  <2>2. BackoffDelay(j, snap[w][j] + 1) \in Nat
    BY <2>1, BackoffAssumption
  <2>. QED
    BY <1>1, <2>1, <2>2, RetriedRowIs DEF FailureRow
<1>2. CASE ~(snap[w][j] + 1 < max)
  BY <1>2, FailedRowIs DEF FailureRow
<1>. QED
  BY <1>1, <1>2

\* What dispatch leaves behind when it returns.
LEMMA NextJobShape ==
    ASSUME TypeOK, WorkerShape, NEW w \in Worker, cur[w] \in batch[w], NextJob(w)
    PROVE  /\ pc' \in [Worker -> {"fail_expired", "reclaim", "claim", "dispatch", "execute",
                                  "success", "failure", "nohandler", "sleep", "down"}]
           /\ batch' \in [Worker -> SUBSET Job]
           /\ snap' \in [Worker -> [Job -> Nat]]
           /\ cur' \in [Worker -> Job \cup {NoJob}]
           /\ WorkerShape'
<1>. cur[w] \in Job
  BY DEF TypeOK
<1>1. batch' \in [Worker -> SUBSET Job]
  BY DEF TypeOK, NextJob
<1>2. snap' \in [Worker -> [Job -> Nat]]
  BY DEF TypeOK, NextJob
<1>3. cur' \in [Worker -> Job \cup {NoJob}]
  BY DEF TypeOK, NextJob
<1>4. pc' \in [Worker -> {"fail_expired", "reclaim", "claim", "dispatch", "execute",
                          "success", "failure", "nohandler", "sleep", "down"}]
  BY DEF TypeOK, NextJob
<1>5. WorkerShape'
  <2>. SUFFICES ASSUME NEW v \in Worker
                PROVE  /\ pc'[v] \in {"fail_expired", "reclaim", "claim", "sleep", "down"}
                             => batch'[v] = {}
                       /\ pc'[v] \in {"execute", "success", "failure", "nohandler"}
                             => cur'[v] \in batch'[v]
                       /\ \A j \in batch'[v] : Queue[j] = Config[v].queue
    BY DEF WorkerShape
  <2>1. CASE v = w
    BY <2>1 DEF TypeOK, WorkerShape, NextJob
  <2>2. CASE v # w
    BY <2>2 DEF TypeOK, WorkerShape, NextJob
  <2>. QED
    BY <2>1, <2>2
<1>. QED
  BY <1>1, <1>2, <1>3, <1>4, <1>5

\* Every step keeps the types and the shape of the workers' state.
LEMMA ShapeStep == TypeOK /\ WorkerShape /\ [Next]_vars => TypeOK' /\ WorkerShape'
<1>. SUFFICES ASSUME TypeOK, WorkerShape, [Next]_vars
              PROVE  TypeOK' /\ WorkerShape'
  OBVIOUS
<1>. USE DEF Fault, NoFault, workerVars, history
<1>1. ASSUME NEW j \in Job, Produce(j)
      PROVE  TypeOK' /\ WorkerShape'
  <2>1. rows' \in [Job -> Row]
    <3>1. rows[j] \in Row
      BY DEF TypeOK
    <3>2. [rows[j] EXCEPT !.status = "pending"] \in Row
      BY <3>1 DEF Row, JobStatus
    <3>. QED
      BY <1>1, <3>2, NewRows DEF Fresh, TypeOK, Produce, Enqueue, EnqueueWith, Commit, Rollback
  <2>2. UNCHANGED <<pc, batch, snap, cur, faults, claims, overran>>
    BY <1>1 DEF Produce, Enqueue, EnqueueWith, Commit, Rollback
  <2>. QED
    BY <2>1, <2>2 DEF TypeOK, WorkerShape
<1>2. ASSUME NEW w \in Worker, FailExpired(w)
      PROVE  TypeOK' /\ WorkerShape'
  <2>1. rows' \in [Job -> Row]
    BY <1>2, FailedRowIs DEF TypeOK, FailExpired
  <2>2. overran' \subseteq Job
    BY <1>2 DEF TypeOK, FailExpired, Reaped
  <2>. QED
    BY <1>2, <2>1, <2>2 DEF TypeOK, WorkerShape, FailExpired
<1>3. ASSUME NEW w \in Worker, Reclaim(w)
      PROVE  TypeOK' /\ WorkerShape'
  <2>1. rows' \in [Job -> Row]
    BY <1>3, ReclaimedRowIs DEF TypeOK, Reclaim
  <2>2. overran' \subseteq Job
    BY <1>3 DEF TypeOK, Reclaim, Reaped
  <2>. QED
    BY <1>3, <2>1, <2>2 DEF TypeOK, WorkerShape, Reclaim
<1>4. ASSUME NEW w \in Worker, NEW S \in ClaimResult(w), ClaimRows(w, S)
      PROVE  rows' \in [Job -> Row] /\ claims' \in [Job -> Nat]
  <2>1. Config[w].job_timeout \in Nat
    BY WorkerAssumption
  <2>2. \A j \in Job : ClaimedRow(rows[j], Config[w].job_timeout) \in Row
    BY <2>1, ClaimedRowIs DEF TypeOK
  <2>. QED
    BY <1>4, <2>2 DEF TypeOK, ClaimRows
<1>5. ASSUME NEW w \in Worker, Claim(w)
      PROVE  TypeOK' /\ WorkerShape'
  <2>1. PICK S \in ClaimResult(w) :
          /\ ClaimRows(w, S)
          /\ batch' = [batch EXCEPT ![w] = S]
          /\ snap' = [snap EXCEPT ![w] = [j \in Job |-> IF j \in S THEN rows[j].attempts ELSE 0]]
          /\ pc' = [pc EXCEPT ![w] = IF S = {} THEN "sleep" ELSE "dispatch"]
    BY <1>5 DEF Claim
  <2>2. rows' \in [Job -> Row] /\ claims' \in [Job -> Nat]
    BY <1>4, <2>1
  <2>3. S \subseteq Job /\ \A j \in S : Queue[j] = Config[w].queue
    BY ClaimResultIs
  <2>4. [j \in Job |-> IF j \in S THEN rows[j].attempts ELSE 0] \in [Job -> Nat]
    BY DEF TypeOK, Row
  <2>5. TypeOK'
    BY <1>5, <2>1, <2>2, <2>3, <2>4 DEF TypeOK, Claim
  <2>6. WorkerShape'
    BY <1>5, <2>1, <2>3 DEF TypeOK, WorkerShape, Claim
  <2>. QED
    BY <2>5, <2>6
<1>6. ASSUME NEW w \in Worker, ClaimLost(w)
      PROVE  TypeOK' /\ WorkerShape'
  <2>1. rows' \in [Job -> Row] /\ claims' \in [Job -> Nat]
    BY <1>4, <1>6 DEF ClaimLost
  <2>. QED
    BY <1>6, <2>1, BoundAssumption DEF TypeOK, WorkerShape, ClaimLost
<1>7. ASSUME NEW w \in Worker,
             \/ ReapError(w) \/ ClaimError(w) \/ Dispatch(w) \/ HandlerReturns(w)
             \/ HandlerFails(w) \/ Poll(w) \/ Stop(w) \/ Restart(w)
      PROVE  TypeOK' /\ WorkerShape'
  <2>1. TypeOK'
    <3>1. faults' \in 0 .. MaxFaults
      BY <1>7, BoundAssumption DEF TypeOK, ReapError, ClaimError, Dispatch, HandlerReturns,
                                   HandlerFails, Poll, Stop, Restart
    <3>2. cur' \in [Worker -> Job \cup {NoJob}]
      BY <1>7 DEF TypeOK, ReapError, ClaimError, Dispatch, HandlerReturns,
                  HandlerFails, Poll, Stop, Restart
    <3>. QED
      BY <1>7, <3>1, <3>2 DEF TypeOK, ReapError, ClaimError, Dispatch, HandlerReturns,
                              HandlerFails, Poll, Stop, Restart
  <2>2. WorkerShape'
    BY <1>7 DEF TypeOK, WorkerShape, ReapError, ClaimError, Dispatch, HandlerReturns,
                HandlerFails, Poll, Stop, Restart
  <2>. QED
    BY <2>1, <2>2
<1>8. ASSUME NEW w \in Worker, Settle(w) \/ ApplyLost(w)
      PROVE  TypeOK' /\ WorkerShape'
  <2>1. NextJob(w) /\ cur[w] \in batch[w]
    BY <1>8 DEF WorkerShape, Settle, ApplySuccess, ApplyFailure, ApplyLost
  <2>2. cur[w] \in Job /\ MaxRetries[cur[w]] \in Nat /\ rows[cur[w]] \in Row
    BY <2>1, JobAssumption DEF TypeOK
  <2>3. rows' \in [Job -> Row]
    <3>1. CASE ApplySuccess(w)
      BY <3>1, <2>2, SucceededRowIs DEF TypeOK, ApplySuccess
    <3>2. CASE ApplyFailure(w)
      <4>1. \A max \in {0, MaxRetries[cur[w]]} : FailureRow(w, cur[w], max) \in Row
        BY <2>2, FailureRowIs
      <4>. QED
        BY <3>2, <2>2, <4>1 DEF TypeOK, ApplyFailure
    <3>. QED
      BY <1>8, <3>1, <3>2 DEF TypeOK, Settle, ApplyLost
  <2>4. faults' \in 0 .. MaxFaults /\ UNCHANGED <<claims, overran>>
    BY <1>8, BoundAssumption DEF TypeOK, Settle, ApplySuccess, ApplyFailure, ApplyLost
  <2>. QED
    BY <2>1, <2>3, <2>4, NextJobShape DEF TypeOK
<1>9. ASSUME NEW w \in Worker, Crash(w)
      PROVE  TypeOK' /\ WorkerShape'
  <2>1. TypeOK'
    BY <1>9, BoundAssumption DEF TypeOK, Crash
  <2>2. WorkerShape'
    BY <1>9 DEF TypeOK, WorkerShape, Crash
  <2>. QED
    BY <2>1, <2>2
<1>10. CASE Tick
  <2>1. rows' \in [Job -> Row]
    BY <1>10, AgedRowIs DEF TypeOK, Tick
  <2>. QED
    BY <1>10, <2>1 DEF TypeOK, WorkerShape, Tick
<1>11. CASE UNCHANGED vars
  BY <1>11 DEF TypeOK, WorkerShape, vars
<1>. QED
  BY <1>1, <1>2, <1>3, <1>5, <1>6, <1>7, <1>8, <1>9, <1>10, <1>11
     DEF Next, Work, Disturb, Reap, Settle

\* The type invariant of the queue holds in every reachable state.
THEOREM TypeCorrect == Spec => []TypeOK
<1>1. Init => TypeOK /\ WorkerShape
  BY NewRows, BoundAssumption DEF Fresh, Init, TypeOK, WorkerShape
<1>. QED
  BY <1>1, ShapeStep, PTL DEF Spec

-----------------------------------------------------------------------------
(* The invariants that relate a row to its claims and holders, per job. *)

JobSafe(j) ==
    /\ rows[j].status \in {"absent", "uncommitted"} =>
        rows[j].attempts = 0 /\ rows[j].locked_until = NULL /\ rows[j].started_at = NULL
    /\ rows[j].status = "running" => rows[j].locked_until # NULL /\ rows[j].started_at # NULL
    /\ rows[j].status = "pending" => rows[j].locked_until = NULL /\ rows[j].started_at = NULL
    /\ rows[j].status = "completed" => rows[j].locked_until = NULL
    /\ rows[j].finished_at # NULL <=> rows[j].status \in {"completed", "failed"}
    /\ claims[j] = rows[j].attempts + (IF rows[j].status \in {"running", "completed"} THEN 1 ELSE 0)
    /\ \A v, w \in Holders(j) : snap[v][j] = snap[w][j] => v = w
    /\ \A w \in Holders(j) :
        /\ snap[w][j] <= rows[j].attempts
        /\ snap[w][j] = rows[j].attempts => rows[j].status \in {"running", "completed"}
    /\ j \notin overran =>
        /\ \A v, w \in Holders(j) : v = w
        /\ \A w \in Holders(j) : rows[j].status = "running" /\ snap[w][j] = rows[j].attempts

AllSafe == \A j \in Job : JobSafe(j)

\* The conjuncts of JobSafe, over all jobs, are four of the queue's invariants.
LEMMA AllSafeIs ==
    AllSafe => NoStrandedRow /\ ClaimsAccounted /\ AttemptsFenceClaims /\ ExclusiveUnlessOverrun
  BY DEF AllSafe, JobSafe, NoStrandedRow, ClaimsAccounted, AttemptsFenceClaims,
         ExclusiveUnlessOverrun, Running

\* Nobody holds a job that is pending for the first time, and a row that nobody
\* touched stays safe as long as it gains no holder.
LEMMA SafeUntouched ==
    ASSUME NEW j \in Job, TypeOK, JobSafe(j),
           rows'[j].status = rows[j].status,
           rows'[j].attempts = rows[j].attempts,
           rows'[j].locked_until = NULL <=> rows[j].locked_until = NULL,
           rows'[j].started_at = rows[j].started_at,
           rows'[j].finished_at = rows[j].finished_at,
           claims'[j] = claims[j],
           j \in overran => j \in overran',
           \A w \in Worker : j \in batch'[w] => j \in batch[w] /\ snap'[w][j] = snap[w][j]
    PROVE  JobSafe(j)'
<1>1. \A w \in Holders(j)' : w \in Holders(j) /\ snap'[w][j] = snap[w][j]
  BY DEF Holders
<1>. QED
  BY <1>1 DEF JobSafe

\* Producers: a job that was never claimed has no holder and no claim.
LEMMA SafeProduce ==
    ASSUME TypeOK, AllSafe, NEW i \in Job, Produce(i)
    PROVE  AllSafe'
<1>. USE DEF NoFault, workerVars, history
<1>. SUFFICES ASSUME NEW j \in Job PROVE JobSafe(j)'
  BY DEF AllSafe
<1>. JobSafe(j) /\ rows[j] \in Row /\ claims[j] \in Nat /\ rows \in [Job -> Row]
  BY DEF AllSafe, TypeOK
<1>1. UNCHANGED <<batch, snap, claims, overran>>
  BY DEF Produce, Enqueue, EnqueueWith, Commit, Rollback
<1>2. CASE j # i
  <2>1. rows'[j] = rows[j]
    BY <1>2 DEF Produce, Enqueue, EnqueueWith, Commit, Rollback
  <2>. QED
    BY <1>1, <2>1, SafeUntouched
<1>3. CASE j = i
  <2>1. rows[j].status \in {"absent", "uncommitted"}
    BY <1>3 DEF Produce, Enqueue, EnqueueWith, Commit, Rollback
  <2>2. Holders(j) = {} /\ claims[j] = 0
    <3>1. \A w \in Holders(j) : snap[w][j] \in Nat
      BY DEF TypeOK, Holders
    <3>. QED
      BY <2>1, <3>1 DEF JobSafe
  <2>3. /\ rows'[j].status \in {"absent", "uncommitted", "pending"}
        /\ rows'[j].attempts = 0
        /\ rows'[j].locked_until = NULL
        /\ rows'[j].started_at = NULL
        /\ rows'[j].finished_at = NULL
    <3>1. CASE Commit(i)
      BY <1>3, <2>1, <3>1 DEF Commit, JobSafe, Row
    <3>2. CASE Enqueue(i) \/ EnqueueWith(i) \/ Rollback(i)
      <4>1. rows'[j] \in {AbsentRow, InsertedRow, [InsertedRow EXCEPT !.status = "uncommitted"]}
        BY <1>3, <3>2 DEF Enqueue, EnqueueWith, Rollback
      <4>. QED
        BY <4>1, NewRows DEF Fresh
    <3>. QED
      BY <3>1, <3>2 DEF Produce
  <2>4. Holders(j)' = {}
    BY <1>1, <2>2 DEF Holders
  <2>. QED
    BY <1>1, <2>2, <2>3, <2>4 DEF JobSafe
<1>. QED
  BY <1>2, <1>3

\* The reaper: it charges each expired row once and marks those still held.
LEMMA SafeReap ==
    ASSUME TypeOK, AllSafe, NEW w \in Worker, Reap(w)
    PROVE  AllSafe'
<1>. SUFFICES ASSUME NEW j \in Job PROVE JobSafe(j)'
  BY DEF AllSafe
<1>. JobSafe(j) /\ rows[j] \in Row /\ claims[j] \in Nat
  BY DEF AllSafe, TypeOK
<1>1. UNCHANGED <<batch, snap, claims>> /\ overran \subseteq overran'
  BY DEF Reap, FailExpired, Reclaim
<1>2. PICK R \in SUBSET Job :
        /\ \A i \in R : rows[i].status = "running"
        /\ j \notin R => rows'[j] = rows[j]
        /\ j \in R => rows'[j] = FailedRow(rows[j]) \/ rows'[j] = ReclaimedRow(rows[j])
        /\ j \in R /\ Holders(j) # {} => j \in overran'
  <2>1. CASE FailExpired(w)
    <3>1. Reaped(w, TRUE) \in SUBSET Job
      BY DEF Reaped
    <3>. WITNESS Reaped(w, TRUE) \in SUBSET Job
    <3>. QED
      BY <2>1 DEF FailExpired, Reaped, Expired, Running
  <2>2. CASE Reclaim(w)
    <3>1. Reaped(w, FALSE) \in SUBSET Job
      BY DEF Reaped
    <3>. WITNESS Reaped(w, FALSE) \in SUBSET Job
    <3>. QED
      BY <2>2 DEF Reclaim, Reaped, Expired, Running
  <2>. QED
    BY <2>1, <2>2 DEF Reap
<1>3. CASE j \notin R
  BY <1>1, <1>2, <1>3, SafeUntouched
<1>4. CASE j \in R
  <2>1. rows[j].status = "running" /\ rows[j].attempts \in Nat /\ rows[j].finished_at = NULL
    BY <1>2, <1>4 DEF JobSafe, Row
  <2>2. /\ rows'[j].attempts = rows[j].attempts + 1
        /\ \/ rows'[j].status = "failed" /\ rows'[j].finished_at = "set"
           \/ /\ rows'[j].status = "pending" /\ rows'[j].finished_at = NULL
              /\ rows'[j].locked_until = NULL /\ rows'[j].started_at = NULL
    BY <1>2, <1>4, <2>1, FailedRowIs, ReclaimedRowIs
  <2>3. Holders(j)' = Holders(j) /\ \A v \in Holders(j) : snap'[v][j] = snap[v][j]
                                                      /\ snap[v][j] \in Nat
    BY <1>1 DEF Holders, TypeOK
  <2>. QED
    BY <1>1, <1>2, <1>4, <2>1, <2>2, <2>3, BoundAssumption DEF JobSafe
<1>. QED
  BY <1>3, <1>4

\* The claim: from pending to running, so whoever still holds the job has an
\* older attempts. The claimer of a lost answer is no holder at all.
LEMMA SafeClaim ==
    ASSUME TypeOK, WorkerShape, AllSafe, NEW w \in Worker, Claim(w) \/ ClaimLost(w)
    PROVE  AllSafe'
<1>. SUFFICES ASSUME NEW j \in Job PROVE JobSafe(j)'
  BY DEF AllSafe
<1>. JobSafe(j) /\ rows[j] \in Row /\ claims[j] \in Nat /\ claims \in [Job -> Nat]
  BY DEF AllSafe, TypeOK
<1>0. batch[w] = {} /\ overran' = overran
  BY DEF WorkerShape, Claim, ClaimLost
<1>1. PICK S \in ClaimResult(w) :
        /\ ClaimRows(w, S)
        /\ \/ /\ batch' = [batch EXCEPT ![w] = S]
              /\ snap' = [snap EXCEPT ![w] = [i \in Job |-> IF i \in S THEN rows[i].attempts ELSE 0]]
           \/ UNCHANGED <<batch, snap>>
  BY DEF Claim, ClaimLost
<1>2. \A v \in Worker : v # w => batch'[v] = batch[v] /\ snap'[v] = snap[v]
  BY <1>1 DEF TypeOK
<1>3. CASE j \notin S
  <2>1. rows'[j] = rows[j] /\ claims'[j] = claims[j]
    BY <1>1, <1>3 DEF ClaimRows
  <2>2. \A v \in Worker : j \in batch'[v] => j \in batch[v] /\ snap'[v][j] = snap[v][j]
    BY <1>0, <1>1, <1>2, <1>3 DEF TypeOK
  <2>. QED
    BY <1>0, <2>1, <2>2, SafeUntouched
<1>4. CASE j \in S
  <2>1. rows[j].status = "pending" /\ rows[j].attempts \in Nat /\ rows[j].finished_at = NULL
    BY <1>1, <1>4, ClaimResultIs DEF JobSafe, Row
  <2>2. /\ rows'[j].status = "running"
        /\ rows'[j].attempts = rows[j].attempts
        /\ rows'[j].locked_until # NULL
        /\ rows'[j].started_at # NULL
        /\ rows'[j].finished_at = NULL
        /\ claims'[j] = claims[j] + 1
    <3>1. Config[w].job_timeout \in Nat
      BY WorkerAssumption
    <3>2. rows'[j] = ClaimedRow(rows[j], Config[w].job_timeout) /\ claims'[j] = claims[j] + 1
      BY <1>1, <1>4 DEF ClaimRows
    <3>. QED
      <4>1. /\ rows'[j].status = "running"
            /\ rows'[j].attempts = rows[j].attempts
            /\ rows'[j].locked_until = Config[w].job_timeout
            /\ rows'[j].started_at = "set"
            /\ rows'[j].finished_at = NULL
        BY <2>1, <3>2 DEF ClaimedRow, Row
      <4>2. Config[w].job_timeout # NULL /\ "set" # NULL
        BY <3>1, BoundAssumption
      <4>. QED
        BY <3>2, <4>1, <4>2
  <2>3. \A v \in Holders(j)' :
          \/ v # w /\ v \in Holders(j) /\ snap'[v][j] = snap[v][j]
          \/ v = w /\ snap'[v][j] = rows[j].attempts
    <3>. SUFFICES ASSUME NEW v \in Worker, j \in batch'[v]
                  PROVE  \/ v # w /\ j \in batch[v] /\ snap'[v][j] = snap[v][j]
                         \/ v = w /\ snap'[v][j] = rows[j].attempts
      BY DEF Holders
    <3>1. CASE v # w
      BY <1>2, <3>1
    <3>2. CASE v = w
      BY <1>0, <1>1, <1>4, <3>2 DEF TypeOK
    <3>. QED
      BY <3>1, <3>2
  <2>4. \A v \in Holders(j) : snap[v][j] \in Nat /\ snap[v][j] < rows[j].attempts
    <3>1. \A v \in Holders(j) : snap[v][j] \in Nat
      BY DEF Holders, TypeOK
    <3>2. \A v \in Holders(j) : snap[v][j] <= rows[j].attempts /\ snap[v][j] # rows[j].attempts
      BY <2>1 DEF JobSafe
    <3>. QED
      BY <2>1, <3>1, <3>2
  <2>5. j \notin overran => Holders(j) = {}
    BY <2>1 DEF JobSafe
  <2>. QED
    BY <1>0, <2>1, <2>2, <2>3, <2>4, <2>5 DEF JobSafe
<1>. QED
  BY <1>3, <1>4

\* Settling: whoever settles, the row leaves running and the settler leaves the
\* holders; without an overrun the settler was the only one.
LEMMA SafeSettle ==
    ASSUME TypeOK, WorkerShape, AllSafe, NEW w \in Worker, Settle(w) \/ ApplyLost(w)
    PROVE  AllSafe'
<1>. SUFFICES ASSUME NEW j \in Job PROVE JobSafe(j)'
  BY DEF AllSafe
<1>. JobSafe(j) /\ rows[j] \in Row /\ claims[j] \in Nat
  BY DEF AllSafe, TypeOK
<1>. USE DEF history
<1>1. NextJob(w) /\ cur[w] \in batch[w] /\ UNCHANGED <<claims, overran>>
  BY DEF WorkerShape, Settle, ApplySuccess, ApplyFailure, ApplyLost
<1>2. \A v \in Worker : j \in batch'[v] =>
        /\ j \in batch[v]
        /\ snap'[v][j] = snap[v][j]
        /\ v = w => j # cur[w]
  BY <1>1 DEF NextJob, TypeOK
<1>3. CASE j # cur[w] \/ rows'[j] = rows[j]
  <2>1. rows'[j] = rows[j]
    BY <1>3 DEF Settle, ApplySuccess, ApplyFailure, ApplyLost, TypeOK
  <2>. QED
    BY <1>1, <1>2, <2>1, SafeUntouched
<1>4. CASE j = cur[w] /\ rows'[j] # rows[j]
  <2>1. rows[j].status = "running" /\ rows[j].attempts \in Nat /\ rows[j].finished_at = NULL
    BY <1>4 DEF Settle, ApplySuccess, ApplyFailure, ApplyLost, TypeOK, Running, JobSafe, Row
  <2>2. \/ rows'[j] = SucceededRow(rows[j])
        \/ \E max \in {0, MaxRetries[j]} : rows'[j] = FailureRow(w, j, max)
    BY <1>4, <2>1 DEF Settle, ApplySuccess, ApplyFailure, ApplyLost, TypeOK, Running
  <2>3. \/ /\ rows'[j].status = "completed"
           /\ rows'[j].attempts = rows[j].attempts
           /\ rows'[j].locked_until = NULL
           /\ rows'[j].finished_at = "set"
        \/ /\ rows'[j].status = "failed"
           /\ rows'[j].attempts = rows[j].attempts + 1
           /\ rows'[j].finished_at = "set"
        \/ /\ rows'[j].status = "pending"
           /\ rows'[j].attempts = rows[j].attempts + 1
           /\ rows'[j].locked_until = NULL
           /\ rows'[j].started_at = NULL
           /\ rows'[j].finished_at = NULL
    BY <2>1, <2>2, SucceededRowIs, FailureRowIs
  <2>4. \A v \in Holders(j)' : v \in Holders(j) \ {w} /\ snap'[v][j] = snap[v][j]
                              /\ snap[v][j] \in Nat
    BY <1>2, <1>4 DEF Holders, TypeOK
  <2>5. w \in Holders(j)
    BY <1>1, <1>4 DEF Holders
  <2>6. j \notin overran => Holders(j)' = {}
    BY <2>4, <2>5 DEF JobSafe
  <2>. QED
    BY <1>1, <2>1, <2>3, <2>4, <2>6, BoundAssumption DEF JobSafe
<1>. QED
  BY <1>3, <1>4

\* The steps that touch neither a row nor a batch, the crash and the clock.
LEMMA SafeOther ==
    ASSUME TypeOK, AllSafe,
           \/ Tick
           \/ UNCHANGED vars
           \/ \E w \in Worker :
                \/ ReapError(w) \/ ClaimError(w) \/ Dispatch(w) \/ HandlerReturns(w)
                \/ HandlerFails(w) \/ Poll(w) \/ Stop(w) \/ Restart(w) \/ Crash(w)
    PROVE  AllSafe'
<1>. SUFFICES ASSUME NEW j \in Job PROVE JobSafe(j)'
  BY DEF AllSafe
<1>. JobSafe(j) /\ rows[j] \in Row
  BY DEF AllSafe, TypeOK
<1>. USE DEF history, workerVars
<1>1. CASE Tick
  <2>1. rows'[j] = AgedRow(rows[j]) /\ UNCHANGED <<batch, snap, claims, overran>>
    BY <1>1 DEF Tick
  <2>. QED
    BY <2>1, AgedRowIs, SafeUntouched
<1>2. CASE UNCHANGED vars
  BY <1>2, SafeUntouched DEF vars
<1>3. ASSUME NEW w \in Worker, Crash(w)
      PROVE  JobSafe(j)'
  <2>1. \A v \in Worker : j \in batch'[v] => j \in batch[v] /\ snap'[v][j] = snap[v][j]
    BY <1>3 DEF Crash, TypeOK
  <2>2. UNCHANGED <<rows, claims, overran>>
    BY <1>3 DEF Crash
  <2>. QED
    BY <2>1, <2>2, SafeUntouched
<1>4. ASSUME NEW w \in Worker,
             \/ ReapError(w) \/ ClaimError(w) \/ Dispatch(w) \/ HandlerReturns(w)
             \/ HandlerFails(w) \/ Poll(w) \/ Stop(w) \/ Restart(w)
      PROVE  JobSafe(j)'
  <2>1. UNCHANGED <<rows, batch, snap, claims, overran>>
    BY <1>4 DEF ReapError, ClaimError, Dispatch, HandlerReturns, HandlerFails, Poll, Stop, Restart
  <2>. QED
    BY <2>1, SafeUntouched
<1>. QED
  BY <1>1, <1>2, <1>3, <1>4

\* The invariant holds initially.
LEMMA InitSafe == Init => TypeOK /\ WorkerShape /\ AllSafe
<1>. SUFFICES ASSUME Init PROVE TypeOK /\ WorkerShape /\ AllSafe
  OBVIOUS
<1>1. TypeOK /\ WorkerShape
  BY NewRows, BoundAssumption DEF Fresh, Init, TypeOK, WorkerShape
<1>2. AllSafe
  BY NewRows DEF Fresh, Init, AllSafe, JobSafe, Holders
<1>. QED
  BY <1>1, <1>2

\* Every step keeps every job safe.
LEMMA SafeStep == TypeOK /\ WorkerShape /\ AllSafe /\ [Next]_vars => AllSafe'
  BY SafeProduce, SafeReap, SafeClaim, SafeSettle, SafeOther DEF Next, Work, Disturb

\* Rows, claims and holders stay in step with each other: no row is stranded,
\* attempts accounts for every claim and tells the claims of a job apart, and a
\* job whose leases never ran out under a live worker has one holder at most.
THEOREM ClaimsAreSafe ==
    Spec => [](NoStrandedRow /\ ClaimsAccounted /\ AttemptsFenceClaims /\ ExclusiveUnlessOverrun)
  BY InitSafe, ShapeStep, SafeStep, AllSafeIs, PTL DEF Spec

\* No row that runs is out of the sight of every reaper.
THEOREM RowsNeverStranded == Spec => []NoStrandedRow
  BY ClaimsAreSafe, PTL

\* Every claim of a job is charged to it exactly once, or is still to be.
THEOREM EveryClaimCharged == Spec => []ClaimsAccounted
  BY ClaimsAreSafe, PTL

\* Two claims of one job never see the same number of attempts.
THEOREM ClaimsToldApart == Spec => []AttemptsFenceClaims
  BY ClaimsAreSafe, PTL

-----------------------------------------------------------------------------
(* Who may end a run. *)

\* LockHeldUnlessOverrun for one job and one step.
LockKept(j) ==
    /\ j \notin overran
    /\ Running(j)
    /\ rows[j].locked_until # NULL
    /\ rows[j].locked_until > 0
    /\ rows'[j].status # "running"
    => \E w \in Holders(j) : snap[w][j] = rows[j].attempts /\ j \notin batch'[w]

\* Only a job that does not run is produced or claimed, and only an expired one
\* is reaped, so none of these steps ends a lock.
LEMMA OthersKeepLock ==
    ASSUME TypeOK, NEW j \in Job, ~(\E w \in Worker : Settle(w)), [Next]_vars
    PROVE  LockKept(j)
<1>. SUFFICES ASSUME rows[j].status = "running", rows[j].locked_until # NULL,
                     rows[j].locked_until > 0
              PROVE  rows'[j].status = "running"
  BY DEF LockKept, Running
<1>. rows[j] \in Row /\ rows[j].locked_until \in Nat
  BY DEF TypeOK, Row
<1>1. ~Expired(j)
  BY DEF Expired
<1>2. ASSUME NEW i \in Job, Produce(i)
      PROVE  rows'[j].status = "running"
  <2>1. rows[i].status \in {"absent", "uncommitted"}
    BY <1>2 DEF Produce, Enqueue, EnqueueWith, Commit, Rollback
  <2>2. rows'[j] = rows[j]
    BY <1>2, <2>1 DEF Produce, Enqueue, EnqueueWith, Commit, Rollback, TypeOK
  <2>. QED
    BY <2>2
<1>3. ASSUME NEW w \in Worker, Reap(w)
      PROVE  rows'[j].status = "running"
  <2>1. j \notin Reaped(w, TRUE) /\ j \notin Reaped(w, FALSE)
    BY <1>1 DEF Reaped
  <2>2. rows'[j] = rows[j]
    BY <1>3, <2>1 DEF Reap, FailExpired, Reclaim
  <2>. QED
    BY <2>2
<1>4. ASSUME NEW w \in Worker, Claim(w) \/ ClaimLost(w)
      PROVE  rows'[j].status = "running"
  <2>1. PICK S \in ClaimResult(w) : ClaimRows(w, S)
    BY <1>4 DEF Claim, ClaimLost
  <2>2. j \notin S
    BY ClaimResultIs
  <2>. QED
    BY <2>1, <2>2 DEF ClaimRows
<1>5. CASE Tick
  BY <1>5, AgedRowIs DEF Tick
<1>6. CASE rows' = rows
  BY <1>6
<1>. QED
  BY <1>2, <1>3, <1>4, <1>5, <1>6
     DEF Next, Work, Disturb, vars, ReapError, ClaimError, Dispatch, HandlerReturns,
         HandlerFails, Poll, Stop, Restart, Crash, ApplyLost

\* Without an overrun the worker that settles is the one the row runs for.
LEMMA SettlerOwnsLock ==
    ASSUME TypeOK, WorkerShape, AllSafe, NEW j \in Job, NEW w \in Worker, Settle(w)
    PROVE  LockKept(j)
<1>. SUFFICES ASSUME j \notin overran, rows[j].status = "running", rows'[j].status # "running"
              PROVE  \E v \in Holders(j) : snap[v][j] = rows[j].attempts /\ j \notin batch'[v]
  BY DEF LockKept, Running
<1>1. cur[w] \in batch[w] /\ NextJob(w)
  BY DEF WorkerShape, Settle, ApplySuccess, ApplyFailure
<1>2. j = cur[w]
  BY DEF Settle, ApplySuccess, ApplyFailure, TypeOK
<1>3. w \in Holders(j) /\ snap[w][j] = rows[j].attempts
  BY <1>1, <1>2 DEF Holders, AllSafe, JobSafe
<1>4. j \notin batch'[w]
  BY <1>1, <1>2 DEF NextJob, TypeOK
<1>. QED
  BY <1>3, <1>4

\* The lock is held: as long as no lease of a job ran out under a live worker,
\* its run ends before its lease does only by the hand of the worker it runs for.
THEOREM LockIsHeld == Spec => LockHeldUnlessOverrun
<1>1. TypeOK /\ WorkerShape /\ AllSafe /\ [Next]_vars => \A j \in Job : LockKept(j)
  BY OthersKeepLock, SettlerOwnsLock
<1>2. (\A j \in Job : LockKept(j)) =>
        \A j \in Job \ overran :
            /\ Running(j) /\ rows[j].locked_until # NULL /\ rows[j].locked_until > 0
            /\ rows'[j].status # "running"
            => \E w \in Holders(j) : snap[w][j] = rows[j].attempts /\ j \notin batch'[w]
  BY DEF LockKept
<1>. QED
  BY <1>1, <1>2, InitSafe, ShapeStep, SafeStep, PTL DEF Spec, LockHeldUnlessOverrun

-----------------------------------------------------------------------------
(* The retry budget: how many executions a job can be charged.             *)
(* A failure is judged on the attempts its claim returned, so a worker     *)
(* whose lease ran out can send a job back to pending although its budget  *)
(* is used up.  The proof counts the workers that still can.               *)

\* The workers of a queue are finitely many, and so are their subsets.
LEMMA ColleaguesFinite ==
    ASSUME NEW j \in Job
    PROVE  /\ IsFiniteSet(Colleagues(j))
           /\ Cardinality(Colleagues(j)) \in Nat
           /\ Colleagues(j) # {} => Cardinality(Colleagues(j)) >= 1
           /\ \A G \in SUBSET Colleagues(j) :
                /\ IsFiniteSet(G)
                /\ Cardinality(G) \in Nat
                /\ Cardinality(G) <= Cardinality(Colleagues(j))
<1>1. Colleagues(j) \in SUBSET Worker
  BY DEF Colleagues
<1>2. IsFiniteSet(Colleagues(j))
  BY <1>1, FS_Subset, WorkerAssumption
<1>3. \A G \in SUBSET Colleagues(j) : IsFiniteSet(G) /\ Cardinality(G) <= Cardinality(Colleagues(j))
  BY <1>2, FS_Subset
<1>4. \A G \in SUBSET Colleagues(j) : Cardinality(G) \in Nat
  BY <1>3, FS_CardinalityType
<1>5. Cardinality(Colleagues(j)) \in Nat
  BY <1>2, FS_CardinalityType
<1>6. Colleagues(j) # {} => Cardinality(Colleagues(j)) # 0
  BY <1>2, FS_EmptySet
<1>. QED
  BY <1>2, <1>3, <1>4, <1>5, <1>6

\* A set of colleagues without a given one is smaller than any set with it.
LEMMA OneFewer ==
    ASSUME NEW j \in Job, NEW G \in SUBSET Colleagues(j), NEW w \in G,
           NEW H \in SUBSET (G \ {w})
    PROVE  Cardinality(H) + 1 <= Cardinality(G)
<1>1. IsFiniteSet(G) /\ Cardinality(G) \in Nat
  BY ColleaguesFinite
<1>2. IsFiniteSet(G \ {w}) /\ Cardinality(G \ {w}) = Cardinality(G) - 1
  BY <1>1, FS_RemoveElement
<1>3. Cardinality(H) <= Cardinality(G \ {w}) /\ IsFiniteSet(H)
  BY <1>2, FS_Subset
<1>4. Cardinality(H) \in Nat
  BY <1>3, FS_CardinalityType
<1>. QED
  BY <1>1, <1>2, <1>3, <1>4

\* Granting workers belong to the queue.
LEMMA GrantingAreColleagues ==
    ASSUME WorkerShape, NEW j \in Job
    PROVE  Granting(j) \in SUBSET Colleagues(j)
  BY DEF WorkerShape, Granting, Holders, Colleagues

\* A budget is at least one execution, and at least max_retries.
LEMMA BudgetIs ==
    ASSUME NEW j \in Job
    PROVE  /\ Budget(j) \in Nat
           /\ Budget(j) >= 1
           /\ Budget(j) >= MaxRetries[j]
           /\ MaxRetries[j] \in Nat
           /\ MaxRetries[j] >= 1 => Budget(j) = MaxRetries[j]
  BY JobAssumption DEF Budget

-----------------------------------------------------------------------------
(* The invariant, per job *)

JobBudget(j) ==
    LET open == rows[j].status # "failed"
        charged == rows[j].attempts
        colleagues == Cardinality(Colleagues(j))
    IN  /\ j \notin overran =>
             IF open THEN charged + 1 <= Budget(j) ELSE charged <= Budget(j)
        /\ Colleagues(j) # {} =>
             IF open THEN charged + 1 >= Budget(j) =>
                            charged + Cardinality(Granting(j)) <= Budget(j) + colleagues - 2
                     ELSE charged <= Budget(j) + colleagues - 1

\* A step that charges nothing and makes no granting worker keeps the budget.
LEMMA BudgetUntouched ==
    ASSUME NEW j \in Job, TypeOK, WorkerShape, JobBudget(j), WorkerShape',
           rows'[j].attempts = rows[j].attempts,
           rows'[j].status = "failed" <=> rows[j].status = "failed",
           j \in overran => j \in overran',
           rows[j].attempts + 1 >= Budget(j) => Granting(j)' \subseteq Granting(j)
    PROVE  JobBudget(j)'
<1>. rows[j].attempts \in Nat
  BY DEF TypeOK, Row
<1>1. Granting(j) \in SUBSET Colleagues(j) /\ Granting(j)' \in SUBSET Colleagues(j)
  BY GrantingAreColleagues DEF WorkerShape, Granting, Holders, Colleagues
<1>2. Cardinality(Granting(j)) \in Nat /\ Cardinality(Granting(j)') \in Nat
  BY <1>1, ColleaguesFinite
<1>3. rows[j].attempts + 1 >= Budget(j) => Cardinality(Granting(j)') <= Cardinality(Granting(j))
  BY <1>1, ColleaguesFinite, FS_Subset
<1>4. Colleagues(j)' = Colleagues(j) /\ Budget(j)' = Budget(j)
  BY DEF Colleagues, Budget
<1>. QED
  BY <1>2, <1>3, <1>4, BudgetIs, ColleaguesFinite DEF JobBudget

\* Failing an open job charges the last execution.
LEMMA BudgetFailed ==
    ASSUME NEW j \in Job, TypeOK, WorkerShape, JobBudget(j),
           rows[j].status # "failed",
           rows'[j].status = "failed",
           rows'[j].attempts = rows[j].attempts + 1,
           j \in overran => j \in overran'
    PROVE  JobBudget(j)'
<1>. rows[j].attempts \in Nat
  BY DEF TypeOK, Row
<1>1. Cardinality(Granting(j)) \in Nat
  BY GrantingAreColleagues, ColleaguesFinite
<1>2. Colleagues(j)' = Colleagues(j) /\ Budget(j)' = Budget(j)
  BY DEF Colleagues, Budget
<1>. QED
  BY <1>1, <1>2, BudgetIs, ColleaguesFinite DEF JobBudget

\* Sending a job back to pending is within the budget, or it uses up a granting
\* worker; either way one colleague, the one that takes the step, grants no more.
LEMMA BudgetReturned ==
    ASSUME NEW j \in Job, TypeOK, WorkerShape, JobBudget(j), WorkerShape',
           rows[j].status # "failed",
           rows'[j].status # "failed",
           rows'[j].attempts = rows[j].attempts + 1,
           NEW w \in Colleagues(j),
           Granting(j)' \subseteq Granting(j) \ {w},
           rows[j].attempts + 1 < MaxRetries[j] \/ w \in Granting(j),
           j \in overran => j \in overran',
           j \notin overran => j \in overran' \/ rows[j].attempts + 1 < MaxRetries[j]
    PROVE  JobBudget(j)'
<1>. DEFINE a == rows[j].attempts
            G == Granting(j)
            H == Granting(j)'
            C == Colleagues(j)
<1>0. a \in Nat
  BY DEF TypeOK, Row
<1>1. G \in SUBSET C /\ H \in SUBSET (G \ {w}) /\ H \in SUBSET (C \ {w})
  BY GrantingAreColleagues
<1>2. Cardinality(G) \in Nat /\ Cardinality(H) \in Nat /\ Cardinality(C) \in Nat
  BY <1>1, ColleaguesFinite
<1>3. Cardinality(H) + 1 <= Cardinality(C)
  BY <1>1, OneFewer
<1>4. w \in G => Cardinality(H) + 1 <= Cardinality(G)
  BY <1>1, OneFewer
<1>5. C' = C /\ Budget(j)' = Budget(j) /\ C # {}
  BY DEF Colleagues, Budget
<1>6. ASSUME j \notin overran'
      PROVE  a + 2 <= Budget(j)
  BY <1>0, <1>6, BudgetIs
<1>7. ASSUME a + 2 >= Budget(j)
      PROVE  a + 1 + Cardinality(H) <= Budget(j) + Cardinality(C) - 2
  <2>1. CASE a + 2 = Budget(j)
    BY <1>0, <1>2, <1>3, <2>1, BudgetIs
  <2>2. CASE a + 1 >= Budget(j)
    <3>1. w \in G
      BY <1>0, <2>2, BudgetIs
    <3>2. a + Cardinality(G) <= Budget(j) + Cardinality(C) - 2
      BY <1>5, <2>2 DEF JobBudget
    <3>. QED
      BY <1>0, <1>2, <1>4, <3>1, <3>2, BudgetIs
  <2>. QED
    BY <1>0, <1>7, <2>1, <2>2, BudgetIs
<1>8. rows'[j].attempts = a + 1
  OBVIOUS
<1>9. rows'[j].attempts + 1 = a + 2
  BY <1>0, <1>8
<1>. HIDE DEF a, C
<1>. QED
  BY <1>0, <1>5, <1>6, <1>7, <1>8, <1>9, BudgetIs DEF JobBudget, C

-----------------------------------------------------------------------------
(* Every step keeps every job's budget *)

\* The reaper holds nothing, so it is a colleague that grants nothing; it returns
\* a job only within the budget.
LEMMA BudgetReap ==
    ASSUME TypeOK, WorkerShape, WorkerShape', NEW w \in Worker, Reap(w),
           NEW j \in Job, JobBudget(j)
    PROVE  JobBudget(j)'
<1>. rows[j] \in Row /\ rows[j].attempts \in Nat /\ MaxRetries[j] \in Nat
  BY JobAssumption DEF TypeOK, Row
<1>1. UNCHANGED <<batch, snap>> /\ overran \subseteq overran' /\ batch[w] = {}
  BY DEF Reap, FailExpired, Reclaim, WorkerShape
<1>2. Granting(j)' = Granting(j) /\ w \notin Granting(j)
  BY <1>1 DEF Granting, Holders
<1>3. CASE rows'[j] = rows[j]
  BY <1>1, <1>2, <1>3, BudgetUntouched
<1>4. CASE FailExpired(w) /\ j \in Reaped(w, TRUE)
  <2>1. rows[j].status = "running" /\ rows'[j] = FailedRow(rows[j])
    BY <1>4 DEF FailExpired, Reaped, Expired, Running
  <2>2. rows'[j].status = "failed" /\ rows'[j].attempts = rows[j].attempts + 1
    BY <2>1, FailedRowIs
  <2>. QED
    BY <1>1, <2>1, <2>2, BudgetFailed
<1>5. CASE Reclaim(w) /\ j \in Reaped(w, FALSE)
  <2>1. rows[j].status = "running" /\ rows'[j] = ReclaimedRow(rows[j]) /\ w \in Colleagues(j)
    BY <1>5 DEF Reclaim, Reaped, Expired, Running, Colleagues
  <2>2. rows'[j].status = "pending" /\ rows'[j].attempts = rows[j].attempts + 1
    BY <2>1, ReclaimedRowIs
  <2>3. rows[j].attempts + 1 < MaxRetries[j]
    BY <1>5 DEF Reaped, Exhausted
  <2>. QED
    BY <1>1, <1>2, <2>1, <2>2, <2>3, BudgetReturned
<1>6. CASE FailExpired(w) /\ j \notin Reaped(w, TRUE)
  BY <1>3, <1>6 DEF FailExpired
<1>7. CASE Reclaim(w) /\ j \notin Reaped(w, FALSE)
  BY <1>3, <1>7 DEF Reclaim
<1>. QED
  BY <1>4, <1>5, <1>6, <1>7 DEF Reap

\* A claim at or past the last budgeted execution makes no granting worker.
LEMMA BudgetClaim ==
    ASSUME TypeOK, WorkerShape, WorkerShape', NEW w \in Worker, Claim(w) \/ ClaimLost(w),
           NEW j \in Job, JobBudget(j)
    PROVE  JobBudget(j)'
<1>. rows[j] \in Row /\ rows[j].attempts \in Nat
  BY DEF TypeOK, Row
<1>0. batch[w] = {} /\ overran' = overran
  BY DEF WorkerShape, Claim, ClaimLost
<1>1. PICK S \in ClaimResult(w) :
        /\ ClaimRows(w, S)
        /\ \/ /\ batch' = [batch EXCEPT ![w] = S]
              /\ snap' = [snap EXCEPT ![w] = [i \in Job |-> IF i \in S THEN rows[i].attempts ELSE 0]]
           \/ UNCHANGED <<batch, snap>>
  BY DEF Claim, ClaimLost
<1>2. \A v \in Worker : j \in batch'[v] =>
        \/ j \in batch[v] /\ snap'[v][j] = snap[v][j]
        \/ snap'[v][j] = rows[j].attempts
  <2>. SUFFICES ASSUME NEW v \in Worker, j \in batch'[v]
                PROVE  \/ j \in batch[v] /\ snap'[v][j] = snap[v][j]
                       \/ snap'[v][j] = rows[j].attempts
    OBVIOUS
  <2>1. CASE v = w
    BY <1>0, <1>1, <2>1 DEF TypeOK
  <2>2. CASE v # w
    BY <1>1, <2>2 DEF TypeOK
  <2>. QED
    BY <2>1, <2>2
<1>3. rows[j].attempts + 1 >= Budget(j) => Granting(j)' \subseteq Granting(j)
  <2>. SUFFICES ASSUME rows[j].attempts + 1 >= Budget(j), NEW v \in Granting(j)'
                PROVE  v \in Granting(j)
    OBVIOUS
  <2>1. v \in Worker /\ j \in batch'[v] /\ snap'[v][j] + 1 < MaxRetries[j]
    BY DEF Granting, Holders
  <2>2. snap'[v][j] # rows[j].attempts
    BY <2>1, BudgetIs
  <2>. QED
    BY <1>2, <2>1, <2>2 DEF Granting, Holders
<1>4. rows'[j].attempts = rows[j].attempts /\ (rows'[j].status = "failed" <=> rows[j].status = "failed")
  <2>1. CASE j \in S
    <3>1. rows[j].status = "pending" /\ rows'[j] = ClaimedRow(rows[j], Config[w].job_timeout)
      BY <1>1, <2>1, ClaimResultIs DEF ClaimRows
    <3>. QED
      BY <3>1 DEF ClaimedRow, Row
  <2>2. CASE j \notin S
    BY <1>1, <2>2 DEF ClaimRows
  <2>. QED
    BY <2>1, <2>2
<1>. QED
  BY <1>0, <1>3, <1>4, BudgetUntouched

\* A settling worker leaves the holders. If it returns the job it was granting.
LEMMA BudgetSettle ==
    ASSUME TypeOK, WorkerShape, WorkerShape', AllSafe, NEW w \in Worker, Settle(w) \/ ApplyLost(w),
           NEW j \in Job, JobBudget(j)
    PROVE  JobBudget(j)'
<1>. rows[j] \in Row /\ rows[j].attempts \in Nat /\ MaxRetries[j] \in Nat /\ JobSafe(j)
  BY JobAssumption DEF TypeOK, Row, AllSafe
<1>. USE DEF history
<1>1. NextJob(w) /\ cur[w] \in batch[w] /\ overran' = overran
  BY DEF WorkerShape, Settle, ApplySuccess, ApplyFailure, ApplyLost
<1>2. \A v \in Worker : j \in batch'[v] =>
        /\ j \in batch[v]
        /\ snap'[v][j] = snap[v][j]
        /\ v = w => j # cur[w]
  BY <1>1 DEF NextJob, TypeOK
<1>3. Granting(j)' \subseteq Granting(j) /\ (j = cur[w] => w \notin Granting(j)')
  BY <1>2 DEF Granting, Holders
<1>4. CASE rows'[j] = rows[j]
  BY <1>1, <1>3, <1>4, BudgetUntouched
<1>5. CASE j = cur[w] /\ rows'[j] # rows[j]
  <2>1. rows[j].status = "running"
    BY <1>5 DEF Settle, ApplySuccess, ApplyFailure, ApplyLost, TypeOK, Running
  <2>2. \/ rows'[j] = SucceededRow(rows[j])
        \/ \E max \in {0, MaxRetries[j]} : rows'[j] = FailureRow(w, j, max)
    BY <1>5, <2>1 DEF Settle, ApplySuccess, ApplyFailure, ApplyLost, TypeOK, Running
  <2>3. CASE rows'[j] = SucceededRow(rows[j])
    <3>1. rows'[j].status = "completed" /\ rows'[j].attempts = rows[j].attempts
      BY <2>3, SucceededRowIs
    <3>. QED
      BY <1>1, <1>3, <2>1, <3>1, BudgetUntouched
  <2>4. ASSUME NEW max \in {0, MaxRetries[j]}, rows'[j] = FailureRow(w, j, max)
        PROVE  JobBudget(j)'
    <3>1. rows'[j].attempts = rows[j].attempts + 1
      BY <2>4, FailureRowIs
    <3>2. CASE rows'[j].status = "failed"
      BY <1>1, <2>1, <3>1, <3>2, BudgetFailed
    <3>3. CASE rows'[j].status # "failed"
      <4>1. snap[w][j] + 1 < MaxRetries[j]
        BY <2>4, <3>3, FailureRowIs
      <4>2. w \in Holders(j) /\ w \in Granting(j) /\ w \in Colleagues(j)
        BY <1>1, <1>5, <4>1 DEF Granting, Holders, Colleagues, WorkerShape
      <4>3. j \notin overran => rows[j].attempts + 1 < MaxRetries[j]
        BY <4>1, <4>2 DEF JobSafe
      <4>. QED
        BY <1>1, <1>3, <1>5, <2>1, <3>1, <3>3, <4>2, <4>3, BudgetReturned
    <3>. QED
      BY <3>2, <3>3
  <2>. QED
    BY <2>2, <2>3, <2>4
<1>6. CASE j # cur[w]
  <2>1. rows'[j] = rows[j]
    BY <1>6 DEF Settle, ApplySuccess, ApplyFailure, ApplyLost, TypeOK
  <2>. QED
    BY <1>4, <2>1
<1>. QED
  BY <1>4, <1>5, <1>6

\* The other steps charge nothing and make no holder.
LEMMA BudgetOther ==
    ASSUME TypeOK, WorkerShape, WorkerShape', AllSafe,
           \/ Tick
           \/ UNCHANGED vars
           \/ \E i \in Job : Produce(i)
           \/ \E w \in Worker :
                \/ ReapError(w) \/ ClaimError(w) \/ Dispatch(w) \/ HandlerReturns(w)
                \/ HandlerFails(w) \/ Poll(w) \/ Stop(w) \/ Restart(w) \/ Crash(w),
           NEW j \in Job, JobBudget(j)
    PROVE  JobBudget(j)'
<1>. rows \in [Job -> Row] /\ rows[j] \in Row /\ JobSafe(j)
  BY DEF TypeOK, AllSafe
<1>. USE DEF history, workerVars
<1>1. CASE Tick
  <2>1. rows'[j] = AgedRow(rows[j]) /\ UNCHANGED <<batch, snap, overran>>
    BY <1>1 DEF Tick
  <2>2. Granting(j)' = Granting(j)
    BY <2>1 DEF Granting, Holders
  <2>. QED
    BY <2>1, <2>2, AgedRowIs, BudgetUntouched
<1>2. ASSUME NEW i \in Job, Produce(i)
      PROVE  JobBudget(j)'
  <2>1. UNCHANGED <<batch, snap, overran>>
    BY <1>2 DEF Produce, Enqueue, EnqueueWith, Commit, Rollback
  <2>2. Granting(j)' = Granting(j)
    BY <2>1 DEF Granting, Holders
  <2>3. CASE j # i
    <3>1. rows'[j] = rows[j]
      BY <1>2, <2>3 DEF Produce, Enqueue, EnqueueWith, Commit, Rollback
    <3>. QED
      BY <2>1, <2>2, <3>1, BudgetUntouched
  <2>4. CASE j = i
    <3>1. rows[j].status \in {"absent", "uncommitted"} /\ rows[j].attempts = 0
      BY <1>2, <2>4 DEF Produce, Enqueue, EnqueueWith, Commit, Rollback, JobSafe
    <3>2. rows'[j].status # "failed" /\ rows'[j].attempts = 0
      <4>1. CASE Commit(i)
        BY <2>4, <3>1, <4>1 DEF Commit, Row
      <4>2. CASE Enqueue(i) \/ EnqueueWith(i) \/ Rollback(i)
        BY <2>4, <4>2, NewRows DEF Enqueue, EnqueueWith, Rollback, Fresh
      <4>. QED
        BY <1>2, <4>1, <4>2 DEF Produce
    <3>. QED
      BY <2>1, <2>2, <3>1, <3>2, BudgetUntouched
  <2>. QED
    BY <2>3, <2>4
<1>3. ASSUME NEW w \in Worker, Crash(w)
      PROVE  JobBudget(j)'
  <2>1. \A v \in Worker : j \in batch'[v] => j \in batch[v] /\ snap'[v][j] = snap[v][j]
    BY <1>3 DEF Crash, TypeOK
  <2>2. UNCHANGED <<rows, overran>>
    BY <1>3 DEF Crash
  <2>3. Granting(j)' \subseteq Granting(j)
    BY <2>1 DEF Granting, Holders
  <2>. QED
    BY <2>2, <2>3, BudgetUntouched
<1>4. ASSUME \/ UNCHANGED vars
             \/ \E w \in Worker :
                  \/ ReapError(w) \/ ClaimError(w) \/ Dispatch(w) \/ HandlerReturns(w)
                  \/ HandlerFails(w) \/ Poll(w) \/ Stop(w) \/ Restart(w)
      PROVE  JobBudget(j)'
  <2>1. UNCHANGED <<rows, batch, snap, overran>>
    BY <1>4 DEF vars, ReapError, ClaimError, Dispatch, HandlerReturns, HandlerFails, Poll, Stop, Restart
  <2>2. Granting(j)' = Granting(j)
    BY <2>1 DEF Granting, Holders
  <2>. QED
    BY <2>1, <2>2, BudgetUntouched
<1>. QED
  BY <1>1, <1>2, <1>3, <1>4

\* The retry budget: without an overrun no job is charged more than max_retries
\* executions, and in every case at most one more per other worker of its queue.
THEOREM BudgetHolds == Spec => []AttemptsBounded
<1>. DEFINE Inv == TypeOK /\ WorkerShape /\ AllSafe /\ \A j \in Job : JobBudget(j)
<1>1. Init => Inv
  <2>. SUFFICES ASSUME Init PROVE Inv
    OBVIOUS
  <2>1. TypeOK /\ WorkerShape /\ AllSafe
    BY InitSafe
  <2>2. ASSUME NEW j \in Job
        PROVE  JobBudget(j)
    <3>1. rows[j].attempts = 0 /\ rows[j].status = "absent"
      BY NewRows DEF Init, Fresh
    <3>2. Granting(j) = {}
      BY DEF Granting, Holders, Init
    <3>. QED
      BY <3>1, <3>2, BudgetIs, ColleaguesFinite, FS_EmptySet DEF JobBudget
  <2>. QED
    BY <2>1, <2>2
<1>2. Inv /\ [Next]_vars => Inv'
  <2>. SUFFICES ASSUME Inv, [Next]_vars PROVE Inv'
    OBVIOUS
  <2>1. TypeOK' /\ WorkerShape' /\ AllSafe'
    BY ShapeStep, SafeStep
  <2>2. ASSUME NEW j \in Job
        PROVE  JobBudget(j)'
    BY <2>1, BudgetReap, BudgetClaim, BudgetSettle, BudgetOther DEF Next, Work, Disturb
  <2>. QED
    BY <2>1, <2>2
<1>3. Inv => AttemptsBounded
  <2>. SUFFICES ASSUME Inv, NEW j \in Job
                PROVE  /\ j \notin overran => rows[j].attempts <= Budget(j)
                       /\ Colleagues(j) # {} =>
                            rows[j].attempts <= Budget(j) + Cardinality(Colleagues(j)) - 1
    BY DEF AttemptsBounded
  <2>1. rows[j].attempts \in Nat /\ Cardinality(Granting(j)) \in Nat
    BY GrantingAreColleagues, ColleaguesFinite DEF TypeOK, Row
  <2>. QED
    BY <2>1, BudgetIs, ColleaguesFinite DEF JobBudget
<1>. QED
  BY <1>1, <1>2, <1>3, PTL DEF Spec

-----------------------------------------------------------------------------
(* The refinement: every step of a producer, a worker, a reaper, the clock *)
(* or a fault is a step of the documented lifecycle or changes nothing a   *)
(* client can see.                                                         *)

abs == <<[j \in Job |-> ClientState(j)], [j \in Job |-> rows[j].attempts]>>

\* A step that keeps every status and every attempts is invisible to clients.
LEMMA Invisible ==
    ASSUME \A j \in Job : rows'[j].status = rows[j].status /\ rows'[j].attempts = rows[j].attempts
    PROVE  UNCHANGED abs
  BY DEF abs, ClientState

\* Producers submit jobs, invisibly or at their commit.
LEMMA ProduceRefines ==
    ASSUME TypeOK, AllSafe, NEW i \in Job, Produce(i)
    PROVE  [Lifecycle!Next]_abs
<1>. rows \in [Job -> Row] /\ rows[i] \in Row /\ JobSafe(i)
  BY DEF TypeOK, AllSafe
<1>1. rows[i].status \in {"absent", "uncommitted"} /\ rows[i].attempts = 0
  BY DEF Produce, Enqueue, EnqueueWith, Commit, Rollback, JobSafe
<1>2. \A j \in Job : j # i => rows'[j] = rows[j]
  BY DEF Produce, Enqueue, EnqueueWith, Commit, Rollback
<1>3. CASE Enqueue(i) \/ Commit(i)
  <2>1. rows'[i].status = "pending" /\ rows'[i].attempts = 0
    <3>1. CASE Commit(i)
      BY <1>1, <3>1 DEF Commit, Row
    <3>2. CASE Enqueue(i)
      BY <3>2, NewRows DEF Enqueue, Fresh
    <3>. QED
      BY <1>3, <3>1, <3>2
  <2>2. Lifecycle!Submit(i)
    BY <1>1, <1>2, <2>1 DEF Lifecycle!Submit, ClientState
  <2>. QED
    BY <2>2 DEF Lifecycle!Next
<1>4. CASE EnqueueWith(i) \/ Rollback(i)
  <2>1. rows'[i].status \in {"absent", "uncommitted"} /\ rows'[i].attempts = 0
    BY <1>4, NewRows DEF EnqueueWith, Rollback, Fresh
  <2>. QED
    BY <1>1, <1>2, <2>1 DEF abs, ClientState
<1>. QED
  BY <1>3, <1>4 DEF Produce

\* A claim starts its batch.
LEMMA ClaimRefines ==
    ASSUME TypeOK, NEW w \in Worker, Claim(w) \/ ClaimLost(w)
    PROVE  [Lifecycle!Next]_abs
<1>1. PICK S \in ClaimResult(w) : ClaimRows(w, S)
  BY DEF Claim, ClaimLost
<1>2. S \in SUBSET Job /\ \A j \in S : rows[j].status = "pending"
  BY ClaimResultIs
<1>3. \A j \in Job : IF j \in S
                     THEN rows'[j].status = "running" /\ rows'[j].attempts = rows[j].attempts
                     ELSE rows'[j] = rows[j]
  <2>. SUFFICES ASSUME NEW j \in S
                PROVE  rows'[j].status = "running" /\ rows'[j].attempts = rows[j].attempts
    BY <1>1, <1>2 DEF ClaimRows
  <2>1. rows'[j] = ClaimedRow(rows[j], Config[w].job_timeout) /\ rows[j] \in Row
    BY <1>1, <1>2 DEF ClaimRows, TypeOK
  <2>. QED
    BY <2>1 DEF ClaimedRow, Row
<1>4. Lifecycle!Start(S)
  BY <1>2, <1>3 DEF Lifecycle!Start, ClientState
<1>. QED
  BY <1>2, <1>4 DEF Lifecycle!Next

\* Each statement of the reaper gives up on a set of running jobs.
LEMMA ReapRefines ==
    ASSUME TypeOK, NEW w \in Worker, Reap(w)
    PROVE  [Lifecycle!Next]_abs
<1>1. CASE FailExpired(w)
  <2>. DEFINE R == Reaped(w, TRUE)
  <2>1. R \in SUBSET Job /\ \A j \in R : rows[j].status = "running"
    BY DEF Reaped, Expired, Running
  <2>2. \A j \in Job : IF j \in R
                       THEN rows'[j].status = "failed" /\ rows'[j].attempts = rows[j].attempts + 1
                       ELSE rows'[j] = rows[j]
    BY <1>1, FailedRowIs DEF FailExpired, TypeOK
  <2>3. Lifecycle!GiveUp(R, "failed")
    BY <2>1, <2>2 DEF Lifecycle!GiveUp, ClientState
  <2>. QED
    BY <2>1, <2>3 DEF Lifecycle!Next
<1>2. CASE Reclaim(w)
  <2>. DEFINE R == Reaped(w, FALSE)
  <2>1. R \in SUBSET Job /\ \A j \in R : rows[j].status = "running"
    BY DEF Reaped, Expired, Running
  <2>2. \A j \in Job : IF j \in R
                       THEN rows'[j].status = "pending" /\ rows'[j].attempts = rows[j].attempts + 1
                       ELSE rows'[j] = rows[j]
    BY <1>2, ReclaimedRowIs DEF Reclaim, TypeOK
  <2>3. Lifecycle!GiveUp(R, "pending")
    BY <2>1, <2>2 DEF Lifecycle!GiveUp, ClientState
  <2>. QED
    BY <2>1, <2>3 DEF Lifecycle!Next
<1>. QED
  BY <1>1, <1>2 DEF Reap

\* Settling completes or gives up one running job, or comes too late and
\* changes nothing: a late worker never touches a finished job.
LEMMA SettleRefines ==
    ASSUME TypeOK, WorkerShape, NEW w \in Worker, Settle(w)
    PROVE  [Lifecycle!Next]_abs
<1>. DEFINE i == cur[w]
<1>1. i \in Job /\ rows[i] \in Row /\ MaxRetries[i] \in Nat
  BY JobAssumption DEF Settle, ApplySuccess, ApplyFailure, WorkerShape, TypeOK
<1>2. \A j \in Job : j # i => rows'[j] = rows[j]
  BY DEF Settle, ApplySuccess, ApplyFailure, TypeOK
<1>3. CASE ~Running(i)
  <2>1. rows'[i] = rows[i]
    BY <1>1, <1>3 DEF Settle, ApplySuccess, ApplyFailure, TypeOK
  <2>. QED
    BY <1>2, <2>1, Invisible
<1>4. CASE Running(i) /\ ApplySuccess(w)
  <2>1. rows[i].status = "running" /\ rows'[i] = SucceededRow(rows[i])
    BY <1>1, <1>4 DEF ApplySuccess, Running, TypeOK
  <2>2. rows'[i].status = "completed" /\ rows'[i].attempts = rows[i].attempts
    BY <1>1, <2>1, SucceededRowIs
  <2>3. Lifecycle!Complete(i)
    BY <1>1, <1>2, <2>1, <2>2 DEF Lifecycle!Complete, ClientState
  <2>. QED
    BY <1>1, <2>3 DEF Lifecycle!Next
<1>5. CASE Running(i) /\ ApplyFailure(w)
  <2>1. PICK max \in {0, MaxRetries[i]} : rows'[i] = FailureRow(w, i, max)
    BY <1>1, <1>5 DEF ApplyFailure, TypeOK
  <2>2. /\ rows'[i].attempts = rows[i].attempts + 1
        /\ rows[i].status = "running"
        /\ rows'[i].status = "pending" \/ rows'[i].status = "failed"
    BY <1>1, <1>5, <2>1, FailureRowIs DEF Running
  <2>3. ASSUME NEW s \in {"pending", "failed"}, rows'[i].status = s
        PROVE  Lifecycle!GiveUp({i}, s)
    BY <1>1, <1>2, <2>2, <2>3 DEF Lifecycle!GiveUp, ClientState
  <2>4. {i} \in SUBSET Job
    BY <1>1
  <2>. QED
    BY <2>2, <2>3, <2>4 DEF Lifecycle!Next
<1>. QED
  BY <1>3, <1>4, <1>5 DEF Settle

\* Time and all the steps that leave the table alone are invisible.
LEMMA OtherRefines ==
    ASSUME TypeOK,
           \/ Tick
           \/ UNCHANGED vars
           \/ \E w \in Worker :
                \/ ReapError(w) \/ ClaimError(w) \/ Dispatch(w) \/ HandlerReturns(w)
                \/ HandlerFails(w) \/ Poll(w) \/ Stop(w) \/ Restart(w) \/ Crash(w) \/ ApplyLost(w)
    PROVE  UNCHANGED abs
<1>1. CASE Tick
  <2>1. \A j \in Job : rows'[j].status = rows[j].status /\ rows'[j].attempts = rows[j].attempts
    BY <1>1, AgedRowIs DEF Tick, TypeOK
  <2>. QED
    BY <2>1, Invisible
<1>2. CASE ~Tick
  <2>1. rows' = rows
    BY <1>2 DEF vars, ReapError, ClaimError, Dispatch, HandlerReturns, HandlerFails, Poll, Stop,
                Restart, Crash, ApplyLost
  <2>. QED
    BY <2>1, Invisible
<1>. QED
  BY <1>1, <1>2

\* The queue implements the documented job lifecycle: started only from pending,
\* final once completed or failed, and charged once for each run that did not
\* complete.
THEOREM RefinesLifecycle == Spec => ImplementsLifecycle
<1>1. Init => Lifecycle!Init
  BY NewRows DEF Init, Lifecycle!Init, ClientState, Fresh
<1>2. TypeOK /\ WorkerShape /\ AllSafe /\ [Next]_vars => [Lifecycle!Next]_abs
  BY ProduceRefines, ClaimRefines, ReapRefines, SettleRefines, OtherRefines DEF Next, Work, Disturb
<1>3. Spec => [](TypeOK /\ WorkerShape /\ AllSafe)
  BY InitSafe, ShapeStep, SafeStep, PTL DEF Spec
<1>. QED
  BY <1>1, <1>2, <1>3, PTL DEF Spec, ImplementsLifecycle, Lifecycle!Spec, abs

-----------------------------------------------------------------------------
(* The delays *)

\* 4.0.powf is repeated multiplication.
LEMMA PowersOfFour ==
    /\ FourTo \in [0 .. Saturation -> Nat]
    /\ FourTo[0] = 1
    /\ \A n \in 1 .. Saturation : FourTo[n] = 4 * FourTo[n - 1]
<1> DEFINE step == [n \in 1 .. Saturation |-> [m \in Nat |-> 4 * m]]
<1>1. step \in [1 .. Saturation -> [Nat -> Nat]]
  OBVIOUS
<1>2. Saturation \in Nat
  BY RetryAssumption
<1>3. PICK run : IsRun(run, Saturation, Nat, 1, step)
  BY <1>1, <1>2, Iteration
<1>4. \A n \in 1 .. Saturation : run[n] = 4 * run[n - 1]
  <2> TAKE n \in 1 .. Saturation
  <2>1. n - 1 \in 0 .. Saturation
    BY <1>2
  <2>2. run[n - 1] \in Nat
    BY <1>3, <2>1 DEF IsRun
  <2> QED
    BY <1>3, <2>2 DEF IsRun
<1>5. run = [n \in 0 .. Saturation |-> IF n = 0 THEN 1 ELSE 4 * run[n - 1]]
  BY <1>2, <1>3, <1>4 DEF IsRun
<1>6. FourTo = [n \in 0 .. Saturation |-> IF n = 0 THEN 1 ELSE 4 * FourTo[n - 1]]
  BY <1>5 DEF FourTo
<1>7. FourTo[0] = 1 /\ \A n \in 1 .. Saturation : FourTo[n] = 4 * FourTo[n - 1]
  BY <1>2, <1>6
<1> DEFINE natural == {n \in 0 .. Saturation : FourTo[n] \in Nat}
<1>8. 0 \in natural /\ \A n \in 1 .. Saturation : n - 1 \in natural => n \in natural
  BY <1>2, <1>7
<1> HIDE DEF natural
<1>9. \A n \in 0 .. Saturation : n \in natural
  BY <1>2, <1>8, RoundByRound
<1>10. \A n \in 0 .. Saturation : FourTo[n] \in Nat
  BY <1>9 DEF natural
<1> QED
  BY <1>6, <1>7, <1>10

\* The base times a power of four, up to a week.
LEMMA ScaledSteps ==
    ASSUME NEW base \in Nat, base > 0
    PROVE  /\ Scaled(base, 0) = Least(base, Week)
           /\ \A e \in Nat : /\ Scaled(base, e) \in Nat
                             /\ Scaled(base, e + 1) = Least(4 * Scaled(base, e), Week)
<1>1. /\ Saturation \in Nat /\ Week \in Nat /\ Week > 0
      /\ FourTo[Saturation] >= Week /\ FourTo[0] = 1
  BY RetryAssumption, PowersOfFour
<1>2. \A e \in 0 .. Saturation : FourTo[e] \in Nat /\ base * FourTo[e] \in Nat /\ base * FourTo[e] >= FourTo[e]
  <2> TAKE e \in 0 .. Saturation
  <2>1. FourTo[e] \in Nat
    BY PowersOfFour
  <2>2. \A b, f \in Nat : b > 0 => b * f \in Nat /\ b * f >= f
    OBVIOUS
  <2> QED
    BY <2>1, <2>2
<1>3. Scaled(base, 0) = Least(base, Week)
  <2>1. CASE Saturation = 0
    BY <1>1, <2>1 DEF Scaled, Least
  <2>2. CASE Saturation # 0
    BY <1>1, <2>2 DEF Scaled, Least
  <2> QED
    BY <2>1, <2>2
<1>4. ASSUME NEW e \in Nat
      PROVE  /\ Scaled(base, e) \in Nat
             /\ Scaled(base, e + 1) = Least(4 * Scaled(base, e), Week)
  <2>1. CASE e >= Saturation
    BY <1>1, <2>1 DEF Scaled, Least
  <2>2. CASE e < Saturation
    <3>1. e \in 0 .. Saturation /\ e + 1 \in 1 .. Saturation /\ e + 1 \in 0 .. Saturation
      BY <1>1, <2>2
    <3>2. FourTo[e + 1] = 4 * FourTo[e]
      BY <3>1, PowersOfFour
    <3>3. PICK now \in Nat : now = base * FourTo[e]
      BY <1>2, <3>1
    <3>4. base * FourTo[e + 1] = 4 * now
      <4>1. \A b, f \in Nat : b * (4 * f) = 4 * (b * f)
        OBVIOUS
      <4> QED
        BY <1>2, <3>1, <3>2, <3>3, <4>1
    <3>5. Scaled(base, e) = IF now < Week THEN now ELSE Week
      BY <1>1, <2>2, <3>3 DEF Scaled
    <3>6. CASE e + 1 >= Saturation
      <4>1. e + 1 = Saturation
        BY <1>1, <2>2, <3>6
      <4>2. 4 * now >= Week
        BY <1>1, <1>2, <3>1, <3>4, <4>1
      <4>3. Scaled(base, e + 1) = Week
        BY <3>6 DEF Scaled
      <4> QED
        BY <1>1, <3>3, <3>5, <4>2, <4>3 DEF Least
    <3>7. CASE e + 1 < Saturation
      <4>1. Scaled(base, e + 1) = IF 4 * now < Week THEN 4 * now ELSE Week
        BY <1>1, <3>4, <3>7 DEF Scaled
      <4> QED
        BY <1>1, <3>3, <3>5, <4>1 DEF Least
    <3> QED
      BY <1>1, <3>6, <3>7
  <2> QED
    BY <1>1, <2>1, <2>2
<1> QED
  BY <1>3, <1>4

\* The next delay before its jitter, from the attempts alone.
Unjittered(p, n) ==
    IF n <= 1 \/ p.kind = "none" THEN 0
    ELSE IF p.kind = "fixed" THEN p.delay
    ELSE IF p.delay = 0 THEN 0 ELSE Scaled(p.delay, n - 2)

ScheduleInv ==
    /\ policy \in [kind : {"exponential", "fixed", "none"}, delay : Nat]
    /\ job_id \in Nat /\ max_retries \in Nat /\ attempts \in Nat
    /\ status \in {"none", "pending", "failed"}
    /\ status = "none" => attempts = 0
    /\ attempts = 0 => delay = 0 /\ reference = 0
    /\ status = "pending" =>
          /\ attempts > 0 => attempts < max_retries
          /\ attempts > 0 => delay = backoff_delay(policy, attempts, job_id)
          /\ reference = Unjittered(policy, attempts)
    /\ status = "failed" => attempts = IF max_retries = 0 THEN 1 ELSE max_retries

LEMMA ScheduleInvInit == ScheduleInit => ScheduleInv
<1> SUFFICES ASSUME ScheduleInit PROVE ScheduleInv
  OBVIOUS
<1>1. policy \in [kind : {"exponential", "fixed", "none"}, delay : Nat]
  BY DEF ScheduleInit, Policy
<1> QED
  BY <1>1 DEF ScheduleInit, ScheduleInv

LEMMA FailStep ==
    ASSUME ScheduleInv, Fail
    PROVE  ScheduleInv'
<1>1. /\ status = "pending" /\ attempts \in Nat /\ attempts' = attempts + 1 /\ attempts' \in Nat
      /\ policy' = policy /\ job_id' = job_id /\ max_retries' = max_retries
      /\ policy.kind \in {"exponential", "fixed", "none"} /\ policy.delay \in Nat
  BY DEF ScheduleInv, Fail
<1>2. CASE attempts + 1 >= max_retries
  <2>1. status' = "failed"
    BY <1>2 DEF Fail, OutOfRetries
  <2>2. attempts + 1 = IF max_retries = 0 THEN 1 ELSE max_retries
    BY <1>1, <1>2 DEF ScheduleInv
  <2> QED
    BY <1>1, <2>1, <2>2 DEF ScheduleInv
<1>3. CASE ~(attempts + 1 >= max_retries)
  <2>1. /\ status' = "pending" /\ delay' = backoff_delay(policy, attempts + 1, job_id)
        /\ reference' = IF attempts = 0 \/ policy.kind = "none" THEN 0
                        ELSE IF attempts = 1 \/ policy.kind = "fixed"
                             THEN IF policy.kind = "fixed" THEN policy.delay
                                  ELSE Least(policy.delay, Week)
                        ELSE Least(4 * reference, Week)
    BY <1>3 DEF Fail, OutOfRetries
  <2>2. reference = Unjittered(policy, attempts)
    BY <1>1 DEF ScheduleInv
  <2>3. reference' = Unjittered(policy, attempts + 1)
    <3>1. CASE attempts = 0 \/ policy.kind = "none" \/ policy.kind = "fixed"
      BY <1>1, <2>1, <3>1 DEF Unjittered, ScheduleInv
    <3>2. CASE attempts > 0 /\ policy.kind = "exponential" /\ policy.delay = 0
      BY <1>1, <2>1, <2>2, <3>2, RetryAssumption DEF Unjittered, Least, ScheduleInv
    <3>3. CASE attempts > 0 /\ policy.kind = "exponential" /\ policy.delay > 0
      <4>1. CASE attempts = 1
        BY SMTT(20), <1>1, <2>1, <3>3, <4>1, ScaledSteps DEF Unjittered
      <4>2. CASE attempts > 1
        <5>1. attempts - 2 \in Nat /\ (attempts - 2) + 1 = (attempts + 1) - 2
          BY <1>1, <4>2 DEF ScheduleInv
        <5>2. reference = Scaled(policy.delay, attempts - 2)
          BY <1>1, <2>2, <3>3, <4>2 DEF Unjittered
        <5>3. Scaled(policy.delay, (attempts - 2) + 1) = Least(4 * Scaled(policy.delay, attempts - 2), Week)
          BY <1>1, <3>3, <5>1, ScaledSteps
        <5>4. Scaled(policy.delay, (attempts + 1) - 2) = Least(4 * reference, Week)
          BY <5>1, <5>2, <5>3
        <5> QED
          BY <1>1, <2>1, <3>3, <4>2, <5>4 DEF Unjittered
      <4> QED
        BY <3>3, <4>1, <4>2 DEF ScheduleInv
    <3> QED
      BY <1>1, <3>1, <3>2, <3>3 DEF ScheduleInv
  <2>4. attempts' < max_retries'
    BY <1>1, <1>3 DEF ScheduleInv
  <2> QED
    BY <1>1, <2>1, <2>3, <2>4 DEF ScheduleInv
<1> QED
  BY <1>2, <1>3

LEMMA ScheduleInvStep == ScheduleInv /\ [ScheduleNext]_scheduleVars => ScheduleInv'
<1> SUFFICES ASSUME ScheduleInv, [ScheduleNext]_scheduleVars PROVE ScheduleInv'
  OBVIOUS
<1>1. CASE NewJob
  <2>1. PICK kind \in Kinds, d \in Delays : policy' = Policy(kind, d)
    BY <1>1 DEF NewJob
  <2>2. policy' \in [kind : {"exponential", "fixed", "none"}, delay : Nat]
    BY <2>1, ScheduleAssumption DEF Policy
  <2>3. job_id' \in Nat /\ max_retries' \in Nat /\ status' = "pending" /\ attempts' = 0
    BY <1>1, ScheduleAssumption DEF NewJob, ScheduleInv
  <2>4. reference' = 0 /\ delay' = 0
    BY <1>1 DEF NewJob, ScheduleInv
  <2> QED
    BY <2>2, <2>3, <2>4 DEF ScheduleInv, Unjittered
<1>2. CASE Fail
  BY <1>2, FailStep
<1>3. CASE UNCHANGED scheduleVars
  BY <1>3 DEF scheduleVars, ScheduleInv
<1> QED
  BY <1>1, <1>2, <1>3 DEF ScheduleNext

LEMMA JitterIsSmall ==
    ASSUME NEW base \in Nat, base > 0, NEW id \in Nat
    PROVE  jitter(base, id) \in 0 .. base - 1
  BY DEF jitter

LEMMA DelaysAreKept == ScheduleInv => ScheduleKept
<1> SUFFICES ASSUME ScheduleInv, status = "pending", policy.kind # "none"
             PROVE  LET exponential == policy.kind = "exponential" /\ attempts > 1
                        jittered == exponential /\ policy.delay > 0
                        infinite == exponential /\ policy.delay = 0 /\ attempts - 2 >= FloatOverflow
                    IN  \/ delay = reference /\ ~jittered /\ ~infinite
                        \/ delay \in reference .. (reference + policy.delay - 1) /\ jittered
                        \/ delay = Week /\ infinite
  BY DEF ScheduleInv, ScheduleKept
<1>1. /\ policy.kind \in {"exponential", "fixed", "none"} /\ policy.delay \in Nat
      /\ attempts \in Nat /\ job_id \in Nat /\ reference = Unjittered(policy, attempts)
  BY DEF ScheduleInv
<1>2. CASE attempts = 0
  BY <1>2 DEF ScheduleInv
<1>3. CASE attempts > 0
  <2>1. delay = backoff_delay(policy, attempts, job_id)
    BY <1>3 DEF ScheduleInv
  <2>2. CASE attempts = 1 \/ policy.kind # "exponential"
    BY <1>1, <1>3, <2>1, <2>2 DEF backoff_delay, exponential_delay, Unjittered
  <2>3. CASE attempts > 1 /\ policy.kind = "exponential" /\ policy.delay = 0
    BY <1>1, <2>1, <2>3, RetryAssumption
       DEF backoff_delay, exponential_delay, Unjittered, Scaled, jitter
  <2>4. CASE attempts > 1 /\ policy.kind = "exponential" /\ policy.delay > 0
    <3>1. delay = Scaled(policy.delay, attempts - 2) + jitter(policy.delay, job_id)
      BY <1>1, <2>1, <2>4 DEF backoff_delay, exponential_delay
    <3>2. reference = Scaled(policy.delay, attempts - 2)
      BY <1>1, <2>4 DEF Unjittered
    <3>3. attempts - 2 \in Nat
      BY <1>1, <2>4
    <3>4. reference \in Nat
      BY <1>1, <2>4, <3>2, <3>3, ScaledSteps
    <3>5. PICK j \in 0 .. policy.delay - 1 : j = jitter(policy.delay, job_id)
      BY <1>1, <2>4, JitterIsSmall
    <3>6. delay = reference + j
      BY <3>1, <3>2, <3>5
    <3> QED
      BY <1>1, <2>4, <3>4, <3>5, <3>6
  <2> QED
    BY <1>1, <1>3, <2>2, <2>3, <2>4
<1> QED
  BY <1>1, <1>2, <1>3

\* Whatever the base delay, the budget, the cap and the job: delays grow by
\* four up to the cap, the jitter stays below the base, and a job that keeps
\* failing runs as often as its budget says, but for the policies and budgets
\* that ScheduleKept leaves out (exponential_delay, apply_failure).
THEOREM ScheduleIsKept == ScheduleSpec => []ScheduleKept
  BY ScheduleInvInit, ScheduleInvStep, DelaysAreKept, PTL DEF ScheduleSpec

-----------------------------------------------------------------------------
(* The workers *)

\* A sequence without duplicates.
Distinct(s) == \A i, k \in DOMAIN s : s[i] = s[k] => i = k

\* What a list becomes when a name is pushed that it does not contain.
LEMMA PushNew ==
    ASSUME NEW S, NEW s \in Seq(S), NEW x \in S, Distinct(s), ~Contains(s, x)
    PROVE  /\ Append(s, x) \in Seq(S) /\ Distinct(Append(s, x))
           /\ \A y : Contains(Append(s, x), y) <=> Contains(s, y) \/ y = x
<1>1. PICK n \in Nat : n = Len(s)
  OBVIOUS
<1>2. /\ Append(s, x) \in Seq(S) /\ DOMAIN s = 1 .. n
      /\ Len(Append(s, x)) = n + 1 /\ DOMAIN Append(s, x) = 1 .. n + 1
      /\ Append(s, x)[n + 1] = x /\ \A i \in 1 .. n : Append(s, x)[i] = s[i]
  BY <1>1
<1>3. \A i \in 1 .. n : s[i] # x
  BY <1>1 DEF Contains
<1>4. Distinct(Append(s, x))
  <2> SUFFICES ASSUME NEW i \in 1 .. n + 1, NEW k \in 1 .. n + 1, Append(s, x)[i] = Append(s, x)[k]
               PROVE  i = k
    BY <1>2 DEF Distinct
  <2>1. CASE i \in 1 .. n /\ k \in 1 .. n
    BY <1>2, <2>1 DEF Distinct
  <2>2. CASE i = n + 1 \/ k = n + 1
    BY <1>2, <1>3, <2>2
  <2> QED
    BY <2>1, <2>2
<1>5. \A y : Contains(Append(s, x), y) <=> Contains(s, y) \/ y = x
  <2> TAKE y
  <2>1. ASSUME Contains(Append(s, x), y) PROVE Contains(s, y) \/ y = x
    <3>1. PICK i \in 1 .. n + 1 : Append(s, x)[i] = y
      BY <1>2, <2>1 DEF Contains
    <3> QED
      BY <1>1, <1>2, <3>1 DEF Contains
  <2>2. ASSUME Contains(s, y) PROVE Contains(Append(s, x), y)
    <3>1. PICK i \in 1 .. n : s[i] = y
      BY <1>1, <2>2 DEF Contains
    <3> QED
      BY <1>2, <3>1 DEF Contains
  <2>3. Contains(Append(s, x), x)
    <3>1. n + 1 \in 1 .. n + 1
      OBVIOUS
    <3> QED
      BY <1>2, <3>1 DEF Contains
  <2> QED
    BY <2>1, <2>2, <2>3
<1> QED
  BY <1>2, <1>4, <1>5

\* The list without duplicates has the names of the list it is made of.
LEMMA UniqueNames ==
    ASSUME NEW names \in Seq(QueueName)
    PROVE  /\ Unique(names) \in Seq(QueueName) /\ Distinct(Unique(names))
           /\ \A x : Contains(Unique(names), x) <=> Contains(names, x)
<1> DEFINE unique[n \in 0 .. Len(names)] ==
              IF n = 0 THEN <<>>
              ELSE IF Contains(unique[n - 1], names[n]) THEN unique[n - 1]
              ELSE Append(unique[n - 1], names[n])
           step == [n \in 1 .. Len(names) |-> [u \in Seq(QueueName) |->
                      IF Contains(u, names[n]) THEN u ELSE Append(u, names[n])]]
<1>1. PICK last \in Nat : last = Len(names)
  OBVIOUS
<1>2. \A n \in 1 .. last : names[n] \in QueueName
  BY <1>1
<1>3. step \in [1 .. last -> [Seq(QueueName) -> Seq(QueueName)]]
  BY <1>1, <1>2
<1>4. <<>> \in Seq(QueueName)
  OBVIOUS
<1>5. PICK run : IsRun(run, last, Seq(QueueName), <<>>, step)
  <2> HIDE DEF step
  <2> QED
    BY <1>3, <1>4, Iteration
<1>6. \A n \in 1 .. last : run[n] = IF Contains(run[n - 1], names[n]) THEN run[n - 1]
                                     ELSE Append(run[n - 1], names[n])
  <2> TAKE n \in 1 .. last
  <2>1. n - 1 \in 0 .. last
    OBVIOUS
  <2>2. run[n - 1] \in Seq(QueueName)
    BY <1>5, <2>1 DEF IsRun
  <2> QED
    BY <1>1, <1>5, <2>2 DEF IsRun
<1>7. run = [n \in 0 .. Len(names) |->
               IF n = 0 THEN <<>>
               ELSE IF Contains(run[n - 1], names[n]) THEN run[n - 1]
               ELSE Append(run[n - 1], names[n])]
  <2>1. run = [n \in 0 .. last |-> run[n]] /\ run[0] = <<>>
    BY <1>5 DEF IsRun
  <2>2. \A n \in 0 .. last : n = 0 \/ n \in 1 .. last
    OBVIOUS
  <2>3. \A n \in 0 .. last : run[n] = IF n = 0 THEN <<>>
                                      ELSE IF Contains(run[n - 1], names[n]) THEN run[n - 1]
                                      ELSE Append(run[n - 1], names[n])
    BY <1>6, <2>1, <2>2
  <2> QED
    BY <1>1, <2>1, <2>3
<1>8. unique = [n \in 0 .. Len(names) |->
                  IF n = 0 THEN <<>>
                  ELSE IF Contains(unique[n - 1], names[n]) THEN unique[n - 1]
                  ELSE Append(unique[n - 1], names[n])]
  BY <1>7
<1>9. Unique(names) = unique[last]
  BY <1>1 DEF Unique
<1> HIDE DEF unique, step
<1>10. /\ unique[0] = <<>>
       /\ \A n \in 1 .. last : unique[n] = IF Contains(unique[n - 1], names[n]) THEN unique[n - 1]
                                            ELSE Append(unique[n - 1], names[n])
  <2> DEFINE round(n) == IF n = 0 THEN <<>>
                         ELSE IF Contains(unique[n - 1], names[n]) THEN unique[n - 1]
                         ELSE Append(unique[n - 1], names[n])
  <2>1. unique = [n \in 0 .. Len(names) |-> round(n)]
    BY <1>8
  <2> HIDE DEF round
  <2>2. \A n \in 0 .. last : unique[n] = round(n)
    BY <1>1, <2>1
  <2>3. 0 \in 0 .. last /\ \A n \in 1 .. last : n \in 0 .. last /\ n # 0
    OBVIOUS
  <2> QED
    BY <2>2, <2>3 DEF round
<1> DEFINE rounds == {n \in 0 .. last :
              /\ unique[n] \in Seq(QueueName) /\ Distinct(unique[n])
              /\ \A x : Contains(unique[n], x) <=> \E i \in 1 .. n : names[i] = x}
<1>11. 0 \in rounds
  <2>1. Distinct(<<>>) /\ \A x : ~Contains(<<>>, x)
    BY DEF Contains, Distinct
  <2>2. 0 \in 0 .. last /\ \A x : ~\E i \in 1 .. 0 : names[i] = x
    OBVIOUS
  <2>3. /\ unique[0] \in Seq(QueueName) /\ Distinct(unique[0])
        /\ \A x : Contains(unique[0], x) <=> \E i \in 1 .. 0 : names[i] = x
    BY <1>4, <1>10, <2>1, <2>2, Zenon
  <2> QED
    BY <2>2, <2>3
<1>12. \A n \in 1 .. last : n - 1 \in rounds => n \in rounds
  <2> SUFFICES ASSUME NEW n \in 1 .. last, n - 1 \in rounds PROVE n \in rounds
    OBVIOUS
  <2>1. /\ unique[n - 1] \in Seq(QueueName) /\ Distinct(unique[n - 1])
        /\ \A x : Contains(unique[n - 1], x) <=> \E i \in 1 .. n - 1 : names[i] = x
    OBVIOUS
  <2> DEFINE before == unique[n - 1]
  <2>2. \A x : (\E i \in 1 .. n : names[i] = x) <=> (\E i \in 1 .. n - 1 : names[i] = x) \/ x = names[n]
    <3> TAKE x
    <3>1. \A i \in 1 .. n : i \in 1 .. n - 1 \/ i = n
      OBVIOUS
    <3>2. n \in 1 .. n /\ \A i \in 1 .. n - 1 : i \in 1 .. n
      OBVIOUS
    <3> QED
      BY <3>1, <3>2
  <2>3. CASE Contains(before, names[n])
    <3>1. unique[n] = before
      BY <1>10, <2>3
    <3> QED
      BY <2>1, <2>2, <2>3, <3>1
  <2>4. CASE ~Contains(before, names[n])
    <3>1. unique[n] = Append(before, names[n])
      BY <1>10, <2>4
    <3>2. names[n] \in QueueName
      BY <1>2
    <3> HIDE DEF before
    <3>3. before \in Seq(QueueName) /\ Distinct(before)
      BY <2>1 DEF before
    <3>4. /\ unique[n] \in Seq(QueueName) /\ Distinct(unique[n])
          /\ \A x : Contains(unique[n], x) <=> Contains(before, x) \/ x = names[n]
      BY <2>4, <3>1, <3>2, <3>3, PushNew
    <3>5. \A x : Contains(unique[n], x) <=> \E i \in 1 .. n : names[i] = x
      BY <2>1, <2>2, <3>4 DEF before
    <3> QED
      BY <3>4, <3>5
  <2> QED
    BY <2>3, <2>4
<1> HIDE DEF rounds
<1>13. \A n \in 0 .. last : n \in rounds
  BY <1>11, <1>12, RoundByRound
<1>14. last \in rounds
  BY <1>13
<1>15. \A x : Contains(names, x) <=> \E i \in 1 .. last : names[i] = x
  BY <1>1 DEF Contains
<1> QED
  BY <1>9, <1>14, <1>15 DEF rounds

\* The list of overrides has one for each name, and what the calls said last.
OverridesKept(configs, said) ==
    /\ configs \in Seq(QueueConfig)
    /\ \A i, k \in DOMAIN configs : configs[i].queue_name = configs[k].queue_name => i = k
    /\ \A i \in DOMAIN configs : said[configs[i].queue_name] = configs[i].setting
    /\ \A n \in QueueName : said[n] # None => \E i \in DOMAIN configs : configs[i].queue_name = n

ConfigInv ==
    /\ queues \in Seq(QueueName) /\ Distinct(queues)
    /\ \A x : x \in subscribed <=> Contains(queues, x)
    /\ override \in [QueueName -> Value \cup {None}]
    /\ OverridesKept(queue_configs, override)

LEMMA ConfigInvInit == ConfigInit => ConfigInv
<1> SUFFICES ASSUME ConfigInit PROVE ConfigInv
  OBVIOUS
<1>1. queues \in Seq(QueueName) /\ Distinct(queues)
  BY ConfigAssumption DEF ConfigInit, Distinct
<1>2. \A x : x \in subscribed <=> Contains(queues, x)
  BY DEF ConfigInit, Contains
<1>3. OverridesKept(queue_configs, override)
  <2>1. queue_configs \in Seq(QueueConfig) /\ DOMAIN queue_configs = {}
    BY DEF ConfigInit
  <2>2. \A n \in QueueName : override[n] = None
    BY DEF ConfigInit
  <2> QED
    BY <2>1, <2>2 DEF OverridesKept
<1> QED
  BY <1>1, <1>2, <1>3 DEF ConfigInit, ConfigInv

\* An override is replaced in its place, or comes at the end.
LEMMA RegisteredIsKept ==
    ASSUME NEW configs, NEW said \in [QueueName -> Value \cup {None}], OverridesKept(configs, said),
           NEW config \in QueueConfig
    PROVE  OverridesKept(Registered(configs, config),
                         [said EXCEPT ![config.queue_name] = config.setting])
<1> DEFINE now == Registered(configs, config)
           says == [said EXCEPT ![config.queue_name] = config.setting]
<1>1. /\ configs \in Seq(QueueConfig)
      /\ \A i, k \in DOMAIN configs : configs[i].queue_name = configs[k].queue_name => i = k
      /\ \A i \in DOMAIN configs : said[configs[i].queue_name] = configs[i].setting
      /\ \A n \in QueueName : said[n] # None => \E i \in DOMAIN configs : configs[i].queue_name = n
  BY DEF OverridesKept
<1>2. PICK last \in Nat : last = Len(configs)
  BY <1>1
<1>3. DOMAIN configs = 1 .. last /\ \A i \in 1 .. last : configs[i] \in QueueConfig
  BY <1>1, <1>2
<1>4. config.queue_name \in QueueName /\ config.setting \in Value \cup {None}
      /\ \A i \in 1 .. last : configs[i].queue_name \in QueueName
  BY <1>3 DEF QueueConfig
<1>5. /\ says[config.queue_name] = config.setting
      /\ \A n \in QueueName : n # config.queue_name => says[n] = said[n]
  BY <1>4
<1> HIDE DEF says
<1>6. CASE \E i \in DOMAIN configs : configs[i].queue_name = config.queue_name
  <2>1. now = [i \in 1 .. last |->
                 IF configs[i].queue_name = config.queue_name THEN config ELSE configs[i]]
    BY <1>3, <1>6 DEF Registered
  <2>2. \A i \in 1 .. last : now[i] \in QueueConfig /\ now[i].queue_name = configs[i].queue_name
    BY <1>3, <2>1
  <2>3. now \in Seq(QueueConfig) /\ DOMAIN now = 1 .. last
    BY <1>2, <1>3, <2>1
  <2>4. \A i \in 1 .. last : says[now[i].queue_name] = now[i].setting
    BY <1>1, <1>3, <1>4, <1>5, <2>1
  <2>5. \A n \in QueueName : says[n] # None => \E i \in 1 .. last : now[i].queue_name = n
    BY <1>1, <1>3, <1>5, <1>6, <2>2
  <2> HIDE DEF now
  <2>6. OverridesKept(now, says)
    BY <1>1, <1>3, <2>2, <2>3, <2>4, <2>5 DEF OverridesKept
  <2> QED
    BY <2>6 DEF now, says
<1>7. CASE ~\E i \in DOMAIN configs : configs[i].queue_name = config.queue_name
  <2>1. now = Append(configs, config)
    BY <1>7 DEF Registered
  <2>2. /\ now \in Seq(QueueConfig) /\ DOMAIN now = 1 .. last + 1
        /\ now[last + 1] = config /\ \A i \in 1 .. last : now[i] = configs[i]
    BY <1>1, <1>2, <1>3, <2>1
  <2>3. \A i \in 1 .. last + 1 : i \in 1 .. last \/ i = last + 1
    OBVIOUS
  <2>4. last + 1 \in 1 .. last + 1 /\ \A i \in 1 .. last : i \in 1 .. last + 1
    OBVIOUS
  <2>5. \A i \in 1 .. last : configs[i].queue_name # config.queue_name
    BY <1>3, <1>7
  <2> HIDE DEF now
  <2>6. \A i, k \in 1 .. last + 1 : now[i].queue_name = now[k].queue_name => i = k
    BY <1>1, <1>3, <2>2, <2>3, <2>5
  <2>7. \A i \in 1 .. last + 1 : says[now[i].queue_name] = now[i].setting
    BY <1>1, <1>3, <1>4, <1>5, <2>2, <2>3, <2>5
  <2>8. \A n \in QueueName : says[n] # None => \E i \in 1 .. last + 1 : now[i].queue_name = n
    BY <1>1, <1>3, <1>5, <2>2, <2>4
  <2>9. OverridesKept(now, says)
    BY <2>2, <2>6, <2>7, <2>8 DEF OverridesKept
  <2> QED
    BY <2>9 DEF now, says
<1> QED
  BY <1>6, <1>7

LEMMA ConfigInvStep == ConfigInv /\ [ConfigNext]_configVars => ConfigInv'
<1> SUFFICES ASSUME ConfigInv, [ConfigNext]_configVars PROVE ConfigInv'
  OBVIOUS
<1>1. ASSUME NEW names \in BoundedSeq(QueueName, MaxNames), Queues(names) PROVE ConfigInv'
  <2>1. names \in Seq(QueueName)
    <3>1. PICK m \in 0 .. MaxNames : names \in [1 .. m -> QueueName]
      BY <1>1 DEF BoundedSeq, SeqOf
    <3>2. m \in Nat
      BY <3>1, ConfigAssumption
    <3> QED
      BY <3>1, <3>2
  <2>2. /\ Unique(names) \in Seq(QueueName) /\ Distinct(Unique(names))
        /\ \A x : Contains(Unique(names), x) <=> Contains(names, x)
    BY <2>1, UniqueNames
  <2>3. \A x : x \in Range(names) <=> Contains(names, x)
    BY <2>1 DEF Range, Contains
  <2>4. queues' = Unique(names) /\ subscribed' = Range(names) /\ UNCHANGED <<queue_configs, override>>
    BY <1>1 DEF Queues
  <2>5. \A x : x \in subscribed' <=> Contains(queues', x)
    BY <2>2, <2>3, <2>4
  <2> QED
    BY <2>2, <2>4, <2>5 DEF ConfigInv
<1>2. ASSUME NEW config \in QueueConfig, QueueConfigs(config) PROVE ConfigInv'
  <2>1. config.queue_name \in QueueName /\ config.setting \in Value \cup {None}
    BY DEF QueueConfig
  <2>2. /\ queues' = IF Contains(queues, config.queue_name) THEN queues
                     ELSE Append(queues, config.queue_name)
        /\ queue_configs' = Registered(queue_configs, config)
        /\ subscribed' = subscribed \cup {config.queue_name}
        /\ override' = [override EXCEPT ![config.queue_name] = config.setting]
    BY <1>2 DEF QueueConfigs
  <2>3. /\ queues' \in Seq(QueueName) /\ Distinct(queues')
        /\ \A x : Contains(queues', x) <=> Contains(queues, x) \/ x = config.queue_name
    <3>1. CASE Contains(queues, config.queue_name)
      BY <2>2, <3>1 DEF ConfigInv
    <3>2. CASE ~Contains(queues, config.queue_name)
      <4>1. queues \in Seq(QueueName) /\ Distinct(queues)
        BY DEF ConfigInv
      <4> QED
        BY <2>1, <2>2, <3>2, <4>1, PushNew
    <3> QED
      BY <3>1, <3>2
  <2>4. \A x : x \in subscribed' <=> Contains(queues', x)
    BY <2>2, <2>3 DEF ConfigInv
  <2>5. override' \in [QueueName -> Value \cup {None}]
    BY <2>1, <2>2 DEF ConfigInv
  <2>6. OverridesKept(queue_configs', override')
    <3>1. override \in [QueueName -> Value \cup {None}] /\ OverridesKept(queue_configs, override)
      BY DEF ConfigInv
    <3>2. OverridesKept(Registered(queue_configs, config),
                        [override EXCEPT ![config.queue_name] = config.setting])
      BY <3>1, RegisteredIsKept
    <3> QED
      BY <2>2, <3>2
  <2> QED
    BY <2>3, <2>4, <2>5, <2>6 DEF ConfigInv, OverridesKept
<1>3. ASSUME NEW v \in Value, SetGlobal(v) PROVE ConfigInv'
  BY <1>3 DEF SetGlobal, ConfigInv, OverridesKept
<1>4. CASE UNCHANGED configVars
  BY <1>4 DEF configVars, ConfigInv, OverridesKept
<1> QED
  BY <1>1, <1>2, <1>3, <1>4 DEF ConfigNext

LEMMA QueuesAreResolved == ConfigInv => QueuesResolved
<1> SUFFICES ASSUME ConfigInv PROVE QueuesResolved
  OBVIOUS
<1>1. PICK last \in Nat : last = Len(queues) /\ DOMAIN queues = 1 .. last
  BY DEF ConfigInv
<1>2. PICK many \in Nat : many = Len(queue_configs) /\ DOMAIN queue_configs = 1 .. many
  BY DEF ConfigInv, OverridesKept
<1> DEFINE found(n) == {k \in 1 .. many : queue_configs[k].queue_name = n}
           at(n) == IF found(n) # {} THEN Min(found(n)) ELSE 0
<1>3. DOMAIN resolved_queues = 1 .. last
  BY <1>1 DEF resolved_queues
<1>4. \A i \in 1 .. last : /\ queues[i] \in QueueName /\ resolved_queues[i].queue = queues[i]
                          /\ resolved_queues[i].setting =
                                IF at(queues[i]) = 0 \/ queue_configs[at(queues[i])].setting = None
                                THEN setting ELSE queue_configs[at(queues[i])].setting
  <2> TAKE i \in 1 .. last
  <2>1. queues[i] \in QueueName
    BY <1>1 DEF ConfigInv
  <2> QED
    BY <1>1, <1>2, <2>1 DEF resolved_queues, SelectInSeq
<1> HIDE DEF at
<1>5. ASSUME NEW n \in QueueName
      PROVE  override[n] = IF at(n) = 0 THEN None ELSE queue_configs[at(n)].setting
  <2>1. CASE found(n) = {}
    <3>1. at(n) = 0
      BY <2>1 DEF at
    <3>2. override[n] = None
      BY <1>2, <2>1 DEF ConfigInv, OverridesKept
    <3> QED
      BY <3>1, <3>2
  <2>2. CASE found(n) # {}
    <3>1. found(n) \subseteq Nat
      OBVIOUS
    <3>2. Min(found(n)) \in found(n)
      <4> HIDE DEF found
      <4>1. \E k \in found(n) : \A other \in found(n) : k <= other
        BY <2>2, <3>1, LeastOne
      <4> QED
        BY <4>1 DEF Min
    <3>3. PICK k \in found(n) : k = Min(found(n))
      BY <3>2
    <3>4. at(n) = k
      BY <2>2, <3>3 DEF at
    <3>5. k \in 1 .. many /\ queue_configs[k].queue_name = n /\ k # 0
      BY <3>3
    <3>6. override[n] = queue_configs[k].setting
      BY <1>2, <3>5 DEF ConfigInv, OverridesKept
    <3> QED
      BY <3>4, <3>5, <3>6
  <2> QED
    BY <2>1, <2>2
<1>6. \A i \in 1 .. last : resolved_queues[i].setting =
                          IF override[queues[i]] = None THEN setting ELSE override[queues[i]]
  BY <1>4, <1>5
<1>7. {resolved_queues[i].queue : i \in 1 .. last} = subscribed
  <2>1. \A x : x \in subscribed <=> \E i \in 1 .. last : queues[i] = x
    BY <1>1 DEF ConfigInv, Contains
  <2> QED
    BY <1>4, <2>1
<1>8. \A i, k \in 1 .. last : resolved_queues[i].queue = resolved_queues[k].queue => i = k
  BY <1>1, <1>4 DEF ConfigInv, Distinct
<1> QED
  BY <1>3, <1>4, <1>6, <1>7, <1>8 DEF QueuesResolved

\* Whatever the builder is called with and in whatever order: each subscribed
\* queue has one worker, with the last override given for it or the global
\* setting (JobConfig::queues, queue_configs and resolved_queues).
THEOREM WorkersAreResolved == ConfigSpec => []QueuesResolved
  BY ConfigInvInit, ConfigInvStep, QueuesAreResolved, PTL DEF ConfigSpec

=============================================================================
