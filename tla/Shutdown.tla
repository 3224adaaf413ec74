------------------------------- MODULE Shutdown -------------------------------
(***************************************************************************)
(* One process from start to exit: the HTTP server (Rapina::listen and     *)
(* serve) with the job workers it spawns, or the workers alone             *)
(* (run_worker), and the signal that ends them.                            *)
(*                                                                         *)
(* tokio installs a signal handler the first time a signal future is       *)
(* polled, and delivers a signal to the futures that are listening then.   *)
(* Before the first handler of the process a signal kills it.  SIGINT and  *)
(* SIGTERM are treated alike, so one signal stands for both.               *)
(***************************************************************************)
EXTENDS Integers, FiniteSets

CONSTANTS
    Worker,      \* the job workers of the process
    Request,     \* requests clients may send
    Server,      \* the listener that serve() waits in
    Hooks,       \* number of on_shutdown hooks, the cron scheduler's included
    MaxBatch     \* bound: jobs claimed in one cycle

ASSUME ShutdownAssumption ==
    /\ Server \notin Worker
    /\ Hooks \in Nat
    /\ MaxBatch \in Nat

VARIABLES
    process,    \* whether the process is up, has returned from main or was killed
    phase,      \* where listen() and serve() are
    hooks,      \* shutdown hooks run so far
    request,    \* request[r]: whether r is being handled
    wpc,        \* wpc[w]: where Worker::run is
    claimed,    \* claimed[w]: rows w has claimed and not settled, all still `running`
    listening,  \* who has a signal future that was polled
    notified,   \* who has a signal waiting for it
    signalled,  \* whether the signal was sent
    timedOut    \* history: shutdown_timeout has passed

serverVars == <<phase, hooks, timedOut>>
workerVars == <<wpc, claimed>>
signalVars == <<listening, notified, signalled>>
vars == <<process, phase, hooks, request, wpc, claimed, listening, notified,
          signalled, timedOut>>

Up == process = "up"

\* Rapina::listen runs a server and spawns its workers, run_worker has none.
HasServer == phase # "none"

-----------------------------------------------------------------------------
(* Worker::run *)

\* reap_expired and claim_batch.
Claim(w) ==
    /\ Up
    /\ wpc[w] = "poll"
    /\ \E n \in 0 .. MaxBatch :
          /\ claimed' = [claimed EXCEPT ![w] = n]
          /\ wpc' = [wpc EXCEPT ![w] = IF n = 0 THEN "cycle" ELSE "batch"]
    /\ UNCHANGED <<process, serverVars, request, signalVars>>

\* dispatch() of one job of the batch, up to its settlement.
Settle(w) ==
    /\ Up
    /\ wpc[w] = "batch"
    /\ claimed' = [claimed EXCEPT ![w] = @ - 1]
    /\ wpc' = [wpc EXCEPT ![w] = IF claimed[w] = 1 THEN "cycle" ELSE "batch"]
    /\ UNCHANGED <<process, serverVars, request, signalVars>>

\* select! polls the signal futures of this worker, for the first time or again.
\* Its sleep has just begun, so that a signal that is there already is taken.
EnterSelect(w) ==
    /\ Up
    /\ wpc[w] = "cycle"
    /\ wpc' = [wpc EXCEPT ![w] = IF w \in notified THEN "signal" ELSE "select"]
    /\ listening' = listening \cup {w}
    /\ UNCHANGED <<process, serverVars, request, claimed, notified, signalled>>

\* The poll interval is over. With a signal since the sleep began, select! takes
\* either branch.
PollAgain(w) ==
    /\ Up
    /\ wpc[w] = "select"
    /\ wpc' = [wpc EXCEPT ![w] = "poll"]
    /\ UNCHANGED <<process, serverVars, request, claimed, signalVars>>

\* Mutant: the signal is looked at between two jobs of a batch.
StopMidBatch(w) ==
    /\ Up
    /\ wpc[w] \in {"batch", "select", "signal"}
    /\ w \in notified
    /\ wpc' = [wpc EXCEPT ![w] = "stopped"]
    /\ UNCHANGED <<process, serverVars, request, claimed, signalVars>>

\* The signal breaks the loop.
Stop(w) ==
    /\ Up
    /\ wpc[w] \in {"select", "signal"}
    /\ w \in notified
    /\ wpc' = [wpc EXCEPT ![w] = "stopped"]
    /\ UNCHANGED <<process, serverVars, request, claimed, signalVars>>

\* run_worker joins its workers and returns; main returns after it.
Joined ==
    /\ Up
    /\ ~HasServer
    /\ \A w \in Worker : wpc[w] = "stopped"
    /\ process' = "exited"
    /\ UNCHANGED <<serverVars, request, workerVars, signalVars>>

-----------------------------------------------------------------------------
(* listen and serve *)

\* The workers are running while listen() warms up the JWKS cache and starts
\* the cron scheduler; then serve() polls its signal futures.
StartServing ==
    /\ Up
    /\ phase = "starting"
    /\ phase' = "accepting"
    /\ listening' = listening \cup {Server}
    /\ UNCHANGED <<process, hooks, request, workerVars, notified, signalled, timedOut>>

\* A connection is accepted and its request handed to a task of its own.
Accept(r) ==
    /\ Up
    /\ phase = "accepting"
    /\ request[r] = "none"
    /\ request' = [request EXCEPT ![r] = "busy"]
    /\ UNCHANGED <<process, serverVars, workerVars, signalVars>>

Respond(r) ==
    /\ Up
    /\ request[r] = "busy"
    /\ request' = [request EXCEPT ![r] = "done"]
    /\ UNCHANGED <<process, serverVars, workerVars, signalVars>>

\* The accept loop sees the signal and drops the listener.
BeginDrain ==
    /\ Up
    /\ phase = "accepting"
    /\ Server \in notified
    /\ phase' = "draining"
    /\ UNCHANGED <<process, hooks, timedOut, request, workerVars, signalVars>>

InFlight == {r \in Request : request[r] = "busy"}

\* graceful.shutdown() completes.
Drained ==
    /\ Up
    /\ phase = "draining"
    /\ InFlight = {}
    /\ phase' = "hooks"
    /\ UNCHANGED <<process, hooks, timedOut, request, workerVars, signalVars>>

\* Mutant: no timeout.
NoDrainTimeout == FALSE /\ UNCHANGED vars

\* shutdown_timeout passes first; the connections' tasks go on.
DrainTimeout ==
    /\ Up
    /\ phase = "draining"
    /\ InFlight # {}
    /\ phase' = "hooks"
    /\ timedOut' = TRUE
    /\ UNCHANGED <<process, hooks, request, workerVars, signalVars>>

\* The next hook runs to its end.
RunHook ==
    /\ Up
    /\ phase = "hooks"
    /\ hooks < Hooks
    /\ hooks' = hooks + 1
    /\ UNCHANGED <<process, phase, timedOut, request, workerVars, signalVars>>

\* serve() and listen() return, main returns, the runtime drops its tasks.
Return ==
    /\ Up
    /\ phase = "hooks"
    /\ hooks = Hooks
    /\ phase' = "returned"
    /\ process' = "exited"
    /\ UNCHANGED <<hooks, timedOut, request, workerVars, signalVars>>

\* accept() fails: serve() returns at once, without drain and hooks.
AcceptFails ==
    /\ Up
    /\ phase = "accepting"
    /\ phase' = "failed"
    /\ process' = "exited"
    /\ UNCHANGED <<hooks, timedOut, request, workerVars, signalVars>>

-----------------------------------------------------------------------------

\* The signal reaches those that listen; nobody: the default action.
Signal ==
    /\ Up
    /\ ~signalled
    /\ signalled' = TRUE
    /\ notified' = listening
    /\ process' = IF listening = {} THEN "killed" ELSE process
    /\ UNCHANGED <<serverVars, request, workerVars, listening>>

Init ==
    /\ process = "up"
    /\ phase \in {"starting", "none"}
    /\ hooks = 0
    /\ request = [r \in Request |-> "none"]
    /\ wpc = [w \in Worker |-> "poll"]
    /\ claimed = [w \in Worker |-> 0]
    /\ listening = {}
    /\ notified = {}
    /\ signalled = FALSE
    /\ timedOut = FALSE

WorkerStep(w) == Claim(w) \/ Settle(w) \/ EnterSelect(w) \/ PollAgain(w) \/ Stop(w)

ServerStep == \/ StartServing \/ BeginDrain \/ Drained \/ DrainTimeout \/ RunHook \/ Return
              \/ Joined

Next ==
    \/ \E w \in Worker : WorkerStep(w)
    \/ ServerStep
    \/ \E r \in Request : Accept(r) \/ Respond(r)
    \/ AcceptFails
    \/ Signal

Spec == Init /\ [][Next]_vars

(* The runtime polls its tasks, job handlers and hooks return, timers      *)
(* fire.  Request handlers need not return.                                *)
ShutdownFairness == (\A w \in Worker : WF_vars(WorkerStep(w))) /\ WF_vars(ServerStep)

FairSpec == Spec /\ ShutdownFairness

-----------------------------------------------------------------------------
(* Properties *)

TypeOK ==
    /\ process \in {"up", "exited", "killed"}
    /\ phase \in {"none", "starting", "accepting", "draining", "hooks", "returned", "failed"}
    /\ hooks \in 0 .. Hooks
    /\ request \in [Request -> {"none", "busy", "done"}]
    /\ wpc \in [Worker -> {"poll", "batch", "cycle", "select", "signal", "stopped"}]
    /\ claimed \in [Worker -> 0 .. MaxBatch]
    /\ listening \subseteq Worker \cup {Server}
    /\ notified \subseteq listening
    /\ signalled \in BOOLEAN
    /\ timedOut \in BOOLEAN

\* serve() starts its hooks, and returns, only when every accepted request was
\* answered or the shutdown timeout has passed.
HooksAfterDrain == phase \in {"hooks", "returned"} => InFlight = {} \/ timedOut

\* A worker that stops has settled its whole batch: no row stays `running`
\* behind a worker that has left its loop.
StopsBetweenBatches == \A w \in Worker : wpc[w] = "stopped" => claimed[w] = 0

\* Whoever stops on a signal stops clean: the server behind its drain or the
\* timeout, each worker behind its batch, whenever the signal came.
StopsInOrder == HooksAfterDrain /\ StopsBetweenBatches

\* Documented: each worker finishes its current batch before the process stops.
NoJobAbandoned ==
    process = "exited" /\ phase # "failed" => \A w \in Worker : claimed[w] = 0

\* A worker that was listening when the signal came leaves its loop, whatever
\* it was doing then, or the process ends first. Once the server has seen the
\* signal the process exits, whether or not the requests in flight are ever
\* answered.
SignalEndsAll ==
    /\ <>[](\A w \in notified \cap Worker : wpc[w] = "stopped" \/ ~Up)
    /\ <>[](phase \in {"draining", "hooks"} => process = "exited")

=============================================================================
