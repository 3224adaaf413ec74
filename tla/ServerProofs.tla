----------------------------- MODULE ServerProofs -----------------------------
(***************************************************************************)
(* What runs beside the handlers of a server, for any numbers of it.       *)
(*                                                                         *)
(* Module Shutdown, for any number of workers, requests and hooks: the     *)
(* types, and its two invariants.  A worker holds rows only in the middle  *)
(* of a batch (BatchInv), which is what makes leaving the loop safe.       *)
(*                                                                         *)
(* Module Jwks, for any number of refreshes and key sets: the types, and   *)
(* that its keys only go back by a refresh that was overtaken.  What makes *)
(* the step inductive is FreshUnlessOvertaken: between its fetch and its   *)
(* store a refresh holds a set as new as the cache's, unless another one   *)
(* stored meanwhile, and that one has marked it.                           *)
(***************************************************************************)
EXTENDS Shutdown, Jwks, TLAPS

-----------------------------------------------------------------------------
(* Shutdown *)

\* Claimed rows and the place in the loop go together.
BatchInv == \A w \in Worker : /\ wpc[w] = "batch" => claimed[w] > 0
                              /\ wpc[w] # "batch" => claimed[w] = 0

LEMMA InitInv == Init => TypeOK /\ BatchInv /\ HooksAfterDrain
<1> SUFFICES ASSUME Init PROVE TypeOK /\ BatchInv /\ HooksAfterDrain
  OBVIOUS
<1>1. claimed \in [Worker -> 0 .. MaxBatch]
  BY ShutdownAssumption DEF Init
<1>2. TypeOK
  <2>1. /\ hooks \in 0 .. Hooks
        /\ request \in [Request -> {"none", "busy", "done"}]
        /\ wpc \in [Worker -> {"poll", "batch", "cycle", "select", "signal", "stopped"}]
    BY ShutdownAssumption DEF Init
  <2>2. /\ listening \subseteq Worker \cup {Server}
        /\ notified \subseteq listening
        /\ signalled \in BOOLEAN
        /\ timedOut \in BOOLEAN
    BY DEF Init
  <2> QED BY <1>1, <2>1, <2>2 DEF Init, TypeOK
<1>3. BatchInv
  BY DEF Init, BatchInv
<1>4. HooksAfterDrain
  BY DEF Init, HooksAfterDrain
<1> QED BY <1>2, <1>3, <1>4

LEMMA WorkerInv ==
  ASSUME TypeOK, BatchInv, HooksAfterDrain, NEW w \in Worker, WorkerStep(w)
  PROVE  TypeOK' /\ BatchInv' /\ HooksAfterDrain'
<1> USE ShutdownAssumption DEF TypeOK, serverVars, signalVars
<1>1. CASE Claim(w)
  <2>1. PICK n \in 0 .. MaxBatch :
          /\ claimed' = [claimed EXCEPT ![w] = n]
          /\ wpc' = [wpc EXCEPT ![w] = IF n = 0 THEN "cycle" ELSE "batch"]
    BY <1>1 DEF Claim
  <2>2. TypeOK'
    BY <1>1, <2>1 DEF Claim
  <2>3. BatchInv'
    BY <1>1, <2>1 DEF Claim, BatchInv
  <2> QED BY <1>1, <2>2, <2>3 DEF Claim, HooksAfterDrain, InFlight
<1>2. CASE Settle(w)
  <2>1. claimed[w] \in 1 .. MaxBatch
    BY <1>2 DEF Settle, BatchInv
  <2>2. TypeOK'
    BY <1>2, <2>1 DEF Settle
  <2>3. BatchInv'
    BY <1>2, <2>1 DEF Settle, BatchInv
  <2> QED BY <1>2, <2>2, <2>3 DEF Settle, HooksAfterDrain, InFlight
<1>3. CASE EnterSelect(w)
  BY <1>3 DEF EnterSelect, BatchInv, HooksAfterDrain, InFlight
<1>4. CASE PollAgain(w)
  BY <1>4 DEF PollAgain, BatchInv, HooksAfterDrain, InFlight
<1>5. CASE Stop(w)
  BY <1>5 DEF Stop, BatchInv, HooksAfterDrain, InFlight
<1> QED BY <1>1, <1>2, <1>3, <1>4, <1>5 DEF WorkerStep

LEMMA ServerInv ==
  ASSUME TypeOK, BatchInv, HooksAfterDrain, ServerStep
  PROVE  TypeOK' /\ BatchInv' /\ HooksAfterDrain'
<1> USE ShutdownAssumption DEF TypeOK, workerVars, signalVars, serverVars, HooksAfterDrain, InFlight,
        BatchInv
<1>1. CASE StartServing  BY <1>1 DEF StartServing
<1>2. CASE BeginDrain    BY <1>2 DEF BeginDrain
<1>3. CASE Drained       BY <1>3 DEF Drained
<1>4. CASE DrainTimeout  BY <1>4 DEF DrainTimeout
<1>5. CASE RunHook       BY <1>5 DEF RunHook
<1>6. CASE Return        BY <1>6 DEF Return
<1>7. CASE Joined        BY <1>7 DEF Joined
<1> QED BY <1>1, <1>2, <1>3, <1>4, <1>5, <1>6, <1>7 DEF ServerStep

LEMMA OtherInv ==
  ASSUME TypeOK, BatchInv, HooksAfterDrain,
         (\E r \in Request : Accept(r) \/ Respond(r)) \/ AcceptFails \/ Signal
                                                      \/ UNCHANGED vars
  PROVE  TypeOK' /\ BatchInv' /\ HooksAfterDrain'
<1> USE ShutdownAssumption DEF TypeOK, workerVars, signalVars, serverVars, HooksAfterDrain, InFlight,
        BatchInv
<1>1. ASSUME NEW r \in Request, Accept(r)
      PROVE  TypeOK' /\ BatchInv' /\ HooksAfterDrain'
  BY <1>1 DEF Accept
<1>2. ASSUME NEW r \in Request, Respond(r)
      PROVE  TypeOK' /\ BatchInv' /\ HooksAfterDrain'
  BY <1>2 DEF Respond
<1>3. CASE AcceptFails     BY <1>3 DEF AcceptFails
<1>4. CASE Signal          BY <1>4 DEF Signal
<1>5. CASE UNCHANGED vars  BY <1>5 DEF vars
<1> QED BY <1>1, <1>2, <1>3, <1>4, <1>5

LEMMA StepInv ==
  TypeOK /\ BatchInv /\ HooksAfterDrain /\ [Next]_vars => TypeOK' /\ BatchInv' /\ HooksAfterDrain'
  BY WorkerInv, ServerInv, OtherInv DEF Next

\* The hooks, and the return of serve(), come after the drain or its timeout,
\* and a worker that has left its loop leaves no row `running` behind, however
\* many requests, workers and jobs there are and whenever the signal comes
\* (serve, Worker::run).
THEOREM EverythingStopsInOrder == Spec => [](TypeOK /\ StopsInOrder)
<1>1. BatchInv => StopsBetweenBatches
  BY DEF BatchInv, StopsBetweenBatches
<1>2. BatchInv /\ HooksAfterDrain => StopsInOrder
  BY <1>1 DEF StopsInOrder
<1> QED BY <1>2, InitInv, StepInv, PTL DEF Spec

-----------------------------------------------------------------------------
(* Jwks *)

\* Only what the provider has published is ever fetched or kept.
FromProvider ==
    /\ cache # NoKeys => cache <= published
    /\ \A t \in Task : content[t] <= published

FreshUnlessOvertaken ==
    \A t \in Task : step[t] = "store" /\ t \notin overtaken /\ cache # NoKeys
                        => cache <= content[t]

JwksInv == JwksTypeOK /\ FromProvider /\ FreshUnlessOvertaken

LEMMA JwksInvInit == JwksInit => JwksInv
  BY JwksAssumption
     DEF JwksInit, JwksInv, JwksTypeOK, FromProvider, FreshUnlessOvertaken, Steps

\* A refresh that starts holds nothing yet.
LEMMA StartStep ==
  ASSUME JwksInv, NEW t \in Task, NEW who \in {"warmup", "cron", "request"},
         StartRefresh(t, who),
         app' \in {"starting", "warming", "serving", "cancelled"}
  PROVE  JwksInv'
<1> USE DEF JwksInv, JwksTypeOK, StartRefresh, Goto, Steps
<1>1. JwksTypeOK'
  OBVIOUS
<1>2. FromProvider'
  BY DEF FromProvider
<1>3. FreshUnlessOvertaken'
  BY DEF FreshUnlessOvertaken
<1> QED
  BY <1>1, <1>2, <1>3

\* Store marks everyone else who holds a set; what it stores itself is new, or
\* it was marked before.
LEMMA StoreStep ==
  ASSUME JwksInv, NEW t \in Task, Store(t)
  PROVE  JwksInv'
<1> USE DEF JwksInv, JwksTypeOK, Store, Goto, Steps, Stored, AppAfter
<1>1. JwksTypeOK'
  OBVIOUS
<1>2. FromProvider'
  BY JwksAssumption DEF FromProvider
<1>3. FreshUnlessOvertaken'
  <2> SUFFICES ASSUME NEW u \in Task, step'[u] = "store", u \notin overtaken'
               PROVE  FALSE
    BY DEF FreshUnlessOvertaken
  <2>1. u # t
    OBVIOUS
  <2>2. step[u] = "store"
    BY <2>1
  <2> QED
    BY <2>1, <2>2
<1> QED
  BY <1>1, <1>2, <1>3

\* The steps that fetch, fail, verify or are cancelled.
LEMMA TaskStep ==
  ASSUME JwksInv, NEW t \in Task, Discover(t) \/ Fetch(t) \/ Fail(t) \/ Verify(t)
  PROVE  JwksInv'
<1> USE DEF JwksInv, JwksTypeOK, Goto, Steps, AppAfter, FromProvider, FreshUnlessOvertaken
<1>1. CASE Discover(t)
  BY <1>1 DEF Discover
<1>2. CASE Fetch(t)
  <2>1. published \in Nat
    BY JwksAssumption
  <2>2. JwksTypeOK'
    BY <1>2, <2>1 DEF Fetch
  <2>3. FromProvider'
    BY <1>2, <2>1 DEF Fetch
  <2>4. FreshUnlessOvertaken'
    BY <1>2, <2>1 DEF Fetch
  <2> QED
    BY <2>2, <2>3, <2>4
<1>3. CASE Fail(t)
  BY <1>3 DEF Fail
<1>4. CASE Verify(t)
  BY <1>4 DEF Verify
<1> QED
  BY <1>1, <1>2, <1>3, <1>4

LEMMA JwksInvStep == JwksInv /\ [JwksNext]_jwksVars => JwksInv'
<1> SUFFICES ASSUME JwksInv, [JwksNext]_jwksVars PROVE JwksInv'
  OBVIOUS
<1>1. CASE Rotate
  BY <1>1, JwksAssumption
     DEF Rotate, JwksInv, JwksTypeOK, FromProvider, FreshUnlessOvertaken
<1>2. CASE Cancel
  BY <1>2 DEF Cancel, JwksInv, JwksTypeOK, FromProvider, FreshUnlessOvertaken, Steps
<1>3. ASSUME NEW t \in Task, WarmUp(t) \/ Tick(t) \/ Authenticate(t)
      PROVE  JwksInv'
  <2>1. app' \in {"starting", "warming", "serving", "cancelled"}
    BY <1>3 DEF WarmUp, Tick, Authenticate, JwksInv, JwksTypeOK
  <2>2. \E who \in {"warmup", "cron", "request"} : StartRefresh(t, who)
    BY <1>3 DEF WarmUp, Tick, Authenticate
  <2> QED
    BY <2>1, <2>2, StartStep
<1>4. ASSUME NEW t \in Task, Store(t) \/ Discover(t) \/ Fetch(t) \/ Fail(t) \/ Verify(t)
      PROVE  JwksInv'
  BY <1>4, StoreStep, TaskStep
<1>5. CASE UNCHANGED jwksVars
  BY <1>5 DEF jwksVars, JwksInv, JwksTypeOK, FromProvider, FreshUnlessOvertaken
<1> QED
  BY <1>1, <1>2, <1>3, <1>4, <1>5 DEF JwksNext

\* One step of KeysGoForward: only Store touches the cache.
LEMMA StepForward ==
  ASSUME JwksInv, [JwksNext]_jwksVars
  PROVE  [/\ cache # NoKeys => cache' # NoKeys
          /\ cache # NoKeys /\ cache' < cache =>
                \E t \in overtaken : step[t] = "store"]_jwksVars
<1>1. ASSUME NEW t \in Task, Store(t)
      PROVE  /\ cache' # NoKeys
             /\ cache # NoKeys /\ cache' < cache => t \in overtaken /\ step[t] = "store"
  BY <1>1, JwksAssumption
     DEF JwksInv, JwksTypeOK, Store, Stored, FreshUnlessOvertaken
<1>2. cache' = cache \/ \E t \in Task : Store(t)
  BY DEF JwksNext, jwksVars, Rotate, Cancel, WarmUp, Tick, Authenticate, StartRefresh,
         Discover, Fetch, Fail, Verify
<1>3. cache' = cache => ~(cache # NoKeys /\ cache' < cache)
  BY DEF JwksInv, JwksTypeOK
<1> QED
  BY <1>1, <1>2, <1>3

\* The types of the key cache hold for any number of tasks and key sets.
THEOREM JwksTypeCorrect == JwksSpec => []JwksTypeOK
<1>1. JwksInv => JwksTypeOK
  BY DEF JwksInv
<1> QED
  BY <1>1, JwksInvInit, JwksInvStep, PTL DEF JwksSpec

\* Failed refreshes take no keys away, and an older set comes back only by a
\* refresh another one overtook between its fetch and its store.
THEOREM KeysOnlyForward == JwksSpec => KeysGoForward
<1>1. JwksSpec => []JwksInv
  BY JwksInvInit, JwksInvStep, PTL DEF JwksSpec
<1> QED
  BY <1>1, StepForward, PTL DEF JwksSpec, KeysGoForward

=============================================================================
