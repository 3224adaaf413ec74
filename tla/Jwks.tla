-------------------------------- MODULE Jwks --------------------------------
(***************************************************************************)
(* The cache of a JWKS client: listen() warms it up, a cron job refreshes  *)
(* it, and a request that finds it empty refreshes it before it verifies   *)
(* its token. A refresh is two or three awaits (discovery, fetch, store),  *)
(* nothing keeps two refreshes apart, and the store takes what was fetched *)
(* whatever the cache holds by then.                                       *)
(*                                                                         *)
(* The provider is outside the program: it publishes one key set after     *)
(* another, numbered in their order, answers or fails.                     *)
(***************************************************************************)
EXTENDS Integers

CONSTANTS
    Task,          \* refreshes and requests that may be under way at a time
    Discovery,     \* TRUE for JwksClient::Oidc, FALSE for JwksClient::Direct
    NoKeys,        \* the cache before its first refresh
    MaxRotations   \* bound on the key sets the provider publishes

ASSUME JwksAssumption ==
    /\ Discovery \in BOOLEAN
    /\ NoKeys \notin Nat
    /\ MaxRotations \in Nat

VARIABLES
    published,  \* the key set the provider serves
    cache,
    app,      \* of listen(): "starting", "warming", "serving", "cancelled"
    step,       \* where each task is
    by,         \* who runs it: "warmup", "cron", "request"
    content,    \* the key set a task has fetched
    overtaken   \* tasks that held a fetched set while another one stored its own

jwksVars == <<published, cache, app, step, by, content, overtaken>>

Steps == {"idle", "discover", "fetch", "store", "verify"}

JwksTypeOK ==
    /\ published \in 0 .. MaxRotations
    /\ cache \in Nat \cup {NoKeys}
    /\ app \in {"starting", "warming", "serving", "cancelled"}
    /\ step \in [Task -> Steps]
    /\ by \in [Task -> {"warmup", "cron", "request"}]
    /\ content \in [Task -> Nat]
    /\ overtaken \subseteq Task

Goto(t, s) == step' = [step EXCEPT ![t] = s]

\* The provider replaces its keys.
Rotate ==
    /\ published < MaxRotations
    /\ published' = published + 1
    /\ UNCHANGED <<cache, app, step, by, content, overtaken>>

\* refresh_jwks_cache calls fetch_jwks_content, which asks for the discovery
\* document first if the client has one.
StartRefresh(t, who) ==
    /\ step[t] = "idle"
    /\ Goto(t, IF Discovery THEN "discover" ELSE "fetch")
    /\ by' = [by EXCEPT ![t] = who]
    /\ UNCHANGED <<published, cache, content, overtaken>>

\* warmup, which listen() awaits before it starts the scheduler and serves.
WarmUp(t) ==
    /\ app = "starting"
    /\ app' = "warming"
    /\ StartRefresh(t, "warmup")

\* The scheduler spawns the job at every tick, whether the last run is over or
\* not, until shutdown() stops it.
Tick(t) ==
    /\ app = "serving"
    /\ StartRefresh(t, "cron")
    /\ UNCHANGED app

\* JsonWebToken::from_request_parts. A filled cache is used as it is, whether
\* or not it knows the key of the token; an empty one is refreshed.
Authenticate(t) ==
    /\ app \in {"serving", "cancelled"}
    /\ cache = NoKeys
    /\ StartRefresh(t, "request")
    /\ UNCHANGED app

Discover(t) ==
    /\ step[t] = "discover"
    /\ Goto(t, "fetch")
    /\ UNCHANGED <<published, cache, app, by, content, overtaken>>

Fetch(t) ==
    /\ step[t] = "fetch"
    /\ content' = [content EXCEPT ![t] = published]
    /\ overtaken' = overtaken \ {t}
    /\ Goto(t, "store")
    /\ UNCHANGED <<published, cache, app, by>>

\* What follows the warm-up, whether it worked or not: the server starts.
AppAfter(t) == app' = IF by[t] = "warmup" THEN "serving" ELSE app

\* Mutant: the outcome of the refresh is stored, `*cache = fetched.ok()`.
FailEmptied(t) ==
    /\ step[t] \in {"discover", "fetch"}
    /\ Goto(t, "idle")
    /\ cache' = NoKeys
    /\ AppAfter(t)
    /\ UNCHANGED <<published, by, content, overtaken>>

\* A request of the refresh fails: the error is logged, or answered by the
\* handler's request, and the cache stays as it is.
Fail(t) ==
    /\ step[t] \in {"discover", "fetch"}
    /\ Goto(t, "idle")
    /\ AppAfter(t)
    /\ UNCHANGED <<published, cache, by, content, overtaken>>

\* Mutant: `get_or_insert` in place of `replace`.
StoredFirst(t) == IF cache = NoKeys THEN content[t] ELSE cache

\* Option::replace under the write lock.
Stored(t) == content[t]

\* The set goes into the cache. A request goes on to read the cache again.
Store(t) ==
    /\ step[t] = "store"
    /\ cache' = Stored(t)
    /\ overtaken' = (overtaken \cup {u \in Task : step[u] = "store"}) \ {t}
    /\ Goto(t, IF by[t] = "request" THEN "verify" ELSE "idle")
    /\ AppAfter(t)
    /\ UNCHANGED <<published, by, content>>

\* The request looks for the key of its token in the cache as it is now.
Verify(t) ==
    /\ step[t] = "verify"
    /\ Goto(t, "idle")
    /\ UNCHANGED <<published, cache, app, by, content, overtaken>>

\* CronScheduler::shutdown, from the hook of the scheduler: the select of
\* every running job drops its refresh at the await it is in.
Cancel ==
    /\ app = "serving"
    /\ app' = "cancelled"
    /\ step' = [t \in Task |-> IF by[t] = "cron" THEN "idle" ELSE step[t]]
    /\ UNCHANGED <<published, cache, by, content, overtaken>>

JwksInit ==
    /\ published = 0
    /\ cache = NoKeys
    /\ app = "starting"
    /\ step = [t \in Task |-> "idle"]
    /\ by = [t \in Task |-> "warmup"]
    /\ content = [t \in Task |-> 0]
    /\ overtaken = {}

JwksNext ==
    \/ Rotate
    \/ Cancel
    \/ \E t \in Task :
          \/ WarmUp(t) \/ Tick(t) \/ Authenticate(t) \/ Discover(t) \/ Fetch(t)
          \/ Fail(t) \/ Store(t) \/ Verify(t)

\* A tick comes as often as the schedule says, a future that can go on does,
\* and a provider that is asked again and again answers some time.
JwksFairness ==
    /\ WF_jwksVars(\E t \in Task : Tick(t))
    /\ \A t \in Task :
          /\ WF_jwksVars(Store(t)) /\ WF_jwksVars(Verify(t))
          /\ SF_jwksVars(Discover(t)) /\ SF_jwksVars(Fetch(t))

JwksSpec == JwksInit /\ [][JwksNext]_jwksVars

-----------------------------------------------------------------------------

\* Once there are keys there are always some: a provider that is down takes
\* none away. And they go back to an older set only by a refresh that had
\* fetched it when another one stored a newer: never by a failed one, nor by
\* any refresh that ran alone.
KeysGoForward ==
    [][/\ cache # NoKeys => cache' # NoKeys
       /\ cache # NoKeys /\ cache' < cache => \E t \in overtaken : step[t] = "store"]_jwksVars

\* While the server runs, the keys the provider ends up with reach the cache
\* and stay there, whatever refreshes failed or overtook each other before.
RotationsReachCache ==
    <>[](app = "serving") => <>[](cache = published)

=============================================================================
