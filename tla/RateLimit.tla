------------------------------ MODULE RateLimit ------------------------------
(***************************************************************************)
(* RateLimitMiddleware: one token bucket per client, shared by the threads *)
(* that serve requests.                                                    *)
(*                                                                         *)
(* Time is counted in ticks, and tokens in the time their refill takes: a  *)
(* tick refills one unit, and a request costs Cost units (a second divided *)
(* by requests_per_second).  A bucket is changed under the lock of its     *)
(* DashMap shard, in one step; the clock is read before that lock is       *)
(* taken.  Rounding of f64 is left out.                                    *)
(***************************************************************************)
EXTENDS Integers

CONSTANTS
    Thread,           \* the threads that serve requests
    Client,           \* the keys of KeyExtractor
    Cost,             \* units of one token
    burst,            \* tokens a bucket can hold
    Second,           \* ticks of a second
    STALE_AFTER,      \* ticks
    CLEANUP_INTERVAL,
    NoBucket,
    MaxTime           \* bound: the last tick

ASSUME RateAssumption ==
    /\ Cost \in Nat \ {0} /\ burst \in Nat \ {0} /\ Second \in Nat \ {0}
    /\ STALE_AFTER \in Nat \ {0} /\ CLEANUP_INTERVAL \in Nat \ {0}
    /\ MaxTime \in Nat
    /\ NoBucket \notin [tokens : Int, last_refill : Int]
    /\ NoBucket \notin Client

VARIABLES
    clock,
    buckets,        \* buckets[c]: [tokens, last_refill], or NoBucket
    request_count,  \* up to CLEANUP_INTERVAL, where it starts over
    thread,         \* thread[t]: where t is in check_rate_limit, and for whom
    spent,          \* history: spent[c], the units that c's requests have cost
    refilled,       \* history: refilled[c], the time up to which c has been credited
    rewound,        \* history: rewound[c], the time c has been credited for again
    forgiven,       \* history: forgiven[c], the units c gained when its bucket was removed
    promised        \* history: promised[c], the first time at which c was told to try
                    \* again since it was last let through, or 0

rateVars == <<clock, buckets, request_count, thread, spent, refilled, rewound,
              forgiven, promised>>

-----------------------------------------------------------------------------
Full == Cost * burst

NonNegative(n) == IF n > 0 THEN n ELSE 0

\* Instant::duration_since, which does not go below zero.
duration_since(now, earlier) == NonNegative(now - earlier)

\* The tokens of a bucket at a time.
Refill(bucket, now) ==
    LET tokens == bucket.tokens + duration_since(now, bucket.last_refill)
    IN  IF tokens < Full THEN tokens ELSE Full

\* Mutant: whole seconds, rounded down.
RetryAfterFloor(tokens) == (Cost - tokens) \div Second

\* Seconds, rounded up.
RetryAfter(tokens) == (Cost - tokens + Second - 1) \div Second

\* Where a thread is, for which client, with which time, and the clients
\* that a cleanup has not looked at yet.
Check(at, client, now, left) == [at |-> at, client |-> client, now |-> now, left |-> left]

Free == Check("free", NoBucket, 0, {})

-----------------------------------------------------------------------------
(* check_rate_limit *)

\* A request is counted; each CLEANUP_INTERVAL-th cleans up first.
Arrive(t, c) ==
    /\ thread[t].at = "free"
    /\ request_count' = IF request_count = CLEANUP_INTERVAL THEN 1 ELSE request_count + 1
    /\ thread' = [thread EXCEPT ![t] =
           Check(IF request_count = CLEANUP_INTERVAL THEN "cleanup" ELSE "clock", c, 0, {})]
    /\ UNCHANGED <<clock, buckets, spent, refilled, rewound, forgiven, promised>>

\* cleanup_stale_buckets reads the clock.
StartCleanup(t) ==
    /\ thread[t].at = "cleanup"
    /\ thread' = [thread EXCEPT ![t] = Check("retain", @.client, clock, Client)]
    /\ UNCHANGED <<clock, buckets, request_count, spent, refilled, rewound, forgiven, promised>>

Stale(bucket, now) == duration_since(now, bucket.last_refill) >= STALE_AFTER

\* DashMap::retain goes through the shards one after the other.
Retain(t, c) ==
    LET now == thread[t].now
        b == buckets[c]
        drop == b # NoBucket /\ Stale(b, now)
    IN  /\ thread[t].at = "retain"
        /\ c \in thread[t].left
        /\ thread' = [thread EXCEPT ![t].left = @ \ {c}]
        /\ buckets' = [buckets EXCEPT ![c] = IF drop THEN NoBucket ELSE @]
        /\ refilled' = [refilled EXCEPT ![c] = IF drop THEN now ELSE @]
        /\ forgiven' = [forgiven EXCEPT ![c] = IF drop THEN @ + Full - Refill(b, now) ELSE @]
        /\ UNCHANGED <<clock, request_count, spent, rewound, promised>>

EndCleanup(t) ==
    /\ thread[t].at = "retain"
    /\ thread[t].left = {}
    /\ thread' = [thread EXCEPT ![t] = Check("clock", @.client, @.now, {})]
    /\ UNCHANGED <<clock, buckets, request_count, spent, refilled, rewound, forgiven, promised>>

\* let now = Instant::now(), before the entry is locked.
ReadClock(t) ==
    /\ thread[t].at = "clock"
    /\ thread' = [thread EXCEPT ![t] = Check("entry", @.client, clock, {})]
    /\ UNCHANGED <<clock, buckets, request_count, spent, refilled, rewound, forgiven, promised>>

\* or_insert_with: a new bucket is full.
Entry(c, now) ==
    IF buckets[c] = NoBucket THEN [tokens |-> Full, last_refill |-> now] ELSE buckets[c]

Refilled(c, now) == Refill(Entry(c, now), now)

\* History of a refill: the time that has been credited before counts again.
Credit(c, now) ==
    /\ refilled' = [refilled EXCEPT ![c] = now]
    /\ rewound' = [rewound EXCEPT ![c] = @ + NonNegative(refilled[c] - now)]

\* Mutant: the time of the refill is not kept.
LeaveAllowedTwice(c, now) == [tokens |-> Refilled(c, now) - Cost,
                              last_refill |-> Entry(c, now).last_refill]

LeaveAllowed(c, now) == [tokens |-> Refilled(c, now) - Cost, last_refill |-> now]

LeaveLimited(c, now) == [tokens |-> Refilled(c, now), last_refill |-> now]

\* One token is there: the request goes on to the next middleware.
Allow(t) ==
    LET c == thread[t].client
        now == thread[t].now
    IN  /\ thread[t].at = "entry"
        /\ Refilled(c, now) >= Cost
        /\ buckets' = [buckets EXCEPT ![c] = LeaveAllowed(c, now)]
        /\ Credit(c, now)
        /\ spent' = [spent EXCEPT ![c] = @ + Cost]
        /\ promised' = [promised EXCEPT ![c] = 0]
        /\ thread' = [thread EXCEPT ![t] = Free]
        /\ UNCHANGED <<clock, request_count, forgiven>>

\* 429 with a retry-after header.
Reject(t) ==
    LET c == thread[t].client
        now == thread[t].now
    IN  /\ thread[t].at = "entry"
        /\ Refilled(c, now) < Cost
        /\ buckets' = [buckets EXCEPT ![c] = LeaveLimited(c, now)]
        /\ Credit(c, now)
        /\ promised' = [promised EXCEPT ![c] =
               LET p == now + Second * RetryAfter(Refilled(c, now))
               IN  IF @ = 0 \/ p < @ THEN p ELSE @]
        /\ thread' = [thread EXCEPT ![t] = Free]
        /\ UNCHANGED <<clock, request_count, spent, forgiven>>

Elapse ==
    /\ clock < MaxTime
    /\ clock' = clock + 1
    /\ UNCHANGED <<buckets, request_count, thread, spent, refilled, rewound, forgiven, promised>>

-----------------------------------------------------------------------------
RateInit ==
    /\ clock = 0
    /\ buckets = [c \in Client |-> NoBucket]
    /\ request_count = 0
    /\ thread = [t \in Thread |-> Free]
    /\ spent = [c \in Client |-> 0]
    /\ refilled = [c \in Client |-> 0]
    /\ rewound = [c \in Client |-> 0]
    /\ forgiven = [c \in Client |-> 0]
    /\ promised = [c \in Client |-> 0]

RateNext ==
    \/ \E t \in Thread :
        \/ \E c \in Client : Arrive(t, c) \/ Retain(t, c)
        \/ StartCleanup(t) \/ EndCleanup(t) \/ ReadClock(t)
        \/ Allow(t) \/ Reject(t)
    \/ Elapse

RateSpec == RateInit /\ [][RateNext]_rateVars

-----------------------------------------------------------------------------
Places == {"free", "cleanup", "retain", "clock", "entry"}

Bucket(time) == [tokens : 0 .. Full, last_refill : 0 .. time]

CheckState(time) ==
    [at : Places, client : Client \cup {NoBucket}, now : 0 .. time, left : SUBSET Client]

\* Type invariant of RateLimitMiddleware: a bucket never holds less than
\* nothing or more than burst, whichever request saw which time, and no time
\* in it lies in the future.
RateTypeOK ==
    /\ clock \in Nat
    /\ buckets \in [Client -> Bucket(clock) \cup {NoBucket}]
    /\ request_count \in 0 .. CLEANUP_INTERVAL
    /\ thread \in [Thread -> CheckState(clock)]
    /\ \A t \in Thread : thread[t].at # "free" => thread[t].client \in Client
    /\ spent \in [Client -> Nat]
    /\ refilled \in [Client -> 0 .. clock]
    /\ rewound \in [Client -> Nat]
    /\ forgiven \in [Client -> Nat]
    /\ promised \in [Client -> Nat]

\* What a client has been let through is paid for by a full bucket and the
\* time since the start, except for two things: time that was credited twice
\* because a request that read the clock earlier took the lock later and set
\* last_refill back, and what was missing in a bucket that was removed as
\* stale and came back full. The latter is nothing, unless the refill of a
\* bucket takes longer than STALE_AFTER.
RateRespected ==
    \A c \in Client :
        /\ spent[c] <= Full + clock + rewound[c] + forgiven[c]
        /\ forgiven[c] > 0 => STALE_AFTER < Full

\* A client that was told when to try again, and has not been let through
\* since, finds a token at that time: other requests of the client that are
\* rejected meanwhile, with a clock read before or after, and the cleanup do
\* not put it off.
RetryAfterSuffices ==
    \A c \in Client : promised[c] # 0 => Refilled(c, promised[c]) >= Cost

=============================================================================
