-------------------------------- MODULE Cache --------------------------------
(***************************************************************************)
(* The response cache: CacheMiddleware over InMemoryCache, with requests   *)
(* on several threads. An entry tells the ticks it has left, whether its   *)
(* response was overtaken by a write before it was stored, and whether an  *)
(* invalidation missed it, which happens with Redis only (RedisCache).     *)
(*                                                                         *)
(* The application behind it keeps one value per path; a value is the      *)
(* number of the write it comes from.  A write to a path changes that path *)
(* and, when the last segment of its route is a parameter, the collection  *)
(* above it.  A handler that answers without 2xx, or is dropped before it  *)
(* answers, has changed nothing.                                           *)
(*                                                                         *)
(* A path is a sequence of segments and a query a sequence of parameters.  *)
(* A response that is not to be stored (no ttl header, a streaming body, a *)
(* body that fails) is one case.                                           *)
(***************************************************************************)
EXTENDS Integers, Sequences, FiniteSets, SequencesExt

CONSTANTS
    Thread,         \* the threads that serve requests
    Path,           \* paths of the cached GET routes
    Query,          \* queries of GET requests
    Mutation,       \* [path, params]: where a mutation goes, and which segments
                    \* of its route are parameters
    SegmentPrefix,  \* pairs of different segments, the first a string prefix of the second
    max_entries,    \* CacheConfig::InMemory
    CleanupInterval,
    Ttl,            \* the values of #[cache(ttl = N)], in ticks
    MaxWrites       \* bound: writes in a behaviour

ASSUME CacheAssumption ==
    /\ \A p \in Path : p \in Seq(Range(p))
    /\ \A m \in Mutation : /\ m.path \in Seq(Range(m.path))
                          /\ m.params \subseteq DOMAIN m.path
    /\ max_entries \in Nat
    /\ CleanupInterval \in Nat \ {0}
    /\ Ttl \subseteq Nat
    /\ MaxWrites \in Nat

VARIABLES
    entries,    \* the DashMap: [value, left, raced, missed, created] under each of its
                \* keys; `created` is the rank of created_at
    op_count,   \* up to CleanupInterval, where it starts over
    req,        \* req[r]: the request that thread r serves
    writes,     \* the application's writes so far
    data,       \* data[p]: the write that p's value comes from
    acked,      \* history: acked[p], the last write to p whose client has its answer
    crowded     \* history: two requests have been storing their responses at once

cacheVars == <<entries, op_count, req, writes, data, acked, crowded>>

-----------------------------------------------------------------------------
(* Keys and prefixes *)

\* The parameters are sorted.
build_cache_key(path, query) == [path |-> path, query |-> SortSeq(query, <)]

NoKey == build_cache_key(<<>>, <<>>)

Key == {build_cache_key(p, q) : p \in Path, q \in Query}

\* Mutant: only the resource itself.
build_invalidation_prefixes_exact(m) == {m.path}

\* build_invalidation_prefixes_from_pattern: up to each segment that is not a parameter.
build_invalidation_prefixes(m) ==
    {SubSeq(m.path, 1, i) : i \in DOMAIN m.path \ m.params}

\* key.starts_with(prefix); the last segment of the prefix may end inside a segment.
StartsWith(key, prefix) ==
    LET n == Len(prefix) IN
    /\ Len(key.path) >= n
    /\ \A i \in 1 .. n : \/ key.path[i] = prefix[i]
                         \/ i = n /\ <<prefix[i], key.path[i]>> \in SegmentPrefix

-----------------------------------------------------------------------------
(* InMemoryCache *)

\* Mutant: entries do not expire.
LiveForEver(e) == e.left >= 0

\* expires_at > now
Live(e) == e.left > 0

Unexpired == {key \in DOMAIN entries : Live(entries[key])}

\* There is an entry under key, and it has not expired.
Hit(key) == key \in Unexpired

CleanupDue == op_count = CleanupInterval

\* maybe_cleanup: every CleanupInterval operations, but not at the first.
MaybeCleanup ==
    /\ op_count' = IF CleanupDue THEN 1 ELSE op_count + 1

\* The keys it leaves.
Cleaned == IF CleanupDue THEN Unexpired ELSE DOMAIN entries

\* The keys of `held` with the least created_at.
Oldest(held) ==
    {key \in held : \A k \in held : entries[key].created <= entries[k].created}

\* The insert of e under key; the ranks of the other entries close up.
Inserted(key, e) ==
    LET others == DOMAIN entries \ {key}
        Rank(k) == Cardinality({j \in others : entries[j].created <= entries[k].created})
    IN  [k \in others \cup {key} |->
            IF k = key THEN [e EXCEPT !.created = Cardinality(others) + 1]
                       ELSE [entries[k] EXCEPT !.created = Rank(k)]]

-----------------------------------------------------------------------------
(* CacheMiddleware::handle for the request of thread r *)

Idle == [pc |-> "idle", key |-> NoKey, mutation |-> [path |-> <<>>, params |-> {}],
         value |-> 0, asof |-> 0, raced |-> FALSE, missed |-> FALSE, victim |-> NoKey,
         todo |-> {}]

At(r, l) == req[r].pc = l

\* A GET request arrives.
Get(r, path, query) ==
    /\ At(r, "idle")
    /\ req' = [req EXCEPT ![r] = [Idle EXCEPT !.pc = "get",
                                              !.key = build_cache_key(path, query),
                                              !.asof = acked[path]]]
    /\ UNCHANGED <<entries, op_count, writes, data, acked, crowded>>

\* The request of r with the response of the entry under its key.
Found(r) ==
    LET e == entries[req[r].key] IN
    [req[r] EXCEPT !.pc = "hit", !.value = e.value, !.raced = e.raced, !.missed = e.missed]

\* InMemoryCache::get, up to the lookup. A hit is answered.
LookUp(r) ==
    /\ At(r, "get")
    /\ MaybeCleanup
    /\ entries' = Restrict(entries, Cleaned)
    /\ req' = [req EXCEPT ![r] = IF Hit(req[r].key) THEN Found(r)
                                 ELSE [@ EXCEPT !.pc = "missed"]]
    /\ UNCHANGED <<writes, data, acked, crowded>>

\* Mutant: remove instead of remove_if.
RemoveExpiredAlways(r) ==
    /\ At(r, "missed")
    /\ entries' = Restrict(entries, DOMAIN entries \ {req[r].key})
    /\ req' = [req EXCEPT ![r].pc = "handler"]
    /\ UNCHANGED <<op_count, writes, data, acked, crowded>>

\* The rest of InMemoryCache::get on a miss: remove_if the entry has expired.
RemoveExpired(r) ==
    /\ At(r, "missed")
    /\ entries' = Restrict(entries, {key \in DOMAIN entries :
                                        key # req[r].key \/ Live(entries[key])})
    /\ req' = [req EXCEPT ![r].pc = "handler"]
    /\ UNCHANGED <<op_count, writes, data, acked, crowded>>

\* The handler reads the application's value; its response is to be stored.
HandlerReads(r) ==
    /\ At(r, "handler")
    /\ req' = [req EXCEPT ![r] = [req[r] EXCEPT !.pc = "set", !.value = data[req[r].key.path]]]
    /\ UNCHANGED <<entries, op_count, writes, data, acked, crowded>>

\* The response is not to be stored: it is passed on. Or the request is dropped
\* while the handler works.
PassThrough(r) ==
    /\ At(r, "handler")
    /\ req' = [req EXCEPT ![r] = Idle]
    /\ UNCHANGED <<entries, op_count, writes, data, acked, crowded>>

\* Mutant: one entry too many is let in.
FullLate(held) == Cardinality(held) > max_entries

Full(held) == Cardinality(held) >= max_entries

\* InMemoryCache::set: maybe_cleanup, and evict_if_full up to the choice of the oldest.
Evict(r) ==
    /\ At(r, "set")
    /\ MaybeCleanup
    /\ entries' = Restrict(entries, IF Full(Cleaned) THEN Unexpired ELSE Cleaned)
    /\ IF Full(Cleaned) /\ Full(Unexpired) /\ Unexpired # {}
       THEN \E oldest \in Oldest(Unexpired) :
               req' = [req EXCEPT ![r] = [@ EXCEPT !.pc = "remove", !.victim = oldest]]
       ELSE req' = [req EXCEPT ![r].pc = "insert"]
    /\ crowded' = (crowded \/ \E k \in Thread : req[k].pc \in {"remove", "insert"})
    /\ UNCHANGED <<writes, data, acked>>

\* evict_if_full removes the key it chose, whatever is stored under it by now.
RemoveOldest(r) ==
    /\ At(r, "remove")
    /\ entries' = Restrict(entries, DOMAIN entries \ {req[r].victim})
    /\ req' = [req EXCEPT ![r].pc = "insert"]
    /\ UNCHANGED <<op_count, writes, data, acked, crowded>>

\* The entry that the response of r makes.
Response(r, ttl) ==
    [value |-> req[r].value, left |-> ttl, raced |-> req[r].raced, missed |-> FALSE,
     created |-> 0]

\* The insert; the response goes out.
Insert(r) ==
    /\ At(r, "insert")
    /\ \E ttl \in Ttl :
          entries' = Inserted(req[r].key, Response(r, ttl))
    /\ req' = [req EXCEPT ![r] = Idle]
    /\ UNCHANGED <<op_count, writes, data, acked, crowded>>

\* A hit is answered.
Answer(r) ==
    /\ At(r, "hit")
    /\ req' = [req EXCEPT ![r] = Idle]
    /\ UNCHANGED <<entries, op_count, writes, data, acked, crowded>>

\* What a mutation changes.
Changed(m) ==
    {p \in Path : p = m.path \/ (Len(m.path) \in m.params /\ p = Front(m.path))}

\* The handler of a POST, PUT, PATCH or DELETE answers 2xx. Readers that hold an
\* older value of a changed path have been overtaken.
Mutate(r, m) ==
    /\ At(r, "idle")
    /\ writes < MaxWrites
    /\ writes' = writes + 1
    /\ data' = [p \in Path |-> IF p \in Changed(m) THEN writes + 1 ELSE data[p]]
    /\ req' = [k \in Thread |->
                 IF k = r THEN [Idle EXCEPT !.pc = "invalidate", !.mutation = m,
                                            !.value = writes + 1,
                                            !.todo = build_invalidation_prefixes(m)]
                 ELSE IF req[k].pc \in {"set", "remove", "insert"} /\ req[k].key.path \in Changed(m)
                 THEN [req[k] EXCEPT !.raced = TRUE]
                 ELSE req[k]]
    /\ UNCHANGED <<entries, op_count, acked, crowded>>

\* InMemoryCache::invalidate_prefix for the next prefix, the shortest one left.
Invalidate(r) ==
    /\ At(r, "invalidate")
    /\ \E p \in req[r].todo :
          /\ \A q \in req[r].todo : Len(p) <= Len(q)
          /\ entries' = Restrict(entries, {key \in DOMAIN entries : ~StartsWith(key, p)})
          /\ req' = [req EXCEPT ![r].todo = @ \ {p}]
    /\ UNCHANGED <<op_count, writes, data, acked, crowded>>

\* Mutant: the answer does not wait for the invalidations.
MutationAnsweredEarly(r) ==
    /\ At(r, "invalidate")
    /\ acked' = [p \in Path |->
                   IF p \in Changed(req[r].mutation) /\ acked[p] < req[r].value
                   THEN req[r].value ELSE acked[p]]
    /\ req' = [req EXCEPT ![r] = Idle]
    /\ UNCHANGED <<entries, op_count, writes, data, crowded>>

\* Every prefix is done: the mutation is answered.
MutationAnswered(r) ==
    /\ At(r, "invalidate")
    /\ req[r].todo = {}
    /\ acked' = [p \in Path |->
                   IF p \in Changed(req[r].mutation) /\ acked[p] < req[r].value
                   THEN req[r].value ELSE acked[p]]
    /\ req' = [req EXCEPT ![r] = Idle]
    /\ UNCHANGED <<entries, op_count, writes, data, crowded>>

\* Time passes.
CacheTick ==
    /\ Unexpired # {}
    /\ entries' = [key \in DOMAIN entries |->
                     [entries[key] EXCEPT !.left = IF @ > 0 THEN @ - 1 ELSE 0]]
    /\ UNCHANGED <<op_count, req, writes, data, acked, crowded>>

CacheInit ==
    /\ entries = <<>>
    /\ op_count = 0
    /\ req = [r \in Thread |-> Idle]
    /\ writes = 0
    /\ data = [p \in Path |-> 0]
    /\ acked = [p \in Path |-> 0]
    /\ crowded = FALSE

\* What a request does once it is there.
CacheStep(r) ==
    \/ LookUp(r) \/ RemoveExpired(r) \/ HandlerReads(r) \/ PassThrough(r)
    \/ Evict(r) \/ RemoveOldest(r) \/ Insert(r) \/ Answer(r)
    \/ Invalidate(r) \/ MutationAnswered(r)

CacheNext ==
    \/ \E r \in Thread : \/ CacheStep(r)
                         \/ \E p \in Path, q \in Query : Get(r, p, q)
                         \/ \E m \in Mutation : Mutate(r, m)
    \/ CacheTick

CacheSpec == CacheInit /\ [][CacheNext]_cacheVars

\* Handlers return, the runtime polls requests to their end, time passes.
CacheFairness ==
    /\ \A r \in Thread : WF_cacheVars(CacheStep(r))
    /\ WF_cacheVars(CacheTick)

-----------------------------------------------------------------------------
(* Properties *)

\* The paths that a mutation changes and whose segments are all parameters of
\* its route, as in /:slug: no collection is named by them.
Unnamed(m) == {p \in Changed(m) : DOMAIN p \subseteq m.params}

\* A cached value that is out of date was read before a write and stored after
\* it, or was missed over Redis by an invalidation that looked at a part of the
\* keys, failed or was dropped, or is about to be removed by the request that
\* wrote, or comes from a route that has no prefix to invalidate: nothing else
\* escapes a mutation.
StaleOnlyByRace ==
    \A key \in DOMAIN entries :
        entries[key].value < data[key.path] =>
            \/ entries[key].raced
            \/ entries[key].missed
            \/ \E r \in Thread : /\ At(r, "invalidate")
                                 /\ \E p \in req[r].todo : StartsWith(key, p)
            \/ \E m \in Mutation : key.path \in Unnamed(m)

\* With the same exceptions, a hit is at least as new as the last write that
\* was answered before the request came.
ReadsAcknowledged ==
    \A r \in Thread :
        At(r, "hit") => \/ req[r].value >= req[r].asof
                        \/ req[r].raced
                        \/ req[r].missed
                        \/ \E m \in Mutation : req[r].key.path \in Unnamed(m)

\* Neither what the cache holds nor what it answers is out of date, but for these
\* reasons: no mutation is lost between the cache and the application behind it.
CacheCoherent == StaleOnlyByRace /\ ReadsAcknowledged

\* The cache holds no more than max_entries responses, as long as no two
\* requests store at once: the check and the insert are separate steps.
CapacityRespected ==
    Cardinality(DOMAIN entries) > max_entries => crowded \/ max_entries = 0

\* A live entry goes away only by an eviction that chose its key, by a mutation
\* it lies under, or when its time is over; a lookup of the same key never
\* takes it along.
FreshEntriesStay ==
    [][\A key \in Unexpired :
         key \notin DOMAIN entries' =>
             \/ entries[key].left = 1 /\ UNCHANGED req
             \/ \E r \in Thread : \/ At(r, "remove") /\ req[r].victim = key
                                  \/ /\ At(r, "invalidate")
                                     /\ \E p \in req[r].todo : StartsWith(key, p)]_cacheVars

\* Once the writes are over, the cache ends up answering with current values
\* only: what escaped an invalidation does not outlive its ttl.
SettlesFresh ==
    <>[](\A r \in Thread : At(r, "hit") => req[r].value = data[req[r].key.path])

=============================================================================
