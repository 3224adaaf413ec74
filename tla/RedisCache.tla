----------------------------- MODULE RedisCache -----------------------------
(***************************************************************************)
(* The response cache with RedisCache as its backend: the middleware of    *)
(* Cache, on the threads of one process or of several, over the keys of    *)
(* one Redis. Redis forgets a key when its time is over and has no limit   *)
(* of entries. A command may fail, and the backend goes on as if it had    *)
(* found nothing, or had nothing to do. A request may be dropped while it  *)
(* waits for a command: its client is gone, or a timeout around the cache  *)
(* is over.                                                                *)
(***************************************************************************)
EXTENDS Cache

CONSTANTS
    ScanCount,  \* the COUNT of SCAN: the places of Redis's table one call looks at
    Faults,     \* TRUE if commands may fail, and requests be dropped
    GlobPrefix, \* prefixes with characters that MATCH does not take for themselves
    GlobMatch   \* [prefix, key]: what Redis finds for those

ASSUME RedisAssumption == ScanCount \in Nat \ {0} /\ Faults \in BOOLEAN

VARIABLE scanned  \* scanned[r]: what the SCANs of thread r returned, [prefix, keys]

redisVars == <<cacheVars, scanned>>

\* RedisCache::get: an error is a miss.
RedisGet(r) ==
    /\ At(r, "get")
    /\ \/ /\ Hit(req[r].key)
          /\ req' = [req EXCEPT ![r] = Found(r)]
       \/ /\ ~Hit(req[r].key) \/ Faults
          /\ req' = [req EXCEPT ![r].pc = "handler"]
    /\ UNCHANGED <<entries, op_count, writes, data, acked, crowded, scanned>>

\* RedisCache::set. SETEX refuses a time of 0 seconds.
RedisSet(r, ttl) ==
    /\ At(r, "set")
    /\ \/ /\ ttl > 0
          /\ entries' = Inserted(req[r].key, Response(r, ttl))
       \/ /\ ttl = 0 \/ Faults
          /\ UNCHANGED entries
    /\ crowded' = TRUE
    /\ req' = [req EXCEPT ![r] = Idle]
    /\ UNCHANGED <<op_count, writes, data, acked, scanned>>

\* The entries under `keys` stay behind, and some are out of date.
Missed(keys) ==
    [key \in DOMAIN entries |->
        IF key \in keys /\ entries[key].value < data[key.path]
        THEN [entries[key] EXCEPT !.missed = TRUE] ELSE entries[key]]

\* What is to go with a prefix.
Named(prefix) == {key \in DOMAIN entries : StartsWith(key, prefix)}

\* MATCH with the prefix and a `*`, which is not escaped.
Matches(key, prefix) ==
    IF prefix \in GlobPrefix THEN [prefix |-> prefix, key |-> key] \in GlobMatch
    ELSE StartsWith(key, prefix)

\* Mutant: the SCAN has no MATCH.
UnderAny(prefix) == DOMAIN entries

Under(prefix) == {key \in DOMAIN entries : Matches(key, prefix)}

\* What one call of SCAN may look at: all keys if they are few.
Page == IF Cardinality(DOMAIN entries) > ScanCount THEN SUBSET (DOMAIN entries) ELSE {DOMAIN entries}

\* RedisCache::invalidate_prefix up to the answer of its SCAN, which starts at
\* cursor 0; the cursor in the answer is left aside. Without a key there is
\* nothing to delete. join_all has the invalidations of a mutation run at once.
Scan(r, prefix, page) ==
    LET keys == Under(prefix) \cap page IN
    /\ At(r, "invalidate")
    /\ prefix \in req[r].todo
    /\ \A f \in scanned[r] : f.prefix # prefix
    /\ page \in Page \/ (Faults /\ page = {})
    /\ entries' = Missed(Named(prefix) \ keys)
    /\ IF keys = {}
       THEN /\ req' = [req EXCEPT ![r].todo = @ \ {prefix}]
            /\ UNCHANGED scanned
       ELSE /\ scanned' = [scanned EXCEPT ![r] = @ \cup {[prefix |-> prefix, keys |-> keys]}]
            /\ UNCHANGED req
    /\ UNCHANGED <<op_count, writes, data, acked, crowded>>

\* The DEL that follows; its error is ignored.
Delete(r, f) ==
    /\ f \in scanned[r]
    /\ \/ entries' = Restrict(entries, DOMAIN entries \ f.keys)
       \/ Faults /\ entries' = Missed(f.keys \cap Named(f.prefix))
    /\ scanned' = [scanned EXCEPT ![r] = @ \ {f}]
    /\ req' = [req EXCEPT ![r].todo = @ \ {f.prefix}]
    /\ UNCHANGED <<op_count, writes, data, acked, crowded>>

\* The future of a request is dropped while it waits for Redis. A mutation's
\* SCANs and DELs that Redis has not done by then are never done, and nobody
\* has an answer.
Drop(r) ==
    /\ Faults
    /\ req[r].pc \in {"get", "set"} \/ (At(r, "invalidate") /\ req[r].todo # {})
    /\ entries' = Missed(UNION {Named(prefix) : prefix \in req[r].todo})
    /\ scanned' = [scanned EXCEPT ![r] = {}]
    /\ req' = [req EXCEPT ![r] = Idle]
    /\ UNCHANGED <<op_count, writes, data, acked, crowded>>

\* Time passes, and keys go whose time is over.
RedisTick ==
    /\ DOMAIN entries # {}
    /\ entries' = [key \in {k \in DOMAIN entries : entries[k].left > 1} |->
                     [entries[key] EXCEPT !.left = @ - 1]]
    /\ UNCHANGED <<op_count, req, writes, data, acked, crowded, scanned>>

RedisInit == CacheInit /\ scanned = [r \in Thread |-> {}]

\* The steps of CacheMiddleware::handle that leave the backend alone.
Handled(r) ==
    /\ HandlerReads(r) \/ PassThrough(r) \/ Answer(r) \/ MutationAnswered(r)
    /\ UNCHANGED scanned

RedisStep(r) ==
    \/ Handled(r)
    \/ RedisGet(r)
    \/ \E ttl \in Ttl : RedisSet(r, ttl)
    \/ \E prefix \in req[r].todo, page \in Page \cup {{}} : Scan(r, prefix, page)
    \/ \E f \in scanned[r] : Delete(r, f)

RedisNext ==
    \/ \E r \in Thread :
          \/ RedisStep(r)
          \/ Drop(r)
          \/ /\ \/ \E p \in Path, q \in Query : Get(r, p, q)
                \/ \E m \in Mutation : Mutate(r, m)
             /\ UNCHANGED scanned
    \/ RedisTick

RedisSpec == RedisInit /\ [][RedisNext]_redisVars

-----------------------------------------------------------------------------
\* A live entry goes away only when its time is over, or by a mutation under
\* way whose prefix Redis matches with its key: the DEL takes nothing that its
\* SCAN did not find, and nothing is evicted.
RedisEntriesStay ==
    [][\A key \in Unexpired :
         key \notin DOMAIN entries' =>
             \/ entries[key].left = 1 /\ UNCHANGED req
             \/ \E r \in Thread : /\ At(r, "invalidate")
                                  /\ \E p \in req[r].todo : Matches(key, p)]_redisVars

\* `Invalidates all entries whose key starts with the given prefix`: a hit is
\* at least as new as the last mutation that was answered before its request
\* came, except for a response that was under way during the write and for a
\* route without a prefix.
InvalidatesAll ==
    \A r \in Thread :
        At(r, "hit") => \/ req[r].value >= req[r].asof
                        \/ req[r].raced
                        \/ \E m \in Mutation : req[r].key.path \in Unnamed(m)

=============================================================================
