----------------------------- MODULE CacheProofs -----------------------------
(***************************************************************************)
(* Theorems about Cache and RedisCache, for any threads, paths, routes,    *)
(* limits and numbers of writes: what a cached response may miss of the    *)
(* writes behind it, over either backend, how large the map in memory may  *)
(* grow, and what takes a live entry away.                                 *)
(***************************************************************************)
EXTENDS RedisCache, FiniteSetTheorems, TLAPS

-----------------------------------------------------------------------------
(* The inductive invariant *)

Pc == {"idle", "get", "hit", "missed", "handler", "set", "remove", "insert", "invalidate"}

\* The requests that hold a response they are about to store.
Storing == {"set", "remove", "insert"}

Prefix == UNION {build_invalidation_prefixes(m) : m \in Mutation}

Request ==
    [pc : Pc, key : Key \cup {NoKey}, mutation : Mutation \cup {Idle.mutation},
     value : Nat, asof : Nat, raced : BOOLEAN, missed : BOOLEAN,
     victim : Key \cup {NoKey}, todo : SUBSET Prefix]

Entry == [value : Nat, left : Nat, raced : BOOLEAN, missed : BOOLEAN, created : Nat]

\* A request has the fields its stage of handle() needs.
Serving(q) ==
    /\ q.pc \notin {"idle", "invalidate"} => q.key \in Key
    /\ q.pc = "invalidate" => q.mutation \in Mutation

CacheTypes ==
    /\ DOMAIN entries \subseteq Key
    /\ IsFiniteSet(DOMAIN entries)
    /\ entries \in [DOMAIN entries -> Entry]
    /\ req \in [Thread -> Request]
    /\ \A r \in Thread : Serving(req[r])
    /\ writes \in Nat
    /\ data \in [Path -> Nat]
    /\ acked \in [Path -> Nat]
    /\ crowded \in BOOLEAN

\* The mutation of r is at its invalidations, and has changed path.
Changes(r, path) == At(r, "invalidate") /\ path \in Changed(req[r].mutation)

\* What was answered, and what is at its invalidations, the application holds.
WriteInv ==
    /\ \A p \in Path : acked[p] <= data[p] /\ data[p] <= writes
    /\ \A r \in Thread, p \in Path : Changes(r, p) => req[r].value <= data[p]

\* A lookup is made for a request that came before the last answer.
AskedInv == \A r \in Thread : At(r, "get") => req[r].asof <= acked[req[r].key.path]

\* The mutation of r has made this value of path old.
Overtakes(r, path, value) == Changes(r, path) /\ value < req[r].value

\* r has still to remove the entries under a prefix of key.
Pending(r, key) == \E q \in req[r].todo : StartsWith(key, q)

Nameless(path) == \E m \in Mutation : path \in Unnamed(m)

Excused(e, path) == e.raced \/ e.missed \/ Nameless(path)

\* The entry is as new as the last write that was answered, is removed before
\* the answer of a newer one, and is behind only as long as there is a newer one.
Fresh(key, e) ==
    \/ Excused(e, key.path)
    \/ /\ e.value >= acked[key.path]
       /\ \A r \in Thread : Overtakes(r, key.path, e.value) => Pending(r, key)
       /\ e.value >= data[key.path] \/ \E r \in Thread : Overtakes(r, key.path, e.value)

EntryInv == \A key \in DOMAIN entries : Fresh(key, entries[key])

\* So is a response that is to be stored, and no write has overtaken it.
Current(q) ==
    \/ q.raced
    \/ /\ q.value >= acked[q.key.path]
       /\ \A r \in Thread : ~Overtakes(r, q.key.path, q.value)
       /\ q.value >= data[q.key.path]

ResponseInv == \A k \in Thread : req[k].pc \in Storing => Current(req[k])

FreshInv == WriteInv /\ AskedInv /\ EntryInv /\ ResponseInv /\ ReadsAcknowledged

\* Stores that have made room for their response.
MakingRoom(r) == req[r].pc \in {"remove", "insert"}

\* As long as stores do not overlap, the one that is under way has its room, or
\* has it once the key it chose is removed.
CapacityInv ==
    ~crowded =>
        /\ \A r, k \in Thread : MakingRoom(r) /\ MakingRoom(k) => r = k
        /\ max_entries > 0 =>
              /\ Cardinality(DOMAIN entries) <= max_entries
              /\ \A r \in Thread :
                    /\ At(r, "remove") =>
                          Cardinality(DOMAIN entries \ {req[r].victim}) < max_entries
                    /\ At(r, "insert") => Cardinality(DOMAIN entries) < max_entries

IInv == CacheTypes /\ FreshInv /\ CapacityInv

-----------------------------------------------------------------------------
(* Keys, prefixes and the sets of entries *)

\* A key has the path of its request.
LEMMA KeyPath ==
    \A key \in Key : key.path \in Path
<1>1. ASSUME NEW p \in Path, NEW q \in Query
      PROVE  build_cache_key(p, q).path = p
    BY DEF build_cache_key
<1> QED
    BY <1>1 DEF Key

\* A path that a mutation changes lies under a prefix it invalidates, unless
\* all of its segments are parameters of the route.
LEMMA ChangedIsCovered ==
    ASSUME NEW m \in Mutation, NEW key \in Key, key.path \in Changed(m),
           key.path \notin Unnamed(m)
    PROVE  \E q \in build_invalidation_prefixes(m) : StartsWith(key, q)
<1> DEFINE p == key.path
<1>1. p \in Path /\ p \in Seq(Range(p)) /\ m.path \in Seq(Range(m.path))
    BY KeyPath, CacheAssumption
<1>2. Len(m.path) \in Nat /\ DOMAIN m.path = 1 .. Len(m.path) /\ DOMAIN p = 1 .. Len(p)
        /\ Len(p) \in Nat
    BY <1>1
<1>3. PICK i \in DOMAIN p : i \notin m.params
    BY DEF Unnamed
<1>4. /\ Len(p) <= Len(m.path)
      /\ \A j \in 1 .. Len(p) : p[j] = m.path[j]
    <2>1. CASE p = m.path
        BY <2>1, <1>2
    <2>2. CASE Len(m.path) \in m.params /\ p = Front(m.path)
        <3>1. Len(m.path) \in 1 .. Len(m.path)
            BY <2>2, <1>2, CacheAssumption
        <3>2. p = [j \in 1 .. (Len(m.path) - 1) |-> m.path[j]]
            BY <2>2, <1>1, <1>2, <3>1 DEF Front
        <3> QED
            BY <1>2, <3>1, <3>2
    <2> QED
        BY <2>1, <2>2 DEF Changed
<1> DEFINE q == SubSeq(m.path, 1, i)
<1>5. i \in 1 .. Len(m.path) /\ i \in 1 .. Len(p)
    BY <1>2, <1>3, <1>4
<1>6. q \in build_invalidation_prefixes(m)
    BY <1>2, <1>3, <1>5 DEF build_invalidation_prefixes
<1>7. Len(q) = i /\ \A j \in 1 .. i : q[j] = m.path[j]
    BY <1>1, <1>2, <1>5
<1>8. StartsWith(key, q)
    BY <1>2, <1>4, <1>5, <1>7 DEF StartsWith
<1> QED
    BY <1>6, <1>8

\* A part of the map is a finite map, and no larger.
LEMMA PartOfMap ==
    ASSUME NEW S, NEW T \in SUBSET S, IsFiniteSet(S)
    PROVE  /\ IsFiniteSet(T)
           /\ Cardinality(T) \in Nat
           /\ Cardinality(S) \in Nat
           /\ Cardinality(T) <= Cardinality(S)
BY FS_Subset, FS_CardinalityType

\* The entries that are kept stay as they are.
LEMMA RestrictIs ==
    ASSUME NEW f, NEW S
    PROVE  /\ DOMAIN Restrict(f, S) = S
           /\ \A x \in S : Restrict(f, S)[x] = f[x]
BY DEF Restrict

\* What Inserted puts into the map, and where.
LEMMA InsertedIs ==
    ASSUME CacheTypes, NEW key \in Key, NEW e \in Entry
    PROVE  /\ DOMAIN Inserted(key, e) = (DOMAIN entries \ {key}) \cup {key}
           /\ IsFiniteSet(DOMAIN Inserted(key, e))
           /\ Inserted(key, e) \in [DOMAIN Inserted(key, e) -> Entry]
           /\ \A k \in DOMAIN entries \ {key} :
                 /\ Inserted(key, e)[k].value = entries[k].value
                 /\ Inserted(key, e)[k].raced = entries[k].raced
                 /\ Inserted(key, e)[k].missed = entries[k].missed
           /\ Inserted(key, e)[key].value = e.value
           /\ Inserted(key, e)[key].raced = e.raced
           /\ Inserted(key, e)[key].missed = e.missed
<1> DEFINE others == DOMAIN entries \ {key}
           Rank(k) == Cardinality({j \in others : entries[j].created <= entries[k].created})
<1>1. IsFiniteSet(others) /\ Cardinality(others) \in Nat
    BY PartOfMap DEF CacheTypes
<1>2. \A k \in others : Rank(k) \in Nat
    <2>1. ASSUME NEW k \in others
          PROVE  {j \in others : entries[j].created <= entries[k].created} \in SUBSET others
        OBVIOUS
    <2> QED
        BY <1>1, <2>1, PartOfMap
<1>3. IsFiniteSet(others \cup {key})
    BY <1>1, FS_AddElement
<1>4. Inserted(key, e) = [k \in others \cup {key} |->
            IF k = key THEN [e EXCEPT !.created = Cardinality(others) + 1]
                       ELSE [entries[k] EXCEPT !.created = Rank(k)]]
    BY DEF Inserted
<1> HIDE DEF Rank
<1>5. [e EXCEPT !.created = Cardinality(others) + 1] \in Entry
    BY <1>1 DEF Entry
<1>6. \A k \in others : entries[k] \in Entry
    BY DEF CacheTypes
<1>7. \A k \in others : [entries[k] EXCEPT !.created = Rank(k)] \in Entry
    BY <1>2, <1>6 DEF Entry
<1>8. Inserted(key, e) \in [others \cup {key} -> Entry]
    BY <1>4, <1>5, <1>7
<1>9. \A k \in others :
         /\ [entries[k] EXCEPT !.created = Rank(k)].value = entries[k].value
         /\ [entries[k] EXCEPT !.created = Rank(k)].raced = entries[k].raced
         /\ [entries[k] EXCEPT !.created = Rank(k)].missed = entries[k].missed
    BY <1>6 DEF Entry
<1>10. /\ [e EXCEPT !.created = Cardinality(others) + 1].value = e.value
       /\ [e EXCEPT !.created = Cardinality(others) + 1].raced = e.raced
       /\ [e EXCEPT !.created = Cardinality(others) + 1].missed = e.missed
    BY DEF Entry
<1> QED
    BY <1>3, <1>4, <1>8, <1>9, <1>10

-----------------------------------------------------------------------------
(* Steps that leave the mutations where they are *)

\* No mutation begins, ends, or gets on with its invalidations.
SameMutations ==
    /\ \A r \in Thread : (At(r, "invalidate"))' <=> At(r, "invalidate")
    /\ \A r \in Thread :
          At(r, "invalidate") => /\ req'[r].mutation = req[r].mutation
                                 /\ req'[r].value = req[r].value
                                 /\ req'[r].todo = req[r].todo

\* The request of r is at q next.
Becomes(r, q) == req' = [req EXCEPT ![r] = q]

LEMMA BecomesIs ==
    ASSUME CacheTypes, NEW r \in Thread, NEW q, Becomes(r, q)
    PROVE  /\ req'[r] = q
           /\ \A k \in Thread : k # r => req'[k] = req[k]
           /\ q \in Request => req' \in [Thread -> Request]
           /\ Serving(q) => \A k \in Thread : Serving(req'[k])
BY DEF Becomes, CacheTypes

LEMMA QuietRequest ==
    ASSUME CacheTypes, NEW r \in Thread, NEW q, Becomes(r, q),
           ~At(r, "invalidate"), q.pc # "invalidate"
    PROVE  SameMutations
BY BecomesIs DEF SameMutations, At

LEMMA SameOvertaken ==
    ASSUME SameMutations
    PROVE  /\ \A r \in Thread, path \in Path : Changes(r, path)' <=> Changes(r, path)
           /\ \A r \in Thread, path \in Path, value \in Nat :
                 Overtakes(r, path, value)' <=> Overtakes(r, path, value)
           /\ \A r \in Thread, key \in Key :
                 At(r, "invalidate") => (Pending(r, key)' <=> Pending(r, key))
<1>1. ASSUME NEW r \in Thread, NEW path \in Path
      PROVE  Changes(r, path)' <=> Changes(r, path)
    BY DEF SameMutations, Changes
<1>2. ASSUME NEW r \in Thread, NEW path \in Path, NEW value \in Nat
      PROVE  Overtakes(r, path, value)' <=> Overtakes(r, path, value)
    BY <1>1 DEF SameMutations, Changes, Overtakes
<1>3. ASSUME NEW r \in Thread, NEW key \in Key, At(r, "invalidate")
      PROVE  Pending(r, key)' <=> Pending(r, key)
    BY <1>3 DEF SameMutations, Pending
<1> QED
    BY <1>1, <1>2, <1>3

\* What the application holds is accounted for as before.
LEMMA SameWrites ==
    ASSUME SameMutations, WriteInv, UNCHANGED <<writes, data, acked>>
    PROVE  WriteInv'
<1>1. \A r \in Thread, p \in Path : Changes(r, p)' <=> Changes(r, p)
    BY SameOvertaken
<1>2. \A r \in Thread, p \in Path : Changes(r, p) => req'[r].value = req[r].value
    BY DEF SameMutations, Changes
<1> QED
    BY <1>1, <1>2 DEF WriteInv

\* The entry under key was there, and may only have been missed since.
Kept(key) ==
    /\ key \in DOMAIN entries
    /\ entries'[key].value = entries[key].value
    /\ entries'[key].raced = entries[key].raced
    /\ entries[key].missed => entries'[key].missed

\* The entry under key is the response that a request held.
Stored(key) ==
    \E k \in Thread : /\ req[k].pc \in Storing
                      /\ key = req[k].key
                      /\ entries'[key].value = req[k].value
                      /\ entries'[key].raced = req[k].raced

LEMMA EntriesStayFresh ==
    ASSUME CacheTypes, SameMutations, EntryInv, ResponseInv, UNCHANGED <<data, acked>>,
           \A key \in DOMAIN entries' : Kept(key) \/ Stored(key)
    PROVE  EntryInv'
<1> SUFFICES ASSUME NEW key \in DOMAIN entries'
             PROVE  Fresh(key, entries[key])'
    BY DEF EntryInv
<1>1. CASE Kept(key)
    <2>1. key \in Key /\ key.path \in Path /\ entries[key].value \in Nat
        BY <1>1, KeyPath DEF Kept, CacheTypes, Entry
    <2>2. Fresh(key, entries[key])
        BY <1>1 DEF EntryInv, Kept
    <2>3. CASE Excused(entries[key], key.path)
        BY <1>1, <2>3 DEF Kept, Excused, Fresh
    <2>4. CASE /\ entries[key].value >= acked[key.path]
               /\ \A r \in Thread : Overtakes(r, key.path, entries[key].value) => Pending(r, key)
               /\ \/ entries[key].value >= data[key.path]
                  \/ \E r \in Thread : Overtakes(r, key.path, entries[key].value)
        <3>1. ASSUME NEW r \in Thread, Overtakes(r, key.path, entries[key].value)'
              PROVE  Pending(r, key)'
            <4>1. Overtakes(r, key.path, entries[key].value)
                BY <1>1, <2>1, <3>1, SameOvertaken DEF Kept
            <4>2. At(r, "invalidate") /\ Pending(r, key)
                BY <2>4, <4>1 DEF Overtakes, Changes
            <4> QED
                BY <2>1, <4>2, SameOvertaken
        <3>2. \/ entries[key].value >= data[key.path]
              \/ \E r \in Thread : Overtakes(r, key.path, entries[key].value)'
            BY <1>1, <2>1, <2>4, SameOvertaken DEF Kept
        <3> QED
            BY <1>1, <2>4, <3>1, <3>2 DEF Fresh, Kept
    <2> QED
        BY <2>2, <2>3, <2>4 DEF Fresh
<1>2. CASE Stored(key)
    <2>1. PICK k \in Thread : /\ req[k].pc \in Storing
                              /\ key = req[k].key
                              /\ entries'[key].value = req[k].value
                              /\ entries'[key].raced = req[k].raced
        BY <1>2 DEF Stored
    <2>2. key \in Key /\ key.path \in Path /\ req[k].value \in Nat
        BY <2>1, KeyPath DEF CacheTypes, Request, Serving, Storing
    <2>3. Current(req[k])
        BY <2>1 DEF ResponseInv
    <2>4. CASE req[k].raced
        BY <2>1, <2>4 DEF Fresh, Excused
    <2>5. CASE /\ req[k].value >= acked[key.path]
               /\ \A r \in Thread : ~Overtakes(r, key.path, req[k].value)
               /\ req[k].value >= data[key.path]
        <3>1. \A r \in Thread : ~Overtakes(r, key.path, entries[key].value)'
            BY <2>1, <2>2, <2>5, SameOvertaken
        <3> QED
            BY <2>1, <2>5, <3>1 DEF Fresh
    <2> QED
        BY <2>1, <2>3, <2>4, <2>5 DEF Current
<1> QED
    BY <1>1, <1>2

\* A response is held as it was read, or is read from the application now.
LEMMA ResponsesStayCurrent ==
    ASSUME CacheTypes, SameMutations, WriteInv, ResponseInv, UNCHANGED <<data, acked>>,
           NEW k \in Thread, req'[k].pc \in Storing, req'[k].key = req[k].key,
           \/ /\ req[k].pc \in Storing
              /\ req'[k].value = req[k].value
              /\ req'[k].raced = req[k].raced
           \/ req[k].pc = "handler" /\ req'[k].value = data[req[k].key.path]
    PROVE  Current(req[k])'
<1> DEFINE path == req[k].key.path
<1>1. req[k].pc \in Storing \cup {"handler"}
    OBVIOUS
<1>2. path \in Path
    BY <1>1, KeyPath DEF CacheTypes, Serving, Storing
<1>3. CASE req[k].pc \in Storing /\ req'[k].value = req[k].value /\ req'[k].raced = req[k].raced
    <2>1. Current(req[k]) /\ req[k].value \in Nat
        BY <1>3 DEF ResponseInv, CacheTypes, Request
    <2>2. \A r \in Thread : Overtakes(r, path, req[k].value)' <=> Overtakes(r, path, req'[k].value)
        BY <1>2, <1>3, <2>1, SameOvertaken
    <2> QED
        BY <1>3, <2>1, <2>2 DEF Current
<1>4. CASE req'[k].value = data[path]
    <2>1. data[path] \in Nat /\ acked[path] \in Nat /\ acked[path] <= data[path]
        BY <1>2 DEF CacheTypes, WriteInv
    <2>2. ASSUME NEW r \in Thread
          PROVE  ~Overtakes(r, path, data[path])
        <3>1. req[r].value \in Nat
            BY DEF CacheTypes, Request
        <3> QED
            BY <1>2, <2>1, <3>1 DEF WriteInv, Overtakes
    <2>3. \A r \in Thread : ~Overtakes(r, path, req[k].value)'
        BY <1>2, <1>4, <2>1, <2>2, SameOvertaken
    <2> QED
        BY <1>4, <2>1, <2>3 DEF Current
<1> QED
    BY <1>3, <1>4

\* What a request has to keep about its own next stage q.
GoodNext(r, q) ==
    /\ q \in Request
    /\ Serving(q)
    /\ q.pc # "invalidate"
    /\ q.pc = "get" => q.asof <= acked[q.key.path]
    /\ q.pc \in Storing =>
          /\ q.key = req[r].key
          /\ \/ /\ req[r].pc \in Storing
                /\ q.value = req[r].value
                /\ q.raced = req[r].raced
             \/ req[r].pc = "handler" /\ q.value = data[req[r].key.path]
    /\ q.pc = "hit" => \/ q.value >= q.asof
                       \/ q.raced
                       \/ q.missed
                       \/ Nameless(q.key.path)

\* A step of a request that is no mutation keeps the first part of the invariant.
LEMMA QuietStep ==
    ASSUME CacheTypes, FreshInv, NEW r \in Thread, NEW q, Becomes(r, q), GoodNext(r, q),
           ~At(r, "invalidate"), UNCHANGED <<writes, data, acked>>,
           \A key \in DOMAIN entries' : Kept(key) \/ Stored(key)
    PROVE  /\ FreshInv'
           /\ req' \in [Thread -> Request]
           /\ \A k \in Thread : Serving(req[k])'
<1>1. /\ req'[r] = q
      /\ \A k \in Thread : k # r => req'[k] = req[k]
      /\ req' \in [Thread -> Request]
      /\ \A k \in Thread : Serving(req'[k])
    BY BecomesIs DEF GoodNext
<1>2. SameMutations
    BY QuietRequest DEF GoodNext
<1>3. WriteInv'
    BY <1>2, SameWrites DEF FreshInv
<1>4. EntryInv'
    BY <1>2, EntriesStayFresh DEF FreshInv
<1>5. ResponseInv'
    <2>1. ASSUME NEW k \in Thread, req'[k].pc \in Storing
          PROVE  Current(req[k])'
        <3>1. CASE k = r
            BY <1>1, <1>2, <2>1, <3>1, ResponsesStayCurrent DEF FreshInv, GoodNext
        <3>2. CASE k # r
            BY <1>1, <1>2, <2>1, <3>2, ResponsesStayCurrent DEF FreshInv
        <3> QED
            BY <3>1, <3>2
    <2> QED
        BY <2>1 DEF ResponseInv
<1>6. AskedInv'
    BY <1>1 DEF FreshInv, AskedInv, GoodNext, At
<1>7. ReadsAcknowledged'
    BY <1>1 DEF FreshInv, ReadsAcknowledged, GoodNext, At, Nameless
<1> QED
    BY <1>1, <1>3, <1>4, <1>5, <1>6, <1>7 DEF FreshInv, Serving

\* Neither the map nor the stores under way need more room.
LEMMA CapacityKept ==
    ASSUME CacheTypes, CapacityInv, UNCHANGED crowded,
           DOMAIN entries' \subseteq DOMAIN entries,
           \A k \in Thread : MakingRoom(k)' => /\ req'[k].pc = req[k].pc
                                               /\ req'[k].victim = req[k].victim
    PROVE  CapacityInv'
<1>1. \A k \in Thread : DOMAIN entries' \ {req[k].victim} \subseteq DOMAIN entries \ {req[k].victim}
    OBVIOUS
<1>2. /\ Cardinality(DOMAIN entries') <= Cardinality(DOMAIN entries)
      /\ Cardinality(DOMAIN entries') \in Nat
      /\ Cardinality(DOMAIN entries) \in Nat
    BY PartOfMap DEF CacheTypes
<1>3. ASSUME NEW k \in Thread
      PROVE  /\ Cardinality(DOMAIN entries' \ {req[k].victim})
                    <= Cardinality(DOMAIN entries \ {req[k].victim})
             /\ Cardinality(DOMAIN entries' \ {req[k].victim}) \in Nat
             /\ Cardinality(DOMAIN entries \ {req[k].victim}) \in Nat
    <2>1. IsFiniteSet(DOMAIN entries \ {req[k].victim})
        BY PartOfMap DEF CacheTypes
    <2> QED
        BY <1>1, <2>1, PartOfMap
<1>4. \A k \in Thread : MakingRoom(k)' => MakingRoom(k)
    BY DEF MakingRoom
<1>5. \A k \in Thread : (At(k, "remove"))' => At(k, "remove") /\ req'[k].victim = req[k].victim
    BY DEF MakingRoom, At
<1>6. \A k \in Thread : (At(k, "insert"))' => At(k, "insert")
    BY DEF MakingRoom, At
<1>7. max_entries \in Nat
    BY CacheAssumption
<1> SUFFICES ASSUME ~crowded
             PROVE  CapacityInv'
    BY DEF CapacityInv
<1>8. \A i, k \in Thread : MakingRoom(i)' /\ MakingRoom(k)' => i = k
    BY <1>4 DEF CapacityInv
<1>9. ASSUME max_entries > 0
      PROVE  /\ Cardinality(DOMAIN entries') <= max_entries
             /\ \A k \in Thread :
                   /\ (At(k, "remove"))' =>
                         Cardinality(DOMAIN entries' \ {req'[k].victim}) < max_entries
                   /\ (At(k, "insert"))' => Cardinality(DOMAIN entries') < max_entries
    <2>1. Cardinality(DOMAIN entries) <= max_entries
        BY <1>9 DEF CapacityInv
    <2>2. \A k \in Thread :
             (At(k, "remove"))' => Cardinality(DOMAIN entries \ {req[k].victim}) < max_entries
        BY <1>5, <1>9 DEF CapacityInv
    <2>3. \A k \in Thread : (At(k, "insert"))' => Cardinality(DOMAIN entries) < max_entries
        BY <1>6, <1>9 DEF CapacityInv
    <2>4. ASSUME NEW k \in Thread, (At(k, "remove"))'
          PROVE  Cardinality(DOMAIN entries' \ {req'[k].victim}) < max_entries
        <3>1. req'[k].victim = req[k].victim
            BY <1>5, <2>4
        <3>2. Cardinality(DOMAIN entries \ {req[k].victim}) < max_entries
            BY <2>2, <2>4
        <3>3. Cardinality(DOMAIN entries' \ {req[k].victim}) < max_entries
            BY <1>3, <1>7, <3>2
        <3> QED
            BY <3>1, <3>3
    <2> QED
        BY <1>2, <1>7, <2>1, <2>3, <2>4
<1> QED
    BY <1>8, <1>9 DEF CapacityInv

-----------------------------------------------------------------------------
(* What a step leaves of the map *)

MapTypes ==
    /\ DOMAIN entries \subseteq Key
    /\ IsFiniteSet(DOMAIN entries)
    /\ entries \in [DOMAIN entries -> Entry]

LEMMA MapUnchanged ==
    ASSUME CacheTypes, UNCHANGED entries
    PROVE  MapTypes' /\ \A key \in DOMAIN entries' : Kept(key)
BY DEF CacheTypes, MapTypes, Kept

LEMMA MapRestricted ==
    ASSUME CacheTypes, NEW S \in SUBSET (DOMAIN entries), entries' = Restrict(entries, S)
    PROVE  /\ MapTypes'
           /\ DOMAIN entries' = S
           /\ \A key \in DOMAIN entries' : Kept(key)
<1>1. DOMAIN entries' = S /\ \A key \in S : entries'[key] = entries[key]
    BY RestrictIs
<1>2. IsFiniteSet(S)
    BY PartOfMap DEF CacheTypes
<1>3. entries' = [key \in S |-> entries[key]]
    BY DEF Restrict
<1>4. entries' \in [S -> Entry]
    BY <1>3 DEF CacheTypes
<1> QED
    BY <1>1, <1>2, <1>4 DEF CacheTypes, MapTypes, Kept

LEMMA CleanedIsPart ==
    /\ Unexpired \in SUBSET (DOMAIN entries)
    /\ Cleaned \in SUBSET (DOMAIN entries)
    /\ Unexpired \in SUBSET Cleaned
BY DEF Unexpired, Cleaned

\* The stages that say nothing of a response.
LEMMA IdleIsRequest ==
    /\ Idle \in Request
    /\ Idle.pc = "idle"
    /\ Serving(Idle)
BY DEF Idle, Request, Pc, Serving

-----------------------------------------------------------------------------
(* The requests that read *)

LEMMA GetKeepsFresh ==
    ASSUME CacheTypes, FreshInv, NEW r \in Thread, NEW p \in Path, NEW s \in Query, Get(r, p, s)
    PROVE  CacheTypes' /\ FreshInv'
<1> DEFINE key == build_cache_key(p, s)
           q == [Idle EXCEPT !.pc = "get", !.key = key, !.asof = acked[p]]
<1>1. key \in Key /\ key.path = p
    <2>1. key \in Key
        BY DEF Key
    <2>2. key.path = p
        BY DEF build_cache_key
    <2> QED
        BY <2>1, <2>2
<1>2. acked[p] \in Nat
    BY DEF CacheTypes
<1> HIDE DEF key
<1>3. q \in Request /\ q.pc = "get" /\ q.key = key /\ q.asof = acked[p]
    BY <1>1, <1>2 DEF Idle, Request, Pc
<1>4. GoodNext(r, q)
    BY <1>1, <1>2, <1>3 DEF GoodNext, Serving, Storing
<1>5. Becomes(r, q)
    BY DEF Get, Becomes, key
<1>6. ~At(r, "invalidate") /\ UNCHANGED <<entries, writes, data, acked, crowded>>
    BY DEF Get, At
<1>7. MapTypes' /\ \A k \in DOMAIN entries' : Kept(k)
    BY <1>6, MapUnchanged
<1> HIDE DEF q
<1>8. /\ FreshInv'
      /\ req' \in [Thread -> Request]
      /\ \A k \in Thread : Serving(req[k])'
    BY <1>4, <1>5, <1>6, <1>7, QuietStep
<1> QED
    BY <1>6, <1>7, <1>8 DEF CacheTypes, MapTypes

\* A hit answers with the entry.
LEMMA FoundIsGood ==
    ASSUME CacheTypes, FreshInv, NEW r \in Thread, At(r, "get"), Hit(req[r].key)
    PROVE  GoodNext(r, Found(r))
<1> DEFINE key == req[r].key
           e == entries[key]
<1>1. key \in DOMAIN entries /\ key \in Key /\ key.path \in Path
    BY KeyPath DEF Hit, Unexpired, CacheTypes
<1>2. e \in Entry /\ req[r] \in Request
    BY <1>1 DEF CacheTypes
<1>3. /\ Found(r) \in Request
      /\ Found(r).pc = "hit"
      /\ Found(r).key = key
      /\ Found(r).value = e.value
      /\ Found(r).asof = req[r].asof
      /\ Found(r).raced = e.raced
      /\ Found(r).missed = e.missed
    BY <1>2 DEF Found, Request, Entry, Pc
<1>4. Fresh(key, e) /\ req[r].asof <= acked[key.path]
    BY <1>1 DEF FreshInv, EntryInv, AskedInv
<1>5. e.value \in Nat /\ req[r].asof \in Nat /\ acked[key.path] \in Nat
    BY <1>1, <1>2 DEF Request, Entry, CacheTypes
<1>6. \/ e.value >= req[r].asof
      \/ e.raced
      \/ e.missed
      \/ Nameless(key.path)
    BY <1>4, <1>5 DEF Fresh, Excused
<1> QED
    BY <1>1, <1>3, <1>6 DEF GoodNext, Serving, Storing

\* A miss, and the removal that follows it, change the stage only.
LEMMA StageIsGood ==
    ASSUME CacheTypes, NEW r \in Thread, NEW l \in {"missed", "handler"},
           req[r].pc \in {"get", "missed"}
    PROVE  GoodNext(r, [req[r] EXCEPT !.pc = l])
<1> DEFINE q == [req[r] EXCEPT !.pc = l]
<1>1. req[r] \in Request /\ req[r].key \in Key
    BY DEF CacheTypes, Serving
<1>2. q \in Request /\ q.pc = l /\ q.key = req[r].key
    BY <1>1 DEF Request, Pc
<1> QED
    BY <1>1, <1>2 DEF GoodNext, Serving, Storing

LEMMA LookUpKeepsFresh ==
    ASSUME CacheTypes, FreshInv, NEW r \in Thread, LookUp(r)
    PROVE  CacheTypes' /\ FreshInv'
<1> DEFINE q == IF Hit(req[r].key) THEN Found(r) ELSE [req[r] EXCEPT !.pc = "missed"]
<1>1. At(r, "get") /\ ~At(r, "invalidate") /\ UNCHANGED <<writes, data, acked, crowded>>
    BY DEF LookUp, At
<1>2. Becomes(r, q)
    BY DEF LookUp, Becomes, CacheTypes
<1>3. GoodNext(r, q)
    BY <1>1, FoundIsGood, StageIsGood DEF At
<1>4. MapTypes' /\ \A k \in DOMAIN entries' : Kept(k)
    BY MapRestricted, CleanedIsPart DEF LookUp
<1> HIDE DEF q
<1>5. /\ FreshInv'
      /\ req' \in [Thread -> Request]
      /\ \A k \in Thread : Serving(req[k])'
    BY <1>1, <1>2, <1>3, <1>4, QuietStep
<1> QED
    BY <1>1, <1>4, <1>5 DEF CacheTypes, MapTypes

LEMMA RemoveExpiredKeepsFresh ==
    ASSUME CacheTypes, FreshInv, NEW r \in Thread, RemoveExpired(r)
    PROVE  CacheTypes' /\ FreshInv'
<1> DEFINE q == [req[r] EXCEPT !.pc = "handler"]
           S == {key \in DOMAIN entries : key # req[r].key \/ Live(entries[key])}
<1>1. At(r, "missed") /\ ~At(r, "invalidate") /\ UNCHANGED <<writes, data, acked, crowded>>
    BY DEF RemoveExpired, At
<1>2. Becomes(r, q)
    BY DEF RemoveExpired, Becomes, CacheTypes
<1>3. GoodNext(r, q)
    BY <1>1, StageIsGood DEF At
<1>4. S \in SUBSET (DOMAIN entries) /\ entries' = Restrict(entries, S)
    BY DEF RemoveExpired
<1> HIDE DEF q, S
<1>5. MapTypes' /\ \A k \in DOMAIN entries' : Kept(k)
    BY <1>4, MapRestricted
<1>6. /\ FreshInv'
      /\ req' \in [Thread -> Request]
      /\ \A k \in Thread : Serving(req[k])'
    BY <1>1, <1>2, <1>3, <1>5, QuietStep
<1> QED
    BY <1>1, <1>5, <1>6 DEF CacheTypes, MapTypes

\* The response is the application's value of the moment.
LEMMA HandlerReadsKeepsFresh ==
    ASSUME CacheTypes, FreshInv, NEW r \in Thread, HandlerReads(r)
    PROVE  CacheTypes' /\ FreshInv'
<1> DEFINE v == data[req[r].key.path]
           q == [req[r] EXCEPT !.pc = "set", !.value = v]
<1>1. /\ req[r].pc = "handler"
      /\ ~At(r, "invalidate")
      /\ UNCHANGED <<entries, writes, data, acked, crowded>>
    BY DEF HandlerReads, At
<1>2. req[r] \in Request /\ req[r].key \in Key /\ v \in Nat
    BY <1>1, KeyPath DEF CacheTypes, Serving
<1>3. Becomes(r, q)
    BY DEF HandlerReads, Becomes, CacheTypes
<1>4. GoodNext(r, q)
    <2> HIDE DEF v
    <2>1. q \in Request /\ q.pc = "set" /\ q.key = req[r].key /\ q.value = v
        BY <1>2 DEF Request, Pc
    <2> HIDE DEF q
    <2> QED
        BY <1>1, <1>2, <2>1 DEF GoodNext, Serving, Storing, v
<1> HIDE DEF q
<1>5. MapTypes' /\ \A k \in DOMAIN entries' : Kept(k)
    BY <1>1, MapUnchanged
<1>6. /\ FreshInv'
      /\ req' \in [Thread -> Request]
      /\ \A k \in Thread : Serving(req[k])'
    BY <1>1, <1>3, <1>4, <1>5, QuietStep
<1> QED
    BY <1>1, <1>5, <1>6 DEF CacheTypes, MapTypes

\* A request that leaves is done with.
LEMMA IdleIsGood ==
    ASSUME NEW r \in Thread
    PROVE  GoodNext(r, Idle)
BY IdleIsRequest DEF GoodNext, Storing

LEMMA LeavingKeepsFresh ==
    ASSUME CacheTypes, FreshInv, NEW r \in Thread, PassThrough(r) \/ Answer(r)
    PROVE  CacheTypes' /\ FreshInv'
<1>1. /\ ~At(r, "invalidate")
      /\ Becomes(r, Idle)
      /\ UNCHANGED <<entries, writes, data, acked, crowded>>
    BY DEF PassThrough, Answer, At, Becomes
<1>2. MapTypes' /\ \A k \in DOMAIN entries' : Kept(k)
    BY <1>1, MapUnchanged
<1>3. /\ FreshInv'
      /\ req' \in [Thread -> Request]
      /\ \A k \in Thread : Serving(req[k])'
    BY <1>1, <1>2, IdleIsGood, QuietStep
<1> QED
    BY <1>1, <1>2, <1>3 DEF CacheTypes, MapTypes

-----------------------------------------------------------------------------
(* The requests that store *)

\* Making room leaves the response as it is.
LEMMA StoringIsGood ==
    ASSUME CacheTypes, NEW r \in Thread, req[r].pc \in Storing,
           NEW l \in {"remove", "insert"}, NEW victim \in Key \cup {NoKey}
    PROVE  /\ GoodNext(r, [req[r] EXCEPT !.pc = l, !.victim = victim])
           /\ GoodNext(r, [req[r] EXCEPT !.pc = l])
<1>1. req[r] \in Request /\ req[r].key \in Key
    BY DEF CacheTypes, Serving, Storing
<1>2. ASSUME NEW q \in {[req[r] EXCEPT !.pc = l, !.victim = victim], [req[r] EXCEPT !.pc = l]}
      PROVE  /\ q \in Request
             /\ q.pc = l
             /\ q.key = req[r].key
             /\ q.value = req[r].value
             /\ q.raced = req[r].raced
    BY <1>1 DEF Request, Pc
<1>3. ASSUME NEW q \in {[req[r] EXCEPT !.pc = l, !.victim = victim], [req[r] EXCEPT !.pc = l]}
      PROVE  GoodNext(r, q)
    BY <1>1, <1>2 DEF GoodNext, Serving, Storing
<1> QED
    BY <1>3

LEMMA EvictKeepsFresh ==
    ASSUME CacheTypes, FreshInv, NEW r \in Thread, Evict(r)
    PROVE  CacheTypes' /\ FreshInv'
<1> DEFINE S == IF Full(Cleaned) THEN Unexpired ELSE Cleaned
<1>1. /\ req[r].pc = "set"
      /\ ~At(r, "invalidate")
      /\ UNCHANGED <<writes, data, acked>>
      /\ crowded' = (crowded \/ \E k \in Thread : req[k].pc \in {"remove", "insert"})
    BY DEF Evict, At
<1>2. S \in SUBSET (DOMAIN entries) /\ entries' = Restrict(entries, S)
    BY CleanedIsPart DEF Evict
<1> HIDE DEF S
<1>3. MapTypes' /\ \A k \in DOMAIN entries' : Kept(k)
    BY <1>2, MapRestricted
<1>4. \E q : Becomes(r, q) /\ GoodNext(r, q)
    <2>1. CASE Full(Cleaned) /\ Full(Unexpired) /\ Unexpired # {}
        <3>1. PICK oldest \in Oldest(Unexpired) :
                 req' = [req EXCEPT ![r] = [@ EXCEPT !.pc = "remove", !.victim = oldest]]
            BY <2>1 DEF Evict
        <3>2. oldest \in Key
            BY CleanedIsPart DEF Oldest, CacheTypes
        <3>3. Becomes(r, [req[r] EXCEPT !.pc = "remove", !.victim = oldest])
            BY <3>1 DEF Becomes, CacheTypes
        <3>4. GoodNext(r, [req[r] EXCEPT !.pc = "remove", !.victim = oldest])
            BY <1>1, <3>2, StoringIsGood DEF Storing
        <3> QED
            BY <3>3, <3>4
    <2>2. CASE ~(Full(Cleaned) /\ Full(Unexpired) /\ Unexpired # {})
        <3>1. Becomes(r, [req[r] EXCEPT !.pc = "insert"])
            BY <2>2 DEF Evict, Becomes, CacheTypes
        <3>2. GoodNext(r, [req[r] EXCEPT !.pc = "insert"])
            BY <1>1, StoringIsGood DEF Storing
        <3> QED
            BY <3>1, <3>2
    <2> QED
        BY <2>1, <2>2
<1>5. /\ FreshInv'
      /\ req' \in [Thread -> Request]
      /\ \A k \in Thread : Serving(req[k])'
    BY <1>1, <1>3, <1>4, QuietStep
<1> QED
    BY <1>1, <1>3, <1>5 DEF CacheTypes, MapTypes

LEMMA RemoveOldestKeepsFresh ==
    ASSUME CacheTypes, FreshInv, NEW r \in Thread, RemoveOldest(r)
    PROVE  CacheTypes' /\ FreshInv'
<1> DEFINE S == DOMAIN entries \ {req[r].victim}
           q == [req[r] EXCEPT !.pc = "insert"]
<1>1. req[r].pc = "remove" /\ ~At(r, "invalidate") /\ UNCHANGED <<writes, data, acked, crowded>>
    BY DEF RemoveOldest, At
<1>2. S \in SUBSET (DOMAIN entries) /\ entries' = Restrict(entries, S)
    BY DEF RemoveOldest
<1>3. Becomes(r, q)
    BY DEF RemoveOldest, Becomes, CacheTypes
<1>4. GoodNext(r, q)
    BY <1>1, StoringIsGood DEF Storing
<1> HIDE DEF q, S
<1>5. MapTypes' /\ \A k \in DOMAIN entries' : Kept(k)
    BY <1>2, MapRestricted
<1>6. /\ FreshInv'
      /\ req' \in [Thread -> Request]
      /\ \A k \in Thread : Serving(req[k])'
    BY <1>1, <1>3, <1>4, <1>5, QuietStep
<1> QED
    BY <1>1, <1>5, <1>6 DEF CacheTypes, MapTypes

\* The response that is held becomes the entry under its key.
LEMMA ResponseStored ==
    ASSUME CacheTypes, NEW r \in Thread, req[r].pc \in Storing, NEW ttl \in Ttl,
           entries' = Inserted(req[r].key, Response(r, ttl))
    PROVE  /\ MapTypes'
           /\ DOMAIN entries' = (DOMAIN entries \ {req[r].key}) \cup {req[r].key}
           /\ \A k \in DOMAIN entries' : Kept(k) \/ Stored(k)
<1> DEFINE key == req[r].key
<1>1. key \in Key /\ req[r] \in Request
    BY DEF CacheTypes, Serving, Storing
<1>2. /\ Response(r, ttl) \in Entry
      /\ Response(r, ttl).value = req[r].value
      /\ Response(r, ttl).raced = req[r].raced
    BY <1>1, CacheAssumption DEF Response, Entry, Request
<1>3. /\ DOMAIN entries' = (DOMAIN entries \ {key}) \cup {key}
      /\ IsFiniteSet(DOMAIN entries')
      /\ entries' \in [DOMAIN entries' -> Entry]
      /\ \A k \in DOMAIN entries \ {key} : Kept(k)
      /\ entries'[key].value = req[r].value
      /\ entries'[key].raced = req[r].raced
    <2> DEFINE e == Response(r, ttl)
    <2>1. entries' = Inserted(key, e)
        OBVIOUS
    <2> HIDE DEF e, key
    <2>2. /\ DOMAIN Inserted(key, e) = (DOMAIN entries \ {key}) \cup {key}
          /\ IsFiniteSet(DOMAIN Inserted(key, e))
          /\ Inserted(key, e) \in [DOMAIN Inserted(key, e) -> Entry]
          /\ \A k \in DOMAIN entries \ {key} :
                 /\ Inserted(key, e)[k].value = entries[k].value
                 /\ Inserted(key, e)[k].raced = entries[k].raced
                 /\ Inserted(key, e)[k].missed = entries[k].missed
          /\ Inserted(key, e)[key].value = e.value
          /\ Inserted(key, e)[key].raced = e.raced
        BY <1>1, <1>2, InsertedIs DEF e
    <2>3. \A k \in DOMAIN entries \ {key} : Kept(k)
        BY <2>1, <2>2 DEF Kept
    <2>4. e.value = req[r].value /\ e.raced = req[r].raced
        BY <1>2 DEF e
    <2> QED
        BY <2>1, <2>2, <2>3, <2>4
<1>4. MapTypes'
    BY <1>1, <1>3 DEF MapTypes, CacheTypes
<1>5. Stored(key)
    BY <1>3 DEF Stored
<1> QED
    BY <1>3, <1>4, <1>5

LEMMA InsertKeepsFresh ==
    ASSUME CacheTypes, FreshInv, NEW r \in Thread, Insert(r)
    PROVE  CacheTypes' /\ FreshInv'
<1>1. /\ req[r].pc = "insert"
      /\ ~At(r, "invalidate")
      /\ Becomes(r, Idle)
      /\ UNCHANGED <<writes, data, acked, crowded>>
    BY DEF Insert, At, Becomes
<1>2. PICK ttl \in Ttl : entries' = Inserted(req[r].key, Response(r, ttl))
    BY DEF Insert
<1>3. MapTypes' /\ \A k \in DOMAIN entries' : Kept(k) \/ Stored(k)
    BY <1>1, <1>2, ResponseStored DEF Storing
<1>4. /\ FreshInv'
      /\ req' \in [Thread -> Request]
      /\ \A k \in Thread : Serving(req[k])'
    BY <1>1, <1>3, IdleIsGood, QuietStep
<1> QED
    BY <1>1, <1>3, <1>4 DEF CacheTypes, MapTypes

-----------------------------------------------------------------------------
(* The passing of time, and the requests that write *)

\* A step that leaves the requests and the application alone.
LEMMA EntriesOnlyStep ==
    ASSUME CacheTypes, FreshInv, UNCHANGED <<req, writes, data, acked>>,
           \A key \in DOMAIN entries' : Kept(key)
    PROVE  /\ FreshInv'
           /\ req' \in [Thread -> Request]
           /\ \A k \in Thread : Serving(req[k])'
<1>1. SameMutations
    BY DEF SameMutations, At
<1>2. WriteInv'
    BY <1>1, SameWrites DEF FreshInv
<1>3. EntryInv'
    BY <1>1, EntriesStayFresh DEF FreshInv
<1>4. ResponseInv'
    <2>1. ASSUME NEW k \in Thread, req'[k].pc \in Storing
          PROVE  Current(req[k])'
        BY <1>1, <2>1, ResponsesStayCurrent DEF FreshInv
    <2> QED
        BY <2>1 DEF ResponseInv
<1>5. AskedInv' /\ ReadsAcknowledged'
    BY DEF FreshInv, AskedInv, ReadsAcknowledged, At
<1>6. req' \in [Thread -> Request] /\ \A k \in Thread : Serving(req'[k])
    BY DEF CacheTypes
<1> QED
    BY <1>2, <1>3, <1>4, <1>5, <1>6 DEF FreshInv, Serving

LEMMA CacheTickKeepsFresh ==
    ASSUME CacheTypes, FreshInv, CacheTick
    PROVE  CacheTypes' /\ FreshInv'
<1> DEFINE Older(e) == [e EXCEPT !.left = IF @ > 0 THEN @ - 1 ELSE 0]
<1>1. ASSUME NEW e \in Entry
      PROVE  /\ Older(e) \in Entry
             /\ Older(e).value = e.value
             /\ Older(e).raced = e.raced
             /\ Older(e).missed = e.missed
    BY DEF Entry
<1>2. entries' = [key \in DOMAIN entries |-> Older(entries[key])]
    BY DEF CacheTick
<1> HIDE DEF Older
<1>3. DOMAIN entries' = DOMAIN entries /\ MapTypes'
    BY <1>1, <1>2 DEF MapTypes, CacheTypes
<1>4. \A key \in DOMAIN entries' : Kept(key)
    BY <1>1, <1>2, <1>3 DEF Kept, CacheTypes
<1>5. UNCHANGED <<req, writes, data, acked, crowded>>
    BY DEF CacheTick
<1>6. /\ FreshInv'
      /\ req' \in [Thread -> Request]
      /\ \A k \in Thread : Serving(req[k])'
    BY <1>4, <1>5, EntriesOnlyStep
<1> QED
    BY <1>3, <1>5, <1>6 DEF CacheTypes, MapTypes

\* The request of a mutation when one of its prefixes is done.
PrefixDone(r, prefix) == [req[r] EXCEPT !.todo = @ \ {prefix}]

\* A prefix is done once nothing is left under it that the mutation made old.
LEMMA PrefixDoneStep ==
    ASSUME CacheTypes, FreshInv, NEW r \in Thread, At(r, "invalidate"),
           NEW prefix \in req[r].todo, Becomes(r, PrefixDone(r, prefix)),
           UNCHANGED <<writes, data, acked>>,
           \A key \in DOMAIN entries' :
               /\ Kept(key)
               /\ StartsWith(key, prefix) =>
                     \/ Excused(entries'[key], key.path)
                     \/ ~Overtakes(r, key.path, entries[key].value)
    PROVE  /\ FreshInv'
           /\ req' \in [Thread -> Request]
           /\ \A k \in Thread : Serving(req[k])'
<1> DEFINE q == PrefixDone(r, prefix)
<1>1. req[r] \in Request /\ Serving(req[r])
    BY DEF CacheTypes
<1>2. /\ q \in Request
      /\ q.pc = "invalidate"
      /\ q.mutation = req[r].mutation
      /\ q.value = req[r].value
      /\ q.todo = req[r].todo \ {prefix}
    BY <1>1 DEF PrefixDone, Request, At
<1>3. Serving(q)
    BY <1>1, <1>2 DEF Serving, At
<1> HIDE DEF q
<1>4. /\ req'[r] = q
      /\ \A k \in Thread : k # r => req'[k] = req[k]
      /\ req' \in [Thread -> Request]
      /\ \A k \in Thread : Serving(req'[k])
    BY <1>2, <1>3, BecomesIs DEF q
<1>5. \A k \in Thread :
         /\ req'[k].pc = req[k].pc
         /\ At(k, "invalidate") => /\ req'[k].mutation = req[k].mutation
                                   /\ req'[k].value = req[k].value
         /\ ~At(k, "invalidate") => req'[k] = req[k]
    BY <1>2, <1>4 DEF At
<1>6. \A k \in Thread, path \in Path : Changes(k, path)' <=> Changes(k, path)
    BY <1>5 DEF Changes, At
<1>7. \A k \in Thread, path \in Path, value \in Nat :
         Overtakes(k, path, value)' <=> Overtakes(k, path, value)
    BY <1>5, <1>6 DEF Overtakes, Changes
<1>8. WriteInv'
    <2>1. \A k \in Thread, p \in Path : Changes(k, p) => req'[k].value = req[k].value
        BY <1>5 DEF Changes
    <2> QED
        BY <1>6, <2>1 DEF FreshInv, WriteInv
<1>9. EntryInv'
    <2> SUFFICES ASSUME NEW key \in DOMAIN entries'
                 PROVE  Fresh(key, entries[key])'
        BY DEF EntryInv
    <2>1. /\ key \in DOMAIN entries
          /\ key \in Key
          /\ key.path \in Path
          /\ entries[key].value \in Nat
          /\ entries'[key].value = entries[key].value
        BY KeyPath DEF Kept, CacheTypes, Entry
    <2>2. Fresh(key, entries[key])
        BY <2>1 DEF FreshInv, EntryInv
    <2>3. CASE Excused(entries[key], key.path) \/ Excused(entries'[key], key.path)
        BY <2>3 DEF Kept, Excused, Fresh
    <2>4. CASE /\ entries[key].value >= acked[key.path]
               /\ \A k \in Thread : Overtakes(k, key.path, entries[key].value) => Pending(k, key)
               /\ \/ entries[key].value >= data[key.path]
                  \/ \E k \in Thread : Overtakes(k, key.path, entries[key].value)
               /\ ~Excused(entries'[key], key.path)
        <3>1. ASSUME NEW k \in Thread, Overtakes(k, key.path, entries[key].value)'
              PROVE  Pending(k, key)'
            <4>1. Overtakes(k, key.path, entries[key].value)
                BY <2>1, <3>1, <1>7
            <4>2. PICK p \in req[k].todo : StartsWith(key, p)
                BY <2>4, <4>1 DEF Pending
            <4>3. CASE k # r
                BY <1>4, <4>2, <4>3 DEF Pending
            <4>4. CASE k = r
                <5>1. ~StartsWith(key, prefix)
                    BY <2>4, <4>1, <4>4
                <5> QED
                    BY <1>2, <1>4, <4>2, <4>4, <5>1 DEF Pending
            <4> QED
                BY <4>3, <4>4
        <3>2. \/ entries[key].value >= data[key.path]
              \/ \E k \in Thread : Overtakes(k, key.path, entries[key].value)'
            BY <1>7, <2>1, <2>4
        <3> QED
            BY <2>1, <2>4, <3>1, <3>2 DEF Fresh
    <2> QED
        BY <2>2, <2>3, <2>4 DEF Fresh
<1>10. ResponseInv'
    <2> SUFFICES ASSUME NEW k \in Thread, req'[k].pc \in Storing
                 PROVE  Current(req[k])'
        BY DEF ResponseInv
    <2>1. req'[k] = req[k] /\ Current(req[k]) /\ req[k].value \in Nat /\ req[k].key.path \in Path
        BY <1>5, KeyPath DEF FreshInv, ResponseInv, Storing, At, CacheTypes, Request, Serving
    <2>2. \A i \in Thread : Overtakes(i, req[k].key.path, req[k].value)'
                               <=> Overtakes(i, req[k].key.path, req[k].value)
        BY <1>7, <2>1
    <2> QED
        BY <2>1, <2>2 DEF Current
<1>11. AskedInv' /\ ReadsAcknowledged'
    BY <1>5 DEF FreshInv, AskedInv, ReadsAcknowledged, At
<1> QED
    BY <1>4, <1>8, <1>9, <1>10, <1>11 DEF FreshInv, Serving

LEMMA InvalidateKeepsFresh ==
    ASSUME CacheTypes, FreshInv, NEW r \in Thread, Invalidate(r)
    PROVE  CacheTypes' /\ FreshInv'
<1>1. PICK prefix \in req[r].todo :
         /\ entries' = Restrict(entries, {key \in DOMAIN entries : ~StartsWith(key, prefix)})
         /\ req' = [req EXCEPT ![r].todo = @ \ {prefix}]
    BY DEF Invalidate
<1>2. At(r, "invalidate") /\ UNCHANGED <<writes, data, acked, crowded>>
    BY DEF Invalidate
<1>3. Becomes(r, PrefixDone(r, prefix))
    BY <1>1 DEF Becomes, PrefixDone, CacheTypes
<1>4. /\ MapTypes'
      /\ DOMAIN entries' = {key \in DOMAIN entries : ~StartsWith(key, prefix)}
      /\ \A key \in DOMAIN entries' : Kept(key)
    BY <1>1, MapRestricted
<1>5. \A key \in DOMAIN entries' : ~StartsWith(key, prefix)
    BY <1>4
<1>6. /\ FreshInv'
      /\ req' \in [Thread -> Request]
      /\ \A k \in Thread : Serving(req[k])'
    BY <1>2, <1>3, <1>4, <1>5, PrefixDoneStep
<1> QED
    BY <1>2, <1>4, <1>6 DEF CacheTypes, MapTypes

\* The request of a mutation.
MutationRequest(m, v, todo) ==
    [Idle EXCEPT !.pc = "invalidate", !.mutation = m, !.value = v, !.todo = todo]

LEMMA MutationRequestIs ==
    ASSUME NEW m \in Mutation, NEW v \in Nat, NEW todo \in SUBSET Prefix
    PROVE  /\ MutationRequest(m, v, todo) \in Request
           /\ MutationRequest(m, v, todo).pc = "invalidate"
           /\ MutationRequest(m, v, todo).mutation = m
           /\ MutationRequest(m, v, todo).value = v
           /\ MutationRequest(m, v, todo).todo = todo
BY DEF MutationRequest, Idle, Request, Pc

\* A write makes the entries of what it changes old, and is to remove them; it
\* marks the responses it overtakes.
LEMMA MutateKeepsFresh ==
    ASSUME CacheTypes, FreshInv, NEW r \in Thread, NEW m \in Mutation, Mutate(r, m)
    PROVE  CacheTypes' /\ FreshInv'
<1> DEFINE new == MutationRequest(m, writes + 1, build_invalidation_prefixes(m))
           Marked(k) == req[k].pc \in Storing /\ req[k].key.path \in Changed(m)
<1>1. /\ At(r, "idle")
      /\ writes' = writes + 1
      /\ data' = [p \in Path |-> IF p \in Changed(m) THEN writes + 1 ELSE data[p]]
      /\ req' = [k \in Thread |-> IF k = r THEN new
                                  ELSE IF Marked(k) THEN [req[k] EXCEPT !.raced = TRUE]
                                  ELSE req[k]]
      /\ UNCHANGED <<entries, acked, crowded>>
    BY DEF Mutate, Storing, MutationRequest
<1>2. writes \in Nat /\ writes' \in Nat /\ req \in [Thread -> Request]
        /\ acked \in [Path -> Nat] /\ data \in [Path -> Nat]
    BY <1>1 DEF CacheTypes
<1>3. /\ new \in Request
      /\ new.pc = "invalidate"
      /\ new.mutation = m
      /\ new.value = writes + 1
      /\ new.todo = build_invalidation_prefixes(m)
    <2>1. build_invalidation_prefixes(m) \in SUBSET Prefix /\ writes + 1 \in Nat
        BY <1>2 DEF Prefix
    <2> QED
        BY <2>1, MutationRequestIs
<1> HIDE DEF new
<1>4. ASSUME NEW k \in Thread, k # r
      PROVE  /\ req'[k] \in Request
             /\ req'[k].pc = req[k].pc
             /\ req'[k].key = req[k].key
             /\ req'[k].mutation = req[k].mutation
             /\ req'[k].value = req[k].value
             /\ req'[k].asof = req[k].asof
             /\ req'[k].missed = req[k].missed
             /\ req'[k].todo = req[k].todo
             /\ req[k].raced => req'[k].raced
             /\ Marked(k) => req'[k].raced
    <2>1. req[k] \in Request
        BY <1>2
    <2>2. req'[k] = IF Marked(k) THEN [req[k] EXCEPT !.raced = TRUE] ELSE req[k]
        BY <1>1, <1>4
    <2> HIDE DEF Marked
    <2> QED
        BY <2>1, <2>2 DEF Request
<1>5. req'[r] = new
    BY <1>1
<1>6. req' \in [Thread -> Request]
    <2>1. req' = [k \in Thread |-> req'[k]]
        BY <1>1
    <2>2. \A k \in Thread : req'[k] \in Request
        BY <1>3, <1>4, <1>5
    <2> QED
        BY <2>1, <2>2
<1>7. \A k \in Thread : Serving(req[k])'
    BY <1>3, <1>4, <1>5 DEF Serving, CacheTypes
<1>8. \A k \in Thread, p \in Path :
         /\ k # r => (Changes(k, p)' <=> Changes(k, p))
         /\ k = r => (Changes(k, p)' <=> p \in Changed(m)) /\ ~Changes(k, p)
    BY <1>1, <1>3, <1>4, <1>5 DEF Changes, At
<1>9. \A p \in Path : data'[p] = IF p \in Changed(m) THEN writes + 1 ELSE data[p]
    BY <1>1
<1>10. WriteInv'
    <2>1. ASSUME NEW p \in Path
          PROVE  acked'[p] <= data'[p] /\ data'[p] <= writes' /\ data[p] <= data'[p]
        BY <1>1, <1>2, <1>9 DEF FreshInv, WriteInv
    <2>2. ASSUME NEW k \in Thread, NEW p \in Path, Changes(k, p)'
          PROVE  req'[k].value <= data'[p]
        <3>1. CASE k = r
            BY <1>2, <1>3, <1>5, <1>8, <1>9, <2>2, <3>1
        <3>2. CASE k # r
            <4>1. req'[k].value = req[k].value /\ req[k].value <= data[p]
                BY <1>4, <1>8, <2>2, <3>2 DEF FreshInv, WriteInv
            <4>2. req[k].value \in Nat /\ data[p] \in Nat /\ data'[p] \in Nat
                BY <1>2, <1>9 DEF Request
            <4> QED
                BY <2>1, <4>1, <4>2
        <3> QED
            BY <3>1, <3>2
    <2> QED
        BY <2>1, <2>2 DEF WriteInv
<1>11. EntryInv'
    <2> SUFFICES ASSUME NEW key \in DOMAIN entries
                 PROVE  Fresh(key, entries[key])'
        BY <1>1 DEF EntryInv
    <2>1. key \in Key /\ key.path \in Path
        BY KeyPath DEF CacheTypes
    <2>2. Fresh(key, entries[key])
        BY DEF FreshInv, EntryInv
    <2>3. CASE Excused(entries[key], key.path)
        BY <1>1, <2>3 DEF Excused, Fresh
    <2>4. CASE /\ entries[key].value >= acked[key.path]
               /\ \A k \in Thread : Overtakes(k, key.path, entries[key].value) => Pending(k, key)
               /\ \/ entries[key].value >= data[key.path]
                  \/ \E k \in Thread : Overtakes(k, key.path, entries[key].value)
               /\ ~Excused(entries[key], key.path)
        <3>1. ASSUME NEW k \in Thread, Overtakes(k, key.path, entries[key].value)'
              PROVE  Pending(k, key)'
            <4>1. CASE k = r
                <5>1. key.path \in Changed(m)
                    BY <1>8, <2>1, <3>1, <4>1 DEF Overtakes
                <5>2. key.path \notin Unnamed(m)
                    BY <2>4 DEF Excused, Nameless
                <5>3. \E q \in build_invalidation_prefixes(m) : StartsWith(key, q)
                    BY <2>1, <5>1, <5>2, ChangedIsCovered
                <5> QED
                    BY <1>3, <1>5, <4>1, <5>3 DEF Pending
            <4>2. CASE k # r
                <5>1. Overtakes(k, key.path, entries[key].value)
                    BY <1>1, <1>4, <1>8, <2>1, <3>1, <4>2 DEF Overtakes
                <5> QED
                    BY <1>4, <2>4, <4>2, <5>1 DEF Pending
            <4> QED
                BY <4>1, <4>2
        <3>2. \/ entries[key].value >= data'[key.path]
              \/ \E k \in Thread : Overtakes(k, key.path, entries[key].value)'
            <4>1. entries[key].value \in Nat /\ data[key.path] \in Nat
                BY <1>2, <2>1 DEF CacheTypes, Entry
            <4>2. CASE key.path \in Changed(m)
                <5>1. data'[key.path] = writes + 1 /\ Changes(r, key.path)'
                    BY <1>8, <1>9, <2>1, <4>2
                <5> QED
                    BY <1>1, <1>2, <1>3, <1>5, <4>1, <5>1 DEF Overtakes
            <4>3. CASE key.path \notin Changed(m)
                <5>1. data'[key.path] = data[key.path]
                    BY <1>9, <2>1, <4>3
                <5>2. ASSUME NEW k \in Thread, Overtakes(k, key.path, entries[key].value)
                      PROVE  Overtakes(k, key.path, entries[key].value)'
                    BY <1>1, <1>4, <1>8, <2>1, <5>2 DEF Overtakes
                <5> QED
                    BY <2>4, <5>1, <5>2
            <4> QED
                BY <4>2, <4>3
        <3> QED
            BY <1>1, <2>4, <3>1, <3>2 DEF Fresh
    <2> QED
        BY <2>2, <2>3, <2>4 DEF Fresh
<1>12. ResponseInv'
    <2> SUFFICES ASSUME NEW k \in Thread, req'[k].pc \in Storing
                 PROVE  Current(req[k])'
        BY DEF ResponseInv
    <2>1. k # r
        BY <1>3, <1>5 DEF Storing
    <2>2. /\ req[k].pc \in Storing
          /\ req[k].key.path \in Path
          /\ Current(req[k])
        BY <1>4, <2>1, KeyPath DEF FreshInv, ResponseInv, CacheTypes, Serving, Storing
    <2>3. CASE req[k].raced \/ Marked(k)
        BY <1>4, <2>1, <2>3 DEF Current
    <2>4. CASE /\ req[k].value >= acked[req[k].key.path]
               /\ \A i \in Thread : ~Overtakes(i, req[k].key.path, req[k].value)
               /\ req[k].value >= data[req[k].key.path]
               /\ req[k].key.path \notin Changed(m)
        <3>1. \A i \in Thread : ~Overtakes(i, req[k].key.path, req[k].value)'
            BY <1>4, <1>8, <2>1, <2>2, <2>4 DEF Overtakes
        <3>2. data'[req[k].key.path] = data[req[k].key.path]
            BY <1>9, <2>2, <2>4
        <3> QED
            BY <1>1, <1>4, <2>1, <2>4, <3>1, <3>2 DEF Current
    <2> QED
        BY <2>2, <2>3, <2>4 DEF Current
<1>13. AskedInv' /\ ReadsAcknowledged'
    BY <1>1, <1>3, <1>4, <1>5 DEF FreshInv, AskedInv, ReadsAcknowledged, At
<1> QED
    BY <1>1, <1>2, <1>6, <1>7, <1>9, <1>10, <1>11, <1>12, <1>13
       DEF CacheTypes, FreshInv

\* The answer of a mutation comes after its last invalidation, so nothing that
\* it made old is left unless it is excused.
LEMMA MutationAnsweredKeepsFresh ==
    ASSUME CacheTypes, FreshInv, NEW r \in Thread, MutationAnswered(r)
    PROVE  CacheTypes' /\ FreshInv'
<1> DEFINE v == req[r].value
<1>1. /\ At(r, "invalidate")
      /\ req[r].todo = {}
      /\ acked' = [p \in Path |-> IF p \in Changed(req[r].mutation) /\ acked[p] < v
                                  THEN v ELSE acked[p]]
      /\ Becomes(r, Idle)
      /\ UNCHANGED <<entries, writes, data, crowded>>
    BY DEF MutationAnswered, Becomes
<1>2. v \in Nat
    BY DEF CacheTypes, Request
<1>3. acked' \in [Path -> Nat] /\ acked \in [Path -> Nat] /\ data \in [Path -> Nat]
    BY <1>1, <1>2 DEF CacheTypes
<1>4. /\ req'[r] = Idle
      /\ \A k \in Thread : k # r => req'[k] = req[k]
      /\ req' \in [Thread -> Request]
      /\ \A k \in Thread : Serving(req'[k])
    BY <1>1, BecomesIs, IdleIsRequest
<1>5. \A k \in Thread, p \in Path :
         Changes(k, p)' => k # r /\ Changes(k, p)
    BY <1>4, IdleIsRequest DEF Changes, At
<1>6. \A k \in Thread, p \in Path : k # r /\ Changes(k, p) => Changes(k, p)'
    BY <1>4 DEF Changes, At
<1>7. \A k \in Thread, p \in Path, value \in Nat :
         Overtakes(k, p, value)' => Overtakes(k, p, value)
    BY <1>4, <1>5 DEF Overtakes
<1> HIDE DEF v
<1>8. ASSUME NEW p \in Path
      PROVE  /\ acked[p] <= acked'[p]
             /\ Changes(r, p) => v <= acked'[p]
             /\ acked'[p] = acked[p] \/ (acked'[p] = v /\ Changes(r, p))
    BY <1>1, <1>2, <1>3 DEF Changes
<1>9. WriteInv'
    <2>1. ASSUME NEW p \in Path
          PROVE  acked'[p] <= data[p] /\ data[p] <= writes
        BY <1>2, <1>8 DEF FreshInv, WriteInv, v
    <2>2. ASSUME NEW k \in Thread, NEW p \in Path, Changes(k, p)'
          PROVE  req'[k].value <= data[p]
        BY <1>4, <1>5, <2>2 DEF FreshInv, WriteInv
    <2> QED
        BY <1>1, <2>1, <2>2 DEF WriteInv
<1>10. ASSUME NEW p \in Path, NEW value \in Nat, value >= acked[p], ~Overtakes(r, p, value)
       PROVE  value >= acked'[p]
    BY <1>2, <1>3, <1>8, <1>10 DEF Overtakes, v
<1>11. EntryInv'
    <2> SUFFICES ASSUME NEW key \in DOMAIN entries
                 PROVE  Fresh(key, entries[key])'
        BY <1>1 DEF EntryInv
    <2>1. key.path \in Path /\ entries[key].value \in Nat
        BY KeyPath DEF CacheTypes, Entry
    <2>2. Fresh(key, entries[key])
        BY DEF FreshInv, EntryInv
    <2>3. CASE Excused(entries[key], key.path)
        BY <1>1, <2>3 DEF Excused, Fresh
    <2>4. CASE /\ entries[key].value >= acked[key.path]
               /\ \A k \in Thread : Overtakes(k, key.path, entries[key].value) => Pending(k, key)
               /\ \/ entries[key].value >= data[key.path]
                  \/ \E k \in Thread : Overtakes(k, key.path, entries[key].value)
        <3>1. ~Overtakes(r, key.path, entries[key].value)
            BY <1>1, <2>4 DEF Pending
        <3>2. entries[key].value >= acked'[key.path]
            BY <1>10, <2>1, <2>4, <3>1
        <3>3. ASSUME NEW k \in Thread, Overtakes(k, key.path, entries[key].value)'
              PROVE  Pending(k, key)'
            <4>1. Overtakes(k, key.path, entries[key].value) /\ k # r
                BY <1>1, <1>5, <1>7, <2>1, <3>3 DEF Overtakes
            <4> QED
                BY <1>4, <2>4, <4>1 DEF Pending
        <3>4. \/ entries[key].value >= data[key.path]
              \/ \E k \in Thread : Overtakes(k, key.path, entries[key].value)'
            <4>1. ASSUME NEW k \in Thread, Overtakes(k, key.path, entries[key].value)
                  PROVE  Overtakes(k, key.path, entries[key].value)'
                <5>1. k # r
                    BY <3>1, <4>1
                <5> QED
                    BY <1>1, <1>4, <1>6, <2>1, <4>1, <5>1 DEF Overtakes
            <4> QED
                BY <2>4, <4>1
        <3> QED
            BY <1>1, <3>2, <3>3, <3>4 DEF Fresh
    <2> QED
        BY <2>2, <2>3, <2>4 DEF Fresh
<1>12. ResponseInv'
    <2> SUFFICES ASSUME NEW k \in Thread, req'[k].pc \in Storing
                 PROVE  Current(req[k])'
        BY DEF ResponseInv
    <2>1. req'[k] = req[k] /\ k # r
        BY <1>4, IdleIsRequest DEF Storing
    <2>2. Current(req[k]) /\ req[k].value \in Nat /\ req[k].key.path \in Path
        BY <2>1, KeyPath DEF FreshInv, ResponseInv, Storing, CacheTypes, Request, Serving
    <2>3. CASE req[k].raced
        BY <2>1, <2>3 DEF Current
    <2>4. CASE /\ req[k].value >= acked[req[k].key.path]
               /\ \A i \in Thread : ~Overtakes(i, req[k].key.path, req[k].value)
               /\ req[k].value >= data[req[k].key.path]
        <3>1. req[k].value >= acked'[req[k].key.path]
            BY <1>10, <2>2, <2>4
        <3>2. \A i \in Thread : ~Overtakes(i, req[k].key.path, req[k].value)'
            BY <1>7, <2>1, <2>2, <2>4
        <3> QED
            BY <1>1, <2>1, <2>4, <3>1, <3>2 DEF Current
    <2> QED
        BY <2>2, <2>3, <2>4 DEF Current
<1>13. AskedInv'
    <2> SUFFICES ASSUME NEW k \in Thread, req'[k].pc = "get"
                 PROVE  req'[k].asof <= acked'[req'[k].key.path]
        BY DEF AskedInv, At
    <2>1. req'[k] = req[k]
        BY <1>4, IdleIsRequest
    <2>2. req[k].key.path \in Path /\ req[k].asof \in Nat
        BY <2>1, KeyPath DEF CacheTypes, Request, Serving
    <2>3. req[k].asof <= acked[req[k].key.path]
        BY <2>1 DEF FreshInv, AskedInv, At
    <2>4. acked[req[k].key.path] <= acked'[req[k].key.path]
        BY <1>8, <2>2
    <2> QED
        BY <1>3, <2>1, <2>2, <2>3, <2>4
<1>14. ReadsAcknowledged'
    BY <1>4, IdleIsRequest DEF FreshInv, ReadsAcknowledged, At
<1> QED
    BY <1>1, <1>3, <1>4, <1>9, <1>11, <1>12, <1>13, <1>14 DEF CacheTypes, FreshInv, Serving

LEMMA StartsFresh ==
    CacheInit => CacheTypes /\ FreshInv /\ CapacityInv
<1> SUFFICES ASSUME CacheInit
             PROVE  CacheTypes /\ FreshInv /\ CapacityInv
    OBVIOUS
<1>1. /\ entries = <<>>
      /\ req = [r \in Thread |-> Idle]
      /\ writes = 0
      /\ data = [p \in Path |-> 0]
      /\ acked = [p \in Path |-> 0]
      /\ crowded = FALSE
    BY DEF CacheInit
<1>2. DOMAIN entries = {} /\ entries \in [{} -> Entry]
    BY <1>1
<1>3. IsFiniteSet(DOMAIN entries) /\ Cardinality(DOMAIN entries) = 0
    BY <1>2, FS_EmptySet, Zenon
<1>4. \A r \in Thread : req[r] = Idle
    BY <1>1
<1>5. CacheTypes
    BY <1>1, <1>2, <1>3, <1>4, IdleIsRequest DEF CacheTypes
<1>6. FreshInv
    BY <1>1, <1>2, <1>4, IdleIsRequest
       DEF FreshInv, WriteInv, AskedInv, EntryInv, ResponseInv, ReadsAcknowledged, Changes,
           At, Storing
<1>7. CapacityInv
    BY <1>3, <1>4, IdleIsRequest, CacheAssumption DEF CapacityInv, MakingRoom, At
<1> QED
    BY <1>5, <1>6, <1>7

-----------------------------------------------------------------------------
(* The size of the map *)

\* Steps that make no room, and need none.
LEMMA OthersKeepCapacity ==
    ASSUME CacheTypes, CapacityInv, UNCHANGED crowded,
           DOMAIN entries' \subseteq DOMAIN entries,
           NEW r \in Thread, NEW q, Becomes(r, q), q.pc \notin {"remove", "insert"}
    PROVE  CapacityInv'
<1>1. \A k \in Thread : MakingRoom(k)' => req'[k] = req[k]
    BY BecomesIs DEF MakingRoom
<1> QED
    BY <1>1, CapacityKept

LEMMA ReadersKeepCapacity ==
    ASSUME CacheTypes, CapacityInv, NEW r \in Thread,
           \/ \E p \in Path, s \in Query : Get(r, p, s)
           \/ LookUp(r) \/ RemoveExpired(r) \/ HandlerReads(r) \/ PassThrough(r) \/ Answer(r)
           \/ Invalidate(r) \/ MutationAnswered(r)
    PROVE  CapacityInv'
<1>1. UNCHANGED crowded
    BY DEF Get, LookUp, RemoveExpired, HandlerReads, PassThrough, Answer, Invalidate,
           MutationAnswered
<1>2. req[r] \in Request
    BY DEF CacheTypes
<1>3. DOMAIN entries' \subseteq DOMAIN entries
    <2>1. CASE LookUp(r)
        BY <2>1, CleanedIsPart, RestrictIs DEF LookUp
    <2>2. CASE RemoveExpired(r)
        BY <2>2, RestrictIs DEF RemoveExpired
    <2>3. CASE Invalidate(r)
        <3>1. PICK p : entries' = Restrict(entries, {key \in DOMAIN entries : ~StartsWith(key, p)})
            BY <2>3 DEF Invalidate
        <3> QED
            BY <3>1, RestrictIs
    <2>4. CASE UNCHANGED entries
        BY <2>4
    <2> QED
        BY <2>1, <2>2, <2>3, <2>4 DEF Get, HandlerReads, PassThrough, Answer, MutationAnswered
<1>4. \E q : Becomes(r, q) /\ q.pc \notin {"remove", "insert"}
    <2>1. ASSUME NEW p \in Path, NEW s \in Query, Get(r, p, s)
          PROVE  \E q : Becomes(r, q) /\ q.pc \notin {"remove", "insert"}
        <3> DEFINE q == [Idle EXCEPT !.pc = "get", !.key = build_cache_key(p, s),
                                     !.asof = acked[p]]
        <3>1. q.pc = "get"
            BY IdleIsRequest DEF Request
        <3>2. Becomes(r, q)
            BY <2>1 DEF Get, Becomes
        <3> HIDE DEF q
        <3> QED
            BY <3>1, <3>2
    <2>2. CASE LookUp(r)
        <3>1. Found(r).pc = "hit" /\ [req[r] EXCEPT !.pc = "missed"].pc = "missed"
            BY <1>2 DEF Found, Request
        <3>2. Becomes(r, IF Hit(req[r].key) THEN Found(r) ELSE [req[r] EXCEPT !.pc = "missed"])
            BY <2>2 DEF LookUp, Becomes, CacheTypes
        <3> QED
            BY <3>1, <3>2
    <2>3. CASE RemoveExpired(r)
        <3> DEFINE q == [req[r] EXCEPT !.pc = "handler"]
        <3>1. q.pc = "handler"
            BY <1>2 DEF Request
        <3>2. Becomes(r, q)
            BY <2>3 DEF RemoveExpired, Becomes, CacheTypes
        <3> HIDE DEF q
        <3> QED
            BY <3>1, <3>2
    <2>4. CASE HandlerReads(r)
        <3> DEFINE q == [req[r] EXCEPT !.pc = "set", !.value = data[req[r].key.path]]
        <3>1. q.pc = "set"
            BY <1>2 DEF Request
        <3>2. Becomes(r, q)
            BY <2>4 DEF HandlerReads, Becomes
        <3> QED
            BY <3>1, <3>2
    <2>5. CASE PassThrough(r) \/ Answer(r) \/ MutationAnswered(r)
        BY <2>5, IdleIsRequest DEF PassThrough, Answer, MutationAnswered, Becomes
    <2>6. CASE Invalidate(r)
        <3>1. PICK p : req' = [req EXCEPT ![r].todo = @ \ {p}]
            BY <2>6 DEF Invalidate
        <3>2. Becomes(r, PrefixDone(r, p))
            BY <3>1 DEF Becomes, PrefixDone, CacheTypes
        <3>3. PrefixDone(r, p).pc = "invalidate"
            BY <1>2, <2>6 DEF PrefixDone, Request, Invalidate, At
        <3> QED
            BY <3>2, <3>3
    <2> QED
        BY <2>1, <2>2, <2>3, <2>4, <2>5, <2>6
<1> QED
    BY <1>1, <1>3, <1>4, OthersKeepCapacity

LEMMA MutateKeepsCapacity ==
    ASSUME CacheTypes, CapacityInv, NEW r \in Thread, NEW m \in Mutation, Mutate(r, m)
    PROVE  CapacityInv'
<1>1. UNCHANGED <<entries, crowded>>
    BY DEF Mutate
<1>2. ASSUME NEW k \in Thread, MakingRoom(k)'
      PROVE  req'[k].pc = req[k].pc /\ req'[k].victim = req[k].victim
    <2>1. req[k] \in Request
        BY DEF CacheTypes
    <2>2. CASE k = r
        <3>1. req'[k].pc = "invalidate"
            BY <2>2 DEF Mutate, Idle
        <3> QED
            BY <1>2, <3>1 DEF MakingRoom
    <2>3. CASE k # r
        <3>1. req'[k] \in {[req[k] EXCEPT !.raced = TRUE], req[k]}
            BY <2>3 DEF Mutate
        <3> QED
            BY <2>1, <3>1 DEF Request
    <2> QED
        BY <2>2, <2>3
<1> QED
    BY <1>1, <1>2, CapacityKept

LEMMA CacheTickKeepsCapacity ==
    ASSUME CacheTypes, CapacityInv, CacheTick
    PROVE  CapacityInv'
<1>1. DOMAIN entries' = DOMAIN entries /\ UNCHANGED <<req, crowded>>
    BY DEF CacheTick
<1> QED
    BY <1>1, CapacityKept

\* A store that is alone finds room, or chooses the key that makes it.
LEMMA EvictKeepsCapacity ==
    ASSUME CacheTypes, CapacityInv, NEW r \in Thread, Evict(r)
    PROVE  CapacityInv'
<1> SUFFICES ASSUME ~crowded'
             PROVE  CapacityInv'
    BY DEF CapacityInv
<1> DEFINE S == IF Full(Cleaned) THEN Unexpired ELSE Cleaned
           Chosen == Full(Cleaned) /\ Full(Unexpired) /\ Unexpired # {}
<1>1. ~crowded /\ \A k \in Thread : ~MakingRoom(k)
    BY DEF Evict, MakingRoom
<1>2. req[r] \in Request /\ max_entries \in Nat
    BY CacheAssumption DEF CacheTypes
<1>3. DOMAIN entries' = S
    BY RestrictIs DEF Evict
<1>4. \A k \in Thread : k # r => req'[k] = req[k]
    BY DEF Evict, CacheTypes
<1>5. \A k \in Thread : MakingRoom(k)' => k = r
    BY <1>1, <1>4 DEF MakingRoom
<1>6. /\ S \in SUBSET (DOMAIN entries)
      /\ IsFiniteSet(S)
      /\ Cardinality(S) \in Nat
      /\ Cardinality(DOMAIN entries) \in Nat
      /\ Cardinality(S) <= Cardinality(DOMAIN entries)
    BY CleanedIsPart, PartOfMap DEF CacheTypes
<1>7. ASSUME max_entries > 0
      PROVE  /\ Cardinality(S) <= max_entries
             /\ (At(r, "remove"))' => Cardinality(S \ {req'[r].victim}) < max_entries
             /\ (At(r, "insert"))' => Cardinality(S) < max_entries
    <2>1. Cardinality(S) <= max_entries
        <3>1. Cardinality(DOMAIN entries) <= max_entries
            BY <1>1, <1>7 DEF CapacityInv
        <3> HIDE DEF S
        <3> QED
            BY <1>2, <1>6, <3>1
    <2>2. CASE Chosen
        <3>1. PICK oldest \in Oldest(Unexpired) :
                 req' = [req EXCEPT ![r] = [@ EXCEPT !.pc = "remove", !.victim = oldest]]
            BY <2>2 DEF Evict
        <3>2. req'[r] = [req[r] EXCEPT !.pc = "remove", !.victim = oldest]
            BY <3>1 DEF CacheTypes
        <3>3. req'[r].pc = "remove" /\ req'[r].victim = oldest
            BY <1>2, <3>2 DEF Request
        <3>4. oldest \in S
            BY <2>2 DEF Oldest
        <3> HIDE DEF S
        <3>5. Cardinality(S \ {oldest}) = Cardinality(S) - 1
            BY <1>6, <3>4, FS_RemoveElement
        <3>6. Cardinality(S \ {oldest}) < max_entries
            BY <1>2, <1>6, <2>1, <3>5
        <3> QED
            BY <2>1, <3>3, <3>6 DEF At
    <2>3. CASE ~Chosen
        <3>1. req' = [req EXCEPT ![r].pc = "insert"]
            BY <2>3 DEF Evict
        <3>2. req'[r].pc = "insert"
            BY <1>2, <3>1 DEF CacheTypes, Request
        <3>3. Cardinality(S) < max_entries
            <4>1. CASE ~Full(Cleaned)
                BY <1>2, <1>6, <4>1 DEF Full
            <4>2. CASE Full(Cleaned) /\ ~Full(Unexpired)
                BY <1>2, <1>6, <4>2 DEF Full
            <4>3. CASE Full(Cleaned) /\ Unexpired = {}
                BY <1>7, <4>3, FS_EmptySet
            <4> QED
                BY <2>3, <4>1, <4>2, <4>3
        <3> QED
            BY <2>1, <3>2, <3>3 DEF At
    <2> QED
        BY <2>2, <2>3
<1> HIDE DEF S
<1>8. ASSUME NEW k \in Thread, max_entries > 0
      PROVE  /\ (At(k, "remove"))' => Cardinality(DOMAIN entries' \ {req'[k].victim}) < max_entries
             /\ (At(k, "insert"))' => Cardinality(DOMAIN entries') < max_entries
    <2>1. CASE k = r
        BY <1>3, <1>7, <1>8, <2>1
    <2>2. CASE k # r
        BY <1>5, <2>2 DEF MakingRoom, At
    <2> QED
        BY <2>1, <2>2
<1> QED
    BY <1>3, <1>5, <1>7, <1>8 DEF CapacityInv

LEMMA RemoveOldestKeepsCapacity ==
    ASSUME CacheTypes, CapacityInv, NEW r \in Thread, RemoveOldest(r)
    PROVE  CapacityInv'
<1> SUFFICES ASSUME ~crowded
             PROVE  CapacityInv'
    BY DEF CapacityInv, RemoveOldest
<1> DEFINE S == DOMAIN entries \ {req[r].victim}
<1>1. At(r, "remove") /\ MakingRoom(r) /\ DOMAIN entries' = S /\ UNCHANGED crowded
    BY RestrictIs DEF RemoveOldest, At, MakingRoom
<1>2. req[r] \in Request /\ max_entries \in Nat
    BY CacheAssumption DEF CacheTypes
<1>3. req'[r].pc = "insert" /\ \A k \in Thread : k # r => req'[k] = req[k]
    BY <1>2 DEF RemoveOldest, CacheTypes, Request
<1>4. \A k \in Thread : MakingRoom(k)' => k = r
    BY <1>1, <1>3 DEF CapacityInv, MakingRoom
<1>5. max_entries > 0 => Cardinality(S) < max_entries
    BY <1>1 DEF CapacityInv
<1>6. Cardinality(S) \in Nat
    BY PartOfMap DEF CacheTypes
<1> HIDE DEF S
<1>7. max_entries > 0 => Cardinality(DOMAIN entries') <= max_entries
                          /\ Cardinality(DOMAIN entries') < max_entries
    BY <1>1, <1>2, <1>5, <1>6
<1>8. \A k \in Thread : ~(At(k, "remove"))'
    BY <1>3, <1>4 DEF MakingRoom, At
<1> QED
    BY <1>4, <1>7, <1>8 DEF CapacityInv

LEMMA InsertKeepsCapacity ==
    ASSUME CacheTypes, CapacityInv, NEW r \in Thread, Insert(r)
    PROVE  CapacityInv'
<1> SUFFICES ASSUME ~crowded
             PROVE  CapacityInv'
    BY DEF CapacityInv, Insert
<1> DEFINE key == req[r].key
           S == DOMAIN entries \ {key}
<1>1. At(r, "insert") /\ MakingRoom(r) /\ req[r].pc \in Storing
    BY DEF Insert, At, MakingRoom, Storing
<1>2. max_entries \in Nat
    BY CacheAssumption
<1>3. DOMAIN entries' = S \cup {key}
    BY <1>1, ResponseStored DEF Insert
<1>4. \A k \in Thread : ~MakingRoom(k)'
    <2>1. req'[r] = Idle /\ \A k \in Thread : k # r => req'[k] = req[k]
        BY DEF Insert, CacheTypes
    <2> QED
        BY <1>1, <2>1, IdleIsRequest DEF CapacityInv, MakingRoom
<1>5. max_entries > 0 => Cardinality(DOMAIN entries) < max_entries
    BY <1>1 DEF CapacityInv
<1>6. /\ IsFiniteSet(S)
      /\ Cardinality(S) \in Nat
      /\ Cardinality(DOMAIN entries) \in Nat
      /\ Cardinality(S) <= Cardinality(DOMAIN entries)
    BY PartOfMap DEF CacheTypes
<1>7. key \notin S
    OBVIOUS
<1> HIDE DEF S, key
<1>8. Cardinality(S \cup {key}) = Cardinality(S) + 1
    BY <1>6, <1>7, FS_AddElement
<1>9. max_entries > 0 => Cardinality(DOMAIN entries') <= max_entries
    BY <1>2, <1>3, <1>5, <1>6, <1>8
<1> QED
    BY <1>4, <1>9 DEF CapacityInv, MakingRoom, At

-----------------------------------------------------------------------------
(* Theorems about the cache in memory *)

LEMMA CacheNextKeepsIInv ==
    IInv /\ [CacheNext]_cacheVars => IInv'
<1> SUFFICES ASSUME CacheTypes, FreshInv, CapacityInv, [CacheNext]_cacheVars
             PROVE  CacheTypes' /\ FreshInv' /\ CapacityInv'
    BY DEF IInv
<1>1. CASE CacheTick
    BY <1>1, CacheTickKeepsFresh, CacheTickKeepsCapacity
<1>2. ASSUME NEW r \in Thread, NEW p \in Path, NEW s \in Query, Get(r, p, s)
      PROVE  CacheTypes' /\ FreshInv' /\ CapacityInv'
    BY <1>2, GetKeepsFresh, ReadersKeepCapacity
<1>3. ASSUME NEW r \in Thread, NEW m \in Mutation, Mutate(r, m)
      PROVE  CacheTypes' /\ FreshInv' /\ CapacityInv'
    BY <1>3, MutateKeepsFresh, MutateKeepsCapacity
<1>4. ASSUME NEW r \in Thread, CacheStep(r)
      PROVE  CacheTypes' /\ FreshInv' /\ CapacityInv'
    <2>1. CASE LookUp(r)
        BY <2>1, LookUpKeepsFresh, ReadersKeepCapacity
    <2>2. CASE RemoveExpired(r)
        BY <2>2, RemoveExpiredKeepsFresh, ReadersKeepCapacity
    <2>3. CASE HandlerReads(r)
        BY <2>3, HandlerReadsKeepsFresh, ReadersKeepCapacity
    <2>4. CASE PassThrough(r) \/ Answer(r)
        BY <2>4, LeavingKeepsFresh, ReadersKeepCapacity
    <2>5. CASE Evict(r)
        BY <2>5, EvictKeepsFresh, EvictKeepsCapacity
    <2>6. CASE RemoveOldest(r)
        BY <2>6, RemoveOldestKeepsFresh, RemoveOldestKeepsCapacity
    <2>7. CASE Insert(r)
        BY <2>7, InsertKeepsFresh, InsertKeepsCapacity
    <2>8. CASE Invalidate(r)
        BY <2>8, InvalidateKeepsFresh, ReadersKeepCapacity
    <2>9. CASE MutationAnswered(r)
        BY <2>9, MutationAnsweredKeepsFresh, ReadersKeepCapacity
    <2> QED
        BY <1>4, <2>1, <2>2, <2>3, <2>4, <2>5, <2>6, <2>7, <2>8, <2>9 DEF CacheStep
<1>5. CASE UNCHANGED cacheVars
    <2>1. UNCHANGED <<entries, req, writes, data, acked, crowded>>
        BY <1>5 DEF cacheVars
    <2>2. MapTypes' /\ \A key \in DOMAIN entries' : Kept(key)
        BY <2>1, MapUnchanged
    <2>3. /\ FreshInv'
          /\ req' \in [Thread -> Request]
          /\ \A k \in Thread : Serving(req[k])'
        BY <2>1, <2>2, EntriesOnlyStep
    <2>4. CapacityInv'
        BY <2>1, CapacityKept
    <2> QED
        BY <2>1, <2>2, <2>3, <2>4 DEF CacheTypes, MapTypes
<1> QED
    BY <1>1, <1>2, <1>3, <1>4, <1>5 DEF CacheNext

LEMMA CacheInvariant ==
    CacheSpec => []IInv
<1>1. CacheInit => IInv
    BY StartsFresh DEF IInv
<1>2. IInv /\ [CacheNext]_cacheVars => IInv'
    BY CacheNextKeepsIInv
<1> QED
    BY <1>1, <1>2, PTL DEF CacheSpec

\* An entry that is behind what the application holds lies under a prefix that
\* a newer write has still to invalidate.
LEMMA FreshIsNotStale ==
    CacheTypes /\ FreshInv => StaleOnlyByRace
<1> SUFFICES ASSUME CacheTypes, FreshInv, NEW key \in DOMAIN entries,
                    entries[key].value < data[key.path], ~Excused(entries[key], key.path)
             PROVE  \E r \in Thread : /\ At(r, "invalidate")
                                      /\ \E p \in req[r].todo : StartsWith(key, p)
    BY DEF StaleOnlyByRace, Excused, Nameless
<1>1. /\ key.path \in Path
      /\ entries[key].value \in Nat
      /\ acked[key.path] \in Nat
      /\ data[key.path] \in Nat
    BY KeyPath DEF CacheTypes, Entry
<1>2. /\ \A r \in Thread : Overtakes(r, key.path, entries[key].value) => Pending(r, key)
      /\ \/ entries[key].value >= data[key.path]
         \/ \E r \in Thread : Overtakes(r, key.path, entries[key].value)
    BY DEF FreshInv, EntryInv, Fresh
<1>3. PICK r \in Thread : Overtakes(r, key.path, entries[key].value)
    BY <1>1, <1>2
<1> QED
    BY <1>2, <1>3 DEF Pending, Overtakes, Changes

\* In memory, a cached value that is out of date was read before a write and
\* stored after it, or is about to be removed by the request that wrote, or
\* comes from a route without a prefix; and with the same exceptions a hit is at
\* least as new as the last write that was answered before the request came:
\* InMemoryCache::invalidate_prefix and build_invalidation_prefixes leave
\* nothing else behind.
THEOREM CacheIsCoherent ==
    CacheSpec => []CacheCoherent
<1>1. IInv => StaleOnlyByRace
    BY FreshIsNotStale DEF IInv
<1>2. IInv => ReadsAcknowledged
    BY DEF IInv, FreshInv
<1>3. IInv => CacheCoherent
    BY <1>1, <1>2 DEF CacheCoherent
<1> QED
    BY <1>3, CacheInvariant, PTL

\* InMemoryCache holds no more than max_entries responses as long as no two
\* requests are past their check of the length at once.
THEOREM CapacityIsKept ==
    CacheSpec => []CapacityRespected
<1>1. IInv => CapacityRespected
    <2> SUFFICES ASSUME CacheTypes, CapacityInv, ~crowded, max_entries # 0
                 PROVE  ~(Cardinality(DOMAIN entries) > max_entries)
        BY DEF IInv, CapacityRespected
    <2>1. max_entries \in Nat /\ Cardinality(DOMAIN entries) \in Nat
        BY CacheAssumption, FS_CardinalityType DEF CacheTypes
    <2>2. Cardinality(DOMAIN entries) <= max_entries
        BY <2>1 DEF CapacityInv
    <2> QED
        BY <2>1, <2>2
<1> QED
    BY <1>1, CacheInvariant, PTL

\* The keys that FreshEntriesStay lets go.
MayGo(key) ==
    \/ entries[key].left = 1 /\ UNCHANGED req
    \/ \E r \in Thread : \/ At(r, "remove") /\ req[r].victim = key
                         \/ At(r, "invalidate") /\ Pending(r, key)

\* In memory, a live entry is removed only by an eviction that chose its key or
\* by a mutation it lies under: the clean-ups and remove_if spare it.
THEOREM LiveEntriesStay ==
    CacheSpec => FreshEntriesStay
<1>1. ASSUME [CacheNext]_cacheVars, NEW key \in Unexpired, key \notin DOMAIN entries'
      PROVE  MayGo(key)
    <2>1. key \in DOMAIN entries /\ Live(entries[key]) /\ key \in Cleaned
        BY CleanedIsPart DEF Unexpired
    <2>2. PICK r \in Thread :
             \/ LookUp(r) \/ RemoveExpired(r) \/ Evict(r) \/ RemoveOldest(r) \/ Insert(r)
             \/ Invalidate(r)
        <3>1. entries' # entries /\ ~CacheTick
            BY <1>1, <2>1 DEF CacheTick
        <3> QED
            BY <1>1, <3>1
               DEF CacheNext, CacheStep, cacheVars, Get, Mutate, HandlerReads, PassThrough,
                   Answer, MutationAnswered
    <2>3. ~LookUp(r)
        BY <1>1, <2>1, RestrictIs DEF LookUp
    <2>4. ~RemoveExpired(r)
        BY <1>1, <2>1, RestrictIs DEF RemoveExpired
    <2>5. ~Evict(r)
        <3> DEFINE S == IF Full(Cleaned) THEN Unexpired ELSE Cleaned
        <3>1. key \in S
            BY <1>1, <2>1
        <3>2. Evict(r) => entries' = Restrict(entries, S)
            BY DEF Evict
        <3> HIDE DEF S
        <3> QED
            BY <1>1, <3>1, <3>2, RestrictIs
    <2>6. CASE RemoveOldest(r)
        BY <1>1, <2>1, <2>6, RestrictIs DEF RemoveOldest, MayGo
    <2>7. ~Insert(r)
        BY <1>1, <2>1 DEF Insert, Inserted
    <2>8. CASE Invalidate(r)
        <3>1. PICK p \in req[r].todo :
                 entries' = Restrict(entries, {k \in DOMAIN entries : ~StartsWith(k, p)})
            BY <2>8 DEF Invalidate
        <3>2. StartsWith(key, p)
            BY <1>1, <2>1, <3>1, RestrictIs
        <3> QED
            BY <2>8, <3>2 DEF Invalidate, MayGo, Pending
    <2> QED
        BY <2>2, <2>3, <2>4, <2>5, <2>6, <2>7, <2>8
<1>2. [CacheNext]_cacheVars =>
         [\A key \in Unexpired :
            key \notin DOMAIN entries' =>
                \/ entries[key].left = 1 /\ UNCHANGED req
                \/ \E r \in Thread : \/ At(r, "remove") /\ req[r].victim = key
                                     \/ /\ At(r, "invalidate")
                                        /\ \E p \in req[r].todo : StartsWith(key, p)]_cacheVars
    BY <1>1 DEF MayGo, Pending
<1> QED
    BY <1>2, PTL DEF CacheSpec, FreshEntriesStay

-----------------------------------------------------------------------------
(* The cache over Redis *)

\* What a SCAN did not return is no longer of a time before the mutation, or
\* was missed.
Covered(r, f) ==
    \A key \in DOMAIN entries \ f.keys :
        StartsWith(key, f.prefix) =>
            \/ Excused(entries[key], key.path)
            \/ ~Overtakes(r, key.path, entries[key].value)

\* The keys that wait for their DEL lie under a prefix that their mutation has
\* still to finish, one SCAN for each prefix.
ScanInv ==
    /\ scanned \in [Thread -> SUBSET [prefix : Prefix, keys : SUBSET Key]]
    /\ \A r \in Thread : \A f \in scanned[r] :
          /\ At(r, "invalidate")
          /\ f.prefix \in req[r].todo
          /\ \A g \in scanned[r] : g.prefix = f.prefix => g = f
          /\ \A key \in f.keys : Matches(key, f.prefix)
          /\ Covered(r, f)

RedisInv == CacheTypes /\ FreshInv /\ ScanInv

\* A SCAN stays covered as long as its mutation stays: what is stored since is
\* current, or raced.
LEMMA CoveredStays ==
    ASSUME CacheTypes, FreshInv, NEW r \in Thread, NEW f, Covered(r, f),
           At(r, "invalidate"), (At(r, "invalidate"))', req'[r].mutation = req[r].mutation,
           req'[r].value = req[r].value,
           \A key \in DOMAIN entries' : Kept(key) \/ Stored(key)
    PROVE  Covered(r, f)'
<1> SUFFICES ASSUME NEW key \in DOMAIN entries' \ f.keys, StartsWith(key, f.prefix)
             PROVE  \/ Excused(entries'[key], key.path)
                    \/ ~Overtakes(r, key.path, entries[key].value)'
    BY DEF Covered, Excused, Nameless
<1>1. CASE Kept(key)
    <2>1. \/ Excused(entries[key], key.path)
          \/ ~Overtakes(r, key.path, entries[key].value)
        BY <1>1 DEF Covered, Kept
    <2>2. Excused(entries[key], key.path) => Excused(entries'[key], key.path)
        BY <1>1 DEF Kept, Excused
    <2>3. Overtakes(r, key.path, entries[key].value)' => Overtakes(r, key.path, entries[key].value)
        BY <1>1 DEF Kept, Overtakes, Changes
    <2> QED
        BY <2>1, <2>2, <2>3
<1>2. CASE Stored(key)
    <2>1. PICK k \in Thread : /\ req[k].pc \in Storing
                              /\ key = req[k].key
                              /\ entries'[key].value = req[k].value
                              /\ entries'[key].raced = req[k].raced
        BY <1>2 DEF Stored
    <2>2. Current(req[k])
        BY <2>1 DEF FreshInv, ResponseInv
    <2>3. Overtakes(r, key.path, entries[key].value)' => Overtakes(r, key.path, req[k].value)
        BY <2>1 DEF Overtakes, Changes
    <2> QED
        BY <2>1, <2>2, <2>3 DEF Current, Excused
<1> QED
    BY <1>1, <1>2

\* Steps that leave the SCANs and their mutations alone.
LEMMA ScansStay ==
    ASSUME CacheTypes, FreshInv, ScanInv, UNCHANGED scanned,
           \A r \in Thread : scanned[r] # {} =>
               /\ (At(r, "invalidate"))'
               /\ req'[r].mutation = req[r].mutation
               /\ req'[r].value = req[r].value
               /\ req'[r].todo = req[r].todo,
           \A key \in DOMAIN entries' : Kept(key) \/ Stored(key)
    PROVE  ScanInv'
<1>1. ASSUME NEW r \in Thread, NEW f \in scanned[r]
      PROVE  /\ (At(r, "invalidate"))'
             /\ f.prefix \in req'[r].todo
             /\ Covered(r, f)'
    <2>1. At(r, "invalidate") /\ f.prefix \in req[r].todo /\ Covered(r, f)
        BY DEF ScanInv
    <2>2. /\ (At(r, "invalidate"))'
          /\ req'[r].mutation = req[r].mutation
          /\ req'[r].value = req[r].value
          /\ req'[r].todo = req[r].todo
        OBVIOUS
    <2>3. Covered(r, f)'
        BY <2>1, <2>2, CoveredStays
    <2> QED
        BY <2>1, <2>2, <2>3
<1> QED
    BY <1>1 DEF ScanInv

\* A request that is no mutation has no SCAN, before its step and after it.
LEMMA ReadersLeaveScans ==
    ASSUME CacheTypes, FreshInv, ScanInv, UNCHANGED scanned, NEW r \in Thread, NEW q,
           Becomes(r, q), scanned[r] = {},
           \A key \in DOMAIN entries' : Kept(key) \/ Stored(key)
    PROVE  ScanInv'
<1>1. \A k \in Thread : k # r => req'[k] = req[k]
    BY BecomesIs
<1>2. \A k \in Thread : scanned[k] # {} => At(k, "invalidate") /\ req'[k] = req[k]
    BY <1>1 DEF ScanInv
<1> QED
    BY <1>2, ScansStay DEF At

LEMMA NoScan ==
    ASSUME ScanInv, NEW r \in Thread, ~At(r, "invalidate") \/ req[r].todo = {}
    PROVE  scanned[r] = {}
BY DEF ScanInv

LEMMA HandledKeepsRedisInv ==
    ASSUME RedisInv, NEW r \in Thread,
           Handled(r) \/ (UNCHANGED scanned /\ \E p \in Path, s \in Query : Get(r, p, s))
    PROVE  RedisInv'
<1> USE DEF RedisInv
<1>1. CacheTypes' /\ FreshInv'
    BY HandlerReadsKeepsFresh, LeavingKeepsFresh, MutationAnsweredKeepsFresh, GetKeepsFresh
       DEF Handled
<1>2. UNCHANGED <<scanned, entries>>
    BY DEF Handled, HandlerReads, PassThrough, Answer, MutationAnswered, Get
<1>3. \E q : Becomes(r, q)
    BY DEF Handled, HandlerReads, PassThrough, Answer, MutationAnswered, Get, Becomes
<1>4. ~At(r, "invalidate") \/ req[r].todo = {}
    BY DEF Handled, HandlerReads, PassThrough, Answer, MutationAnswered, Get, At
<1>5. \A key \in DOMAIN entries' : Kept(key)
    BY <1>2, MapUnchanged
<1>6. ScanInv'
    BY <1>2, <1>3, <1>4, <1>5, NoScan, ReadersLeaveScans
<1> QED
    BY <1>1, <1>6

LEMMA MutateKeepsRedisInv ==
    ASSUME RedisInv, NEW r \in Thread, NEW m \in Mutation, Mutate(r, m), UNCHANGED scanned
    PROVE  RedisInv'
<1> USE DEF RedisInv
<1>1. CacheTypes' /\ FreshInv'
    BY MutateKeepsFresh
<1>2. \A key \in DOMAIN entries' : Kept(key)
    BY MapUnchanged DEF Mutate
<1>3. ASSUME NEW k \in Thread, scanned[k] # {}
      PROVE  At(k, "invalidate") /\ req'[k] = req[k]
    <2>1. At(k, "invalidate") /\ k # r
        BY <1>3 DEF ScanInv, Mutate, At
    <2> QED
        BY <2>1 DEF Mutate, At
<1>4. ScanInv'
    BY <1>2, <1>3, ScansStay DEF At
<1> QED
    BY <1>1, <1>4

LEMMA RedisGetKeepsRedisInv ==
    ASSUME RedisInv, NEW r \in Thread, RedisGet(r)
    PROVE  RedisInv'
<1> USE DEF RedisInv
<1>1. /\ req[r].pc = "get"
      /\ ~At(r, "invalidate")
      /\ UNCHANGED <<entries, writes, data, acked, crowded, scanned>>
    BY DEF RedisGet, At
<1>2. \E q : Becomes(r, q) /\ GoodNext(r, q)
    <2>1. CASE Hit(req[r].key) /\ req' = [req EXCEPT ![r] = Found(r)]
        BY <1>1, <2>1, FoundIsGood DEF Becomes, At
    <2>2. CASE req' = [req EXCEPT ![r].pc = "handler"]
        <3>1. Becomes(r, [req[r] EXCEPT !.pc = "handler"])
            BY <2>2 DEF Becomes, CacheTypes
        <3>2. GoodNext(r, [req[r] EXCEPT !.pc = "handler"])
            BY <1>1, StageIsGood
        <3> QED
            BY <3>1, <3>2
    <2> QED
        BY <2>1, <2>2 DEF RedisGet
<1>3. MapTypes' /\ \A key \in DOMAIN entries' : Kept(key)
    BY <1>1, MapUnchanged
<1>4. /\ FreshInv'
      /\ req' \in [Thread -> Request]
      /\ \A k \in Thread : Serving(req[k])'
    BY <1>1, <1>2, <1>3, QuietStep
<1>5. ScanInv'
    BY <1>1, <1>2, <1>3, NoScan, ReadersLeaveScans
<1> QED
    BY <1>1, <1>3, <1>4, <1>5 DEF CacheTypes, MapTypes

LEMMA RedisSetKeepsRedisInv ==
    ASSUME RedisInv, NEW r \in Thread, NEW ttl \in Ttl, RedisSet(r, ttl)
    PROVE  RedisInv'
<1> USE DEF RedisInv
<1>1. /\ req[r].pc = "set"
      /\ ~At(r, "invalidate")
      /\ Becomes(r, Idle)
      /\ crowded' = TRUE
      /\ UNCHANGED <<writes, data, acked, scanned>>
    BY DEF RedisSet, At, Becomes
<1>2. MapTypes' /\ \A key \in DOMAIN entries' : Kept(key) \/ Stored(key)
    <2>1. CASE entries' = Inserted(req[r].key, Response(r, ttl))
        BY <1>1, <2>1, ResponseStored DEF Storing
    <2>2. CASE UNCHANGED entries
        BY <2>2, MapUnchanged
    <2> QED
        BY <2>1, <2>2 DEF RedisSet
<1>3. /\ FreshInv'
      /\ req' \in [Thread -> Request]
      /\ \A k \in Thread : Serving(req[k])'
    BY <1>1, <1>2, IdleIsGood, QuietStep
<1>4. ScanInv'
    BY <1>1, <1>2, NoScan, ReadersLeaveScans
<1> QED
    BY <1>1, <1>2, <1>3, <1>4 DEF CacheTypes, MapTypes

\* What is up to date no mutation has made old.
LEMMA CurrentIsNotOvertaken ==
    ASSUME CacheTypes, WriteInv, NEW r \in Thread, NEW path \in Path, NEW value \in Nat,
           value >= data[path]
    PROVE  ~Overtakes(r, path, value)
<1>1. data[path] \in Nat /\ req[r].value \in Nat
    BY DEF CacheTypes, Request
<1>2. Changes(r, path) => req[r].value <= data[path]
    BY DEF WriteInv
<1> QED
    BY <1>1, <1>2 DEF Overtakes

\* An invalidation that passes keys over marks their entries unless they are up
\* to date, and no others.
LEMMA MissedIs ==
    ASSUME CacheTypes, NEW keys, entries' = Missed(keys)
    PROVE  /\ MapTypes'
           /\ DOMAIN entries' = DOMAIN entries
           /\ \A key \in DOMAIN entries' : Kept(key)
           /\ \A key \in DOMAIN entries' \cap keys :
                 entries'[key].missed \/ entries[key].value >= data[key.path]
<1> DEFINE Old(key) == key \in keys /\ entries[key].value < data[key.path]
<1>1. ASSUME NEW e \in Entry
      PROVE  /\ [e EXCEPT !.missed = TRUE] \in Entry
             /\ [e EXCEPT !.missed = TRUE].value = e.value
             /\ [e EXCEPT !.missed = TRUE].raced = e.raced
             /\ [e EXCEPT !.missed = TRUE].missed
    BY DEF Entry
<1>2. entries' = [key \in DOMAIN entries |->
                     IF Old(key) THEN [entries[key] EXCEPT !.missed = TRUE]
                                 ELSE entries[key]]
    BY DEF Missed
<1>3. \A key \in DOMAIN entries : entries[key] \in Entry
    BY DEF CacheTypes
<1>4. \A key \in DOMAIN entries \cap keys :
         Old(key) \/ entries[key].value >= data[key.path]
    <2> SUFFICES ASSUME NEW key \in DOMAIN entries \cap keys
                 PROVE  Old(key) \/ entries[key].value >= data[key.path]
        OBVIOUS
    <2>1. key.path \in Path /\ entries[key].value \in Nat /\ data[key.path] \in Nat
        BY <1>3, KeyPath DEF CacheTypes, Entry
    <2> QED
        BY <2>1
<1> HIDE DEF Old
<1>5. DOMAIN entries' = DOMAIN entries /\ entries' \in [DOMAIN entries -> Entry]
    BY <1>1, <1>2, <1>3
<1>6. \A key \in DOMAIN entries' : Kept(key)
    BY <1>1, <1>2, <1>3, <1>5 DEF Kept
<1>7. \A key \in DOMAIN entries' \cap keys :
         entries'[key].missed \/ entries[key].value >= data[key.path]
    BY <1>1, <1>2, <1>3, <1>4, <1>5
<1> QED
    BY <1>5, <1>6, <1>7 DEF MapTypes, CacheTypes

\* A prefix that has no SCAN under way is done, or gets one.
LEMMA ScanKeepsRedisInv ==
    ASSUME RedisInv, NEW r \in Thread, NEW prefix \in req[r].todo, NEW page,
           Scan(r, prefix, page)
    PROVE  RedisInv'
<1> USE DEF RedisInv
<1>0. PICK keys : keys = Under(prefix) \cap page
    OBVIOUS
<1> DEFINE new == [prefix |-> prefix, keys |-> keys]
<1>1. /\ At(r, "invalidate")
      /\ \A f \in scanned[r] : f.prefix # prefix
      /\ entries' = Missed(Named(prefix) \ keys)
      /\ UNCHANGED <<writes, data, acked, crowded>>
    BY <1>0 DEF Scan
<1>2. /\ MapTypes'
      /\ DOMAIN entries' = DOMAIN entries
      /\ \A key \in DOMAIN entries' : Kept(key)
      /\ \A key \in DOMAIN entries' \cap (Named(prefix) \ keys) :
            entries'[key].missed \/ entries[key].value >= data[key.path]
    BY <1>1, MissedIs
<1>3. ASSUME NEW key \in DOMAIN entries' \ keys, StartsWith(key, prefix)
      PROVE  \/ Excused(entries'[key], key.path)
             \/ ~Overtakes(r, key.path, entries[key].value)
    <2>1. key \in Named(prefix) /\ key \in DOMAIN entries
        BY <1>2, <1>3 DEF Named
    <2>2. key.path \in Path /\ entries[key].value \in Nat
        BY <2>1, KeyPath DEF CacheTypes, Entry
    <2>3. entries'[key].missed \/ entries[key].value >= data[key.path]
        BY <1>2, <1>3, <2>1
    <2> QED
        BY <2>2, <2>3, CurrentIsNotOvertaken DEF Excused, FreshInv
<1>4. /\ prefix \in Prefix
      /\ keys \in SUBSET Key
      /\ \A key \in keys : key \in DOMAIN entries /\ Matches(key, prefix)
    BY <1>0 DEF CacheTypes, Request, Under
<1>5. CASE keys = {} /\ UNCHANGED scanned /\ req' = [req EXCEPT ![r].todo = @ \ {prefix}]
    <2>1. Becomes(r, PrefixDone(r, prefix))
        BY <1>5 DEF Becomes, PrefixDone, CacheTypes
    <2>2. \A key \in DOMAIN entries' : StartsWith(key, prefix) =>
             \/ Excused(entries'[key], key.path)
             \/ ~Overtakes(r, key.path, entries[key].value)
        BY <1>3, <1>5
    <2>3. /\ FreshInv'
          /\ req' \in [Thread -> Request]
          /\ \A k \in Thread : Serving(req[k])'
        BY <1>1, <1>2, <2>1, <2>2, PrefixDoneStep
    <2>4. /\ \A k \in Thread : k # r => req'[k] = req[k]
          /\ req'[r].pc = req[r].pc
          /\ req'[r].mutation = req[r].mutation
          /\ req'[r].value = req[r].value
          /\ req'[r].todo = req[r].todo \ {prefix}
        <3>1. req'[r] = PrefixDone(r, prefix) /\ req[r] \in Request
            BY <2>1 DEF Becomes, CacheTypes
        <3> QED
            BY <2>1, <3>1, BecomesIs DEF PrefixDone, Request
    <2>5. ASSUME NEW k \in Thread, NEW f \in scanned[k]
          PROVE  (At(k, "invalidate"))' /\ f.prefix \in req'[k].todo /\ Covered(k, f)'
        <3>1. At(k, "invalidate") /\ f.prefix \in req[k].todo /\ Covered(k, f)
            BY DEF ScanInv
        <3>2. /\ (At(k, "invalidate"))'
              /\ req'[k].mutation = req[k].mutation
              /\ req'[k].value = req[k].value
              /\ f.prefix \in req'[k].todo
            BY <1>1, <2>4, <3>1 DEF At
        <3>3. Covered(k, f)'
            BY <1>2, <3>1, <3>2, CoveredStays
        <3> QED
            BY <3>2, <3>3
    <2>6. ScanInv'
        BY <1>5, <2>5 DEF ScanInv
    <2> QED
        BY <1>1, <1>2, <2>3, <2>6 DEF CacheTypes, MapTypes
<1>6. CASE scanned' = [scanned EXCEPT ![r] = @ \cup {new}] /\ UNCHANGED req
    <2>1. /\ FreshInv'
          /\ req' \in [Thread -> Request]
          /\ \A k \in Thread : Serving(req[k])'
        BY <1>1, <1>2, <1>6, EntriesOnlyStep
    <2>2. new \in [prefix : Prefix, keys : SUBSET Key] /\ new.prefix = prefix /\ new.keys = keys
        BY <1>4
    <2>3. Covered(r, new)'
        <3> SUFFICES ASSUME NEW key \in DOMAIN entries' \ keys, StartsWith(key, prefix)
                     PROVE  \/ Excused(entries'[key], key.path)
                            \/ ~Overtakes(r, key.path, entries[key].value)'
            BY <2>2 DEF Covered, Excused, Nameless
        <3>1. entries'[key].value = entries[key].value
            BY <1>2 DEF Kept
        <3>2. Overtakes(r, key.path, entries[key].value)'
                  => Overtakes(r, key.path, entries[key].value)
            BY <1>6, <3>1 DEF Overtakes, Changes, At
        <3> QED
            BY <1>3, <3>2
    <2> HIDE DEF new
    <2>4. /\ scanned'[r] = scanned[r] \cup {new}
          /\ \A k \in Thread : k # r => scanned'[k] = scanned[k]
          /\ scanned' \in [Thread -> SUBSET [prefix : Prefix, keys : SUBSET Key]]
        BY <1>6, <2>2 DEF ScanInv
    <2>5. ASSUME NEW k \in Thread, NEW f \in scanned[k]
          PROVE  Covered(k, f)'
        <3>1. At(k, "invalidate") /\ Covered(k, f)
            BY DEF ScanInv
        <3> QED
            BY <1>2, <1>6, <3>1, CoveredStays DEF At
    <2>6. ASSUME NEW k \in Thread, NEW f \in scanned'[k]
          PROVE  /\ At(k, "invalidate")
                 /\ f.prefix \in req[k].todo
                 /\ \A g \in scanned'[k] : g.prefix = f.prefix => g = f
                 /\ \A key \in f.keys : Matches(key, f.prefix)
                 /\ Covered(k, f)'
        <3>1. CASE k # r
            BY <2>4, <2>5, <3>1 DEF ScanInv
        <3>2. CASE k = r /\ f = new
            BY <1>1, <1>4, <2>2, <2>3, <2>4, <3>2
        <3>3. CASE k = r /\ f \in scanned[r]
            BY <1>1, <2>2, <2>4, <2>5, <3>3 DEF ScanInv
        <3> QED
            BY <2>4, <3>1, <3>2, <3>3
    <2>7. ScanInv'
        BY <1>6, <2>4, <2>6 DEF ScanInv, At
    <2> QED
        BY <1>1, <1>2, <2>1, <2>7 DEF CacheTypes, MapTypes
<1> QED
    BY <1>0, <1>5, <1>6 DEF Scan

\* With its DEL, or the failure of it, a prefix is done.
LEMMA DeleteKeepsRedisInv ==
    ASSUME RedisInv, NEW r \in Thread, NEW f \in scanned[r], Delete(r, f)
    PROVE  RedisInv'
<1> USE DEF RedisInv
<1>1. /\ At(r, "invalidate")
      /\ f.prefix \in req[r].todo
      /\ \A g \in scanned[r] : g.prefix = f.prefix => g = f
      /\ Covered(r, f)
    BY DEF ScanInv
<1>2. /\ scanned' = [scanned EXCEPT ![r] = @ \ {f}]
      /\ req' = [req EXCEPT ![r].todo = @ \ {f.prefix}]
      /\ UNCHANGED <<writes, data, acked, crowded>>
    BY DEF Delete
<1>3. /\ MapTypes'
      /\ \A key \in DOMAIN entries' : Kept(key)
      /\ \A key \in DOMAIN entries' : key \in f.keys /\ StartsWith(key, f.prefix) =>
            entries'[key].missed \/ entries[key].value >= data[key.path]
    <2>1. CASE entries' = Restrict(entries, DOMAIN entries \ f.keys)
        <3> DEFINE S == DOMAIN entries \ f.keys
        <3>1. /\ MapTypes'
              /\ DOMAIN entries' = S
              /\ \A key \in DOMAIN entries' : Kept(key)
            BY <2>1, MapRestricted
        <3> QED
            BY <3>1
    <2>2. CASE entries' = Missed(f.keys \cap Named(f.prefix))
        <3>1. /\ MapTypes'
              /\ DOMAIN entries' = DOMAIN entries
              /\ \A key \in DOMAIN entries' : Kept(key)
              /\ \A key \in DOMAIN entries' \cap (f.keys \cap Named(f.prefix)) :
                    entries'[key].missed \/ entries[key].value >= data[key.path]
            BY <2>2, MissedIs
        <3> QED
            BY <3>1 DEF Named
    <2> QED
        BY <2>1, <2>2 DEF Delete
<1>4. Becomes(r, PrefixDone(r, f.prefix))
    BY <1>2 DEF Becomes, PrefixDone, CacheTypes
<1>5. ASSUME NEW key \in DOMAIN entries', StartsWith(key, f.prefix)
      PROVE  \/ Excused(entries'[key], key.path)
             \/ ~Overtakes(r, key.path, entries[key].value)
    <2>1. CASE key \in f.keys
        <3>1. key \in DOMAIN entries /\ key.path \in Path /\ entries[key].value \in Nat
            BY <1>3, KeyPath DEF Kept, CacheTypes, Entry
        <3>2. entries'[key].missed \/ entries[key].value >= data[key.path]
            BY <1>3, <1>5, <2>1
        <3> QED
            BY <3>1, <3>2, CurrentIsNotOvertaken DEF Excused, FreshInv
    <2>2. CASE key \notin f.keys
        <3>1. \/ Excused(entries[key], key.path)
              \/ ~Overtakes(r, key.path, entries[key].value)
            BY <1>1, <1>3, <1>5, <2>2 DEF Covered, Kept
        <3> QED
            BY <1>3, <3>1 DEF Excused, Kept
    <2> QED
        BY <2>1, <2>2
<1>6. /\ FreshInv'
      /\ req' \in [Thread -> Request]
      /\ \A k \in Thread : Serving(req[k])'
    BY <1>1, <1>2, <1>3, <1>4, <1>5, PrefixDoneStep
<1>7. /\ \A k \in Thread : k # r => req'[k] = req[k]
      /\ req'[r].pc = req[r].pc
      /\ req'[r].mutation = req[r].mutation
      /\ req'[r].value = req[r].value
      /\ req'[r].todo = req[r].todo \ {f.prefix}
    <2>1. req'[r] = PrefixDone(r, f.prefix) /\ req[r] \in Request
        BY <1>4 DEF Becomes, CacheTypes
    <2> QED
        BY <1>4, <2>1, BecomesIs DEF PrefixDone, Request
<1>8. /\ scanned'[r] = scanned[r] \ {f}
      /\ \A k \in Thread : k # r => scanned'[k] = scanned[k]
      /\ scanned' \in [Thread -> SUBSET [prefix : Prefix, keys : SUBSET Key]]
    BY <1>2 DEF ScanInv
<1>9. ASSUME NEW k \in Thread, NEW g \in scanned'[k]
      PROVE  (At(k, "invalidate"))' /\ g.prefix \in req'[k].todo /\ Covered(k, g)'
    <2>1. g \in scanned[k]
        BY <1>8
    <2>2. At(k, "invalidate") /\ g.prefix \in req[k].todo /\ Covered(k, g)
        BY <2>1 DEF ScanInv
    <2>3. k = r => g.prefix # f.prefix
        BY <1>1, <1>8, <2>1
    <2>4. /\ (At(k, "invalidate"))'
          /\ req'[k].mutation = req[k].mutation
          /\ req'[k].value = req[k].value
          /\ g.prefix \in req'[k].todo
        BY <1>7, <2>2, <2>3 DEF At
    <2>5. Covered(k, g)'
        BY <1>3, <2>2, <2>4, CoveredStays
    <2> QED
        BY <2>4, <2>5
<1>10. ScanInv'
    <2>1. \A k \in Thread : scanned'[k] \subseteq scanned[k]
        BY <1>8
    <2> QED
        BY <1>8, <1>9, <2>1 DEF ScanInv
<1> QED
    BY <1>2, <1>3, <1>6, <1>10 DEF CacheTypes, MapTypes

\* What a mutation leaves behind when it is dropped is marked, or up to date.
LEMMA DropKeepsFresh ==
    ASSUME CacheTypes, FreshInv, NEW r \in Thread, At(r, "invalidate"), Becomes(r, Idle),
           UNCHANGED <<writes, data, acked>>,
           \A key \in DOMAIN entries' :
               /\ Kept(key)
               /\ Pending(r, key) =>
                     \/ Excused(entries'[key], key.path)
                     \/ ~Overtakes(r, key.path, entries[key].value)
    PROVE  /\ FreshInv'
           /\ req' \in [Thread -> Request]
           /\ \A k \in Thread : Serving(req[k])'
<1>1. /\ req'[r] = Idle
      /\ \A k \in Thread : k # r => req'[k] = req[k]
      /\ req' \in [Thread -> Request]
      /\ \A k \in Thread : Serving(req'[k])
    BY BecomesIs, IdleIsRequest
<1>2. \A k \in Thread, p \in Path : Changes(k, p)' => k # r /\ Changes(k, p)
    BY <1>1, IdleIsRequest DEF Changes, At
<1>3. \A k \in Thread, p \in Path, value \in Nat :
         /\ Overtakes(k, p, value)' => k # r /\ Overtakes(k, p, value)
         /\ k # r /\ Overtakes(k, p, value) => Overtakes(k, p, value)'
    BY <1>1, <1>2 DEF Overtakes, Changes, At
<1>4. WriteInv'
    <2>1. \A k \in Thread, p \in Path : Changes(k, p)' => req'[k].value <= data[p]
        BY <1>1, <1>2 DEF FreshInv, WriteInv
    <2> QED
        BY <2>1 DEF FreshInv, WriteInv
<1>5. EntryInv'
    <2> SUFFICES ASSUME NEW key \in DOMAIN entries'
                 PROVE  Fresh(key, entries[key])'
        BY DEF EntryInv
    <2>1. /\ key \in DOMAIN entries
          /\ key.path \in Path
          /\ entries[key].value \in Nat
          /\ entries'[key].value = entries[key].value
        BY KeyPath DEF Kept, CacheTypes, Entry
    <2>2. Fresh(key, entries[key])
        BY <2>1 DEF FreshInv, EntryInv
    <2>3. CASE Excused(entries[key], key.path) \/ Excused(entries'[key], key.path)
        BY <2>3 DEF Kept, Excused, Fresh
    <2>4. CASE /\ entries[key].value >= acked[key.path]
               /\ \A k \in Thread : Overtakes(k, key.path, entries[key].value) => Pending(k, key)
               /\ \/ entries[key].value >= data[key.path]
                  \/ \E k \in Thread : Overtakes(k, key.path, entries[key].value)
               /\ ~Excused(entries'[key], key.path)
        <3>1. ~Overtakes(r, key.path, entries[key].value)
            BY <2>4
        <3>2. ASSUME NEW k \in Thread, Overtakes(k, key.path, entries[key].value)'
              PROVE  Pending(k, key)'
            <4>1. k # r /\ Overtakes(k, key.path, entries[key].value)
                BY <1>3, <2>1, <3>2
            <4> QED
                BY <1>1, <2>4, <4>1 DEF Pending
        <3>3. \/ entries[key].value >= data[key.path]
              \/ \E k \in Thread : Overtakes(k, key.path, entries[key].value)'
            BY <1>3, <2>1, <2>4, <3>1
        <3> QED
            BY <2>1, <2>4, <3>2, <3>3 DEF Fresh
    <2> QED
        BY <2>2, <2>3, <2>4 DEF Fresh
<1>6. ResponseInv'
    <2> SUFFICES ASSUME NEW k \in Thread, req'[k].pc \in Storing
                 PROVE  Current(req[k])'
        BY DEF ResponseInv
    <2>1. req'[k] = req[k]
        BY <1>1, IdleIsRequest DEF Storing
    <2>2. Current(req[k]) /\ req[k].value \in Nat /\ req[k].key.path \in Path
        BY <2>1, KeyPath DEF FreshInv, ResponseInv, Storing, CacheTypes, Request, Serving
    <2> QED
        BY <1>3, <2>1, <2>2 DEF Current
<1>7. AskedInv' /\ ReadsAcknowledged'
    BY <1>1, IdleIsRequest DEF FreshInv, AskedInv, ReadsAcknowledged, At
<1> QED
    BY <1>1, <1>4, <1>5, <1>6, <1>7 DEF FreshInv, Serving

LEMMA DropKeepsRedisInv ==
    ASSUME RedisInv, NEW r \in Thread, Drop(r)
    PROVE  RedisInv'
<1> USE DEF RedisInv
<1> DEFINE keys == UNION {Named(prefix) : prefix \in req[r].todo}
<1>1. /\ entries' = Missed(keys)
      /\ scanned' = [scanned EXCEPT ![r] = {}]
      /\ Becomes(r, Idle)
      /\ UNCHANGED <<writes, data, acked, crowded>>
    BY DEF Drop, Becomes
<1>2. \A key \in DOMAIN entries : Pending(r, key) => key \in keys
    BY DEF Pending, Named
<1> HIDE DEF keys
<1>3. /\ MapTypes'
      /\ DOMAIN entries' = DOMAIN entries
      /\ \A key \in DOMAIN entries' : Kept(key)
      /\ \A key \in DOMAIN entries' \cap keys :
            entries'[key].missed \/ entries[key].value >= data[key.path]
    BY <1>1, MissedIs
<1>4. /\ FreshInv'
      /\ req' \in [Thread -> Request]
      /\ \A k \in Thread : Serving(req[k])'
    <2>1. CASE ~At(r, "invalidate")
        BY <1>1, <1>3, <2>1, IdleIsGood, QuietStep
    <2>2. CASE At(r, "invalidate")
        <3>1. ASSUME NEW key \in DOMAIN entries', Pending(r, key)
              PROVE  \/ Excused(entries'[key], key.path)
                     \/ ~Overtakes(r, key.path, entries[key].value)
            <4>1. key \in DOMAIN entries /\ key.path \in Path /\ entries[key].value \in Nat
                BY <1>3, KeyPath DEF CacheTypes, Entry
            <4>2. entries'[key].missed \/ entries[key].value >= data[key.path]
                BY <1>2, <1>3, <3>1
            <4> QED
                BY <4>1, <4>2, CurrentIsNotOvertaken DEF Excused, FreshInv
        <3> QED
            BY <1>1, <1>3, <2>2, <3>1, DropKeepsFresh
    <2> QED
        BY <2>1, <2>2
<1>5. ScanInv'
    <2>1. /\ scanned'[r] = {}
          /\ \A k \in Thread : k # r => scanned'[k] = scanned[k] /\ req'[k] = req[k]
          /\ scanned' \in [Thread -> SUBSET [prefix : Prefix, keys : SUBSET Key]]
        BY <1>1, BecomesIs DEF ScanInv
    <2>2. ASSUME NEW k \in Thread, NEW f \in scanned'[k]
          PROVE  /\ (At(k, "invalidate"))'
                 /\ f.prefix \in req'[k].todo
                 /\ \A g \in scanned'[k] : g.prefix = f.prefix => g = f
                 /\ \A key \in f.keys : Matches(key, f.prefix)
                 /\ Covered(k, f)'
        <3>1. k # r /\ f \in scanned[k] /\ req'[k] = req[k] /\ scanned'[k] = scanned[k]
            BY <2>1
        <3>2. /\ At(k, "invalidate")
              /\ f.prefix \in req[k].todo
              /\ \A g \in scanned[k] : g.prefix = f.prefix => g = f
              /\ \A key \in f.keys : Matches(key, f.prefix)
              /\ Covered(k, f)
            BY <3>1 DEF ScanInv
        <3>3. (At(k, "invalidate"))'
            BY <3>1, <3>2 DEF At
        <3>4. Covered(k, f)'
            BY <1>3, <3>1, <3>2, <3>3, CoveredStays
        <3> QED
            BY <3>1, <3>2, <3>3, <3>4
    <2> QED
        BY <2>1, <2>2 DEF ScanInv
<1> QED
    BY <1>1, <1>3, <1>4, <1>5 DEF CacheTypes, MapTypes

LEMMA RedisTickKeepsRedisInv ==
    ASSUME RedisInv, RedisTick
    PROVE  RedisInv'
<1> USE DEF RedisInv
<1> DEFINE S == {k \in DOMAIN entries : entries[k].left > 1}
           Older(e) == [e EXCEPT !.left = @ - 1]
<1>1. ASSUME NEW e \in Entry, e.left > 1
      PROVE  /\ Older(e) \in Entry
             /\ Older(e).value = e.value
             /\ Older(e).raced = e.raced
             /\ Older(e).missed = e.missed
    BY <1>1 DEF Entry
<1>2. entries' = [key \in S |-> Older(entries[key])]
    BY DEF RedisTick
<1>3. S \in SUBSET (DOMAIN entries) /\ IsFiniteSet(S)
    BY PartOfMap DEF CacheTypes
<1>4. \A key \in S : entries[key] \in Entry /\ entries[key].left > 1
    BY DEF CacheTypes
<1> HIDE DEF Older, S
<1>5. DOMAIN entries' = S /\ entries' \in [S -> Entry]
    BY <1>1, <1>2, <1>4
<1>6. \A key \in DOMAIN entries' : Kept(key)
    BY <1>1, <1>2, <1>3, <1>4, <1>5 DEF Kept
<1>7. UNCHANGED <<req, writes, data, acked, crowded, scanned>>
    BY DEF RedisTick
<1>8. /\ FreshInv'
      /\ req' \in [Thread -> Request]
      /\ \A k \in Thread : Serving(req[k])'
    BY <1>6, <1>7, EntriesOnlyStep
<1>9. ScanInv'
    <2>1. \A k \in Thread : scanned[k] # {} => At(k, "invalidate")
        BY DEF ScanInv
    <2> QED
        BY <1>6, <1>7, <2>1, ScansStay DEF At
<1> QED
    BY <1>3, <1>5, <1>7, <1>8, <1>9 DEF CacheTypes

-----------------------------------------------------------------------------
(* Theorems about the cache over Redis *)

LEMMA RedisNextKeepsRedisInv ==
    RedisInv /\ [RedisNext]_redisVars => RedisInv'
<1> SUFFICES ASSUME RedisInv, [RedisNext]_redisVars
             PROVE  RedisInv'
    OBVIOUS
<1>1. CASE RedisTick
    BY <1>1, RedisTickKeepsRedisInv
<1>2. ASSUME NEW r \in Thread, NEW p \in Path, NEW s \in Query, Get(r, p, s), UNCHANGED scanned
      PROVE  RedisInv'
    BY <1>2, HandledKeepsRedisInv
<1>3. ASSUME NEW r \in Thread, NEW m \in Mutation, Mutate(r, m), UNCHANGED scanned
      PROVE  RedisInv'
    BY <1>3, MutateKeepsRedisInv
<1>4. ASSUME NEW r \in Thread, RedisStep(r)
      PROVE  RedisInv'
    <2>1. CASE Handled(r)
        BY <2>1, HandledKeepsRedisInv
    <2>2. CASE RedisGet(r)
        BY <2>2, RedisGetKeepsRedisInv
    <2>3. ASSUME NEW ttl \in Ttl, RedisSet(r, ttl)
          PROVE  RedisInv'
        BY <2>3, RedisSetKeepsRedisInv
    <2>4. ASSUME NEW prefix \in req[r].todo, NEW page \in Page \cup {{}}, Scan(r, prefix, page)
          PROVE  RedisInv'
        BY <2>4, ScanKeepsRedisInv
    <2>5. ASSUME NEW f \in scanned[r], Delete(r, f)
          PROVE  RedisInv'
        BY <2>5, DeleteKeepsRedisInv
    <2> QED
        BY <1>4, <2>1, <2>2, <2>3, <2>4, <2>5 DEF RedisStep
<1>5. ASSUME NEW r \in Thread, Drop(r)
      PROVE  RedisInv'
    BY <1>5, DropKeepsRedisInv
<1>6. CASE UNCHANGED redisVars
    <2>1. UNCHANGED <<entries, req, writes, data, acked, crowded, scanned>>
        BY <1>6 DEF redisVars, cacheVars
    <2>2. MapTypes' /\ \A key \in DOMAIN entries' : Kept(key)
        BY <2>1, MapUnchanged DEF RedisInv
    <2>3. /\ FreshInv'
          /\ req' \in [Thread -> Request]
          /\ \A k \in Thread : Serving(req[k])'
        BY <2>1, <2>2, EntriesOnlyStep DEF RedisInv
    <2>4. \A k \in Thread : scanned[k] # {} => At(k, "invalidate")
        BY DEF RedisInv, ScanInv
    <2>5. ScanInv'
        BY <2>1, <2>2, <2>4, ScansStay DEF RedisInv, At
    <2> QED
        BY <2>1, <2>2, <2>3, <2>5 DEF RedisInv, CacheTypes, MapTypes
<1> QED
    BY <1>1, <1>2, <1>3, <1>4, <1>5, <1>6 DEF RedisNext

LEMMA RedisInvariant ==
    RedisSpec => []RedisInv
<1>1. RedisInit => RedisInv
    <2> SUFFICES ASSUME RedisInit
                 PROVE  RedisInv
        OBVIOUS
    <2>1. CacheTypes /\ FreshInv
        BY StartsFresh DEF RedisInit
    <2>2. scanned = [r \in Thread |-> {}]
        BY DEF RedisInit
    <2>3. ScanInv
        BY <2>2 DEF ScanInv
    <2> QED
        BY <2>1, <2>3 DEF RedisInv
<1>2. RedisInv /\ [RedisNext]_redisVars => RedisInv'
    BY RedisNextKeepsRedisInv
<1> QED
    BY <1>1, <1>2, PTL DEF RedisSpec

\* Over Redis, where a SCAN looks at a part of the keys, a command may fail and
\* a request may be dropped between its commands, a cached value that is out of
\* date has no excuse but these: it raced, was missed by an invalidation, is
\* about to be deleted, or has no prefix. And with the same exceptions a hit is
\* at least as new as the last write answered before the request came.
THEOREM RedisIsCoherent ==
    RedisSpec => []CacheCoherent
<1>1. RedisInv => StaleOnlyByRace
    BY FreshIsNotStale DEF RedisInv
<1>2. RedisInv => ReadsAcknowledged
    BY DEF RedisInv, FreshInv
<1>3. RedisInv => CacheCoherent
    BY <1>1, <1>2 DEF CacheCoherent
<1> QED
    BY <1>3, RedisInvariant, PTL

\* The keys that RedisEntriesStay lets go.
MayExpire(key) ==
    \/ entries[key].left = 1 /\ UNCHANGED req
    \/ \E r \in Thread : At(r, "invalidate") /\ \E p \in req[r].todo : Matches(key, p)

\* Over Redis, a key goes only when its time is over or by a mutation whose
\* pattern finds it: a DEL takes nothing that its SCAN did not return.
THEOREM RedisLiveEntriesStay ==
    RedisSpec => RedisEntriesStay
<1>1. ASSUME RedisInv, [RedisNext]_redisVars, NEW key \in Unexpired, key \notin DOMAIN entries'
      PROVE  MayExpire(key)
    <2>1. key \in DOMAIN entries /\ Live(entries[key]) /\ entries[key] \in Entry
        BY <1>1 DEF Unexpired, RedisInv, CacheTypes
    <2>2. CASE RedisTick
        <3>1. entries[key].left \in Nat /\ entries[key].left > 0 /\ ~(entries[key].left > 1)
            BY <1>1, <2>1, <2>2 DEF RedisTick, Live, Entry
        <3> QED
            BY <2>2, <3>1 DEF RedisTick, MayExpire
    <2>3. ASSUME NEW r \in Thread, NEW ttl, RedisSet(r, ttl)
          PROVE  FALSE
        BY <1>1, <2>1, <2>3 DEF RedisSet, Inserted
    <2>4. ASSUME NEW r \in Thread, NEW prefix, NEW page, Scan(r, prefix, page)
          PROVE  FALSE
        BY <1>1, <2>1, <2>4 DEF Scan, Missed
    <2>5. ASSUME NEW r \in Thread, NEW f \in scanned[r], Delete(r, f)
          PROVE  MayExpire(key)
        <3>1. key \in f.keys
            <4>1. CASE entries' = Restrict(entries, DOMAIN entries \ f.keys)
                BY <1>1, <2>1, <4>1, RestrictIs
            <4>2. CASE entries' = Missed(f.keys \cap Named(f.prefix))
                BY <1>1, <2>1, <4>2 DEF Missed
            <4> QED
                BY <2>5, <4>1, <4>2 DEF Delete
        <3>2. At(r, "invalidate") /\ f.prefix \in req[r].todo /\ Matches(key, f.prefix)
            BY <1>1, <3>1 DEF RedisInv, ScanInv
        <3> QED
            BY <3>2 DEF MayExpire
    <2>6. entries' # entries
        BY <1>1, <2>1
    <2>7. ASSUME NEW r \in Thread, RedisStep(r)
          PROVE  MayExpire(key)
        BY <2>3, <2>4, <2>5, <2>6, <2>7
           DEF RedisStep, Handled, HandlerReads, PassThrough, Answer, MutationAnswered, RedisGet
    <2>8. ASSUME NEW r \in Thread, Drop(r)
          PROVE  FALSE
        BY <1>1, <2>1, <2>8 DEF Drop, Missed
    <2> QED
        BY <1>1, <2>2, <2>6, <2>7, <2>8 DEF RedisNext, redisVars, cacheVars, Get, Mutate
<1>2. RedisInv /\ [RedisNext]_redisVars =>
         [\A key \in Unexpired :
            key \notin DOMAIN entries' =>
                \/ entries[key].left = 1 /\ UNCHANGED req
                \/ \E r \in Thread : /\ At(r, "invalidate")
                                     /\ \E p \in req[r].todo : Matches(key, p)]_redisVars
    BY <1>1 DEF MayExpire
<1> QED
    BY <1>2, RedisInvariant, PTL DEF RedisSpec, RedisEntriesStay

=============================================================================
