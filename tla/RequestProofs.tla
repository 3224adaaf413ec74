--------------------------- MODULE RequestProofs ---------------------------
(***************************************************************************)
(* Theorems about what a request meets on its way: the layers it goes      *)
(* through, and the pages it is answered with.                             *)
(*                                                                         *)
(* The rate limiter keeps its account for any number of clients and        *)
(* threads, any rate, burst and cleanup interval, and any clock.           *)
(* RateRespected alone is not inductive: it says nothing of the tokens     *)
(* that are still in a bucket.  Account does: what was let through and     *)
(* what is left are paid for by the burst, by the time up to last_refill,  *)
(* by time credited twice and by what a removal gave away.                 *)
(*                                                                         *)
(* The stack as a whole, for any layers, any clients and any requests:     *)
(* what an answer and the metrics tell of a request.                       *)
(*                                                                         *)
(* Pages, for any finite table, cursor column, page sizes and changes of   *)
(* the table between two requests: what a walk brings by its end.          *)
(***************************************************************************)
EXTENDS RateLimit, Pipeline, Pagination, FiniteSetTheorems, Rounds

-----------------------------------------------------------------------------
(* The rate limiter *)

\* A client without a bucket will get a full one.
TokensLeft(c) == IF buckets[c] = NoBucket THEN Full ELSE buckets[c].tokens

\* The time up to which a bucket has been filled is in the bucket.
RefillsRecorded ==
    \A c \in Client : buckets[c] # NoBucket => buckets[c].last_refill = refilled[c]

Account ==
    \A c \in Client :
        spent[c] + TokensLeft(c) <= Full + refilled[c] + rewound[c] + forgiven[c]

ForgivenOnlySlow == \A c \in Client : forgiven[c] > 0 => STALE_AFTER < Full

RateInv ==
    /\ RateTypeOK
    /\ RefillsRecorded
    /\ Account
    /\ ForgivenOnlySlow
    /\ RetryAfterSuffices

-----------------------------------------------------------------------------
\* A full bucket is a positive number of units, at least one request's.
LEMMA FullHoldsOne == Full \in Nat /\ Full >= Cost /\ Cost > 0
  <1>1. Cost \in Nat /\ burst \in Nat /\ Cost > 0 /\ burst > 0
    BY RateAssumption
  <1>2. \A m, n \in Nat : n > 0 => m * n \in Nat /\ m * n >= m
    OBVIOUS
  <1> QED
    BY <1>1, <1>2 DEF Full

\* What Refill leaves in a bucket.
LEMMA RefillBounds ==
    ASSUME NEW time \in Nat, NEW b \in Bucket(time), NEW now \in Nat
    PROVE  /\ Refill(b, now) \in 0 .. Full
           /\ Refill(b, now) >= b.tokens
           /\ now <= b.last_refill => Refill(b, now) = b.tokens
           /\ now >= b.last_refill /\ b.tokens + (now - b.last_refill) <= Full
                  => Refill(b, now) = b.tokens + (now - b.last_refill)
           /\ now >= b.last_refill /\ b.tokens + (now - b.last_refill) > Full
                  => Refill(b, now) = Full
  BY FullHoldsOne DEF Refill, duration_since, NonNegative, Bucket

\* The header is long enough for the missing units.
LEMMA RetryAfterIsEnough ==
    ASSUME NEW tokens \in Nat, tokens < Cost
    PROVE  /\ Second * RetryAfter(tokens) \in Nat
           /\ tokens + Second * RetryAfter(tokens) >= Cost
  <1>1. Cost \in Nat /\ Second \in Nat /\ Second > 0
    BY RateAssumption
  <1>2. \A x, d \in Nat : d > 0 => /\ x \div d \in Nat
                                  /\ x = d * (x \div d) + (x % d)
                                  /\ x % d \in 0 .. d - 1
    OBVIOUS
  <1>3. Cost - tokens + Second - 1 \in Nat
    BY <1>1
  <1> DEFINE x == Cost - tokens + Second - 1
             q == x \div Second
  <1>4. q \in Nat /\ x = Second * q + (x % Second) /\ x % Second \in 0 .. Second - 1
    BY <1>1, <1>2, <1>3
  <1>5. RetryAfter(tokens) = q
    BY DEF RetryAfter
  <1>6. \A m, n \in Nat : m * n \in Nat
    OBVIOUS
  <1>7. Second * q \in Nat
    BY <1>1, <1>4, <1>6
  <1> HIDE DEF q
  <1>8. tokens + Second * q >= Cost
    BY <1>1, <1>4, <1>7
  <1> QED
    BY <1>5, <1>7, <1>8

-----------------------------------------------------------------------------
\* No bucket, no request and no promise at the start.
LEMMA RateInvInit == RateInit => RateInv
  <1> SUFFICES ASSUME RateInit PROVE RateInv
    OBVIOUS
  <1>1. RateTypeOK
    BY RateAssumption DEF RateInit, RateTypeOK, Free, Check, Places, CheckState
  <1>2. RefillsRecorded /\ Account /\ ForgivenOnlySlow /\ RetryAfterSuffices
    BY FullHoldsOne DEF RateInit, RefillsRecorded, Account, TokensLeft, ForgivenOnlySlow, RetryAfterSuffices
  <1> QED
    BY <1>1, <1>2 DEF RateInv

\* Arrival, the reading of a clock and the end of a cleanup change only the
\* thread and the counter.
LEMMA ThreadSteps ==
    ASSUME RateInv, NEW t \in Thread,
           \/ \E c \in Client : Arrive(t, c)
           \/ StartCleanup(t) \/ EndCleanup(t) \/ ReadClock(t)
    PROVE  RateInv'
  <1>1. UNCHANGED <<clock, buckets, spent, refilled, rewound, forgiven, promised>>
    BY DEF Arrive, StartCleanup, EndCleanup, ReadClock
  <1>2. /\ request_count' \in 0 .. CLEANUP_INTERVAL
        /\ \E s \in CheckState(clock) :
               /\ s.at # "free" => s.client \in Client
               /\ thread' = [thread EXCEPT ![t] = s]
    <2>1. CASE \E c \in Client : Arrive(t, c)
      <3>1. PICK c \in Client : Arrive(t, c)
        BY <2>1
      <3>2. request_count' \in 0 .. CLEANUP_INTERVAL
        <4>1. request_count' = IF request_count = CLEANUP_INTERVAL THEN 1 ELSE request_count + 1
          BY <3>1 DEF Arrive
        <4>2. request_count \in 0 .. CLEANUP_INTERVAL /\ CLEANUP_INTERVAL \in Nat /\ CLEANUP_INTERVAL >= 1
          BY RateAssumption DEF RateInv, RateTypeOK
        <4> QED
          BY <4>1, <4>2
      <3> DEFINE s == Check(IF request_count = CLEANUP_INTERVAL THEN "cleanup" ELSE "clock", c, 0, {})
      <3>3. s \in CheckState(clock) /\ s.client \in Client
        BY DEF RateInv, RateTypeOK, CheckState, Places, Check
      <3>4. thread' = [thread EXCEPT ![t] = s]
        BY <3>1 DEF Arrive
      <3> HIDE DEF s
      <3> QED
        BY <3>2, <3>3, <3>4
    <2>2. CASE StartCleanup(t)
      <3> DEFINE s == Check("retain", thread[t].client, clock, Client)
      <3>1. /\ thread[t] \in CheckState(clock) /\ thread[t].client \in Client /\ clock \in Nat
            /\ request_count' = request_count
            /\ thread' = [thread EXCEPT ![t] = s]
        BY <2>2 DEF RateInv, RateTypeOK, StartCleanup
      <3>2. s \in CheckState(clock) /\ s.client \in Client
        BY <3>1 DEF CheckState, Places, Check
      <3>3. request_count' \in 0 .. CLEANUP_INTERVAL
        BY <3>1 DEF RateInv, RateTypeOK
      <3> HIDE DEF s
      <3> QED
        BY <3>1, <3>2, <3>3
    <2>3. CASE EndCleanup(t)
      <3> DEFINE s == Check("clock", thread[t].client, thread[t].now, {})
      <3>1. /\ thread[t] \in CheckState(clock) /\ thread[t].client \in Client /\ clock \in Nat
            /\ request_count' = request_count
            /\ thread' = [thread EXCEPT ![t] = s]
        BY <2>3 DEF RateInv, RateTypeOK, EndCleanup
      <3>2. s \in CheckState(clock) /\ s.client \in Client
        BY <3>1 DEF CheckState, Places, Check
      <3>3. request_count' \in 0 .. CLEANUP_INTERVAL
        BY <3>1 DEF RateInv, RateTypeOK
      <3> HIDE DEF s
      <3> QED
        BY <3>1, <3>2, <3>3
    <2>4. CASE ReadClock(t)
      <3> DEFINE s == Check("entry", thread[t].client, clock, {})
      <3>1. /\ thread[t] \in CheckState(clock) /\ thread[t].client \in Client /\ clock \in Nat
            /\ request_count' = request_count
            /\ thread' = [thread EXCEPT ![t] = s]
        BY <2>4 DEF RateInv, RateTypeOK, ReadClock
      <3>2. s \in CheckState(clock) /\ s.client \in Client
        BY <3>1 DEF CheckState, Places, Check
      <3>3. request_count' \in 0 .. CLEANUP_INTERVAL
        BY <3>1 DEF RateInv, RateTypeOK
      <3> HIDE DEF s
      <3> QED
        BY <3>1, <3>2, <3>3
    <2> QED
      BY <2>1, <2>2, <2>3, <2>4
  <1>3. /\ thread' \in [Thread -> CheckState(clock)]
        /\ \A u \in Thread : thread'[u].at # "free" => thread'[u].client \in Client
    BY <1>2 DEF RateInv, RateTypeOK
  <1>4. RateTypeOK'
    BY <1>1, <1>2, <1>3 DEF RateInv, RateTypeOK
  <1>5. (RefillsRecorded /\ Account /\ ForgivenOnlySlow /\ RetryAfterSuffices)'
    BY <1>1 DEF RateInv, RefillsRecorded, Account, TokensLeft, ForgivenOnlySlow, RetryAfterSuffices,
                Refilled, Entry
  <1> QED
    BY <1>4, <1>5 DEF RateInv

\* Time goes on.
LEMMA ElapseStep ==
    ASSUME RateInv, Elapse
    PROVE  RateInv'
  <1>1. clock \in Nat /\ clock' = clock + 1
    BY DEF RateInv, RateTypeOK, Elapse
  <1>2. \A n \in 0 .. clock : n \in 0 .. clock'
    BY <1>1
  <1>3. UNCHANGED <<buckets, request_count, thread, spent, refilled, rewound, forgiven, promised>>
    BY DEF Elapse
  <1>4. buckets \in [Client -> Bucket(clock') \cup {NoBucket}]
    BY <1>2 DEF RateInv, RateTypeOK, Bucket
  <1>5. thread \in [Thread -> CheckState(clock')]
    BY <1>2 DEF RateInv, RateTypeOK, CheckState
  <1>6. refilled \in [Client -> 0 .. clock']
    BY <1>2 DEF RateInv, RateTypeOK
  <1>7. RateTypeOK'
    BY <1>1, <1>3, <1>4, <1>5, <1>6 DEF RateInv, RateTypeOK
  <1>8. (RefillsRecorded /\ Account /\ ForgivenOnlySlow /\ RetryAfterSuffices)'
    BY <1>3 DEF RateInv, RefillsRecorded, Account, TokensLeft, ForgivenOnlySlow, RetryAfterSuffices,
                Refilled, Entry
  <1> QED
    BY <1>7, <1>8 DEF RateInv

\* A bucket is dropped: what it lacked is given away, and the time up to the
\* cleanup's clock counts as refilled.
LEMMA RetainStep ==
    ASSUME RateInv, NEW t \in Thread, NEW c \in Client, Retain(t, c)
    PROVE  RateInv'
  <1> DEFINE now == thread[t].now
             b == buckets[c]
             drop == b # NoBucket /\ Stale(b, now)
  <1>1. /\ now \in 0 .. clock /\ clock \in Nat
        /\ thread' = [thread EXCEPT ![t].left = @ \ {c}]
        /\ buckets' = [buckets EXCEPT ![c] = IF drop THEN NoBucket ELSE @]
        /\ refilled' = [refilled EXCEPT ![c] = IF drop THEN now ELSE @]
        /\ forgiven' = [forgiven EXCEPT ![c] = IF drop THEN @ + Full - Refill(b, now) ELSE @]
        /\ UNCHANGED <<clock, request_count, spent, rewound, promised>>
    BY DEF RateInv, RateTypeOK, Retain, CheckState
  <1>2. /\ thread' \in [Thread -> CheckState(clock)]
        /\ \A u \in Thread : thread'[u].at # "free" => thread'[u].client \in Client
    BY <1>1 DEF RateInv, RateTypeOK, CheckState, Places
  <1>3. CASE ~drop
    <2>1. buckets' = buckets /\ refilled' = refilled /\ forgiven' = forgiven
      BY <1>1, <1>3 DEF RateInv, RateTypeOK
    <2>2. RateTypeOK'
      BY <1>1, <1>2, <2>1 DEF RateInv, RateTypeOK
    <2>3. (RefillsRecorded /\ Account /\ ForgivenOnlySlow /\ RetryAfterSuffices)'
      BY <1>1, <2>1 DEF RateInv, RefillsRecorded, Account, TokensLeft, ForgivenOnlySlow,
                        RetryAfterSuffices, Refilled, Entry
    <2> QED
      BY <2>2, <2>3 DEF RateInv
  <1>4. CASE drop
    <2>1. b \in Bucket(clock) /\ b.last_refill = refilled[c]
      BY <1>4 DEF RateInv, RateTypeOK, RefillsRecorded
    <2>2. /\ b.tokens \in Nat /\ b.last_refill \in Nat /\ Full \in Nat
          /\ STALE_AFTER \in Nat /\ STALE_AFTER > 0
      BY <2>1, FullHoldsOne, RateAssumption DEF Bucket
    <2>3. now >= b.last_refill /\ now - b.last_refill >= STALE_AFTER
      BY <1>1, <1>4, <2>2 DEF Stale, duration_since, NonNegative
    <2>4. /\ Refill(b, now) \in 0 .. Full
          /\ Refill(b, now) <= b.tokens + (now - b.last_refill)
          /\ Refill(b, now) < Full => STALE_AFTER < Full
      BY <1>1, <2>1, <2>2, <2>3, RefillBounds
    <2>5. /\ refilled' = [refilled EXCEPT ![c] = now]
          /\ forgiven' = [forgiven EXCEPT ![c] = @ + Full - Refill(b, now)]
          /\ buckets' = [buckets EXCEPT ![c] = NoBucket]
      BY <1>1, <1>4
    <2> HIDE DEF now, b
    <2>6. forgiven[c] \in Nat /\ forgiven[c] + Full - Refill(b, now) \in Nat
      BY <2>2, <2>4 DEF RateInv, RateTypeOK
    <2>7. RateTypeOK'
      BY <1>1, <1>2, <2>5, <2>6 DEF RateInv, RateTypeOK
    <2>8. RefillsRecorded'
      BY <1>1, <2>5 DEF RateInv, RateTypeOK, RefillsRecorded
    <2>9. Account'
      <3>1. /\ spent[c] \in Nat /\ refilled[c] \in Nat /\ rewound[c] \in Nat
            /\ spent[c] + b.tokens <= Full + refilled[c] + rewound[c] + forgiven[c]
        BY <1>4 DEF RateInv, RateTypeOK, Account, TokensLeft, b
      <3>2. spent[c] + Full <= Full + now + rewound[c] + (forgiven[c] + Full - Refill(b, now))
        BY <1>1, <2>1, <2>2, <2>4, <2>6, <3>1
      <3>3. /\ TokensLeft(c)' = Full /\ refilled'[c] = now /\ spent'[c] = spent[c]
            /\ forgiven'[c] = forgiven[c] + Full - Refill(b, now) /\ rewound'[c] = rewound[c]
        BY <1>1, <2>5 DEF TokensLeft, RateInv, RateTypeOK
      <3>4. ASSUME NEW d \in Client, d # c
            PROVE  /\ TokensLeft(d)' = TokensLeft(d) /\ refilled'[d] = refilled[d] /\ spent'[d] = spent[d]
                   /\ forgiven'[d] = forgiven[d] /\ rewound'[d] = rewound[d]
        BY <1>1, <2>5, <3>4 DEF TokensLeft, RateInv, RateTypeOK
      <3>5. ASSUME NEW d \in Client
            PROVE  (spent[d] + TokensLeft(d) <= Full + refilled[d] + rewound[d] + forgiven[d])'
        <4>1. CASE d = c
          BY <3>2, <3>3, <4>1 DEF Full
        <4>2. CASE d # c
          <5>1. spent[d] + TokensLeft(d) <= Full + refilled[d] + rewound[d] + forgiven[d]
            BY DEF RateInv, Account
          <5> QED
            BY <3>4, <4>2, <5>1 DEF Full
        <4> QED
          BY <4>1, <4>2
      <3> QED
        BY <3>5 DEF Account
    <2>10. ForgivenOnlySlow'
      BY <2>2, <2>4, <2>5, <2>6 DEF RateInv, RateTypeOK, ForgivenOnlySlow
    <2>11. RetryAfterSuffices'
      <3>1. ASSUME NEW p \in Nat
            PROVE  Refill([tokens |-> Full, last_refill |-> p], p) >= Cost
        BY FullHoldsOne DEF Refill, duration_since, NonNegative
      <3>2. ASSUME NEW d \in Client, promised[d] # 0
            PROVE  (Refilled(d, promised[d]) >= Cost)'
        <4>1. promised[d] \in Nat /\ promised'[d] = promised[d]
          BY <1>1 DEF RateInv, RateTypeOK
        <4>2. CASE d = c
          BY <2>5, <3>1, <4>1, <4>2 DEF Refilled, Entry, RateInv, RateTypeOK
        <4>3. CASE d # c
          BY <1>1, <2>5, <3>2, <4>1, <4>3 DEF RetryAfterSuffices, Refilled, Entry, RateInv, RateTypeOK
        <4> QED
          BY <4>2, <4>3
      <3> QED
        BY <1>1, <3>2 DEF RetryAfterSuffices
    <2> QED
      BY <2>7, <2>8, <2>9, <2>10, <2>11 DEF RateInv
  <1> QED
    BY <1>3, <1>4

-----------------------------------------------------------------------------
(* The entry of a client is taken: the request is let through or rejected *)

\* What the request finds, and what it credits.
LEMMA EntryFacts ==
    ASSUME RateInv, NEW t \in Thread, thread[t].at = "entry",
           NEW c \in Client, c = thread[t].client,
           NEW now, now = thread[t].now
    PROVE  /\ now \in 0 .. clock /\ clock \in Nat
           /\ Refilled(c, now) \in 0 .. Full
           /\ refilled[c] \in 0 .. clock /\ rewound[c] \in Nat
           /\ NonNegative(refilled[c] - now) \in Nat
           /\ spent[c] + Refilled(c, now)
                  <= Full + now + (rewound[c] + NonNegative(refilled[c] - now)) + forgiven[c]
  <1>1. now \in 0 .. clock /\ clock \in Nat
    BY DEF RateInv, RateTypeOK, CheckState
  <1>2. /\ refilled[c] \in 0 .. clock /\ rewound[c] \in Nat /\ spent[c] \in Nat
        /\ forgiven[c] \in Nat /\ Full \in Nat
    BY FullHoldsOne DEF RateInv, RateTypeOK
  <1>3. NonNegative(refilled[c] - now) \in Nat
    BY <1>1, <1>2 DEF NonNegative
  <1>4. spent[c] + TokensLeft(c) <= Full + refilled[c] + rewound[c] + forgiven[c]
    BY DEF RateInv, Account
  <1>5. CASE buckets[c] = NoBucket
    <2>1. Refilled(c, now) = Full /\ TokensLeft(c) = Full
      BY <1>1, <1>2, <1>5 DEF Refilled, Entry, Refill, duration_since, NonNegative, TokensLeft
    <2> QED
      BY <1>1, <1>2, <1>3, <1>4, <2>1 DEF NonNegative
  <1>6. CASE buckets[c] # NoBucket
    <2>1. /\ buckets[c] \in Bucket(clock) /\ buckets[c].last_refill = refilled[c]
          /\ TokensLeft(c) = buckets[c].tokens /\ Refilled(c, now) = Refill(buckets[c], now)
      BY <1>6 DEF RateInv, RateTypeOK, RefillsRecorded, TokensLeft, Refilled, Entry
    <2>2. buckets[c].tokens \in Nat
      BY <1>2, <2>1 DEF Bucket
    <2>3. /\ Refilled(c, now) \in 0 .. Full
          /\ now <= refilled[c] => Refilled(c, now) = TokensLeft(c)
          /\ now >= refilled[c] => Refilled(c, now) <= TokensLeft(c) + (now - refilled[c])
      BY <1>1, <1>2, <2>1, <2>2, RefillBounds
    <2> QED
      BY <1>1, <1>2, <1>3, <1>4, <2>1, <2>2, <2>3 DEF NonNegative
  <1> QED
    BY <1>5, <1>6

\* What both outcomes have in common: the bucket keeps what is left of the
\* refill, dated with the time of the request.
LEMMA EntryStep ==
    ASSUME RateInv, NEW t \in Thread, thread[t].at = "entry",
           NEW c \in Client, c = thread[t].client,
           NEW now, now = thread[t].now,
           NEW cost \in Nat, cost <= Refilled(c, now),
           buckets' = [buckets EXCEPT ![c] = [tokens |-> Refilled(c, now) - cost,
                                              last_refill |-> now]],
           spent' = [spent EXCEPT ![c] = @ + cost],
           Credit(c, now),
           thread' = [thread EXCEPT ![t] = Free],
           UNCHANGED <<clock, request_count, forgiven>>,
           promised' \in [Client -> Nat]
    PROVE  (RateTypeOK /\ RefillsRecorded /\ Account /\ ForgivenOnlySlow)'
  <1>1. /\ now \in 0 .. clock /\ clock \in Nat /\ Full \in Nat
        /\ Refilled(c, now) \in 0 .. Full
        /\ refilled[c] \in 0 .. clock /\ rewound[c] \in Nat
        /\ NonNegative(refilled[c] - now) \in Nat
        /\ spent[c] + Refilled(c, now)
               <= Full + now + (rewound[c] + NonNegative(refilled[c] - now)) + forgiven[c]
        /\ spent[c] \in Nat /\ forgiven[c] \in Nat
    BY EntryFacts, FullHoldsOne DEF RateInv, RateTypeOK
  <1> DEFINE left == Refilled(c, now) - cost
             again == rewound[c] + NonNegative(refilled[c] - now)
  <1>2. left \in 0 .. Full /\ again \in Nat /\ left + cost = Refilled(c, now)
    BY <1>1
  <1>3. /\ refilled' = [refilled EXCEPT ![c] = now]
        /\ rewound' = [rewound EXCEPT ![c] = again]
    BY DEF Credit, RateInv, RateTypeOK
  <1>4. /\ spent[c] + (left + cost) <= Full + now + again + forgiven[c]
        /\ buckets' = [buckets EXCEPT ![c] = [tokens |-> left, last_refill |-> now]]
    BY <1>1, <1>2
  <1> HIDE DEF left, again
  <1>5. [tokens |-> left, last_refill |-> now] \in Bucket(clock)
    BY <1>1, <1>2 DEF Bucket
  <1>6. /\ thread' \in [Thread -> CheckState(clock)]
        /\ \A u \in Thread : thread'[u].at # "free" => thread'[u].client \in Client
    <2>1. Free \in CheckState(clock) /\ Free.at = "free"
      BY <1>1 DEF Free, Check, CheckState, Places
    <2> QED
      BY <2>1 DEF RateInv, RateTypeOK
  <1>7. RateTypeOK'
    BY <1>1, <1>2, <1>3, <1>4, <1>5, <1>6 DEF RateInv, RateTypeOK
  <1>8. RefillsRecorded'
    BY <1>3, <1>4 DEF RateInv, RateTypeOK, RefillsRecorded
  <1>9. Account'
    <2>1. NoBucket # [tokens |-> left, last_refill |-> now]
      BY <1>1, <1>2, RateAssumption
    <2>2. /\ TokensLeft(c)' = left /\ spent'[c] = spent[c] + cost /\ refilled'[c] = now
          /\ rewound'[c] = again /\ forgiven'[c] = forgiven[c]
      BY <1>3, <1>4, <2>1 DEF TokensLeft, RateInv, RateTypeOK
    <2>3. ASSUME NEW d \in Client, d # c
          PROVE  /\ TokensLeft(d)' = TokensLeft(d) /\ spent'[d] = spent[d] /\ refilled'[d] = refilled[d]
                 /\ rewound'[d] = rewound[d] /\ forgiven'[d] = forgiven[d]
      BY <1>3, <1>4, <2>3 DEF TokensLeft, Full, RateInv, RateTypeOK
    <2>4. ASSUME NEW d \in Client
          PROVE  (spent[d] + TokensLeft(d) <= Full + refilled[d] + rewound[d] + forgiven[d])'
      <3>1. CASE d = c
        BY <1>1, <1>2, <1>4, <2>2, <3>1 DEF Full
      <3>2. CASE d # c
        BY <2>3, <3>2 DEF RateInv, Account, Full
      <3> QED
        BY <3>1, <3>2
    <2> QED
      BY <2>4 DEF Account
  <1>10. ForgivenOnlySlow'
    BY DEF RateInv, ForgivenOnlySlow, Full
  <1> QED
    BY <1>7, <1>8, <1>9, <1>10

\* The bucket that a request leaves is as full at any later time as the one
\* it found: nothing is put off.
LEMMA NotPutOff ==
    ASSUME NEW time \in Nat, NEW b \in Bucket(time), NEW now \in Nat, NEW p \in Nat,
           now < p, Refill(b, p) >= Cost, Refill(b, now) < Cost
    PROVE  Refill([tokens |-> Refill(b, now), last_refill |-> now], p) >= Cost
  <1> DEFINE r == Refill(b, now)
             new == [tokens |-> r, last_refill |-> now]
  <1>1. /\ Full \in Nat /\ Cost \in Nat /\ Full >= Cost
        /\ b.tokens \in 0 .. Full /\ b.last_refill \in Nat
    BY FullHoldsOne, RateAssumption DEF Bucket
  <1>2. r \in 0 .. Full /\ r < Cost
    BY RefillBounds
  <1>3. r + (p - now) >= Cost
    <2>1. CASE now >= b.last_refill
      <3>1. r = b.tokens + (now - b.last_refill)
        BY <1>1, <1>2, <2>1, RefillBounds
      <3>2. b.tokens + (p - b.last_refill) >= Cost
        BY <1>1, <2>1 DEF Refill, duration_since, NonNegative
      <3> QED
        BY <1>1, <3>1, <3>2
    <2>2. CASE now < b.last_refill
      <3>1. r = b.tokens
        BY <1>1, <2>2, RefillBounds
      <3>2. b.tokens + (p - b.last_refill) >= Cost
        BY <1>1, <1>2, <2>2, <3>1 DEF Refill, duration_since, NonNegative
      <3> QED
        BY <1>1, <2>2, <3>1, <3>2
    <2> QED
      BY <1>1, <2>1, <2>2
  <1> HIDE DEF r
  <1>4. Refill(new, p) >= Cost
    BY <1>1, <1>2, <1>3 DEF Refill, duration_since, NonNegative
  <1> QED
    BY <1>4 DEF r

\* A bucket that holds a request's tokens at one time holds them later, too.
LEMMA RefillGrows ==
    ASSUME NEW time \in Nat, NEW b \in Bucket(time), NEW p \in Nat, NEW q \in Nat, p <= q
    PROVE  Refill(b, p) <= Refill(b, q)
  BY FullHoldsOne DEF Refill, duration_since, NonNegative, Bucket

LEMMA AllowStep ==
    ASSUME RateInv, NEW t \in Thread, Allow(t)
    PROVE  RateInv'
  <1> DEFINE c == thread[t].client
             now == thread[t].now
  <1>1. c \in Client /\ thread[t].at = "entry" /\ Refilled(c, now) >= Cost
    BY DEF RateInv, RateTypeOK, Allow
  <1>2. Refilled(c, now) \in Nat /\ Cost \in Nat
    BY <1>1, EntryFacts, FullHoldsOne, RateAssumption
  <1>3. /\ buckets' = [buckets EXCEPT ![c] = [tokens |-> Refilled(c, now) - Cost,
                                              last_refill |-> now]]
        /\ Credit(c, now)
        /\ spent' = [spent EXCEPT ![c] = @ + Cost]
        /\ promised' = [promised EXCEPT ![c] = 0]
        /\ thread' = [thread EXCEPT ![t] = Free]
        /\ UNCHANGED <<clock, request_count, forgiven>>
    BY DEF Allow, LeaveAllowed
  <1> HIDE DEF c, now
  <1>4. promised' \in [Client -> Nat]
    BY <1>3 DEF RateInv, RateTypeOK
  <1>5. (RateTypeOK /\ RefillsRecorded /\ Account /\ ForgivenOnlySlow)'
    BY <1>1, <1>2, <1>3, <1>4, EntryStep DEF c, now
  <1>6. RetryAfterSuffices'
    <2>1. ASSUME NEW d \in Client, promised'[d] # 0
          PROVE  (Refilled(d, promised[d]) >= Cost)'
      <3>1. d # c /\ promised'[d] = promised[d] /\ buckets'[d] = buckets[d]
        BY <1>1, <1>3, <2>1 DEF RateInv, RateTypeOK
      <3>2. Refilled(d, promised[d]) >= Cost
        BY <2>1, <3>1 DEF RateInv, RetryAfterSuffices
      <3> QED
        BY <3>1, <3>2 DEF Refilled, Entry
    <2> QED
      BY <2>1 DEF RetryAfterSuffices
  <1> QED
    BY <1>5, <1>6 DEF RateInv

LEMMA RejectStep ==
    ASSUME RateInv, NEW t \in Thread, Reject(t)
    PROVE  RateInv'
  <1> DEFINE c == thread[t].client
             now == thread[t].now
             tokens == Refilled(c, now)
             retry == now + Second * RetryAfter(tokens)
  <1>1. c \in Client /\ thread[t].at = "entry" /\ tokens < Cost
    BY DEF RateInv, RateTypeOK, Reject
  <1>2. now \in Nat /\ tokens \in 0 .. Full /\ Cost \in Nat /\ clock \in Nat /\ tokens \in Nat
    BY <1>1, EntryFacts, FullHoldsOne, RateAssumption
  <1>3. /\ buckets' = [buckets EXCEPT ![c] = [tokens |-> tokens, last_refill |-> now]]
        /\ Credit(c, now)
        /\ promised' = [promised EXCEPT ![c] = IF @ = 0 \/ retry < @ THEN retry ELSE @]
        /\ thread' = [thread EXCEPT ![t] = Free]
        /\ UNCHANGED <<clock, request_count, spent, forgiven>>
    BY DEF Reject, LeaveLimited
  <1>4. retry \in Nat /\ tokens + (retry - now) >= Cost
    <2>1. /\ Second * RetryAfter(tokens) \in Nat
          /\ tokens + Second * RetryAfter(tokens) >= Cost
      BY <1>1, <1>2, RetryAfterIsEnough
    <2> HIDE DEF tokens
    <2> QED
      BY <1>2, <2>1
  <1> HIDE DEF retry
  <1>5. promised' \in [Client -> Nat]
    BY <1>3, <1>4 DEF RateInv, RateTypeOK
  <1>6. /\ buckets' = [buckets EXCEPT ![c] = [tokens |-> tokens - 0, last_refill |-> now]]
        /\ spent' = [spent EXCEPT ![c] = @ + 0]
    <2>1. tokens - 0 = tokens /\ \A n \in Nat : n + 0 = n
      BY <1>2
    <2>2. spent \in [Client -> Nat]
      BY DEF RateInv, RateTypeOK
    <2>3. spent' = [spent EXCEPT ![c] = @ + 0]
      BY <1>1, <1>3, <2>1, <2>2
    <2> HIDE DEF tokens
    <2> QED
      BY <1>3, <2>1, <2>3
  <1>7. (RateTypeOK /\ RefillsRecorded /\ Account /\ ForgivenOnlySlow)'
    <2>1. 0 \in Nat /\ 0 <= tokens
      BY <1>2
    <2> HIDE DEF c, now
    <2> QED
      BY <1>1, <1>3, <1>5, <1>6, <2>1, EntryStep DEF c, now
  <1>8. RetryAfterSuffices'
    <2> DEFINE new == [tokens |-> tokens, last_refill |-> now]
    <2>1. new \in Bucket(clock) /\ new # NoBucket
      BY <1>1, <1>2, EntryFacts, RateAssumption DEF Bucket
    <2>2. ASSUME NEW p \in Nat, p >= retry
          PROVE  Refill(new, p) >= Cost
      <3>1. tokens + (p - now) >= Cost /\ p - now > 0
        BY <1>1, <1>2, <1>4, <2>2
      <3> HIDE DEF tokens, now
      <3> QED
        BY <1>2, <3>1, FullHoldsOne DEF Refill, duration_since, NonNegative
    <2>3. ASSUME promised[c] # 0
          PROVE  Refill(new, promised[c]) >= Cost
      <3> DEFINE p == promised[c]
      <3>1. p \in Nat /\ Refilled(c, p) >= Cost
        BY <1>1, <2>3 DEF RateInv, RateTypeOK, RetryAfterSuffices
      <3>2. buckets[c] # NoBucket
        <4>1. buckets[c] = NoBucket => tokens = Full
          BY <1>2, FullHoldsOne DEF Refilled, Entry, Refill, duration_since, NonNegative
        <4> QED
          BY <1>1, <1>2, <4>1, FullHoldsOne
      <3>3. /\ buckets[c] \in Bucket(clock) /\ tokens = Refill(buckets[c], now)
            /\ Refill(buckets[c], p) >= Cost
        BY <1>1, <3>1, <3>2 DEF RateInv, RateTypeOK, Refilled, Entry
      <3>4. now < p
        <4>1. p <= now => Refill(buckets[c], p) <= tokens
          BY <1>2, <3>1, <3>3, RefillGrows
        <4>2. Refill(buckets[c], p) \in Nat
          BY <1>2, <3>1, <3>3, RefillBounds
        <4> QED
          BY <1>1, <1>2, <3>1, <3>3, <4>1, <4>2
      <3> QED
        BY <1>1, <1>2, <3>1, <3>3, <3>4, NotPutOff
    <2>4. ASSUME NEW d \in Client, promised'[d] # 0
          PROVE  (Refilled(d, promised[d]) >= Cost)'
      <3>1. CASE d = c
        <4>1. Refilled(d, promised[d])' = Refill(new, promised'[c])
          <5>1. buckets'[d] = new /\ new # NoBucket
            BY <1>1, <1>3, <2>1, <3>1 DEF RateInv, RateTypeOK
          <5> HIDE DEF new, c
          <5> QED
            BY <3>1, <5>1 DEF Refilled, Entry, Refill, Full
        <4>2. promised'[c] = IF promised[c] = 0 \/ retry < promised[c] THEN retry ELSE promised[c]
          BY <1>1, <1>3 DEF RateInv, RateTypeOK
        <4>3. Refill(new, promised'[c]) >= Cost
          <5>1. CASE promised'[c] = retry
            BY <1>4, <2>2, <5>1
          <5>2. CASE promised'[c] = promised[c] /\ promised[c] # 0
            BY <2>3, <5>2
          <5> QED
            BY <4>2, <5>1, <5>2
        <4> QED
          BY <4>1, <4>3
      <3>2. CASE d # c
        <4>1. promised'[d] = promised[d] /\ buckets'[d] = buckets[d]
          BY <1>1, <1>3, <3>2 DEF RateInv, RateTypeOK
        <4>2. Refilled(d, promised[d]) >= Cost
          BY <2>4, <4>1 DEF RateInv, RetryAfterSuffices
        <4> QED
          BY <4>1, <4>2 DEF Refilled, Entry
      <3> QED
        BY <3>1, <3>2
    <2> QED
      BY <2>4 DEF RetryAfterSuffices
  <1> QED
    BY <1>7, <1>8 DEF RateInv

\* Every step keeps the account.
LEMMA RateInvStep == RateInv /\ [RateNext]_rateVars => RateInv'
  <1> SUFFICES ASSUME RateInv, [RateNext]_rateVars PROVE RateInv'
    OBVIOUS
  <1>1. CASE UNCHANGED rateVars
    BY <1>1 DEF RateInv, rateVars, RateTypeOK, RefillsRecorded, Account, TokensLeft, ForgivenOnlySlow,
                RetryAfterSuffices, Refilled, Entry
  <1>2. CASE RateNext
    <2>1. ASSUME NEW t \in Thread, NEW c \in Client, Arrive(t, c) PROVE RateInv'
      BY <2>1, ThreadSteps
    <2>2. ASSUME NEW t \in Thread, NEW c \in Client, Retain(t, c) PROVE RateInv'
      BY <2>2, RetainStep
    <2>3. ASSUME NEW t \in Thread, StartCleanup(t) \/ EndCleanup(t) \/ ReadClock(t) PROVE RateInv'
      BY <2>3, ThreadSteps
    <2>4. ASSUME NEW t \in Thread, Allow(t) PROVE RateInv'
      BY <2>4, AllowStep
    <2>5. ASSUME NEW t \in Thread, Reject(t) PROVE RateInv'
      BY <2>5, RejectStep
    <2>6. ASSUME Elapse PROVE RateInv'
      BY <2>6, ElapseStep
    <2> QED
      BY <1>2, <2>1, <2>2, <2>3, <2>4, <2>5, <2>6 DEF RateNext
  <1> QED
    BY <1>1, <1>2

LEMMA RateInvariant == RateSpec => []RateInv
  BY RateInvInit, RateInvStep, PTL DEF RateSpec

\* Buckets hold no more than burst, and no time in them lies in the future.
THEOREM RateTypeCorrect == RateSpec => []RateTypeOK
  <1>1. RateInv => RateTypeOK
    BY DEF RateInv
  <1> QED
    BY <1>1, RateInvariant, PTL

\* What a client is let through is bounded by its burst and the time, and by
\* what races and removals give it, for any number of clients and threads.
THEOREM RateHolds == RateSpec => []RateRespected
  <1>1. ASSUME RateInv PROVE RateRespected
    <2>1. ASSUME NEW c \in Client
          PROVE  /\ spent[c] <= Full + clock + rewound[c] + forgiven[c]
                 /\ forgiven[c] > 0 => STALE_AFTER < Full
      <3>1. /\ clock \in Nat /\ refilled[c] \in 0 .. clock /\ rewound[c] \in Nat
            /\ spent[c] \in Nat /\ forgiven[c] \in Nat /\ Full \in Nat
        BY <1>1, FullHoldsOne DEF RateInv, RateTypeOK
      <3>2. TokensLeft(c) \in Nat
        BY <1>1, <3>1 DEF RateInv, RateTypeOK, TokensLeft, Bucket
      <3>3. spent[c] + TokensLeft(c) <= Full + refilled[c] + rewound[c] + forgiven[c]
        BY <1>1 DEF RateInv, Account
      <3>4. forgiven[c] > 0 => STALE_AFTER < Full
        BY <1>1 DEF RateInv, ForgivenOnlySlow
      <3> QED
        BY <3>1, <3>2, <3>3, <3>4
    <2> QED
      BY <2>1 DEF RateRespected
  <1> QED
    BY <1>1, RateInvariant, PTL

\* The retry-after header is kept, whatever else the client sends meanwhile.
THEOREM RetryAfterHolds == RateSpec => []RetryAfterSuffices
  <1>1. RateInv => RetryAfterSuffices
    BY DEF RateInv
  <1> QED
    BY <1>1, RateInvariant, PTL

-----------------------------------------------------------------------------
(* The inductive invariant *)

Way == {"none", "in", "out", "gone"}

Answer ==
    [from : Nat, compressible : BOOLEAN, encoded : BOOLEAN,
     vary : {"none", "Origin", "Accept-Encoding"}, trace_id : {"none", "header", "own"}]

Request ==
    [way : Way, at : Nat,
     kind : [options : BOOLEAN, traced : BOOLEAN, gzip : BOOLEAN,
             over_limit : BOOLEAN, allowed : BOOLEAN],
     context : {"own", "header"}, logged : {"none", "own"}, seen : {"none", "own", "header"},
     answer : Answer]

PipelineTypes ==
    /\ middlewares \in Seq(Layer \cup {"auth", "metrics"})
    /\ prepared \in BOOLEAN
    /\ incoming \in [Sender -> Request]
    /\ http_requests_in_flight \in Int
    /\ http_requests_total \in Int

\* metrics is the innermost layer, and comes with prepare().
StackInv ==
    /\ \A i \in 1 .. Depth : middlewares[i] = "metrics" => i = Depth
    /\ ~prepared => \A i \in 1 .. Depth : middlewares[i] # "metrics"

\* A layer of this kind between two places, both excluded.
Between(layer, lo, hi) == {i \in 1 .. Depth : middlewares[i] = layer /\ lo < i /\ i < hi}

\* The id that a request of this kind carries once it has passed the layers
\* before `hi`: a trace layer's, unless a tower layer followed.
Carried(kind, hi) ==
    IF kind.traced /\ \E i \in Between("trace", 0, hi) : Between("tower", i, hi) = {}
    THEN "header" ELSE "own"

\* On the way inward a request is not answered, and carries the id of the
\* layers it has passed.
Goes(r) ==
    r.way = "in" =>
        /\ r.at \in 1 .. Depth + 1
        /\ r.seen = "none"
        /\ r.context = Carried(r.kind, r.at)

\* A cors layer stands outside of a compress layer, between two places.
CorsOutside(lo, hi) == \E c \in Between("cors", lo, hi), e \in Between("compress", lo, hi) : c < e

\* What an answer says as it leaves its place: a preflight's names the Origin.
OwnVary(hi) == IF hi \in 1 .. Depth /\ middlewares[hi] = "cors" THEN "Origin" ELSE "none"

\* What the layers between two places, both excluded, say of a request of this
\* kind in an answer that passed them and came from the second one.
Marked(answer, kind, lo, hi) ==
    /\ answer.trace_id = IF Between("trace", lo, hi) = {} THEN "none" ELSE Told(kind)
    /\ answer.encoded <=> Between("compress", lo, hi) # {} /\ kind.gzip /\ answer.compressible
    /\ answer.vary = IF Between("cors", lo, hi) # {} /\ (answer.encoded => CorsOutside(lo, hi))
                     THEN "Origin"
                     ELSE IF answer.encoded THEN "Accept-Encoding" ELSE OwnVary(hi)

\* On the way outward the layers passed so far have set the headers.
Returns(r) ==
    r.way = "out" =>
        /\ r.at \in 0 .. Depth
        /\ r.answer.from \in r.at + 1 .. Depth + 1
        /\ r.answer.from = Depth + 1 => r.seen # "none"
        /\ r.seen \in {"none", Carried(r.kind, Depth + 1)}
        /\ Marked(r.answer, r.kind, r.at, r.answer.from)

RequestIs(r) ==
    /\ Goes(r)
    /\ Returns(r)
    /\ r.way = "none" => r.seen = "none"
    /\ r.way # "none" => prepared

RequestInv == \A q \in Sender : RequestIs(incoming[q])

Counted == Depth > 0 /\ middlewares[Depth] = "metrics"

\* The metrics layer, if there is one, holds its guard for this request.
Held(r) ==
    \/ r.way = "in" /\ r.at = Depth + 1
    \/ r.way = "out" /\ r.at = Depth /\ r.answer.from = Depth + 1

Inside == {q \in Sender : Held(incoming[q])}

\* The handler answered, and the metrics layer let the answer go.
Left(r) == r.seen # "none" /\ ~Held(r)

Outside == {q \in Sender : Left(incoming[q])}

\* The gauge and the counter, before prepare() as well.
CountInv ==
    IF Counted
    THEN /\ http_requests_in_flight = Cardinality(Inside)
         /\ http_requests_total = Cardinality(Outside)
    ELSE http_requests_in_flight = 0 /\ http_requests_total = 0

IInv == PipelineTypes /\ StackInv /\ RequestInv /\ CountInv

-----------------------------------------------------------------------------
(* Sets of places, and the number of a set's members *)

\* And a greatest one.
LEMMA GreatestPlace ==
    ASSUME NEW n \in Nat, NEW places, places \subseteq 1 .. n, places # {}
    PROVE  \E at \in places : \A other \in places : at >= other
<1> DEFINE mirrored == {i \in 1 .. n : n + 1 - i \in places}
<1>1. mirrored \subseteq 1 .. n
  OBVIOUS
<1>2. mirrored # {}
  <2>1. PICK at \in places : TRUE
    OBVIOUS
  <2>2. at \in 1 .. n
    OBVIOUS
  <2>3. n + 1 - at \in 1 .. n /\ n + 1 - (n + 1 - at) = at
    BY <2>2
  <2> QED
    BY <2>1, <2>3
<1> HIDE DEF mirrored
<1>3. PICK i \in mirrored : \A j \in mirrored : i <= j
  BY <1>1, <1>2, LeastPlace
<1>4. i \in 1 .. n /\ n + 1 - i \in places
  BY <1>3 DEF mirrored
<1>5. \A other \in places : n + 1 - i >= other
  <2> TAKE other \in places
  <2>1. other \in 1 .. n
    OBVIOUS
  <2>2. n + 1 - other \in 1 .. n /\ n + 1 - (n + 1 - other) = other
    BY <2>1
  <2>3. n + 1 - other \in mirrored
    BY <2>2 DEF mirrored
  <2>4. i <= n + 1 - other
    BY <1>3, <2>3
  <2> QED
    BY <1>4, <2>1, <2>4
<1> QED
  BY <1>4, <1>5

Unit(holds) == IF holds THEN 1 ELSE 0

\* Two sets that differ at one member only differ by it in their sizes.
LEMMA OneMember ==
    ASSUME NEW S, IsFiniteSet(S), NEW A, A \subseteq S, NEW B, B \subseteq S, NEW q \in S,
           \A p \in S : p # q => (p \in A <=> p \in B)
    PROVE  /\ Cardinality(A) \in Nat
           /\ Cardinality(B) = Cardinality(A) + Unit(q \in B) - Unit(q \in A)
<1>1. IsFiniteSet(A) /\ IsFiniteSet(B)
  BY FS_Subset
<1>2. Cardinality(A) \in Nat /\ Cardinality(B) \in Nat
  BY <1>1, FS_CardinalityType
<1>3. CASE q \in A <=> q \in B
  <2>1. A = B
    BY <1>3
  <2> QED
    BY <2>1, <1>2 DEF Unit
<1>4. CASE q \in A /\ q \notin B
  <2>1. B = A \ {q}
    BY <1>4
  <2>2. Cardinality(B) = Cardinality(A) - 1
    BY <1>1, <1>4, <2>1, FS_RemoveElement
  <2> QED
    BY <1>2, <1>4, <2>2 DEF Unit
<1>5. CASE q \notin A /\ q \in B
  <2>1. B = A \cup {q}
    BY <1>5
  <2>2. Cardinality(B) = Cardinality(A) + 1
    BY <1>1, <1>5, <2>1, FS_AddElement
  <2> QED
    BY <1>2, <1>5, <2>2 DEF Unit
<1> QED
  BY <1>3, <1>4, <1>5

-----------------------------------------------------------------------------
(* The layers between two places *)

\* One place further inward.
LEMMA BetweenInward ==
    ASSUME PipelineTypes, NEW at \in 1 .. Depth, NEW layer, NEW lo \in Nat
    PROVE  Between(layer, lo, at + 1) =
               Between(layer, lo, at) \cup (IF middlewares[at] = layer /\ lo < at THEN {at} ELSE {})
<1>1. Depth \in Nat /\ at \in Nat
  BY DEF PipelineTypes, Depth
<1> QED
  BY <1>1 DEF Between

\* One place further outward.
LEMMA BetweenOutward ==
    ASSUME PipelineTypes, NEW at \in 1 .. Depth, NEW layer, NEW hi \in Nat, at < hi
    PROVE  Between(layer, at - 1, hi) =
               Between(layer, at, hi) \cup (IF middlewares[at] = layer THEN {at} ELSE {})
<1>1. Depth \in Nat /\ at \in Nat
  BY DEF PipelineTypes, Depth
<1> QED
  BY <1>1 DEF Between

\* Between a place and the next there is no layer.
LEMMA BetweenNone ==
    ASSUME PipelineTypes, NEW at \in Nat, NEW layer
    PROVE  Between(layer, at, at + 1) = {}
<1>1. Depth \in Nat
  BY DEF PipelineTypes, Depth
<1> QED
  BY <1>1 DEF Between

\* The id a request carries, one layer further inward: ContextInside.
LEMMA CarriedStep ==
    ASSUME PipelineTypes, NEW at \in 1 .. Depth, NEW kind
    PROVE  Carried(kind, at + 1) =
               IF middlewares[at] = "trace" /\ kind.traced THEN "header"
               ELSE IF middlewares[at] = "tower" THEN "own" ELSE Carried(kind, at)
<1>1. Depth \in Nat /\ at \in Nat /\ 0 \in Nat
  BY DEF PipelineTypes, Depth
<1> DEFINE before(layer, lo) == Between(layer, lo, at)
           after(layer, lo) == Between(layer, lo, at + 1)
<1>2. \A i \in Nat :
          /\ after("trace", i) = before("trace", i) \cup
                 (IF middlewares[at] = "trace" /\ i < at THEN {at} ELSE {})
          /\ after("tower", i) = before("tower", i) \cup
                 (IF middlewares[at] = "tower" /\ i < at THEN {at} ELSE {})
  BY BetweenInward
<1>3. \A i \in before("trace", 0) : i \in Nat /\ i < at
  BY <1>1 DEF Between
<1>4. after("tower", at) = {}
  BY <1>1, BetweenNone
<1>5. Carried(kind, at + 1) =
          IF kind.traced /\ \E i \in after("trace", 0) : after("tower", i) = {}
          THEN "header" ELSE "own"
  BY DEF Carried
<1>6. Carried(kind, at) =
          IF kind.traced /\ \E i \in before("trace", 0) : before("tower", i) = {}
          THEN "header" ELSE "own"
  BY DEF Carried
<1> HIDE DEF before, after
<1>7. CASE middlewares[at] = "trace"
  <2>1. at \in after("trace", 0)
    BY <1>1, <1>2, <1>7
  <2>2. CASE kind.traced
    BY <1>4, <1>5, <1>7, <2>1, <2>2
  <2>3. CASE ~kind.traced
    BY <1>5, <1>6, <1>7, <2>3
  <2> QED
    BY <2>2, <2>3
<1>8. CASE middlewares[at] = "tower"
  <2>1. after("trace", 0) = before("trace", 0)
    BY <1>1, <1>2, <1>8
  <2>2. \A i \in after("trace", 0) : at \in after("tower", i)
    BY <1>1, <1>2, <1>3, <1>8, <2>1
  <2> QED
    BY <1>5, <1>8, <2>2
<1>9. CASE middlewares[at] \notin {"trace", "tower"}
  <2>1. after("trace", 0) = before("trace", 0)
    BY <1>1, <1>2, <1>9
  <2>2. \A i \in before("trace", 0) : after("tower", i) = before("tower", i)
    BY <1>1, <1>2, <1>3, <1>9
  <2> QED
    BY <1>5, <1>6, <1>9, <2>1, <2>2
<1> QED
  BY <1>7, <1>8, <1>9

\* In front of all layers a request carries its own id.
LEMMA CarriedFirst ==
    ASSUME PipelineTypes, NEW kind
    PROVE  Carried(kind, 1) = "own"
<1>1. Between("trace", 0, 1) = {}
  BY BetweenNone
<1> QED
  BY <1>1 DEF Carried

\* An answer that no layer has seen yet.
LEMMA MarkedFirst ==
    ASSUME PipelineTypes, NEW lo \in Nat, NEW at, at = lo + 1, NEW kind,
           NEW answer \in Answer, answer.trace_id = "none", ~answer.encoded,
           answer.vary = OwnVary(at)
    PROVE  Marked(answer, kind, lo, at)
<1>1. \A layer : Between(layer, lo, at) = {}
  BY BetweenNone
<1> QED
  BY <1>1 DEF Marked, CorsOutside

\* An answer that one layer more has seen.
LEMMA MarkedStep ==
    ASSUME PipelineTypes, NEW at \in 1 .. Depth, NEW hi \in Nat, at < hi,
           NEW answer \in Answer, NEW kind, kind.gzip \in BOOLEAN, Marked(answer, kind, at, hi)
    PROVE  Marked(Outward(middlewares[at], kind, answer), kind, at - 1, hi)
<1> DEFINE before(layer) == Between(layer, at, hi)
           after(layer) == Between(layer, at - 1, hi)
           told == Outward(middlewares[at], kind, answer)
<1>1. Depth \in Nat /\ at \in Nat
  BY DEF PipelineTypes, Depth
<1>2. \A layer : after(layer) =
          before(layer) \cup (IF middlewares[at] = layer THEN {at} ELSE {})
  BY BetweenOutward
<1>3. \A layer : \A i \in before(layer) : i \in Nat /\ at < i
  BY <1>1 DEF Between
<1>4. /\ answer.trace_id = IF before("trace") = {} THEN "none" ELSE Told(kind)
      /\ answer.encoded <=> before("compress") # {} /\ kind.gzip /\ answer.compressible
      /\ answer.vary =
             IF before("cors") # {} /\ (answer.encoded => CorsOutside(at, hi)) THEN "Origin"
             ELSE IF answer.encoded THEN "Accept-Encoding" ELSE OwnVary(hi)
  BY DEF Marked
<1>5. CorsOutside(at, hi) <=> \E c \in before("cors"), e \in before("compress") : c < e
  BY DEF CorsOutside
<1>6. CorsOutside(at - 1, hi) <=> \E c \in after("cors"), e \in after("compress") : c < e
  BY DEF CorsOutside
<1>7. SUFFICES
      /\ told.trace_id = IF after("trace") = {} THEN "none" ELSE Told(kind)
      /\ told.encoded <=> after("compress") # {} /\ kind.gzip /\ told.compressible
      /\ told.vary =
             IF after("cors") # {} /\ (told.encoded => CorsOutside(at - 1, hi)) THEN "Origin"
             ELSE IF told.encoded THEN "Accept-Encoding" ELSE OwnVary(hi)
  BY DEF Marked
<1>8. answer.encoded \in BOOLEAN /\ answer.compressible \in BOOLEAN
  BY DEF Answer
<1> HIDE DEF before, after
<1>9. CASE middlewares[at] = "trace"
  <2>1. /\ told.trace_id = Told(kind) /\ told.encoded = answer.encoded
        /\ told.compressible = answer.compressible /\ told.vary = answer.vary
    BY <1>9 DEF Outward, WithTraceId, Answer
  <2>2. /\ after("trace") # {}
        /\ after("compress") = before("compress") /\ after("cors") = before("cors")
    BY <1>2, <1>9
  <2> HIDE DEF told
  <2> QED
    BY <1>4, <1>5, <1>6, <2>1, <2>2
<1>10. CASE middlewares[at] = "cors"
  <2>1. /\ told.trace_id = answer.trace_id /\ told.encoded = answer.encoded
        /\ told.compressible = answer.compressible /\ told.vary = "Origin"
    BY <1>10 DEF Outward, WithCors, Answer
  <2>2. /\ after("trace") = before("trace") /\ after("compress") = before("compress")
        /\ at \in after("cors")
    BY <1>2, <1>10
  <2>3. answer.encoded => CorsOutside(at - 1, hi)
    BY <1>3, <1>4, <1>6, <2>2
  <2> HIDE DEF told
  <2> QED
    BY <1>4, <2>1, <2>2, <2>3
<1>11. CASE middlewares[at] = "compress"
  <2>1. /\ after("trace") = before("trace") /\ after("cors") = before("cors")
        /\ after("compress") = before("compress") \cup {at}
    BY <1>2, <1>11
  <2>2. CorsOutside(at - 1, hi) <=> CorsOutside(at, hi)
    BY <1>1, <1>3, <1>5, <1>6, <2>1
  <2>3. told = Compressed(kind, answer)
    BY <1>11 DEF Outward
  <2>4. CASE kind.gzip /\ answer.compressible /\ ~answer.encoded
    <3>1. /\ told.trace_id = answer.trace_id /\ told.encoded = TRUE
          /\ told.compressible = answer.compressible /\ told.vary = "Accept-Encoding"
      BY <2>3, <2>4 DEF Compressed, Answer
    <3>2. before("compress") = {}
      BY <1>4, <2>4
    <3>3. ~CorsOutside(at - 1, hi)
      BY <1>5, <2>2, <3>2
    <3> HIDE DEF told
    <3> QED
      BY <1>4, <2>1, <2>4, <3>1, <3>3
  <2>5. CASE ~(kind.gzip /\ answer.compressible /\ ~answer.encoded)
    <3>1. told = answer
      BY <2>3, <2>5 DEF Compressed
    <3> HIDE DEF told
    <3> QED
      BY <1>4, <1>8, <2>1, <2>2, <2>5, <3>1
  <2> QED
    BY <2>4, <2>5
<1>12. CASE middlewares[at] \notin {"trace", "cors", "compress"}
  <2>1. told = answer
    BY <1>12 DEF Outward
  <2>2. /\ after("trace") = before("trace") /\ after("cors") = before("cors")
        /\ after("compress") = before("compress")
    BY <1>2, <1>12
  <2> HIDE DEF told
  <2> QED
    BY <1>4, <1>5, <1>6, <2>1, <2>2
<1> QED
  BY <1>9, <1>10, <1>11, <1>12

-----------------------------------------------------------------------------
(* The first state, and the steps that change one request *)

LEMMA Initially ==
    ASSUME PipelineAssumption, PipelineInit
    PROVE  IInv
<1>1. Depth = 0
  BY DEF PipelineInit, Depth
<1>2. PipelineTypes
  <2>1. NoAnswer \in Answer
    BY DEF NoAnswer, AnswerOf, Answer
  <2>2. NoKind \in [options : BOOLEAN, traced : BOOLEAN, gzip : BOOLEAN,
                    over_limit : BOOLEAN, allowed : BOOLEAN]
    BY DEF NoKind
  <2>3. \A q \in Sender : incoming[q] \in Request
    BY <2>1, <2>2 DEF PipelineInit, Request, Way
  <2>4. incoming \in [Sender -> Request]
    BY <2>3 DEF PipelineInit
  <2>5. <<>> \in Seq(Layer \cup {"auth", "metrics"})
    OBVIOUS
  <2>6. /\ middlewares \in Seq(Layer \cup {"auth", "metrics"})
        /\ http_requests_in_flight \in Int /\ http_requests_total \in Int
    BY <2>5 DEF PipelineInit
  <2>7. prepared \in BOOLEAN
    BY DEF PipelineInit
  <2> QED
    BY <2>4, <2>6, <2>7 DEF PipelineTypes
<1>3. StackInv
  BY <1>1 DEF StackInv
<1>4. RequestInv
  <2>1. \A q \in Sender : incoming[q].way = "none" /\ incoming[q].seen = "none"
    BY DEF PipelineInit
  <2> QED
    BY <2>1 DEF RequestInv, RequestIs, Goes, Returns
<1>5. CountInv
  BY <1>1 DEF CountInv, Counted, PipelineInit
<1> QED
  BY <1>2, <1>3, <1>4, <1>5 DEF IInv

\* What the invariant says of a request does not change with the others.
LEMMA RequestIsKept ==
    ASSUME NEW r, UNCHANGED <<middlewares, prepared>>
    PROVE  /\ RequestIs(r)' <=> RequestIs(r)
           /\ Held(r)' <=> Held(r)
           /\ Left(r)' <=> Left(r)
<1>1. Depth' = Depth
  BY DEF Depth
<1>2. \A layer, lo, hi : Between(layer, lo, hi)' = Between(layer, lo, hi)
  BY <1>1 DEF Between
<1>3. \A kind, hi : Carried(kind, hi)' = Carried(kind, hi)
  BY <1>2 DEF Carried
<1>4. \A lo, hi : CorsOutside(lo, hi)' = CorsOutside(lo, hi)
  BY <1>2 DEF CorsOutside
<1>5. \A answer, kind, lo, hi : Marked(answer, kind, lo, hi)' <=> Marked(answer, kind, lo, hi)
  BY <1>1, <1>2, <1>4 DEF Marked, Told, OwnVary
<1>6. Goes(r)' <=> Goes(r)
  BY <1>1, <1>3 DEF Goes
<1>7. Returns(r)' <=> Returns(r)
  BY <1>1, <1>3, <1>5 DEF Returns
<1>8. RequestIs(r)' <=> RequestIs(r)
  BY <1>6, <1>7 DEF RequestIs
<1>9. Held(r)' <=> Held(r)
  BY <1>1 DEF Held
<1> QED
  BY <1>8, <1>9 DEF Left

\* One request becomes r, and the gauge and the counter move with it.
LEMMA RequestStep ==
    ASSUME PipelineAssumption, IInv, NEW q \in Sender, NEW r \in Request, RequestIs(r),
           incoming' = [incoming EXCEPT ![q] = r],
           UNCHANGED <<middlewares, prepared>>,
           IF Counted
           THEN /\ http_requests_in_flight' =
                       http_requests_in_flight + Unit(Held(r)) - Unit(Held(incoming[q]))
                /\ http_requests_total' =
                       http_requests_total + Unit(Left(r)) - Unit(Left(incoming[q]))
           ELSE UNCHANGED <<http_requests_in_flight, http_requests_total>>
    PROVE  IInv'
<1>1. PipelineTypes /\ StackInv /\ RequestInv /\ CountInv
  BY DEF IInv
<1>2. Depth' = Depth /\ (Counted' <=> Counted)
  BY DEF Depth, Counted
<1>3. \A x : /\ RequestIs(x)' <=> RequestIs(x)
             /\ Held(x)' <=> Held(x)
             /\ Left(x)' <=> Left(x)
  BY RequestIsKept
<1>4. /\ incoming'[q] = r
      /\ \A p \in Sender : p # q => incoming'[p] = incoming[p]
  BY <1>1 DEF PipelineTypes
<1>5. PipelineTypes'
  <2>1. incoming' \in [Sender -> Request]
    BY <1>1 DEF PipelineTypes
  <2>2. http_requests_in_flight' \in Int /\ http_requests_total' \in Int
    BY <1>1 DEF PipelineTypes, Unit
  <2> QED
    BY <1>1, <2>1, <2>2 DEF PipelineTypes
<1>6. StackInv'
  BY <1>1, <1>2 DEF StackInv
<1>7. RequestInv'
  <2> SUFFICES ASSUME NEW p \in Sender
               PROVE  RequestIs(incoming[p])'
    BY DEF RequestInv
  <2>1. PICK x : x = incoming'[p]
    OBVIOUS
  <2>2. RequestIs(x)
    <3>1. CASE p = q
      BY <1>4, <2>1, <3>1
    <3>2. CASE p # q
      BY <1>1, <1>4, <2>1, <3>2 DEF RequestInv
    <3> QED
      BY <3>1, <3>2
  <2>3. RequestIs(x)'
    BY <1>3, <2>2
  <2> QED
    BY <2>1, <2>3
<1>8. CountInv'
  <2>1. CASE Counted
    <3>1. \A p \in Sender : p # q => (p \in Inside <=> p \in Inside')
      BY <1>3, <1>4 DEF Inside
    <3>2. \A p \in Sender : p # q => (p \in Outside <=> p \in Outside')
      BY <1>3, <1>4 DEF Outside
    <3>3. /\ q \in Inside <=> Held(incoming[q])
          /\ q \in Inside' <=> Held(r)
      BY <1>3, <1>4 DEF Inside
    <3>4. /\ q \in Outside <=> Left(incoming[q])
          /\ q \in Outside' <=> Left(r)
      BY <1>3, <1>4 DEF Outside
    <3>5. IsFiniteSet(Sender)
      BY DEF PipelineAssumption
    <3>6. Inside \subseteq Sender /\ Inside' \subseteq Sender
      BY DEF Inside
    <3>7. Outside \subseteq Sender /\ Outside' \subseteq Sender
      BY DEF Outside
    <3>8. Cardinality(Inside)' =
              Cardinality(Inside) + Unit(q \in Inside') - Unit(q \in Inside)
      BY <3>1, <3>5, <3>6, OneMember
    <3>9. Cardinality(Outside)' =
              Cardinality(Outside) + Unit(q \in Outside') - Unit(q \in Outside)
      BY <3>2, <3>5, <3>7, OneMember
    <3>10. http_requests_in_flight = Cardinality(Inside) /\ http_requests_total = Cardinality(Outside)
      BY <1>1, <2>1 DEF CountInv
    <3>11. http_requests_in_flight' = Cardinality(Inside)'
      BY <2>1, <3>3, <3>8, <3>10 DEF Unit
    <3>12. http_requests_total' = Cardinality(Outside)'
      BY <2>1, <3>4, <3>9, <3>10 DEF Unit
    <3> QED
      BY <1>2, <2>1, <3>11, <3>12 DEF CountInv
  <2>2. CASE ~Counted
    BY <1>1, <1>2, <2>2 DEF CountInv
  <2> QED
    BY <2>1, <2>2
<1> QED
  BY <1>5, <1>6, <1>7, <1>8 DEF IInv

\* What the invariant says of a request, by name.
LEMMA RequestFacts ==
    ASSUME IInv, NEW q \in Sender
    PROVE  /\ PipelineTypes /\ Depth \in Nat
           /\ incoming[q] \in Request
           /\ RequestIs(incoming[q])
<1> QED
  BY DEF IInv, PipelineTypes, RequestInv, Depth

\* The metrics layer is the last one.
LEMMA MetricsLast ==
    ASSUME IInv, NEW at \in 1 .. Depth
    PROVE  middlewares[at] = "metrics" <=> Counted /\ at = Depth
<1> QED
  BY DEF IInv, PipelineTypes, StackInv, Counted, Depth

-----------------------------------------------------------------------------
(* Every step keeps the invariant *)

LEMMA ReceiveStep ==
    ASSUME PipelineAssumption, IInv, NEW q \in Sender, NEW kind \in Kind, Receive(q, kind)
    PROVE  IInv'
<1>1. PICK r : r = [way |-> "in", at |-> 1, kind |-> kind, context |-> "own",
                    logged |-> "none", seen |-> "none", answer |-> NoAnswer]
  OBVIOUS
<1>2. /\ PipelineTypes /\ Depth \in Nat
      /\ incoming[q] \in Request /\ RequestIs(incoming[q])
  BY RequestFacts
<1>3. r \in Request
  <2>1. NoAnswer \in Answer
    BY DEF NoAnswer, AnswerOf, Answer
  <2>2. kind \in [options : BOOLEAN, traced : BOOLEAN, gzip : BOOLEAN,
                  over_limit : BOOLEAN, allowed : BOOLEAN]
    BY DEF PipelineAssumption
  <2> QED
    BY <1>1, <2>1, <2>2 DEF Request, Way
<1>4. RequestIs(r)
  <2>1. Carried(kind, 1) = "own"
    BY <1>2, CarriedFirst
  <2> QED
    BY <1>1, <1>2, <2>1 DEF RequestIs, Goes, Returns, Receive
<1>5. incoming[q].way = "none" /\ incoming[q].seen = "none"
  BY <1>2 DEF Receive, RequestIs
<1>6. Counted => ~Held(r) /\ ~Held(incoming[q])
  BY <1>1, <1>2, <1>5 DEF Counted, Held
<1>7. ~Left(r) /\ ~Left(incoming[q])
  BY <1>1, <1>5 DEF Left
<1>8. http_requests_in_flight \in Int /\ http_requests_total \in Int
  BY <1>2 DEF PipelineTypes
<1>9. IF Counted
      THEN /\ http_requests_in_flight' =
                  http_requests_in_flight + Unit(Held(r)) - Unit(Held(incoming[q]))
           /\ http_requests_total' =
                  http_requests_total + Unit(Left(r)) - Unit(Left(incoming[q]))
      ELSE UNCHANGED <<http_requests_in_flight, http_requests_total>>
  BY <1>6, <1>7, <1>8 DEF Receive, Unit
<1>10. incoming' = [incoming EXCEPT ![q] = r] /\ UNCHANGED <<middlewares, prepared>>
  BY <1>1 DEF Receive
<1> QED
  BY <1>3, <1>4, <1>9, <1>10, RequestStep

LEMMA EnterStep ==
    ASSUME PipelineAssumption, IInv, NEW q \in Sender, NEW at \in 1 .. Depth, Enter(q, at)
    PROVE  IInv'
<1> DEFINE layer == middlewares[at]
<1>1. PICK r : r = [incoming[q] EXCEPT !.at = at + 1,
                                       !.context = ContextInside(layer, q),
                                       !.logged = Logged(layer, incoming[q].logged)]
  OBVIOUS
<1>2. /\ PipelineTypes /\ Depth \in Nat
      /\ incoming[q] \in Request /\ RequestIs(incoming[q])
  BY RequestFacts
<1>3. /\ incoming[q].way = "in" /\ incoming[q].at = at /\ incoming[q].seen = "none"
      /\ incoming[q].context = Carried(incoming[q].kind, at)
      /\ prepared
  BY <1>2 DEF Enter, In, At, RequestIs, Goes
<1>4. /\ r.way = "in" /\ r.at = at + 1 /\ r.seen = "none" /\ r.kind = incoming[q].kind
      /\ r.context = ContextInside(layer, q)
  BY <1>1, <1>2, <1>3 DEF Request
<1>5. r \in Request
  <2>1. ContextInside(layer, q) \in {"own", "header"}
    BY <1>2 DEF ContextInside, TowerContext, Request
  <2>2. Logged(layer, incoming[q].logged) \in {"none", "own"}
    BY <1>2 DEF Logged, Request
  <2>3. at + 1 \in Nat
    BY <1>2
  <2> QED
    BY <1>1, <1>2, <2>1, <2>2, <2>3 DEF Request
<1>6. RequestIs(r)
  <2>1. r.context = Carried(r.kind, at + 1)
    BY <1>2, <1>3, <1>4, CarriedStep DEF ContextInside, TowerContext
  <2> QED
    BY <1>2, <1>3, <1>4, <2>1 DEF RequestIs, Goes, Returns
<1>7. layer = "metrics" <=> Counted /\ at = Depth
  BY MetricsLast
<1>8. Held(r) <=> at = Depth
  BY <1>2, <1>4 DEF Held
<1>9. ~Held(incoming[q])
  BY <1>2, <1>3 DEF Held
<1>10. ~Left(r) /\ ~Left(incoming[q])
  BY <1>3, <1>4 DEF Left
<1>11. http_requests_in_flight \in Int /\ http_requests_total \in Int
  BY <1>2 DEF PipelineTypes
<1>12. /\ http_requests_in_flight' = http_requests_in_flight + Guarded(layer)
       /\ http_requests_total' = http_requests_total
  BY DEF Enter
<1>13. IF Counted
       THEN /\ http_requests_in_flight' =
                   http_requests_in_flight + Unit(Held(r)) - Unit(Held(incoming[q]))
            /\ http_requests_total' =
                   http_requests_total + Unit(Left(r)) - Unit(Left(incoming[q]))
       ELSE UNCHANGED <<http_requests_in_flight, http_requests_total>>
  BY <1>7, <1>8, <1>9, <1>10, <1>11, <1>12 DEF Unit, Guarded
<1>14. incoming' = [incoming EXCEPT ![q] = r] /\ UNCHANGED <<middlewares, prepared>>
  BY <1>1 DEF Enter
<1> QED
  BY <1>5, <1>6, <1>13, <1>14, RequestStep

\* The answer of a layer says what OwnVary has for its place.
LEMMA AnswerByIs ==
    ASSUME NEW at \in 1 .. Depth, Depth \in Nat, NEW layer, layer = middlewares[at]
    PROVE  /\ AnswerBy(layer, at) \in Answer
           /\ AnswerBy(layer, at).from = at /\ AnswerBy(layer, at).trace_id = "none"
           /\ ~AnswerBy(layer, at).encoded /\ AnswerBy(layer, at).vary = OwnVary(at)
<1>1. at \in Nat
  OBVIOUS
<1>2. CASE layer = "cors"
  <2>1. AnswerBy(layer, at) =
            [from |-> at, compressible |-> FALSE, encoded |-> FALSE, vary |-> "Origin",
             trace_id |-> "none"]
    BY <1>2 DEF AnswerBy, WithCors, AnswerOf
  <2>2. OwnVary(at) = "Origin"
    BY <1>2 DEF OwnVary
  <2> QED
    BY <1>1, <2>1, <2>2 DEF Answer
<1>3. CASE layer # "cors"
  <2>1. AnswerBy(layer, at) =
            [from |-> at, compressible |-> FALSE, encoded |-> FALSE, vary |-> "none",
             trace_id |-> "none"]
    BY <1>3 DEF AnswerBy, AnswerOf
  <2>2. OwnVary(at) = "none"
    BY <1>3 DEF OwnVary
  <2> QED
    BY <1>1, <2>1, <2>2 DEF Answer
<1> QED
  BY <1>2, <1>3

\* A layer answers by itself.
LEMMA AnsweredBy ==
    ASSUME IInv, prepared, NEW at \in 1 .. Depth, NEW r \in Request,
           r.way = "out", r.at = at - 1, r.answer = AnswerBy(middlewares[at], at),
           r.seen \in {"none", Carried(r.kind, Depth + 1)}
    PROVE  /\ RequestIs(r)
           /\ ~Held(r)
           /\ Left(r) <=> r.seen # "none"
<1>1. PipelineTypes /\ Depth \in Nat
  BY DEF IInv, PipelineTypes, Depth
<1>2. PICK lo \in Nat : lo = at - 1 /\ at = lo + 1 /\ lo < Depth
  BY <1>1
<1>3. /\ r.answer \in Answer /\ r.answer.from = at
      /\ r.answer.trace_id = "none" /\ ~r.answer.encoded /\ r.answer.vary = OwnVary(at)
  BY <1>1, AnswerByIs
<1>4. Marked(r.answer, r.kind, lo, at)
  BY <1>1, <1>2, <1>3, MarkedFirst
<1>5. Marked(r.answer, r.kind, r.at, r.answer.from)
  BY <1>2, <1>3, <1>4
<1>6. r.answer.from \in r.at + 1 .. Depth + 1 /\ r.at \in 0 .. Depth /\ r.answer.from # Depth + 1
  <2>1. at \in lo + 1 .. Depth + 1 /\ lo \in 0 .. Depth /\ at # Depth + 1
    BY <1>1, <1>2
  <2>2. r.at = lo
    BY <1>2
  <2> QED
    BY <1>3, <2>1, <2>2
<1>7. RequestIs(r)
  BY <1>5, <1>6 DEF RequestIs, Goes, Returns
<1>8. ~Held(r)
  BY <1>6 DEF Held
<1> QED
  BY <1>7, <1>8 DEF Left

LEMMA RefuseStep ==
    ASSUME PipelineAssumption, IInv, NEW q \in Sender, NEW at \in 1 .. Depth, Refuse(q, at)
    PROVE  IInv'
<1>1. PICK r : r = [incoming[q] EXCEPT !.way = "out", !.at = at - 1,
                                       !.answer = AnswerBy(middlewares[at], at)]
  OBVIOUS
<1>2. /\ PipelineTypes /\ Depth \in Nat
      /\ incoming[q] \in Request /\ RequestIs(incoming[q])
  BY RequestFacts
<1>3. /\ incoming[q].way = "in" /\ incoming[q].at = at /\ incoming[q].seen = "none"
      /\ prepared
  BY <1>2 DEF Refuse, In, At, RequestIs, Goes
<1>4. r \in Request /\ RequestIs(r) /\ ~Held(r) /\ ~Left(r)
  <2>1. at - 1 \in Nat /\ at \in Nat
    BY <1>2
  <2>2. AnswerBy(middlewares[at], at) \in Answer
    BY <1>2, AnswerByIs
  <2>3. r \in Request
    BY <1>1, <1>2, <2>1, <2>2 DEF Request, Way
  <2>4. /\ r.way = "out" /\ r.at = at - 1 /\ r.answer = AnswerBy(middlewares[at], at)
        /\ r.seen = "none"
    BY <1>1, <1>2, <1>3 DEF Request
  <2> QED
    BY <1>3, <2>3, <2>4, AnsweredBy
<1>5. ~Held(incoming[q]) /\ ~Left(incoming[q])
  BY <1>2, <1>3 DEF Held, Left
<1>6. http_requests_in_flight \in Int /\ http_requests_total \in Int
  BY <1>2 DEF PipelineTypes
<1>7. IF Counted
      THEN /\ http_requests_in_flight' =
                  http_requests_in_flight + Unit(Held(r)) - Unit(Held(incoming[q]))
           /\ http_requests_total' =
                  http_requests_total + Unit(Left(r)) - Unit(Left(incoming[q]))
      ELSE UNCHANGED <<http_requests_in_flight, http_requests_total>>
  BY <1>4, <1>5, <1>6 DEF Refuse, Unit
<1>8. AnswerBy(middlewares[at], at).from = at
  BY <1>2, AnswerByIs
<1>9. incoming' = [incoming EXCEPT ![q] = r] /\ UNCHANGED <<middlewares, prepared>>
  BY <1>1, <1>8 DEF Refuse, Answered
<1> QED
  BY <1>4, <1>7, <1>9, RequestStep

LEMMA HandleStep ==
    ASSUME PipelineAssumption, IInv, NEW q \in Sender, NEW compressible \in BOOLEAN,
           Handle(q, compressible)
    PROVE  IInv'
<1>1. PICK answer : answer = AnswerOf(Depth + 1, compressible)
  OBVIOUS
<1>2. PICK r : r = [incoming[q] EXCEPT !.way = "out", !.at = Depth,
                                       !.seen = incoming[q].context, !.answer = answer]
  OBVIOUS
<1>3. /\ PipelineTypes /\ Depth \in Nat
      /\ incoming[q] \in Request /\ RequestIs(incoming[q])
  BY RequestFacts
<1>4. /\ incoming[q].way = "in" /\ incoming[q].at = Depth + 1 /\ incoming[q].seen = "none"
      /\ incoming[q].context = Carried(incoming[q].kind, Depth + 1)
      /\ prepared
  BY <1>3 DEF Handle, In, At, RequestIs, Goes
<1>5. answer \in Answer /\ answer.from = Depth + 1
  BY <1>1, <1>3 DEF AnswerOf, Answer
<1>6. /\ r.way = "out" /\ r.at = Depth /\ r.answer = answer /\ r.kind = incoming[q].kind
      /\ r.seen = incoming[q].context
  BY <1>2, <1>3 DEF Request
<1>7. r \in Request
  BY <1>2, <1>3, <1>5 DEF Request, Way
<1>8. incoming[q].context # "none"
  BY <1>3 DEF Request
<1>9. RequestIs(r)
  <2>1. Marked(answer, r.kind, Depth, Depth + 1)
    <3>1. OwnVary(Depth + 1) = "none"
      BY <1>3 DEF OwnVary
    <3>2. answer.trace_id = "none" /\ ~answer.encoded /\ answer.vary = "none"
      BY <1>1 DEF AnswerOf
    <3> QED
      BY <1>3, <1>5, <3>1, <3>2, MarkedFirst
  <2>2. Returns(r)
    BY <1>3, <1>4, <1>5, <1>6, <1>8, <2>1 DEF Returns
  <2> QED
    BY <1>4, <1>6, <2>2 DEF RequestIs, Goes
<1>10. Held(r) /\ Held(incoming[q])
  BY <1>4, <1>5, <1>6 DEF Held
<1>11. ~Left(r) /\ ~Left(incoming[q])
  BY <1>10 DEF Left
<1>12. http_requests_in_flight \in Int /\ http_requests_total \in Int
  BY <1>3 DEF PipelineTypes
<1>13. IF Counted
       THEN /\ http_requests_in_flight' =
                   http_requests_in_flight + Unit(Held(r)) - Unit(Held(incoming[q]))
            /\ http_requests_total' =
                   http_requests_total + Unit(Left(r)) - Unit(Left(incoming[q]))
       ELSE UNCHANGED <<http_requests_in_flight, http_requests_total>>
  BY <1>10, <1>11, <1>12 DEF Handle, Unit
<1>14. incoming' = [incoming EXCEPT ![q] = r] /\ UNCHANGED <<middlewares, prepared>>
  BY <1>1, <1>2 DEF Handle
<1> QED
  BY <1>7, <1>9, <1>13, <1>14, RequestStep

LEMMA LeaveStep ==
    ASSUME PipelineAssumption, IInv, NEW q \in Sender, NEW at \in 1 .. Depth, Leave(q, at)
    PROVE  IInv'
<1> DEFINE layer == middlewares[at]
<1>1. PICK answer : answer = Outward(layer, incoming[q].kind, incoming[q].answer)
  OBVIOUS
<1>2. PICK r : r = [incoming[q] EXCEPT !.at = at - 1, !.answer = answer]
  OBVIOUS
<1>3. /\ PipelineTypes /\ Depth \in Nat
      /\ incoming[q] \in Request /\ RequestIs(incoming[q])
  BY RequestFacts
<1>4. incoming[q].way = "out" /\ incoming[q].at = at /\ prepared
  BY <1>3 DEF Leave, Out, At, RequestIs
<1>5. /\ incoming[q].answer \in Answer
      /\ incoming[q].answer.from \in at + 1 .. Depth + 1
      /\ incoming[q].answer.from = Depth + 1 => incoming[q].seen # "none"
      /\ incoming[q].seen \in {"none", Carried(incoming[q].kind, Depth + 1)}
      /\ Marked(incoming[q].answer, incoming[q].kind, at, incoming[q].answer.from)
  BY <1>3, <1>4 DEF RequestIs, Returns, Request
<1>6. answer \in Answer /\ answer.from = incoming[q].answer.from
  BY <1>1, <1>5 DEF Outward, WithTraceId, WithCors, Compressed, Told, Answer
<1>7. /\ r.way = "out" /\ r.at = at - 1 /\ r.answer = answer /\ r.kind = incoming[q].kind
      /\ r.seen = incoming[q].seen
  BY <1>2, <1>3, <1>4 DEF Request
<1>8. r \in Request
  <2>1. at - 1 \in Nat
    BY <1>3
  <2> QED
    BY <1>2, <1>3, <1>6, <2>1 DEF Request
<1>9. RequestIs(r)
  <2>1. PICK hi : hi = incoming[q].answer.from
    OBVIOUS
  <2>2. hi \in Nat /\ at < hi
    BY <1>3, <1>5, <2>1
  <2>3. PICK kind : kind = incoming[q].kind
    OBVIOUS
  <2>4. kind.gzip \in BOOLEAN
    BY <1>3, <2>3 DEF Request
  <2>5. Marked(incoming[q].answer, kind, at, hi)
    BY <1>5, <2>1, <2>3
  <2>6. Marked(Outward(layer, kind, incoming[q].answer), kind, at - 1, hi)
    BY <1>3, <1>5, <2>2, <2>4, <2>5, MarkedStep
  <2>7. Marked(r.answer, r.kind, r.at, r.answer.from)
    BY <1>1, <1>6, <1>7, <2>1, <2>3, <2>6
  <2>8. Returns(r)
    BY <1>3, <1>5, <1>6, <1>7, <2>7 DEF Returns
  <2> QED
    BY <1>4, <1>7, <2>8 DEF RequestIs, Goes
<1>10. layer = "metrics" <=> Counted /\ at = Depth
  BY MetricsLast
<1>11. ~Held(r)
  BY <1>3, <1>7 DEF Held
<1>12. Held(incoming[q]) <=> at = Depth
  BY <1>3, <1>4, <1>5 DEF Held
<1>13. /\ Left(r) <=> incoming[q].seen # "none"
       /\ Left(incoming[q]) <=> incoming[q].seen # "none" /\ at # Depth
  BY <1>7, <1>11, <1>12 DEF Left
<1>14. at = Depth => incoming[q].seen # "none"
  BY <1>3, <1>5
<1>15. http_requests_in_flight \in Int /\ http_requests_total \in Int
  BY <1>3 DEF PipelineTypes
<1>16. /\ http_requests_in_flight' = http_requests_in_flight - Guarded(layer)
       /\ http_requests_total' = http_requests_total + Guarded(layer)
  BY DEF Leave
<1>17. IF Counted
       THEN /\ http_requests_in_flight' =
                   http_requests_in_flight + Unit(Held(r)) - Unit(Held(incoming[q]))
            /\ http_requests_total' =
                   http_requests_total + Unit(Left(r)) - Unit(Left(incoming[q]))
       ELSE UNCHANGED <<http_requests_in_flight, http_requests_total>>
  BY <1>10, <1>11, <1>12, <1>13, <1>14, <1>15, <1>16 DEF Unit, Guarded
<1>18. incoming' = [incoming EXCEPT ![q] = r] /\ UNCHANGED <<middlewares, prepared>>
  BY <1>1, <1>2 DEF Leave
<1> QED
  BY <1>8, <1>9, <1>17, <1>18, RequestStep

\* A request that waits: its guard, if it has one, is released when it ends.
LEMMA WaitingGuard ==
    ASSUME IInv, NEW q \in Sender, Waits(q)
    PROVE  /\ prepared
           /\ incoming[q].seen \in {"none", Carried(incoming[q].kind, Depth + 1)}
           /\ Counted => Released(q) = Unit(Held(incoming[q]))
           /\ ~Counted => Released(q) = 0
           /\ Counted /\ Held(incoming[q]) => incoming[q].seen = "none"
<1>1. /\ PipelineTypes /\ Depth \in Nat
      /\ incoming[q] \in Request /\ RequestIs(incoming[q])
  BY RequestFacts
<1>2. incoming[q].way \in {"in", "out"}
  BY DEF Waits, In
<1>3. prepared
  BY <1>1, <1>2 DEF RequestIs
<1>4. incoming[q].seen \in {"none", Carried(incoming[q].kind, Depth + 1)}
  BY <1>1, <1>2 DEF RequestIs, Goes, Returns
<1>5. incoming[q].way = "in" => incoming[q].seen = "none"
  BY <1>1 DEF RequestIs, Goes
<1>6. Counted => (Held(incoming[q]) <=> In(q, Depth + 1))
  BY <1>1 DEF Waits, Held, In, At, Counted
<1>7. Released(q) = Unit(In(q, Depth + 1) /\ Counted)
  BY DEF Released, Unit, Counted
<1>8. Counted => Released(q) = Unit(Held(incoming[q]))
  BY <1>6, <1>7 DEF Unit
<1>9. ~Counted => Released(q) = 0
  BY <1>7 DEF Unit
<1>10. Counted /\ Held(incoming[q]) => incoming[q].seen = "none"
  BY <1>5, <1>6 DEF In
<1> QED
  BY <1>3, <1>4, <1>8, <1>9, <1>10

LEMMA ExpireStep ==
    ASSUME PipelineAssumption, IInv, NEW q \in Sender, NEW at \in 1 .. Depth, Expire(q, at)
    PROVE  IInv'
<1>1. PICK r : r = [incoming[q] EXCEPT !.way = "out", !.at = at - 1,
                                       !.answer = AnswerOf(at, FALSE)]
  OBVIOUS
<1>2. PipelineTypes /\ Depth \in Nat /\ incoming[q] \in Request
  BY RequestFacts
<1>3. Waits(q)
  BY DEF Expire
<1>4. /\ prepared
      /\ incoming[q].seen \in {"none", Carried(incoming[q].kind, Depth + 1)}
      /\ Counted => Released(q) = Unit(Held(incoming[q]))
      /\ ~Counted => Released(q) = 0
      /\ Counted /\ Held(incoming[q]) => incoming[q].seen = "none"
  BY <1>3, WaitingGuard
<1>5. r \in Request /\ r.seen = incoming[q].seen /\ RequestIs(r)
      /\ ~Held(r) /\ (Left(r) <=> r.seen # "none")
  <2>1. at - 1 \in Nat /\ at \in Nat
    BY <1>2
  <2>2. AnswerOf(at, FALSE) \in Answer
    BY <2>1 DEF AnswerOf, Answer
  <2>3. r \in Request
    BY <1>1, <1>2, <2>1, <2>2 DEF Request, Way
  <2>4. /\ r.way = "out" /\ r.at = at - 1 /\ r.answer = AnswerOf(at, FALSE)
        /\ r.seen = incoming[q].seen /\ r.kind = incoming[q].kind
    BY <1>1, <1>2 DEF Request
  <2>5. r.seen \in {"none", Carried(r.kind, Depth + 1)}
    BY <1>4, <2>4
  <2> QED
    <3>1. AnswerBy(middlewares[at], at) = AnswerOf(at, FALSE)
      BY DEF Expire, AnswerBy
    <3> QED
      BY <1>4, <2>3, <2>4, <2>5, <3>1, AnsweredBy
<1>6. Counted => (Left(r) <=> Left(incoming[q]))
  BY <1>4, <1>5 DEF Left
<1>7. http_requests_in_flight \in Int /\ http_requests_total \in Int
  BY <1>2 DEF PipelineTypes
<1>8. /\ http_requests_in_flight' = http_requests_in_flight - Released(q)
      /\ http_requests_total' = http_requests_total
  BY DEF Expire
<1>9. IF Counted
      THEN /\ http_requests_in_flight' =
                  http_requests_in_flight + Unit(Held(r)) - Unit(Held(incoming[q]))
           /\ http_requests_total' =
                  http_requests_total + Unit(Left(r)) - Unit(Left(incoming[q]))
      ELSE UNCHANGED <<http_requests_in_flight, http_requests_total>>
  BY <1>4, <1>5, <1>6, <1>7, <1>8 DEF Unit
<1>10. AnswerOf(at, FALSE).from = at
  BY DEF AnswerOf
<1>11. incoming' = [incoming EXCEPT ![q] = r] /\ UNCHANGED <<middlewares, prepared>>
  BY <1>1, <1>10 DEF Expire, Answered
<1> QED
  BY <1>5, <1>9, <1>11, RequestStep

LEMMA DisconnectStep ==
    ASSUME PipelineAssumption, IInv, NEW q \in Sender, Disconnect(q)
    PROVE  IInv'
<1>1. PICK r : r = [incoming[q] EXCEPT !.way = "gone"]
  OBVIOUS
<1>2. PipelineTypes /\ Depth \in Nat /\ incoming[q] \in Request
  BY RequestFacts
<1>3. Waits(q)
  BY DEF Disconnect
<1>4. /\ prepared
      /\ Counted => Released(q) = Unit(Held(incoming[q]))
      /\ ~Counted => Released(q) = 0
      /\ Counted /\ Held(incoming[q]) => incoming[q].seen = "none"
  BY <1>3, WaitingGuard
<1>5. r.way = "gone" /\ r.seen = incoming[q].seen /\ r \in Request
  BY <1>1, <1>2 DEF Request, Way
<1>6. RequestIs(r)
  BY <1>4, <1>5 DEF RequestIs, Goes, Returns
<1>7. ~Held(r) /\ (Left(r) <=> r.seen # "none")
  BY <1>5 DEF Held, Left
<1>8. Counted => (Left(r) <=> Left(incoming[q]))
  BY <1>4, <1>5, <1>7 DEF Left
<1>9. http_requests_in_flight \in Int /\ http_requests_total \in Int
  BY <1>2 DEF PipelineTypes
<1>10. /\ http_requests_in_flight' = http_requests_in_flight - Released(q)
       /\ http_requests_total' = http_requests_total
  BY DEF Disconnect
<1>11. IF Counted
       THEN /\ http_requests_in_flight' =
                   http_requests_in_flight + Unit(Held(r)) - Unit(Held(incoming[q]))
            /\ http_requests_total' =
                   http_requests_total + Unit(Left(r)) - Unit(Left(incoming[q]))
       ELSE UNCHANGED <<http_requests_in_flight, http_requests_total>>
  BY <1>4, <1>7, <1>8, <1>9, <1>10 DEF Unit
<1>12. incoming' = [incoming EXCEPT ![q] = r] /\ UNCHANGED <<middlewares, prepared>>
  BY <1>1 DEF Disconnect
<1> QED
  BY <1>5, <1>6, <1>11, <1>12, RequestStep

\* Before prepare() no request is there, and the builder changes the stack only.
LEMMA BuildStep ==
    ASSUME PipelineAssumption, IInv, ~prepared, Build
    PROVE  IInv'
<1>1. PipelineTypes /\ StackInv /\ RequestInv /\ CountInv /\ Depth \in Nat
  BY DEF IInv, PipelineTypes, Depth
<1>2. \A q \in Sender : incoming[q].way = "none" /\ incoming[q].seen = "none"
  BY <1>1 DEF RequestInv, RequestIs
<1>3. incoming' = incoming /\ UNCHANGED <<http_requests_in_flight, http_requests_total>>
  BY DEF Build, AddLayer, Prepare
<1>4. http_requests_in_flight = 0 /\ http_requests_total = 0
  <2>1. ~Counted
    BY <1>1 DEF StackInv, Counted
  <2> QED
    BY <1>1, <2>1 DEF CountInv
<1>5. RequestInv'
  BY <1>2, <1>3 DEF RequestInv, RequestIs, Goes, Returns
<1>6. CountInv'
  <2>1. \A q \in Sender : incoming'[q].way = "none" /\ incoming'[q].seen = "none"
    BY <1>2, <1>3
  <2>2. Inside' = {}
    BY <2>1 DEF Inside, Held
  <2>3. Outside' = {}
    BY <2>1 DEF Outside, Left
  <2>4. Cardinality(Inside') = 0 /\ Cardinality(Outside') = 0
    BY <2>2, <2>3, FS_EmptySet
  <2> QED
    BY <1>3, <1>4, <2>4 DEF CountInv
<1>7. /\ middlewares' \in Seq(Layer \cup {"auth", "metrics"})
      /\ prepared' \in BOOLEAN
      /\ StackInv'
  <2>1. CASE \E layer \in Layer : AddLayer(layer)
    <3>1. PICK layer \in Layer : AddLayer(layer)
      BY <2>1
    <3>2. layer # "metrics"
      BY DEF PipelineAssumption
    <3>3. /\ middlewares' = Append(middlewares, layer)
          /\ prepared' = prepared
      BY <3>1 DEF AddLayer
    <3>4. middlewares' \in Seq(Layer \cup {"auth", "metrics"})
      BY <1>1, <3>3 DEF PipelineTypes
    <3>5. /\ Depth' = Depth + 1
          /\ \A i \in 1 .. Depth : middlewares'[i] = middlewares[i]
          /\ middlewares'[Depth + 1] = layer
      BY <1>1, <3>3 DEF PipelineTypes, Depth
    <3>6. \A i \in 1 .. Depth' : middlewares'[i] # "metrics"
      BY <1>1, <3>2, <3>5 DEF StackInv
    <3>7. prepared' \in BOOLEAN
      BY <1>1, <3>3 DEF PipelineTypes
    <3> QED
      BY <3>4, <3>6, <3>7 DEF StackInv
  <2>2. CASE \E auth, metrics \in BOOLEAN : Prepare(auth, metrics)
    <3>1. PICK auth \in BOOLEAN, metrics \in BOOLEAN : Prepare(auth, metrics)
      BY <2>2
    <3>2. PICK one : one = IF auth THEN <<"auth">> ELSE <<>>
      OBVIOUS
    <3>3. PICK two : two = IF metrics THEN <<"metrics">> ELSE <<>>
      OBVIOUS
    <3>4. /\ middlewares' = middlewares \o one \o two
          /\ prepared'
      BY <3>1, <3>2, <3>3 DEF Prepare
    <3>5. /\ one \in Seq(Layer \cup {"auth", "metrics"}) /\ Len(one) \in Nat
          /\ \A i \in 1 .. Len(one) : one[i] # "metrics"
      <4>1. CASE auth
        BY <3>2, <4>1
      <4>2. CASE ~auth
        <5>1. one = <<>> /\ Len(one) = 0
          BY <3>2, <4>2
        <5> QED
          BY <5>1
      <4> QED
        BY <4>1, <4>2
    <3>6. /\ two \in Seq(Layer \cup {"auth", "metrics"}) /\ Len(two) \in {0, 1}
      <4>1. CASE metrics
        BY <3>3, <4>1
      <4>2. CASE ~metrics
        <5>1. two = <<>> /\ Len(two) = 0
          BY <3>3, <4>2
        <5> QED
          BY <5>1
      <4> QED
        BY <4>1, <4>2
    <3>7. PICK inner : inner = middlewares \o one
      OBVIOUS
    <3>8. /\ inner \in Seq(Layer \cup {"auth", "metrics"}) /\ Len(inner) \in Nat
          /\ \A i \in 1 .. Len(inner) : inner[i] # "metrics"
      BY <1>1, <3>5, <3>7 DEF PipelineTypes, StackInv, Depth
    <3>9. middlewares' = inner \o two
      BY <3>4, <3>7
    <3>10. middlewares' \in Seq(Layer \cup {"auth", "metrics"})
      BY <3>6, <3>8, <3>9
    <3>11. /\ Depth' = Len(inner) + Len(two)
           /\ \A i \in 1 .. Len(inner) : middlewares'[i] = inner[i]
      BY <3>6, <3>8, <3>9 DEF Depth
    <3>12. \A i \in 1 .. Depth' : middlewares'[i] = "metrics" => i = Depth'
      <4> TAKE i \in 1 .. Depth'
      <4>1. CASE i \in 1 .. Len(inner)
        BY <3>8, <3>11, <4>1
      <4>2. CASE i \notin 1 .. Len(inner)
        <5>1. i \in 1 .. Len(inner) + Len(two)
          BY <3>11
        <5>2. PICK n \in Nat : n = Len(inner)
          BY <3>8
        <5>3. PICK m \in {0, 1} : m = Len(two)
          BY <3>6
        <5>4. i \in 1 .. n + m /\ i \notin 1 .. n
          BY <4>2, <5>1, <5>2, <5>3
        <5>5. i = n + m
          BY <5>4
        <5> QED
          BY <3>11, <5>2, <5>3, <5>5
      <4> QED
        BY <4>1, <4>2
    <3>13. prepared' \in BOOLEAN
      BY <3>4
    <3> QED
      BY <3>4, <3>10, <3>12, <3>13 DEF StackInv
  <2> QED
    BY <2>1, <2>2 DEF Build
<1>8. PipelineTypes'
  <2>1. /\ incoming' \in [Sender -> Request]
        /\ http_requests_in_flight' \in Int /\ http_requests_total' \in Int
    BY <1>1, <1>3 DEF PipelineTypes
  <2> QED
    BY <1>7, <2>1 DEF PipelineTypes
<1> QED
  BY <1>5, <1>6, <1>7, <1>8 DEF IInv

\* The invariant holds in every state of every run of the stack.
THEOREM Invariant == PipelineSpec => []IInv
<1> USE PipelineAssumption
<1>1. PipelineInit => IInv
  BY Initially
<1>2. IInv /\ [PipelineNext]_pipelineVars => IInv'
  <2> SUFFICES ASSUME IInv, [PipelineNext]_pipelineVars
               PROVE  IInv'
    OBVIOUS
  <2>1. CASE Build
    <3>1. ~prepared
      BY <2>1 DEF Build, AddLayer, Prepare
    <3> QED
      BY <2>1, <3>1, BuildStep
  <2>2. CASE \E q \in Sender : Serve(q)
    <3>1. PICK q \in Sender : Serve(q)
      BY <2>2
    <3>2. CASE \E kind \in Kind : Receive(q, kind)
      BY <3>2, ReceiveStep
    <3>3. CASE \E compressible \in BOOLEAN : Handle(q, compressible)
      BY <3>3, HandleStep
    <3>4. CASE \E at \in 1 .. Depth : Enter(q, at) \/ Refuse(q, at) \/ Leave(q, at) \/ Expire(q, at)
      BY <3>4, EnterStep, RefuseStep, LeaveStep, ExpireStep
    <3>5. CASE Disconnect(q)
      BY <3>5, DisconnectStep
    <3> QED
      BY <3>1, <3>2, <3>3, <3>4, <3>5 DEF Serve
  <2>3. CASE UNCHANGED pipelineVars
    BY SMTT(20), <2>3 DEF pipelineVars, IInv, PipelineTypes, StackInv, RequestInv, CountInv, Depth,
                RequestIs, Goes, Returns, Marked, OwnVary, Carried, CorsOutside, Between, Told,
                Counted, Inside, Outside, Held, Left
  <2> QED
    BY <2>1, <2>2, <2>3 DEF PipelineNext
<1> QED
  BY <1>1, <1>2, PTL DEF PipelineSpec

-----------------------------------------------------------------------------
(* What an answer and the metrics tell *)

LEMMA MetricsAreTold ==
    ASSUME IInv
    PROVE  MetricsTell
<1>1. PipelineTypes /\ StackInv /\ CountInv /\ Depth \in Nat
  BY DEF IInv, PipelineTypes, Depth
<1>2. PlacesOf("metrics", Depth + 1) # {} <=> Counted
  BY <1>1 DEF PlacesOf, Counted, StackInv
<1>3. Inside = {q \in Sender : In(q, Depth + 1) \/
                    (Out(q, Depth) /\ incoming[q].answer.from = Depth + 1)}
  BY DEF Inside, Held, In, Out, At
<1>4. Outside = {q \in Sender : incoming[q].seen # "none"} \ Inside
  BY DEF Outside, Left, Inside
<1> QED
  BY <1>1, <1>2, <1>3, <1>4 DEF MetricsTell, CountInv

\* The innermost of some places, as the property names it.
LEMMA InnermostIs ==
    ASSUME NEW n \in Nat, NEW places, places \subseteq 1 .. n, places # {}
    PROVE  /\ Innermost(places) \in places
           /\ \A other \in places : Innermost(places) >= other
<1>1. \E at \in places : \A other \in places : at >= other
  BY GreatestPlace
<1> QED
  BY <1>1 DEF Innermost

LEMMA TracesAreTold ==
    ASSUME IInv, NEW q \in Sender, Done(q)
    PROVE  TraceTold(q)
<1>1. /\ PipelineTypes /\ Depth \in Nat
      /\ incoming[q] \in Request /\ RequestIs(incoming[q])
  BY RequestFacts
<1>2. incoming[q].way = "out" /\ incoming[q].at = 0
  BY DEF Done, Out, At
<1>3. PICK from, kind : from = incoming[q].answer.from /\ kind = incoming[q].kind
  OBVIOUS
<1>4. /\ Marked(incoming[q].answer, kind, 0, from)
      /\ incoming[q].seen \in {"none", Carried(kind, Depth + 1)}
  BY <1>1, <1>2, <1>3 DEF RequestIs, Returns
<1>5. \A layer, hi : PlacesOf(layer, hi) = Between(layer, 0, hi)
  BY <1>1 DEF PlacesOf, Between
<1>6. incoming[q].answer.trace_id = IF PlacesOf("trace", from) = {} THEN "none" ELSE Told(kind)
  BY <1>4, <1>5 DEF Marked
<1> DEFINE trace == PlacesOf("trace", Depth + 1)
           tower == PlacesOf("tower", Depth + 1)
           carried == trace # {} /\ tower \subseteq 1 .. Innermost(trace)
<1>7. trace \subseteq 1 .. Depth /\ tower \subseteq 1 .. Depth
  BY <1>1 DEF PlacesOf
<1>8. carried <=> \E i \in trace : Between("tower", i, Depth + 1) = {}
  <2>1. \A i \in trace :
            Between("tower", i, Depth + 1) = {} <=> \A j \in tower : j <= i
    BY <1>1, <1>7 DEF PlacesOf, Between
  <2>2. CASE trace = {}
    BY <2>2
  <2>3. CASE trace # {}
    <3>1. PICK last : last = Innermost(trace)
      OBVIOUS
    <3>2. last \in trace /\ \A other \in trace : last >= other
      BY <1>1, <1>7, <2>3, <3>1, InnermostIs
    <3>3. carried <=> \A j \in tower : j \in 1 .. last
      BY <2>3, <3>1
    <3>4. carried <=> \A j \in tower : j <= last
      BY <1>1, <1>7, <3>2, <3>3
    <3> HIDE DEF trace, tower, carried
    <3>5. (\E i \in trace : \A j \in tower : j <= i) <=> \A j \in tower : j <= last
      BY <1>1, <1>7, <3>2
    <3> QED
      BY <2>1, <3>4, <3>5
  <2> QED
    BY <2>2, <2>3
<1>9. Carried(kind, Depth + 1) = IF carried THEN Told(kind) ELSE "own"
  <2>1. Carried(kind, Depth + 1) =
            IF kind.traced /\ \E i \in trace : Between("tower", i, Depth + 1) = {}
            THEN "header" ELSE "own"
    BY <1>5 DEF Carried
  <2> HIDE DEF trace, tower, carried
  <2> QED
    BY <1>8, <2>1 DEF Told
<1> QED
  BY <1>3, <1>4, <1>6, <1>9 DEF TraceTold

LEMMA VaryIsTold ==
    ASSUME IInv, NEW q \in Sender, Done(q)
    PROVE  VaryTold(q)
<1>1. /\ PipelineTypes /\ Depth \in Nat
      /\ incoming[q] \in Request /\ RequestIs(incoming[q])
  BY RequestFacts
<1>2. incoming[q].way = "out" /\ incoming[q].at = 0
  BY DEF Done, Out, At
<1>3. PICK answer, kind : answer = incoming[q].answer /\ kind = incoming[q].kind
  OBVIOUS
<1>4. Marked(answer, kind, 0, answer.from)
  BY <1>1, <1>2, <1>3 DEF RequestIs, Returns
<1> DEFINE compress == PlacesOf("compress", answer.from)
           cors == PlacesOf("cors", answer.from)
           given == PlacesOf("cors", answer.from + 1)
<1>5. compress = Between("compress", 0, answer.from) /\ cors = Between("cors", 0, answer.from)
  BY <1>1 DEF PlacesOf, Between
<1>6. answer.from \in 1 .. Depth + 1
  BY <1>1, <1>2, <1>3 DEF RequestIs, Returns
<1>7. given = cors \cup (IF OwnVary(answer.from) = "Origin" THEN {answer.from} ELSE {})
  BY <1>1, <1>6 DEF PlacesOf, OwnVary
<1>8. /\ answer.encoded <=> compress # {} /\ kind.gzip /\ answer.compressible
      /\ answer.vary =
             IF cors # {} /\ (answer.encoded => \E c \in cors, e \in compress : c < e)
             THEN "Origin" ELSE IF answer.encoded THEN "Accept-Encoding" ELSE OwnVary(answer.from)
  BY <1>4, <1>5 DEF Marked, CorsOutside
<1>9. answer.encoded /\ given = {} => answer.vary = "Accept-Encoding"
  BY <1>7, <1>8
<1>10. ~answer.encoded /\ given # {} => answer.vary = "Origin"
  BY <1>7, <1>8
<1> QED
  BY <1>3, <1>8, <1>9, <1>10 DEF VaryTold

\* What an answer and the metrics say of a request is what happened to it, in
\* every order of the layers of any stack: the ids of TraceIdMiddleware, the
\* Vary header of CorsMiddleware and CompressionMiddleware, and the gauge and
\* the counter of MetricsMiddleware.
THEOREM AnswersAreExplained == PipelineSpec => []AnswersExplained
<1>1. IInv => AnswersExplained
  BY MetricsAreTold, TracesAreTold, VaryIsTold DEF AnswersExplained
<1> QED
  BY <1>1, Invariant, PTL

-----------------------------------------------------------------------------
(* Walking over a table: the inductive invariant *)

PageTypes ==
    /\ table \subseteq Row
    /\ seen \subseteq Row
    /\ owed \subseteq table
    /\ page.data \in Seq(Row)
    /\ page.next \in Int \cup {NoToken}
    /\ page.prev \in Int \cup {NoToken}
    /\ walk \in {"none", "forward", "backward", "offset"}
    /\ offset \in [page : Nat, per_page : Nat, got : SUBSET {"items", "total"},
                   items : SUBSET Row, total : Nat]
    /\ ended \in BOOLEAN
    /\ repeated \in BOOLEAN
    /\ changed \in BOOLEAN

\* A token is the value of the last row of its page, or of the first.
TokenInv ==
    /\ page.next # NoToken =>
          /\ \A r \in ToSet(page.data) : Column[r] <= page.next
          /\ \E r \in ToSet(page.data) : Column[r] = page.next
    /\ page.prev # NoToken =>
          /\ \A r \in ToSet(page.data) : Column[r] >= page.prev
          /\ \E r \in ToSet(page.data) : Column[r] = page.prev

\* The walk has brought r, or a row with its value.
Brought(r) == \E s \in seen : Column[s] = Column[r]

\* What the walk has brought lies on this side of the token, and what it owes
\* on the other one.
ForwardInv ==
    walk = "forward" =>
        /\ ~repeated
        /\ ToSet(page.data) \subseteq seen
        /\ ended <=> page.next = NoToken
        /\ ~ended => \A r \in seen : Column[r] <= page.next
        /\ \A r \in owed : Brought(r) \/ (~ended /\ Column[r] > page.next)

BackwardInv ==
    walk = "backward" =>
        /\ ~repeated
        /\ ToSet(page.data) \subseteq seen
        /\ ended <=> page.prev = NoToken
        /\ ~ended => \A r \in seen : Column[r] >= page.prev
        /\ \A r \in owed : Brought(r) \/ (~ended /\ Column[r] < page.prev)

\* A walk that has not begun has brought nothing.
StartInv ==
    /\ walk \in {"none", "offset"} => page = NoPage
    /\ walk = "none" => seen = {} /\ ~repeated /\ ~ended /\ ~changed

\* The places before the current page.
Read == (offset.page - 1) * offset.per_page

\* As long as the table stays as it is, the pages are places of one order.
OffsetInv ==
    walk = "offset" =>
        /\ offset.page # 0 /\ offset.per_page # 0
        /\ ~changed =>
              /\ ~repeated
              /\ seen = {r \in table : Place(r) <= Read}
              /\ owed = table \ seen
              /\ ended => owed = {}
              /\ "items" \in offset.got =>
                    offset.items = {r \in table : /\ Read < Place(r)
                                                  /\ Place(r) <= Read + offset.per_page}
              /\ "total" \in offset.got => offset.total = Cardinality(table)

PagesInv == PageTypes /\ TokenInv /\ ForwardInv /\ BackwardInv /\ StartInv /\ OffsetInv

-----------------------------------------------------------------------------
(* What a query brings *)

LEMMA AcceptedIs == AcceptedLimit \subseteq Nat \ {0}
<1> SUFFICES ASSUME NEW l \in AcceptedLimit PROVE l \in Nat \ {0}
  OBVIOUS
<1>1. l \in Limit \cup {default_per_page} /\ 1 <= l
  BY DEF AcceptedLimit
<1>2. l \in Nat
  BY <1>1, PaginationAssumption
<1>. QED
  BY <1>1, <1>2

\* An order of a set of rows has them all, in the order of the column.
LEMMA OrderIs ==
    ASSUME NEW S \in SUBSET Row, NEW s \in Orders(S)
    PROVE  /\ s \in Seq(S)
           /\ \A r \in S : \E k \in 1 .. Len(s) : s[k] = r
           /\ \A i, j \in 1 .. Len(s) : i < j => Column[s[i]] <= Column[s[j]]
<1> DEFINE n == Cardinality(S)
<1>1. IsFiniteSet(S) /\ n \in Nat
  BY PaginationAssumption, FS_Subset, FS_CardinalityType
<1>2. s \in [1 .. n -> S] /\ \A i, j \in 1 .. n : i # j => s[i] # s[j]
  BY DEF Orders, SetToSeqs
<1>3. s \in Seq(S) /\ Len(s) = n /\ DOMAIN s = 1 .. n
  BY <1>1, <1>2
<1>4. s \in Injection(1 .. n, S)
  BY <1>2 DEF Injection, IsInjective
<1>5. Cardinality(1 .. n) = n
  BY <1>1, FS_Interval
<1>6. s \in Surjection(1 .. n, S)
  BY <1>1, <1>4, <1>5, FS_Injection
<1>. QED
  BY <1>3, <1>6 DEF Orders, Surjection

LEMMA ToSetIs ==
    ASSUME NEW S, NEW s \in Seq(S)
    PROVE  /\ Len(s) \in Nat
           /\ \A r \in ToSet(s) : \E i \in 1 .. Len(s) : r = s[i]
           /\ \A i \in 1 .. Len(s) : s[i] \in ToSet(s)
<1>1. Len(s) \in Nat /\ DOMAIN s = 1 .. Len(s)
  OBVIOUS
<1>. QED
  BY <1>1 DEF ToSet

\* The first rows of an order, and whether they are all.
LEMMA AtMostIs ==
    ASSUME NEW S, NEW s \in Seq(S), NEW n \in Nat
    PROVE  /\ AtMost(n, s) \in Seq(S)
           /\ Len(AtMost(n, s)) = IF n < Len(s) THEN n ELSE Len(s)
           /\ \A i \in 1 .. Len(AtMost(n, s)) : AtMost(n, s)[i] = s[i]
BY DEF AtMost

LEMMA LastOfIs ==
    ASSUME NEW S, NEW s \in Seq(S), NEW n \in Nat
    PROVE  /\ LastOf(n, s) \in Seq(S)
           /\ Len(LastOf(n, s)) = IF n < Len(s) THEN n ELSE Len(s)
           /\ \A i \in 1 .. Len(LastOf(n, s)) :
                 LastOf(n, s)[i] = s[i + Len(s) - Len(LastOf(n, s))]
<1>1. CASE n < Len(s)
  <2>1. LastOf(n, s) = SubSeq(s, Len(s) - n + 1, Len(s))
    BY <1>1 DEF LastOf
  <2>2. Len(s) - n + 1 \in 1 .. Len(s) + 1 /\ Len(s) \in Nat
    BY <1>1
  <2>3. /\ LastOf(n, s) \in Seq(S)
        /\ Len(LastOf(n, s)) = n
        /\ \A i \in 1 .. n : LastOf(n, s)[i] = s[Len(s) - n + 1 + i - 1]
    BY <2>1, <2>2
  <2>. QED
    BY <1>1, <2>2, <2>3
<1>2. CASE ~(n < Len(s))
  <2>1. LastOf(n, s) = SubSeq(s, 1, Len(s))
    BY <1>2 DEF LastOf
  <2>2. LastOf(n, s) = s /\ Len(s) \in Nat
    BY <2>1
  <2>. QED
    BY <1>2, <2>2
<1>. QED
  BY <1>1, <1>2

\* The rows beyond a token, or all rows.
Beyond(after) == {r \in table : after = NoToken \/ Column[r] > after}

\* The rows before a token.
Behind(before) == {r \in table : Column[r] < before}

\* A page forward is the front of the rows beyond the token. Only its token,
\* the value of its last row, says that there are more.
LEMMA ForwardPageIs ==
    ASSUME PageTypes, NEW after, NEW limit \in Nat \ {0}, NEW rows \in First(after, limit + 1),
           NEW new, new = ForwardPage(rows, limit, after)
    PROVE  /\ new.data \in Seq(Row)
           /\ ToSet(new.data) \subseteq Beyond(after)
           /\ new.next \in Int \cup {NoToken}
           /\ new.next = NoToken => Beyond(after) \subseteq ToSet(new.data)
           /\ new.next # NoToken =>
                 /\ \A r \in ToSet(new.data) : Column[r] <= new.next
                 /\ \E r \in ToSet(new.data) : Column[r] = new.next
                 /\ \A r \in Beyond(after) \ ToSet(new.data) : Column[r] >= new.next
           /\ new.prev \in Int \cup {NoToken}
           /\ new.prev # NoToken =>
                 /\ \A r \in ToSet(new.data) : Column[r] >= new.prev
                 /\ \E r \in ToSet(new.data) : Column[r] = new.prev
<1>1. PICK S : S = Beyond(after)
  OBVIOUS
<1>2. S \subseteq table /\ S \in SUBSET Row
  BY <1>1 DEF PageTypes, Beyond
<1>3. PICK s \in Orders(S) : rows = AtMost(limit + 1, s)
  BY <1>1 DEF First, Beyond
<1>4. /\ s \in Seq(S)
      /\ \A r \in S : \E k \in 1 .. Len(s) : s[k] = r
      /\ \A i, j \in 1 .. Len(s) : i < j => Column[s[i]] <= Column[s[j]]
  BY <1>2, OrderIs
<1>5. /\ rows \in Seq(S)
      /\ Len(rows) = IF limit + 1 < Len(s) THEN limit + 1 ELSE Len(s)
      /\ \A i \in 1 .. Len(rows) : rows[i] = s[i]
  <2>1. limit + 1 \in Nat
    OBVIOUS
  <2>. QED
    BY <1>3, <1>4, <2>1, AtMostIs
<1>6. PICK d : d = AtMost(limit, rows)
  OBVIOUS
<1>7. /\ d \in Seq(S)
      /\ Len(d) = IF limit < Len(s) THEN limit ELSE Len(s)
      /\ \A i \in 1 .. Len(d) : d[i] = s[i] /\ d[i] = rows[i]
  <2>1. limit \in Nat /\ Len(s) \in Nat
    BY <1>4
  <2>2. /\ d \in Seq(S)
        /\ Len(d) = IF limit < Len(rows) THEN limit ELSE Len(rows)
        /\ \A i \in 1 .. Len(d) : d[i] = rows[i]
    BY <1>5, <1>6, <2>1, AtMostIs
  <2>3. Len(d) = IF limit < Len(s) THEN limit ELSE Len(s)
    BY <1>5, <2>1, <2>2
  <2>4. \A i \in 1 .. Len(d) : i \in 1 .. Len(rows)
    BY <1>5, <2>1, <2>3
  <2>. QED
    BY <1>5, <2>2, <2>3, <2>4
<1>8. /\ new.data = d
      /\ new.next = IF Len(s) > limit THEN Token(rows, limit) ELSE NoToken
      /\ new.prev = IF after # NoToken THEN Token(d, 1) ELSE NoToken
  BY <1>4, <1>5, <1>6 DEF ForwardPage, NextOfForward
<1>9. /\ \A r \in ToSet(d) : \E i \in 1 .. Len(d) : r = s[i]
      /\ \A i \in 1 .. Len(d) : s[i] \in ToSet(d)
      /\ Len(d) \in Nat /\ Len(s) \in Nat
  <2>1. Len(s) \in Nat
    BY <1>4
  <2>2. /\ Len(d) \in Nat
        /\ \A r \in ToSet(d) : \E i \in 1 .. Len(d) : r = d[i]
        /\ \A i \in 1 .. Len(d) : d[i] \in ToSet(d)
    BY <1>7, ToSetIs
  <2>. QED
    BY <1>7, <2>1, <2>2
<1>10. \A i \in 1 .. Len(s) : s[i] \in S /\ Column[s[i]] \in Int /\ Column[s[i]] # NoToken
  <2>1. \A i \in 1 .. Len(s) : s[i] \in S /\ s[i] \in Row
    BY <1>2, <1>4
  <2>. QED
    BY <2>1, PaginationAssumption
<1>11. \A i, j \in 1 .. Len(s) : i <= j => Column[s[i]] <= Column[s[j]]
  <2>1. ASSUME NEW i \in 1 .. Len(s), NEW j \in 1 .. Len(s), i <= j
        PROVE  Column[s[i]] <= Column[s[j]]
    <3>1. i \in Int /\ j \in Int /\ Column[s[i]] \in Int
      BY <1>10
    <3>2. CASE i < j
      BY <1>4, <3>2
    <3>3. CASE i = j
      BY <3>1, <3>3
    <3>. QED
      BY <2>1, <3>1, <3>2, <3>3
  <2>. QED
    BY <2>1
<1>12. d \in Seq(Row) /\ ToSet(d) \subseteq S
  BY <1>2, <1>7, <1>9, <1>10
<1>13. /\ new.next \in Int \cup {NoToken}
       /\ new.next = NoToken => S \subseteq ToSet(d)
       /\ new.next # NoToken =>
             /\ \A r \in ToSet(d) : Column[r] <= new.next
             /\ \E r \in ToSet(d) : Column[r] = new.next
             /\ \A r \in S \ ToSet(d) : Column[r] >= new.next
  <2>1. CASE Len(s) > limit
    <3>1. rows # <<>> /\ Len(d) = limit /\ limit \in 1 .. Len(s) /\ rows[limit] = s[limit]
      BY <1>5, <1>7, <2>1
    <3>2. new.next = Column[s[limit]] /\ new.next \in Int /\ new.next # NoToken
      BY <1>8, <1>10, <2>1, <3>1 DEF Token
    <3>3. \A r \in ToSet(d) : Column[r] <= new.next
      BY <1>9, <1>11, <3>1, <3>2
    <3>4. s[limit] \in ToSet(d)
      BY <1>9, <3>1
    <3>5. ASSUME NEW r \in S \ ToSet(d) PROVE Column[r] >= new.next
      <4>1. PICK k \in 1 .. Len(s) : s[k] = r
        BY <1>4
      <4>2. k > limit
        BY <1>9, <3>1, <3>5, <4>1
      <4>. QED
        BY <1>10, <1>11, <3>1, <3>2, <4>1, <4>2
    <3>. QED
      BY <3>2, <3>3, <3>4, <3>5
  <2>2. CASE ~(Len(s) > limit)
    <3>1. new.next = NoToken /\ Len(d) = Len(s)
      BY <1>7, <1>8, <1>9, <2>2
    <3>. QED
      BY <1>4, <1>9, <3>1
  <2>. QED
    BY <2>1, <2>2
<1>14. ASSUME new.prev # NoToken
       PROVE  /\ new.prev \in Int
              /\ \A r \in ToSet(d) : Column[r] >= new.prev
              /\ \E r \in ToSet(d) : Column[r] = new.prev
  <2>1. d # <<>> /\ 1 \in 1 .. Len(d) /\ 1 \in 1 .. Len(s) /\ d[1] = s[1]
    BY <1>7, <1>8, <1>9, <1>14 DEF Token
  <2>2. new.prev = Column[s[1]] /\ new.prev \in Int
    BY <1>8, <1>10, <1>14, <2>1 DEF Token
  <2>3. \A r \in ToSet(d) : Column[r] >= new.prev
    BY <1>7, <1>9, <1>10, <1>11, <2>1, <2>2
  <2>. QED
    BY <1>9, <2>1, <2>2, <2>3
<1>. QED
  BY <1>1, <1>8, <1>12, <1>13, <1>14

\* A page backward is the end of the rows before the token, likewise.
LEMMA BackwardPageIs ==
    ASSUME PageTypes, NEW before \in Int, NEW limit \in Nat \ {0},
           NEW rows \in LastRows(before, limit + 1), NEW new, new = BackwardPage(rows, limit)
    PROVE  /\ new.data \in Seq(Row)
           /\ ToSet(new.data) \subseteq Behind(before)
           /\ new.prev \in Int \cup {NoToken}
           /\ new.prev = NoToken => Behind(before) \subseteq ToSet(new.data)
           /\ new.prev # NoToken =>
                 /\ \A r \in ToSet(new.data) : Column[r] >= new.prev
                 /\ \E r \in ToSet(new.data) : Column[r] = new.prev
                 /\ \A r \in Behind(before) \ ToSet(new.data) : Column[r] <= new.prev
           /\ new.next \in Int \cup {NoToken}
           /\ new.next # NoToken =>
                 /\ \A r \in ToSet(new.data) : Column[r] <= new.next
                 /\ \E r \in ToSet(new.data) : Column[r] = new.next
<1>1. PICK S : S = Behind(before)
  OBVIOUS
<1>2. S \subseteq table /\ S \in SUBSET Row
  BY <1>1 DEF PageTypes, Behind
<1>3. PICK s \in Orders(S) : rows = LastOf(limit + 1, s)
  BY <1>1 DEF LastRows, Behind
<1>4. /\ s \in Seq(S)
      /\ \A r \in S : \E k \in 1 .. Len(s) : s[k] = r
      /\ \A i, j \in 1 .. Len(s) : i < j => Column[s[i]] <= Column[s[j]]
  BY <1>2, OrderIs
<1>5. /\ rows \in Seq(S)
      /\ Len(rows) = IF limit + 1 < Len(s) THEN limit + 1 ELSE Len(s)
      /\ \A i \in 1 .. Len(rows) : rows[i] = s[i + Len(s) - Len(rows)]
  <2>1. limit + 1 \in Nat
    OBVIOUS
  <2>. QED
    BY <1>3, <1>4, <2>1, LastOfIs
<1>6. PICK d : d = LastOf(limit, rows)
  OBVIOUS
<1>7. /\ d \in Seq(S)
      /\ Len(d) = IF limit < Len(s) THEN limit ELSE Len(s)
      /\ \A i \in 1 .. Len(d) : d[i] = rows[i + Len(rows) - Len(d)]
  <2>1. limit \in Nat /\ Len(s) \in Nat
    BY <1>4
  <2>2. /\ d \in Seq(S)
        /\ Len(d) = IF limit < Len(rows) THEN limit ELSE Len(rows)
        /\ \A i \in 1 .. Len(d) : d[i] = rows[i + Len(rows) - Len(d)]
    BY <1>5, <1>6, <2>1, LastOfIs
  <2>3. Len(d) = IF limit < Len(s) THEN limit ELSE Len(s)
    BY <1>5, <2>1, <2>2
  <2>. QED
    BY <2>2, <2>3
<1>8. PICK m \in Nat : m = Len(s) - Len(d)
  <2>1. Len(s) \in Nat /\ Len(d) \in Nat
    BY <1>4, <1>7
  <2>2. Len(d) <= Len(s)
    BY <1>7, <2>1
  <2>3. Len(s) - Len(d) \in Nat
    BY <2>1, <2>2
  <2>. QED
    BY <2>3
<1>9. \A i \in 1 .. Len(d) : d[i] = s[i + m] /\ i + m \in 1 .. Len(s)
  <2>1. Len(s) \in Nat /\ Len(rows) \in Nat /\ Len(d) \in Nat
    BY <1>4, <1>5, <1>7
  <2>2. Len(d) <= Len(rows) /\ Len(rows) <= Len(s)
    BY <1>5, <1>7, <2>1
  <2>3. ASSUME NEW i \in 1 .. Len(d)
        PROVE  d[i] = s[i + m] /\ i + m \in 1 .. Len(s)
    <3>1. i + Len(rows) - Len(d) \in 1 .. Len(rows)
      BY <2>1, <2>2
    <3>2. PICK j \in 1 .. Len(rows) : j = i + Len(rows) - Len(d)
      BY <3>1
    <3>3. d[i] = rows[j] /\ rows[j] = s[j + Len(s) - Len(rows)]
      BY <1>5, <1>7, <3>2
    <3>4. j + Len(s) - Len(rows) = i + m /\ i + m \in 1 .. Len(s)
      BY <1>8, <2>1, <2>2, <3>2
    <3>. QED
      BY <3>3, <3>4
  <2>. QED
    BY <2>3
<1>10. /\ new.data = d
      /\ new.next = Token(d, Len(d))
      /\ new.prev = IF Len(s) > limit THEN Token(d, 1) ELSE NoToken
  BY <1>4, <1>5, <1>6 DEF BackwardPage, BackwardData
<1>11. /\ \A r \in ToSet(d) : \E i \in 1 .. Len(d) : r = s[i + m]
       /\ \A i \in 1 .. Len(d) : s[i + m] \in ToSet(d)
       /\ Len(d) \in Nat /\ Len(s) \in Nat
  <2>1. Len(s) \in Nat
    BY <1>4
  <2>2. /\ Len(d) \in Nat
        /\ \A r \in ToSet(d) : \E i \in 1 .. Len(d) : r = d[i]
        /\ \A i \in 1 .. Len(d) : d[i] \in ToSet(d)
    BY <1>7, ToSetIs
  <2>. QED
    BY <1>9, <2>1, <2>2
<1>12. \A i \in 1 .. Len(s) : s[i] \in S /\ Column[s[i]] \in Int /\ Column[s[i]] # NoToken
  <2>1. \A i \in 1 .. Len(s) : s[i] \in S /\ s[i] \in Row
    BY <1>2, <1>4
  <2>. QED
    BY <2>1, PaginationAssumption
<1>13. \A i, j \in 1 .. Len(s) : i <= j => Column[s[i]] <= Column[s[j]]
  <2>1. ASSUME NEW i \in 1 .. Len(s), NEW j \in 1 .. Len(s), i <= j
        PROVE  Column[s[i]] <= Column[s[j]]
    <3>1. i \in Int /\ j \in Int /\ Column[s[i]] \in Int
      BY <1>12
    <3>2. CASE i < j
      BY <1>4, <3>2
    <3>3. CASE i = j
      BY <3>1, <3>3
    <3>. QED
      BY <2>1, <3>1, <3>2, <3>3
  <2>. QED
    BY <2>1
<1>14. d \in Seq(Row) /\ ToSet(d) \subseteq S
  <2>1. \A r \in ToSet(d) : r \in S
    BY <1>9, <1>11, <1>12
  <2>2. \A i \in 1 .. Len(d) : d[i] \in Row
    BY <1>2, <1>7
  <2>3. d \in [1 .. Len(d) -> Row] /\ Len(d) \in Nat
    BY <1>7, <1>11, <2>2
  <2>. QED
    BY <2>1, <2>3
<1>15. /\ new.prev \in Int \cup {NoToken}
       /\ new.prev = NoToken => S \subseteq ToSet(d)
       /\ new.prev # NoToken =>
             /\ \A r \in ToSet(d) : Column[r] >= new.prev
             /\ \E r \in ToSet(d) : Column[r] = new.prev
             /\ \A r \in S \ ToSet(d) : Column[r] <= new.prev
  <2>1. CASE Len(s) > limit
    <3>1. d # <<>> /\ 1 \in 1 .. Len(d) /\ 1 + m \in 1 .. Len(s) /\ d[1] = s[1 + m]
      BY <1>7, <1>9, <2>1
    <3>2. new.prev = Column[s[1 + m]] /\ new.prev \in Int /\ new.prev # NoToken
      BY <1>10, <1>12, <2>1, <3>1 DEF Token
    <3>3. ASSUME NEW i \in 1 .. Len(d)
          PROVE  Column[s[i + m]] >= new.prev
      <4>1. i + m \in 1 .. Len(s) /\ 1 + m <= i + m
        BY <1>8, <1>9
      <4>. QED
        BY <1>12, <1>13, <3>1, <3>2, <4>1
    <3>4. \A r \in ToSet(d) : Column[r] >= new.prev
      BY <1>11, <3>3
    <3>5. s[1 + m] \in ToSet(d)
      BY <1>11, <3>1
    <3>6. ASSUME NEW r \in S \ ToSet(d) PROVE Column[r] <= new.prev
      <4>1. PICK k \in 1 .. Len(s) : s[k] = r
        BY <1>4
      <4>2. k <= m
        <5>1. CASE k > m
          <6>1. k - m \in 1 .. Len(d) /\ (k - m) + m = k
            BY <1>8, <1>11, <5>1
          <6>2. s[(k - m) + m] \in ToSet(d)
            BY <1>11, <6>1
          <6>. QED
            BY <3>6, <4>1, <6>1, <6>2
        <5>. QED
          BY <1>8, <5>1
      <4>3. k <= 1 + m
        BY <1>8, <4>1, <4>2
      <4>4. Column[s[k]] <= Column[s[1 + m]]
        BY <1>13, <3>1, <4>1, <4>3
      <4>. QED
        BY <3>2, <4>1, <4>4
    <3>. QED
      BY <3>2, <3>4, <3>5, <3>6
  <2>2. CASE ~(Len(s) > limit)
    <3>1. m = 0 /\ Len(d) = Len(s) /\ new.prev = NoToken
      BY <1>7, <1>8, <1>10, <1>11, <2>2
    <3>2. \A k \in 1 .. Len(s) : s[k] \in ToSet(d)
      BY <1>11, <3>1
    <3>. QED
      BY <1>4, <3>1, <3>2
  <2>. QED
    BY <2>1, <2>2
<1>16. ASSUME new.next # NoToken
       PROVE  /\ new.next \in Int
              /\ \A r \in ToSet(d) : Column[r] <= new.next
              /\ \E r \in ToSet(d) : Column[r] = new.next
  <2>1. d # <<>> /\ Len(d) \in 1 .. Len(d)
    BY <1>10, <1>7, <1>11, <1>16 DEF Token
  <2>2. Len(d) + m \in 1 .. Len(s) /\ d[Len(d)] = s[Len(d) + m]
    BY <1>9, <2>1
  <2>3. new.next = Column[s[Len(d) + m]] /\ new.next \in Int
    BY <1>10, <1>12, <2>1, <2>2 DEF Token
  <2>4. ASSUME NEW i \in 1 .. Len(d)
        PROVE  Column[s[i + m]] <= new.next
    <3>1. i + m \in 1 .. Len(s) /\ i + m <= Len(d) + m
      BY <1>8, <1>9, <1>11
    <3>. QED
      BY <1>13, <2>2, <2>3, <3>1
  <2>5. \A r \in ToSet(d) : Column[r] <= new.next
    BY <1>11, <2>4
  <2>6. s[Len(d) + m] \in ToSet(d)
    BY <1>11, <2>1
  <2>. QED
    BY <2>3, <2>5, <2>6
<1>. QED
  BY <1>1, <1>10, <1>14, <1>15, <1>16

-----------------------------------------------------------------------------
(* The walk by cursor *)

\* A page forward, in a walk that goes on, turns around or begins: A has been
\* brought, D is owed.
Forward(after, limit, rows, A, D) ==
    LET new == ForwardPage(rows, limit, after) IN
    /\ rows \in First(after, limit + 1)
    /\ walk' = "forward"
    /\ page' = new
    /\ Deliver(ToSet(new.data), A, D, new.next = NoToken)
    /\ UNCHANGED <<table, offset, changed>>

\* A page backward, likewise.
Backward(before, limit, rows, A, D) ==
    LET new == BackwardPage(rows, limit) IN
    /\ rows \in LastRows(before, limit + 1)
    /\ walk' = "backward"
    /\ page' = new
    /\ Deliver(ToSet(new.data), A, D, new.prev = NoToken)
    /\ UNCHANGED <<table, offset, changed>>

\* Either way what has been brought and what is owed stay on their sides.
LEMMA ForwardStep ==
    ASSUME PageTypes, ~repeated, NEW after, NEW limit \in Nat \ {0}, NEW rows,
           NEW A \in SUBSET Row, NEW D \in SUBSET table,
           after = NoToken => A = {},
           after # NoToken =>
               /\ after \in Int
               /\ \A s \in A : Column[s] <= after
               /\ \A r \in D : (\E s \in A : Column[s] = Column[r]) \/ Column[r] > after,
           Forward(after, limit, rows, A, D)
    PROVE  PagesInv'
<1>1. PICK new :
        /\ new = ForwardPage(rows, limit, after)
        /\ rows \in First(after, limit + 1)
        /\ walk' = "forward"
        /\ page' = new
        /\ Deliver(ToSet(new.data), A, D, new.next = NoToken)
        /\ UNCHANGED <<table, offset, changed>>
  BY DEF Forward
<1>2. PICK B : B = ToSet(new.data)
  OBVIOUS
<1>3. /\ new.data \in Seq(Row)
      /\ B \subseteq Beyond(after)
      /\ new.next \in Int \cup {NoToken}
      /\ new.next = NoToken => Beyond(after) \subseteq B
      /\ new.next # NoToken =>
            /\ \A r \in B : Column[r] <= new.next
            /\ \E r \in B : Column[r] = new.next
            /\ \A r \in Beyond(after) \ B : Column[r] >= new.next
      /\ new.prev \in Int \cup {NoToken}
      /\ new.prev # NoToken =>
            /\ \A r \in B : Column[r] >= new.prev
            /\ \E r \in B : Column[r] = new.prev
  BY <1>1, <1>2, ForwardPageIs
<1>4. /\ repeated' = (repeated \/ B \cap A # {})
      /\ seen' = A \cup B
      /\ owed' = D \ B
      /\ ended' = (new.next = NoToken)
  BY <1>1, <1>2 DEF Deliver
<1>5. Beyond(after) \subseteq table /\ table \subseteq Row
  BY DEF Beyond, PageTypes
<1>6. \A r \in Row : Column[r] \in Int
  BY PaginationAssumption
<1>7. B \cap A = {}
  BY <1>3, <1>5, <1>6 DEF Beyond
<1>8. PageTypes'
  BY <1>1, <1>3, <1>4, <1>5, <1>7 DEF PageTypes
<1>9. TokenInv'
  BY <1>1, <1>2, <1>3 DEF TokenInv
<1>10. ForwardInv'
  <2>1. ~repeated'
    BY <1>4, <1>7
  <2>2. ToSet(page.data)' \subseteq seen'
    BY <1>1, <1>2, <1>4 DEF ToSet
  <2>3. ASSUME ~ended', NEW r \in seen'
        PROVE  Column[r] <= page'.next
    <3>1. CASE r \in B
      BY <1>1, <1>3, <1>4, <2>3, <3>1
    <3>2. CASE r \in A
      <4>1. after # NoToken /\ after \in Int /\ Column[r] <= after /\ Column[r] \in Int
        BY <1>6, <3>2
      <4>2. PICK b \in B : Column[b] = new.next
        BY <1>1, <1>3, <1>4, <2>3
      <4>3. Column[b] > after /\ Column[b] \in Int
        BY <1>3, <1>5, <1>6, <4>1, <4>2 DEF Beyond
      <4>. QED
        BY <1>1, <4>1, <4>2, <4>3
    <3>. QED
      BY <1>4, <3>1, <3>2
  <2>4. ASSUME NEW r \in owed'
        PROVE  (\E s \in seen' : Column[s] = Column[r]) \/ (~ended' /\ Column[r] > page'.next)
    <3>1. r \in D /\ r \notin B /\ r \in table /\ Column[r] \in Int
      BY <1>4, <1>5, <1>6, <2>4
    <3>2. CASE r \in Beyond(after)
      <4>1. new.next # NoToken /\ ~ended' /\ Column[r] >= new.next /\ new.next \in Int
        BY <1>3, <1>4, <3>1, <3>2
      <4>2. Column[r] > new.next \/ \E b \in B : Column[b] = Column[r]
        BY <1>3, <3>1, <4>1
      <4>. QED
        BY <1>1, <1>4, <4>1, <4>2
    <3>3. CASE r \notin Beyond(after)
      BY <1>4, <3>1, <3>3 DEF Beyond
    <3>. QED
      BY <3>2, <3>3
  <2>. QED
    BY <1>1, <1>4, <2>1, <2>2, <2>3, <2>4 DEF ForwardInv, Brought
<1>11. BackwardInv' /\ StartInv' /\ OffsetInv'
  BY <1>1 DEF BackwardInv, StartInv, OffsetInv
<1>. QED
  BY <1>8, <1>9, <1>10, <1>11 DEF PagesInv

LEMMA BackwardStep ==
    ASSUME PageTypes, ~repeated, NEW before \in Int, NEW limit \in Nat \ {0}, NEW rows,
           NEW A \in SUBSET Row, NEW D \in SUBSET table,
           \A s \in A : Column[s] >= before,
           \A r \in D : (\E s \in A : Column[s] = Column[r]) \/ Column[r] < before,
           Backward(before, limit, rows, A, D)
    PROVE  PagesInv'
<1>1. PICK new :
        /\ new = BackwardPage(rows, limit)
        /\ rows \in LastRows(before, limit + 1)
        /\ walk' = "backward"
        /\ page' = new
        /\ Deliver(ToSet(new.data), A, D, new.prev = NoToken)
        /\ UNCHANGED <<table, offset, changed>>
  BY DEF Backward
<1>2. PICK B : B = ToSet(new.data)
  OBVIOUS
<1>3. /\ new.data \in Seq(Row)
      /\ B \subseteq Behind(before)
      /\ new.prev \in Int \cup {NoToken}
      /\ new.prev = NoToken => Behind(before) \subseteq B
      /\ new.prev # NoToken =>
            /\ \A r \in B : Column[r] >= new.prev
            /\ \E r \in B : Column[r] = new.prev
            /\ \A r \in Behind(before) \ B : Column[r] <= new.prev
      /\ new.next \in Int \cup {NoToken}
      /\ new.next # NoToken =>
            /\ \A r \in B : Column[r] <= new.next
            /\ \E r \in B : Column[r] = new.next
  BY <1>1, <1>2, BackwardPageIs
<1>4. /\ repeated' = (repeated \/ B \cap A # {})
      /\ seen' = A \cup B
      /\ owed' = D \ B
      /\ ended' = (new.prev = NoToken)
  BY <1>1, <1>2 DEF Deliver
<1>5. Behind(before) \subseteq table /\ table \subseteq Row
  BY DEF Behind, PageTypes
<1>6. \A r \in Row : Column[r] \in Int
  BY PaginationAssumption
<1>7. B \cap A = {}
  BY <1>3, <1>5, <1>6 DEF Behind
<1>8. PageTypes'
  BY <1>1, <1>3, <1>4, <1>5, <1>7 DEF PageTypes
<1>9. TokenInv'
  BY <1>1, <1>2, <1>3 DEF TokenInv
<1>10. BackwardInv'
  <2>1. ~repeated'
    BY <1>4, <1>7
  <2>2. ToSet(page.data)' \subseteq seen'
    BY <1>1, <1>2, <1>4 DEF ToSet
  <2>3. ASSUME ~ended', NEW r \in seen'
        PROVE  Column[r] >= page'.prev
    <3>1. CASE r \in B
      BY <1>1, <1>3, <1>4, <2>3, <3>1
    <3>2. CASE r \in A
      <4>1. Column[r] >= before /\ Column[r] \in Int
        BY <1>6, <3>2
      <4>2. PICK b \in B : Column[b] = new.prev
        BY <1>1, <1>3, <1>4, <2>3
      <4>3. Column[b] < before /\ Column[b] \in Int
        BY <1>3, <1>5, <1>6, <4>2 DEF Behind
      <4>. QED
        BY <1>1, <4>1, <4>2, <4>3
    <3>. QED
      BY <1>4, <3>1, <3>2
  <2>4. ASSUME NEW r \in owed'
        PROVE  (\E s \in seen' : Column[s] = Column[r]) \/ (~ended' /\ Column[r] < page'.prev)
    <3>1. r \in D /\ r \notin B /\ r \in table /\ Column[r] \in Int
      BY <1>4, <1>5, <1>6, <2>4
    <3>2. CASE r \in Behind(before)
      <4>1. new.prev # NoToken /\ ~ended' /\ Column[r] <= new.prev /\ new.prev \in Int
        BY <1>3, <1>4, <3>1, <3>2
      <4>2. Column[r] < new.prev \/ \E b \in B : Column[b] = Column[r]
        BY <1>3, <3>1, <4>1
      <4>. QED
        BY <1>1, <1>4, <4>1, <4>2
    <3>3. CASE r \notin Behind(before)
      BY <1>4, <3>1, <3>3 DEF Behind
    <3>. QED
      BY <3>2, <3>3
  <2>. QED
    BY <1>1, <1>4, <2>1, <2>2, <2>3, <2>4 DEF BackwardInv, Brought
<1>11. ForwardInv' /\ StartInv' /\ OffsetInv'
  BY <1>1 DEF ForwardInv, StartInv, OffsetInv
<1>. QED
  BY <1>8, <1>9, <1>10, <1>11 DEF PagesInv

LEMMA FirstPageKeepsPagesInv == PagesInv /\ FirstPage => PagesInv'
<1> SUFFICES ASSUME PagesInv, FirstPage PROVE PagesInv'
  OBVIOUS
<1>1. PICK limit \in AcceptedLimit : \E rows : Forward(NoToken, limit, rows, {}, table)
  BY DEF FirstPage, Forward
<1>2. PICK rows : Forward(NoToken, limit, rows, {}, table)
  BY <1>1
<1>3. PageTypes /\ ~repeated
  BY DEF FirstPage, PagesInv, StartInv
<1>4. limit \in Nat \ {0}
  BY AcceptedIs
<1>. QED
  BY <1>2, <1>3, <1>4, ForwardStep

LEMMA AfterKeepsPagesInv == PagesInv /\ After => PagesInv'
<1> SUFFICES ASSUME PagesInv, After PROVE PagesInv'
  OBVIOUS
<1>1. PICK ahead, A, D :
        /\ ahead = {r \in table \ ToSet(page.data) : Column[r] >= page.next}
        /\ A = IF walk = "backward" THEN ToSet(page.data) ELSE seen
        /\ D = IF walk = "backward" THEN ahead ELSE owed
  OBVIOUS
<1>2. page.next # NoToken /\ page.next \in Int
  BY DEF After, PagesInv, PageTypes
<1>3. PICK v \in Int : v = page.next /\ v # NoToken
  BY <1>2
<1>4. PICK limit \in AcceptedLimit : \E rows : Forward(v, limit, rows, A, D)
  BY <1>1, <1>3 DEF After, Forward
<1>5. PICK rows : Forward(v, limit, rows, A, D)
  BY <1>4
<1>6. limit \in Nat \ {0}
  BY AcceptedIs
<1>7. walk \in {"forward", "backward"}
  BY <1>2 DEF PagesInv, StartInv, NoPage, PageTypes
<1>8. ToSet(page.data) \subseteq Row /\ table \subseteq Row
  BY DEF ToSet, PagesInv, PageTypes
<1>9. \A r \in Row : Column[r] \in Int
  BY PaginationAssumption
<1>10. /\ ~repeated
       /\ A \in SUBSET Row /\ D \in SUBSET table
       /\ \A s \in A : Column[s] <= v
       /\ \A r \in D : (\E s \in A : Column[s] = Column[r]) \/ Column[r] > v
  <2>1. CASE walk = "forward"
    <3>1. A = seen /\ D = owed
      BY <1>1, <2>1
    <3>. QED
      BY <1>2, <1>3, <2>1, <3>1 DEF PagesInv, PageTypes, ForwardInv, Brought
  <2>2. CASE walk = "backward"
    <3>1. A = ToSet(page.data) /\ D = ahead
      BY <1>1, <2>2
    <3>2. D \in SUBSET table
      BY <1>1, <3>1
    <3>3. /\ \A r \in A : Column[r] <= v
          /\ \E r \in A : Column[r] = v
      BY <1>2, <1>3, <3>1 DEF PagesInv, TokenInv
    <3>4. \A r \in D : (\E s \in A : Column[s] = Column[r]) \/ Column[r] > v
      BY <1>1, <1>2, <1>3, <1>8, <1>9, <3>1, <3>3
    <3>. QED
      BY <1>8, <2>2, <3>1, <3>2, <3>3, <3>4 DEF PagesInv, BackwardInv
  <2>. QED
    BY <1>7, <2>1, <2>2
<1>11. PageTypes
  BY DEF PagesInv
<1>. QED
  BY <1>3, <1>5, <1>6, <1>10, <1>11, ForwardStep

LEMMA BeforeKeepsPagesInv == PagesInv /\ Before => PagesInv'
<1> SUFFICES ASSUME PagesInv, Before PROVE PagesInv'
  OBVIOUS
<1>1. PICK behind, A, D :
        /\ behind = {r \in table \ ToSet(page.data) : Column[r] <= page.prev}
        /\ A = IF walk = "forward" THEN ToSet(page.data) ELSE seen
        /\ D = IF walk = "forward" THEN behind ELSE owed
  OBVIOUS
<1>2. page.prev # NoToken /\ page.prev \in Int
  BY DEF Before, PagesInv, PageTypes
<1>3. PICK v \in Int : v = page.prev /\ v # NoToken
  BY <1>2
<1>4. PICK limit \in AcceptedLimit : \E rows : Backward(v, limit, rows, A, D)
  BY <1>1, <1>3 DEF Before, Backward
<1>5. PICK rows : Backward(v, limit, rows, A, D)
  BY <1>4
<1>6. limit \in Nat \ {0}
  BY AcceptedIs
<1>7. walk \in {"forward", "backward"}
  BY <1>2 DEF PagesInv, StartInv, NoPage, PageTypes
<1>8. ToSet(page.data) \subseteq Row /\ table \subseteq Row
  BY DEF ToSet, PagesInv, PageTypes
<1>9. \A r \in Row : Column[r] \in Int
  BY PaginationAssumption
<1>10. /\ ~repeated
       /\ A \in SUBSET Row /\ D \in SUBSET table
       /\ \A s \in A : Column[s] >= v
       /\ \A r \in D : (\E s \in A : Column[s] = Column[r]) \/ Column[r] < v
  <2>1. CASE walk = "backward"
    <3>1. A = seen /\ D = owed
      BY <1>1, <2>1
    <3>. QED
      BY <1>2, <1>3, <2>1, <3>1 DEF PagesInv, PageTypes, BackwardInv, Brought
  <2>2. CASE walk = "forward"
    <3>1. A = ToSet(page.data) /\ D = behind
      BY <1>1, <2>2
    <3>2. D \in SUBSET table
      BY <1>1, <3>1
    <3>3. /\ \A r \in A : Column[r] >= v
          /\ \E r \in A : Column[r] = v
      BY <1>2, <1>3, <3>1 DEF PagesInv, TokenInv
    <3>4. \A r \in D : (\E s \in A : Column[s] = Column[r]) \/ Column[r] < v
      BY <1>1, <1>2, <1>3, <1>8, <1>9, <3>1, <3>3
    <3>. QED
      BY <1>8, <2>2, <3>1, <3>2, <3>3, <3>4 DEF PagesInv, ForwardInv
  <2>. QED
    BY <1>7, <2>1, <2>2
<1>11. PageTypes
  BY DEF PagesInv
<1>. QED
  BY <1>3, <1>5, <1>6, <1>10, <1>11, BackwardStep

-----------------------------------------------------------------------------
(* The walk by page number, and the table *)

\* The places of the rows count from 1 to the number of rows.
LEMMA PlaceIs ==
    ASSUME PageTypes
    PROVE  /\ Cardinality(table) \in Nat
           /\ \A r \in table : Place(r) \in Nat /\ 1 <= Place(r) /\ Place(r) <= Cardinality(table)
<1>1. IsFiniteSet(table) /\ Cardinality(table) \in Nat
  BY PaginationAssumption, FS_Subset, FS_CardinalityType DEF PageTypes
<1>2. ASSUME NEW r \in table
      PROVE  Place(r) \in Nat /\ 1 <= Place(r) /\ Place(r) <= Cardinality(table)
  <2>1. PICK S : S = {x \in table : x <= r}
    OBVIOUS
  <2>2. S \in SUBSET table /\ r \in S
    <3>1. r \in Int
      BY PaginationAssumption DEF PageTypes
    <3>. QED
      BY <2>1, <3>1
  <2>3. IsFiniteSet(S) /\ Cardinality(S) \in Nat /\ Cardinality(S) <= Cardinality(table)
    BY <1>1, <2>2, FS_Subset, FS_CardinalityType
  <2>4. Cardinality(S) # 0
    BY <2>2, <2>3, FS_EmptySet
  <2>. QED
    BY <2>1, <2>3, <2>4 DEF Place
<1>. QED
  BY <1>1, <1>2

\* Pages up to div_ceil hold all rows.
LEMMA DivCeil ==
    ASSUME NEW n \in Nat, NEW m \in Nat \ {0}, NEW k \in Nat, ~(k < (n + m - 1) \div m)
    PROVE  n <= k * m
<1>1. PICK q \in Int : q = (n + m - 1) \div m
  OBVIOUS
<1>2. n + m - 1 < (q + 1) * m
  BY <1>1, Z3
<1>3. q + 1 <= k + 1
  BY <1>1
<1>4. (q + 1) * m <= (k + 1) * m
  BY <1>3
<1>5. (k + 1) * m = k * m + m /\ k * m \in Int /\ (q + 1) * m \in Int
  OBVIOUS
<1>. QED
  BY <1>2, <1>4, <1>5

\* Nothing but the walk by number and the table changes.
LEMMA OffsetStep ==
    ASSUME PagesInv, walk = "offset", walk' = "offset", UNCHANGED page, PageTypes', OffsetInv'
    PROVE  PagesInv'
<1>1. TokenInv' /\ StartInv'
  BY DEF PagesInv, TokenInv, StartInv
<1>2. ForwardInv' /\ BackwardInv'
  BY DEF ForwardInv, BackwardInv
<1>. QED
  BY <1>1, <1>2 DEF PagesInv

LEMMA StartOffsetKeepsPagesInv == PagesInv /\ StartOffset => PagesInv'
<1> SUFFICES ASSUME PagesInv, StartOffset PROVE PagesInv'
  OBVIOUS
<1>1. PICK n \in AcceptedLimit : offset' = [NoOffset EXCEPT !.page = 1, !.per_page = n]
  BY DEF StartOffset
<1>2. /\ walk = "none" /\ walk' = "offset"
      /\ owed' = table
      /\ UNCHANGED <<table, page, ended, seen, repeated, changed>>
  BY DEF StartOffset
<1>3. n \in Nat \ {0}
  BY AcceptedIs
<1>4. /\ offset'.page = 1 /\ offset'.per_page = n
      /\ offset'.items = {} /\ offset'.got = {}
  BY <1>1 DEF NoOffset
<1>5. PageTypes /\ PageTypes'
  BY <1>1, <1>2, <1>3 DEF PagesInv, PageTypes, NoOffset
<1>6. page = NoPage /\ seen = {} /\ ~repeated /\ ~ended /\ ~changed
  BY <1>2 DEF PagesInv, StartInv
<1>7. Read' = 0
  BY <1>3, <1>4 DEF Read
<1>8. \A r \in table : Place(r)' = Place(r) /\ ~(Place(r) <= 0)
  BY <1>2, <1>5, PlaceIs DEF Place
<1>9. seen' = {r \in table' : Place(r)' <= Read'}
  BY <1>2, <1>6, <1>7, <1>8
<1>10. OffsetInv'
  BY <1>2, <1>3, <1>4, <1>6, <1>9 DEF OffsetInv
<1>11. TokenInv' /\ StartInv' /\ ForwardInv' /\ BackwardInv'
  BY <1>2, <1>6 DEF PagesInv, TokenInv, StartInv, ForwardInv, BackwardInv
<1>. QED
  BY <1>5, <1>10, <1>11 DEF PagesInv

LEMMA FetchPageKeepsPagesInv == PagesInv /\ FetchPage => PagesInv'
<1> SUFFICES ASSUME PagesInv, FetchPage PROVE PagesInv'
  OBVIOUS
<1>1. PICK items : items = {r \in table : Read < Place(r) /\ Place(r) <= Read + offset.per_page}
  OBVIOUS
<1>2. /\ walk = "offset" /\ ~ended
      /\ offset' = [offset EXCEPT !.got = offset.got \cup {"items"}, !.items = items]
      /\ UNCHANGED <<table, page, walk, ended, owed, seen, repeated, changed>>
  BY <1>1 DEF FetchPage, Read
<1>3. PageTypes
  BY DEF PagesInv
<1>4. items \subseteq Row
  BY <1>1, <1>3 DEF PageTypes
<1>5. /\ offset'.page = offset.page /\ offset'.per_page = offset.per_page
      /\ offset'.items = items /\ offset'.total = offset.total
      /\ offset'.got = offset.got \cup {"items"}
  BY <1>2, <1>3 DEF PageTypes
<1>6. PageTypes'
  BY <1>2, <1>3, <1>4 DEF PageTypes
<1>7. Read' = Read /\ \A r : Place(r)' = Place(r)
  BY <1>2, <1>5 DEF Read, Place
<1>8. OffsetInv'
  BY <1>1, <1>2, <1>5, <1>7 DEF PagesInv, OffsetInv
<1>. QED
  BY <1>2, <1>6, <1>8, OffsetStep

LEMMA NumItemsKeepsPagesInv == PagesInv /\ NumItems => PagesInv'
<1> SUFFICES ASSUME PagesInv, NumItems PROVE PagesInv'
  OBVIOUS
<1>1. PICK n : n = Cardinality(table)
  OBVIOUS
<1>2. /\ walk = "offset" /\ ~ended
      /\ offset' = [offset EXCEPT !.got = offset.got \cup {"total"}, !.total = n]
      /\ UNCHANGED <<table, page, walk, ended, owed, seen, repeated, changed>>
  BY <1>1 DEF NumItems
<1>3. PageTypes
  BY DEF PagesInv
<1>4. n \in Nat
  BY <1>1, <1>3, PlaceIs
<1>5. /\ offset'.page = offset.page /\ offset'.per_page = offset.per_page
      /\ offset'.items = offset.items /\ offset'.total = n
      /\ offset'.got = offset.got \cup {"total"}
  BY <1>2, <1>3 DEF PageTypes
<1>6. PageTypes'
  BY <1>2, <1>3, <1>4 DEF PageTypes
<1>7. Read' = Read /\ \A r : Place(r)' = Place(r)
  BY <1>2, <1>5 DEF Read, Place
<1>8. OffsetInv'
  BY <1>1, <1>2, <1>5, <1>7 DEF PagesInv, OffsetInv
<1>. QED
  BY <1>2, <1>6, <1>8, OffsetStep

LEMMA PaginatedKeepsPagesInv == PagesInv /\ Paginated => PagesInv'
<1> SUFFICES ASSUME PagesInv, Paginated PROVE PagesInv'
  OBVIOUS
<1>1. /\ walk = "offset" /\ ~ended
      /\ offset.got = {"items", "total"}
      /\ repeated' = (repeated \/ offset.items \cap seen # {})
      /\ seen' = seen \cup offset.items
      /\ owed' = owed \ offset.items
      /\ ended' = ~(offset.page < TotalPages)
      /\ offset' = [offset EXCEPT !.page = offset.page + 1, !.got = {}]
      /\ UNCHANGED <<table, page, walk, changed>>
  BY DEF Paginated, Deliver
<1>2. PageTypes
  BY DEF PagesInv
<1>3. PICK k \in Nat \ {0}, m \in Nat \ {0} : k = offset.page /\ m = offset.per_page
  BY <1>1, <1>2 DEF PagesInv, PageTypes, OffsetInv
<1>4. /\ offset'.page = k + 1 /\ offset'.per_page = m /\ offset'.got = {}
  BY <1>1, <1>2, <1>3 DEF PageTypes
<1>5. PageTypes'
  <2>1. offset' \in [page : Nat, per_page : Nat, got : SUBSET {"items", "total"},
                      items : SUBSET Row, total : Nat]
    <3>1. k + 1 \in Nat /\ offset' = [offset EXCEPT !.page = k + 1, !.got = {}]
      BY <1>1, <1>3
    <3>. QED
      BY <1>2, <3>1 DEF PageTypes
  <2>2. offset.items \subseteq Row
    BY <1>2 DEF PageTypes
  <2>3. seen' \subseteq Row /\ owed' \subseteq table'
    BY <1>1, <1>2, <2>2 DEF PageTypes
  <2>4. repeated' \in BOOLEAN /\ ended' \in BOOLEAN
    BY <1>1
  <2>. QED
    BY <1>1, <1>2, <2>1, <2>3, <2>4 DEF PageTypes
<1>6. Read = (k - 1) * m /\ Read' = k * m
  <2>1. Read = (k - 1) * m /\ Read' = ((k + 1) - 1) * m
    BY <1>3, <1>4 DEF Read
  <2>2. (k + 1) - 1 = k
    OBVIOUS
  <2>. QED
    BY <2>1, <2>2
<1>7. Read' = Read + m /\ Read \in Int
  BY <1>6
<1>8. /\ Cardinality(table) \in Nat
      /\ \A r \in table : Place(r) \in Nat /\ Place(r) <= Cardinality(table) /\ Place(r)' = Place(r)
  BY <1>1, <1>2, PlaceIs DEF Place
<1>9. ASSUME ~changed
      PROVE  /\ ~repeated'
             /\ seen' = {r \in table : Place(r) <= Read'}
             /\ owed' = table \ seen'
             /\ ended' => owed' = {}
  <2>1. /\ ~repeated
        /\ seen = {r \in table : Place(r) <= Read}
        /\ owed = table \ seen
        /\ offset.items = {r \in table : Read < Place(r) /\ Place(r) <= Read + m}
        /\ offset.total = Cardinality(table)
    BY <1>1, <1>3, <1>9 DEF PagesInv, OffsetInv
  <2>2. offset.items \cap seen = {}
    BY <1>7, <1>8, <2>1
  <2>3. seen' = {r \in table : Place(r) <= Read'}
    BY <1>1, <1>7, <1>8, <2>1
  <2>4. owed' = table \ seen'
    BY <1>1, <2>1
  <2>5. ASSUME ended' PROVE owed' = {}
    <3>1. ~(k < (Cardinality(table) + m - 1) \div m)
      BY <1>1, <1>3, <2>1, <2>5 DEF TotalPages
    <3>2. Cardinality(table) <= k * m /\ k * m \in Int
      BY <1>8, <3>1, DivCeil
    <3>3. \A r \in table : Place(r) <= Read'
      BY <1>6, <1>8, <3>2
    <3>. QED
      BY <2>3, <2>4, <3>3
  <2>. QED
    BY <1>1, <2>1, <2>2, <2>3, <2>4, <2>5
<1>10. OffsetInv'
  <2>1. {r \in table : Place(r) <= Read'} = {r \in table' : Place(r)' <= Read'}
    BY <1>1, <1>8
  <2>. QED
    BY <1>1, <1>3, <1>4, <1>9, <2>1 DEF OffsetInv
<1>. QED
  BY <1>1, <1>5, <1>10, OffsetStep

\* Rows come and go: what is owed stays owed or is gone, and a walk by number
\* has no promise any more.
LEMMA TableStep ==
    ASSUME PagesInv, table' \subseteq Row, owed' \subseteq owed \cap table',
           changed' = (changed \/ walk # "none"),
           UNCHANGED <<page, walk, offset, ended, seen, repeated>>
    PROVE  PagesInv'
<1>1. PageTypes'
  BY DEF PagesInv, PageTypes
<1>2. TokenInv'
  BY DEF PagesInv, TokenInv
<1>3. ForwardInv'
  BY DEF PagesInv, ForwardInv, Brought
<1>4. BackwardInv'
  BY DEF PagesInv, BackwardInv, Brought
<1>5. StartInv'
  BY DEF PagesInv, StartInv
<1>6. OffsetInv'
  BY DEF PagesInv, OffsetInv
<1>. QED
  BY <1>1, <1>2, <1>3, <1>4, <1>5, <1>6 DEF PagesInv

LEMMA InsertRowKeepsPagesInv == PagesInv /\ InsertRow => PagesInv'
<1> SUFFICES ASSUME PagesInv, InsertRow PROVE PagesInv'
  OBVIOUS
<1>1. table \subseteq Row /\ owed \subseteq table
  BY DEF PagesInv, PageTypes
<1>2. table' \subseteq Row /\ owed' \subseteq owed \cap table'
  BY <1>1 DEF InsertRow
<1>. QED
  BY <1>2, TableStep DEF InsertRow

LEMMA DeleteRowKeepsPagesInv == PagesInv /\ DeleteRow => PagesInv'
<1> SUFFICES ASSUME PagesInv, DeleteRow PROVE PagesInv'
  OBVIOUS
<1>1. table \subseteq Row /\ owed \subseteq table
  BY DEF PagesInv, PageTypes
<1>2. table' \subseteq Row /\ owed' \subseteq owed \cap table'
  BY <1>1 DEF DeleteRow
<1>. QED
  BY <1>2, TableStep DEF DeleteRow

-----------------------------------------------------------------------------
(* The theorem *)

LEMMA InitPagesInv == PageInit => PagesInv
<1> SUFFICES ASSUME PageInit PROVE PagesInv
  OBVIOUS
<1> USE DEF PageInit
<1>1. page.data = <<>> /\ page.next = NoToken /\ page.prev = NoToken
  BY DEF NoPage
<1>2. offset \in [page : Nat, per_page : Nat, got : SUBSET {"items", "total"},
                  items : SUBSET Row, total : Nat]
  BY DEF NoOffset
<1>3. PageTypes
  <2>1. page.data \in Seq(Row)
    BY <1>1
  <2>. QED
    BY <1>1, <1>2, <2>1 DEF PageTypes
<1>. QED
  BY <1>1, <1>3 DEF PagesInv, TokenInv, ForwardInv, BackwardInv, StartInv, OffsetInv

LEMMA StepPagesInv == PagesInv /\ [PageNext]_pageVars => PagesInv'
<1>1. ASSUME PagesInv, UNCHANGED pageVars
      PROVE  PagesInv'
  <2>1. UNCHANGED <<table, page, walk, offset, ended, owed, seen, repeated, changed>>
    BY <1>1 DEF pageVars
  <2>2. PageTypes' /\ TokenInv' /\ StartInv'
    BY <1>1, <2>1 DEF PagesInv, PageTypes, TokenInv, StartInv
  <2>3. ForwardInv' /\ BackwardInv'
    BY <1>1, <2>1 DEF PagesInv, ForwardInv, BackwardInv, Brought
  <2>4. Read' = Read /\ \A r : Place(r)' = Place(r)
    BY <2>1 DEF Read, Place
  <2>5. OffsetInv'
    BY <1>1, <2>1, <2>4 DEF PagesInv, OffsetInv
  <2>. QED
    BY <2>2, <2>3, <2>5 DEF PagesInv
<1>. QED
  BY <1>1, FirstPageKeepsPagesInv, AfterKeepsPagesInv, BeforeKeepsPagesInv, StartOffsetKeepsPagesInv,
     FetchPageKeepsPagesInv, NumItemsKeepsPagesInv, PaginatedKeepsPagesInv, InsertRowKeepsPagesInv,
     DeleteRowKeepsPagesInv DEF PageNext

\* Walking over a table by cursor brings no row twice and misses no row that
\* stays, but for rows with equal values, whatever rows come and go between two
\* calls of CursorPaginate::exec_by; walking by number does as well, as long
\* as the table stays as it is between the calls of Paginate::exec.
THEOREM EveryWalkCovers == PageSpec => []WalksCover
<1>1. PagesInv => WalksCover
  BY DEF PagesInv, ForwardInv, BackwardInv, OffsetInv, Brought, WalksCover, CursorWalkCovers,
         OffsetWalkCovers
<1>2. PageSpec => []PagesInv
  BY InitPagesInv, StepPagesInv, PTL DEF PageSpec
<1>. QED
  BY <1>1, <1>2, PTL

=============================================================================
