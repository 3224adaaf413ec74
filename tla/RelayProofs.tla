----------------------------- MODULE RelayProofs -----------------------------
(***************************************************************************)
(* Theorems about Relay, for any number of connections, topics, tasks and  *)
(* pushes, and any capacities: its types, and the four invariants that     *)
(* tell what a subscriber, a client, the presence map and the limit of     *)
(* subscriptions can count on.                                             *)
(***************************************************************************)
EXTENDS Relay, FiniteSetTheorems, TLAPS

-----------------------------------------------------------------------------
(* The inductive invariant *)

\* The receiver of f exists.
Alive(f) == fwd[f].task \notin {"none", "gone"}

\* Every receiver listens to the channel that is registered, and so will the
\* one connection_loop is about to make: a topic's channel is made once.
ChannelInv ==
    /\ \A f \in Forwarder :
          Alive(f) => /\ fwd[f].conn \in Conn
                      /\ fwd[f].topic \in Topic
                      /\ fwd[f].chan = topics[fwd[f].topic]
                      /\ fwd[f].chan # 0
    /\ \A c \in Conn : pc[c] = "subscribe" => /\ arg[c] \in Topic
                                              /\ chan[c] = topics[arg[c]]
                                              /\ chan[c] # 0

\* Where connection_loop is, and what it has in `subscriptions` by then.
LoopInv ==
    \A c \in Conn :
        /\ pc[c] \in {"subscribe", "join", "message", "untrack", "close_untrack"} => arg[c] \in Topic
        /\ pc[c] = "subscribe" => subs[c][arg[c]] = 0
        /\ pc[c] \in {"join", "message"} => subs[c][arg[c]] # 0
        /\ pc[c] = "closed" => \A t \in Topic : subs[c][t] = 0

\* A connection that has not ended has in `subscriptions` the tasks it has
\* not aborted, each under its topic, and no others.
SubsInv ==
    /\ \A f \in Forwarder : f \in aborted => Alive(f)
    /\ \A f \in Forwarder : ~Alive(f) => fwd[f].conn = NoConn
    /\ \A c \in Conn, t \in Topic :
          subs[c][t] # 0 => /\ fwd[subs[c][t]].conn = c
                            /\ fwd[subs[c][t]].topic = t
                            /\ fwd[subs[c][t]].task \in {"idle", "polling"}
                            /\ subs[c][t] \notin aborted
    /\ \A f \in Forwarder :
          Alive(f) /\ f \notin aborted /\ pc[fwd[f].conn] # "closed"
              => subs[fwd[f].conn][fwd[f].topic] = f

\* The tasks TasksBounded counts.
Active(c) == {f \in Forwarder : /\ fwd[f].conn = c
                                /\ fwd[f].task # "gone"
                                /\ f \notin aborted}

\* The limit is kept, with room for the subscription that is being made.
BoundInv ==
    \A c \in Conn : /\ Cardinality(Active(c)) <= max_subscriptions
                    /\ pc[c] = "subscribe" => Cardinality(Active(c)) < max_subscriptions

\* f forwards the pushes of t to c.
Serves(f, c, t) == /\ fwd[f].conn = c
                   /\ fwd[f].topic = t
                   /\ fwd[f].task \in {"idle", "polling"}

\* The pushes of t in s come in the order pushed.
Sorted(s, t) == \A i, k \in 1 .. Len(s) : i < k /\ s[i][1] = t /\ s[k][1] = t => s[i][2] < s[k][2]

\* The pushes of t in s are older than message n.
Older(s, t, n) == \A i \in 1 .. Len(s) : s[i][1] = t => s[i][2] < n

\* The pushes of t in s are older than those in r.
Ahead(s, r, t) == \A k \in 1 .. Len(r) : r[k][1] = t => Older(s, t, r[k][2])

\* The first message of t that f has still to forward, or a later one.
Upcoming(f) == IF fwd[f].held = 0 THEN fwd[f].cursor + 1 ELSE fwd[f].held

\* What c was sent of t, what waits in its funnel, what its task holds and
\* what the task has not read follow one another, in this order; before the
\* first subscription there is nothing.
OrderAt(c, t) ==
    /\ Sorted(delivered[c], t)
    /\ Sorted(funnel[c], t)
    /\ Ahead(delivered[c], funnel[c], t)
    /\ \A f \in Forwarder :
          Serves(f, c, t) =>
              /\ fwd[f].held \in {0, fwd[f].cursor}
              /\ Older(delivered[c], t, Upcoming(f))
              /\ Older(funnel[c], t, Upcoming(f))
    /\ \A f, g \in Forwarder : Serves(f, c, t) /\ Serves(g, c, t) => f = g
    /\ subs[c][t] = 0 /\ pc[c] \notin {"closing", "close_untrack", "closed"} =>
          /\ \A f \in Forwarder : ~Serves(f, c, t)
          /\ Older(delivered[c], t, 0)
          /\ Older(funnel[c], t, 0)

OrderInv == \A c \in Conn, t \in Topic : <<c, t>> \notin refused \cup left => OrderAt(c, t)

IInv == TypeOK /\ ChannelInv /\ LoopInv /\ SubsInv /\ BoundInv /\ OrderInv /\ PresenceExact

-----------------------------------------------------------------------------
(* What the helpers do. *)

\* BackendPush adds a message to the topic's channel, or none.
LEMMA PushedLog ==
    ASSUME TypeOK, NEW t \in Topic, BackendPush(t)
    PROVE  /\ log' \in [Topic -> Seq(Nat)]
           /\ \A u \in Topic : Len(log[u]) <= Len(log'[u])
<1>1. log' = IF topics[t] = 0 THEN log ELSE [log EXCEPT ![t] = Append(@, topics[t])]
  BY DEF BackendPush
<1>2. topics[t] \in Nat /\ log \in [Topic -> Seq(Nat)]
  BY DEF TypeOK
<1>. QED
  BY <1>1, <1>2

\* Subscribing makes a channel only where there is none.
LEMMA EntryIs ==
    ASSUME TypeOK, NEW t \in Topic, BackendEntry(t)
    PROVE  /\ topics' \in [Topic -> Nat]
           /\ created' \in [Topic -> Nat]
           /\ topics'[t] # 0
           /\ \A u \in Topic : topics[u] # 0 => topics'[u] = topics[u]
<1>1. created[t] \in Nat /\ created[t] + 1 \in Nat /\ created[t] + 1 # 0
  BY DEF TypeOK
<1>2. CASE topics[t] # 0
  BY <1>2 DEF BackendEntry, TypeOK
<1>3. CASE topics[t] = 0
  <2>1. created' = [created EXCEPT ![t] = created[t] + 1]
        /\ topics' = [topics EXCEPT ![t] = created[t] + 1]
    BY <1>3 DEF BackendEntry
  <2>. QED
    BY <1>1, <1>3, <2>1 DEF TypeOK
<1>. QED
  BY <1>2, <1>3

\* A message a receiver has not read comes after its cursor.
LEMMA RetainedIs ==
    ASSUME TypeOK, NEW f \in Forwarder, fwd[f].topic \in Topic, NEW i \in Retained(f)
    PROVE  i \in Nat /\ i > fwd[f].cursor
  BY DEF TypeOK, Retained

-----------------------------------------------------------------------------
(* Type correctness *)

LEMMA InitTypeOK == Init => TypeOK
<1> SUFFICES ASSUME Init PROVE TypeOK
  OBVIOUS
<1>1. fwd \in [Forwarder -> Task]
  BY DEF Init, Unspawned, Task
<1>. QED
  BY <1>1 DEF Init, TypeOK, PC, Forwarder

\* A task that moves on is still a task.
LEMMA MovedTask ==
    ASSUME NEW r \in Task, NEW v \in Nat, NEW w \in Nat,
           NEW l \in {"none", "idle", "polling", "dropping", "gone"}
    PROVE  /\ [r EXCEPT !.held = v, !.cursor = w, !.task = l] \in Task
           /\ [r EXCEPT !.held = v, !.task = l] \in Task
           /\ [r EXCEPT !.task = l, !.held = v, !.cursor = w] \in Task
           /\ [r EXCEPT !.task = l] \in Task
  BY DEF Task

\* The steps of a task keep the types.
LEMMA TaskTypeOK ==
    ASSUME TypeOK, ChannelInv, NEW f \in Forwarder, TaskStep(f)
    PROVE  TypeOK'
<1>2. CASE Recv(f)
  <2>1. fwd[f].topic \in Topic
    BY <1>2 DEF Recv, Runs, ChannelInv, Alive
  <2>2. PICK i \in Nat : fwd' = [fwd EXCEPT ![f] = [@ EXCEPT !.held = i, !.cursor = i, !.task = "polling"]]
    BY <1>2, <2>1, RetainedIs DEF Recv
  <2>3. fwd' \in [Forwarder -> Task]
    BY <2>2, MovedTask DEF TypeOK
  <2>. QED
    BY <1>2, <2>3 DEF Recv, TypeOK, backendVars, connVars, history
<1>3. CASE Forward(f)
  <2>1. fwd[f].conn \in Conn /\ fwd[f].topic \in Topic
    BY <1>3 DEF Forward, Runs, ChannelInv, Alive
  <2>2. <<fwd[f].topic, fwd[f].held>> \in Topic \X Nat
    BY <2>1 DEF TypeOK, Task
  <2>3. funnel' \in [Conn -> Seq(Topic \X Nat)]
    BY <1>3, <2>1, <2>2 DEF Forward, TypeOK
  <2>4. fwd' \in [Forwarder -> Task]
    BY <1>3, MovedTask DEF Forward, TypeOK
  <2>. QED
    BY <1>3, <2>3, <2>4 DEF Forward, TypeOK, backendVars, connVars, history
<1>4. CASE Park(f)
  <2>1. fwd' = [fwd EXCEPT ![f] = [@ EXCEPT !.task = "idle"]]
    BY <1>4 DEF Park
  <2>2. fwd' \in [Forwarder -> Task]
    BY <2>1, MovedTask DEF TypeOK
  <2>. QED
    BY <1>4, <2>2 DEF Park, TypeOK, backendVars, connVars, history
<1>5. CASE DropReceiver(f)
  <2>1. fwd' \in [Forwarder -> Task]
    BY <1>5, MovedTask DEF DropReceiver, TypeOK
  <2>2. topics' \in [Topic -> Nat]
    BY <1>5 DEF DropReceiver, TypeOK
  <2>. QED
    BY <1>5, <2>1, <2>2 DEF DropReceiver, TypeOK, connVars, history
<1>6. CASE DropFields(f)
  <2>1. [Unspawned EXCEPT !.task = "gone"] \in Task
    BY DEF Unspawned, Task
  <2>2. fwd' \in [Forwarder -> Task]
    BY <1>6, <2>1 DEF DropFields, TypeOK
  <2>. QED
    BY <1>6, <2>2 DEF DropFields, TypeOK, backendVars, connVars, history
<1>. QED
  BY <1>2, <1>3, <1>4, <1>5, <1>6 DEF TaskStep

\* connection_loop moves to l, with t in hand; the other connections stay.
LEMMA GotoIs ==
    ASSUME TypeOK, NEW c \in Conn, NEW l \in PC, NEW t \in Topic \cup {NoKey}, Goto(c, l, t)
    PROVE  /\ pc' \in [Conn -> PC]
           /\ arg' \in [Conn -> Topic \cup {NoKey}]
           /\ pc'[c] = l /\ arg'[c] = t
           /\ \A d \in Conn : d # c => pc'[d] = pc[d] /\ arg'[d] = arg[d]
  BY DEF Goto, TypeOK

\* A subscription is forgotten and its task marked.
LEMMA AbortIs ==
    ASSUME TypeOK, NEW c \in Conn, NEW t \in Topic, Abort(c, t)
    PROVE  /\ aborted' \subseteq Forwarder
           /\ aborted' = IF subs[c][t] = 0 THEN aborted ELSE aborted \cup {subs[c][t]}
           /\ subs' \in [Conn -> [Topic -> Forwarder \cup {0}]]
           /\ subs'[c][t] = 0
           /\ \A d \in Conn, u \in Topic : d # c \/ u # t => subs'[d][u] = subs[d][u]
<1>1. subs[c][t] \in Forwarder \cup {0}
  BY DEF TypeOK
<1>. QED
  BY <1>1 DEF Abort, TypeOK

\* The presence map and its history, one entry at a time.
LEMMA PresenceSteps ==
    ASSUME TypeOK, NEW c \in Conn, NEW t \in Topic
    PROVE  /\ Track(c, t) => /\ presence' \in [Topic -> {NoKey} \cup SUBSET Conn]
                             /\ tracked' \subseteq Conn \X Topic
           /\ UntrackConn(c, t) => /\ presence' \in [Topic -> {NoKey} \cup SUBSET Conn]
                                   /\ tracked' \subseteq Conn \X Topic
           /\ DropEmpty(t) => presence' \in [Topic -> {NoKey} \cup SUBSET Conn]
<1>1. presence[t] \in {NoKey} \cup SUBSET Conn
  BY DEF TypeOK
<1>2. Track(c, t) => presence' \in [Topic -> {NoKey} \cup SUBSET Conn] /\ tracked' \subseteq Conn \X Topic
  BY <1>1 DEF Track, TypeOK
<1>3. UntrackConn(c, t) => presence' \in [Topic -> {NoKey} \cup SUBSET Conn] /\ tracked' \subseteq Conn \X Topic
  BY <1>1 DEF UntrackConn, TypeOK
<1>4. DropEmpty(t) => presence' \in [Topic -> {NoKey} \cup SUBSET Conn]
  BY <1>1 DEF DropEmpty, TypeOK
<1>. QED
  BY <1>2, <1>3, <1>4

\* The steps of a connection keep the types.
LEMMA LoopTypeOK ==
    ASSUME TypeOK, LoopInv, ChannelInv, NEW c \in Conn, LoopStep(c)
    PROVE  TypeOK'
<1> USE DEF backendVars, taskVars, connVars, history
<1>1. /\ pc[c] \in {"subscribe", "join", "message", "untrack", "close_untrack"} => arg[c] \in Topic
      /\ "select" \in PC /\ "join" \in PC /\ "closing" \in PC /\ "closed" \in PC /\ "close_untrack" \in PC
  BY DEF LoopInv, PC
<1>2. ASSUME NEW f \in Forwarder, Spawn(c, f)
      PROVE  TypeOK'
  <2>1. arg[c] \in Topic /\ chan[c] \in Nat /\ Len(log[arg[c]]) \in Nat
    BY <1>1, <1>2 DEF Spawn, TypeOK
  <2>2. fwd' \in [Forwarder -> Task]
    <3>1. [conn |-> c, topic |-> arg[c], chan |-> chan[c], cursor |-> Len(log[arg[c]]),
           held |-> 0, task |-> "idle"] \in Task
      BY <2>1 DEF Task
    <3>. QED
      BY <1>2, <3>1 DEF Spawn, TypeOK
  <2>3. subs' \in [Conn -> [Topic -> Forwarder \cup {0}]] /\ chan' \in [Conn -> Nat]
    BY <1>2, <2>1 DEF Spawn, TypeOK
  <2>4. pc' \in [Conn -> PC] /\ arg' \in [Conn -> Topic \cup {NoKey}]
    BY <1>1, <1>2, <2>1, GotoIs DEF Spawn
  <2>. QED
    BY <1>2, <2>2, <2>3, <2>4 DEF Spawn, TypeOK
<1>3. CASE HandlerReturns(c)
  <2>1. pc' \in [Conn -> PC] /\ arg' \in [Conn -> Topic \cup {NoKey}]
    BY <1>1, <1>3, GotoIs DEF HandlerReturns
  <2>. QED
    BY <1>3, <2>1 DEF HandlerReturns, TypeOK
<1>4. CASE Unsubscribed(c)
  <2>1. pc' \in [Conn -> PC] /\ arg' \in [Conn -> Topic \cup {NoKey}]
    BY <1>1, <1>4, GotoIs DEF Unsubscribed
  <2>2. presence' \in [Topic -> {NoKey} \cup SUBSET Conn]
    BY <1>1, <1>4, PresenceSteps DEF Unsubscribed
  <2>. QED
    BY <1>4, <2>1, <2>2 DEF Unsubscribed, TypeOK
<1>5. ASSUME NEW t \in Topic, CloseTopic(c, t)
      PROVE  TypeOK'
  <2>1. pc' \in [Conn -> PC] /\ arg' \in [Conn -> Topic \cup {NoKey}]
    BY <1>1, <1>5, GotoIs DEF CloseTopic
  <2>2. presence' \in [Topic -> {NoKey} \cup SUBSET Conn] /\ tracked' \subseteq Conn \X Topic
    BY <1>5, PresenceSteps DEF CloseTopic
  <2>3. aborted' \subseteq Forwarder /\ subs' \in [Conn -> [Topic -> Forwarder \cup {0}]]
    BY <1>5, AbortIs DEF CloseTopic
  <2>. QED
    BY <1>5, <2>1, <2>2, <2>3 DEF CloseTopic, TypeOK
<1>6. CASE TopicClosed(c)
  <2>1. pc' \in [Conn -> PC] /\ arg' \in [Conn -> Topic \cup {NoKey}]
    BY <1>1, <1>6, GotoIs DEF TopicClosed
  <2>2. presence' \in [Topic -> {NoKey} \cup SUBSET Conn]
    BY <1>1, <1>6, PresenceSteps DEF TopicClosed
  <2>. QED
    BY <1>6, <2>1, <2>2 DEF TopicClosed, TypeOK
<1>7. CASE Close(c)
  <2>1. pc' \in [Conn -> PC] /\ arg' \in [Conn -> Topic \cup {NoKey}]
    BY <1>1, <1>7, GotoIs DEF Close
  <2>2. funnel' \in [Conn -> Seq(Topic \X Nat)]
    BY <1>7 DEF Close, TypeOK
  <2>. QED
    BY <1>7, <2>1, <2>2 DEF Close, TypeOK
<1>. QED
  BY <1>2, <1>3, <1>4, <1>5, <1>6, <1>7 DEF LoopStep

\* What clients and handlers make a connection do keeps the types.
LEMMA ClientTypeOK ==
    ASSUME TypeOK, LoopInv, NEW c \in Conn,
           ClientStep(c) \/ HandlerTracks(c) \/ HandlerFault(c) \/ Deliver(c)
    PROVE  TypeOK'
<1> USE DEF backendVars, taskVars, connVars, history
<1>1. /\ pc[c] \in {"subscribe", "join", "message", "untrack", "close_untrack"} => arg[c] \in Topic
      /\ "select" \in PC /\ "subscribe" \in PC /\ "message" \in PC /\ "closing" \in PC
      /\ "closed" \in PC /\ "untrack" \in PC
  BY DEF LoopInv, PC
<1>2. ASSUME NEW t \in Topic, Subscribe(c, t)
      PROVE  TypeOK'
  <2>1. pc' \in [Conn -> PC] /\ arg' \in [Conn -> Topic \cup {NoKey}]
    BY <1>1, <1>2, GotoIs DEF Subscribe
  <2>2. topics' \in [Topic -> Nat] /\ created' \in [Topic -> Nat]
    BY <1>2, EntryIs DEF Subscribe
  <2>3. chan' \in [Conn -> Nat]
    BY <1>2, <2>2 DEF Subscribe, TypeOK
  <2>. QED
    BY <1>2, <2>1, <2>2, <2>3 DEF Subscribe, TypeOK
<1>3. ASSUME NEW t \in Topic, Unsubscribe(c, t)
      PROVE  TypeOK'
  <2>1. pc' \in [Conn -> PC] /\ arg' \in [Conn -> Topic \cup {NoKey}]
    BY <1>1, <1>3, GotoIs DEF Unsubscribe
  <2>2. presence' \in [Topic -> {NoKey} \cup SUBSET Conn] /\ tracked' \subseteq Conn \X Topic
    BY <1>3, PresenceSteps DEF Unsubscribe
  <2>3. aborted' \subseteq Forwarder /\ subs' \in [Conn -> [Topic -> Forwarder \cup {0}]]
    BY <1>3, AbortIs DEF Unsubscribe
  <2>4. left' \subseteq Conn \X Topic
    BY <1>3 DEF Unsubscribe, TypeOK
  <2>. QED
    BY <1>3, <2>1, <2>2, <2>3, <2>4 DEF Unsubscribe, TypeOK
<1>4. ASSUME NEW t \in Topic, MessageToHandler(c, t)
      PROVE  TypeOK'
  <2>1. pc' \in [Conn -> PC] /\ arg' \in [Conn -> Topic \cup {NoKey}]
    BY <1>1, <1>4, GotoIs DEF MessageToHandler
  <2>. QED
    BY <1>4, <2>1 DEF MessageToHandler, TypeOK
<1>5. ASSUME NEW t \in Topic, MessageBroadcast(c, t)
      PROVE  TypeOK'
  BY <1>5, PushedLog DEF MessageBroadcast, TypeOK
<1>6. CASE Hangup(c)
  <2>1. pc' \in [Conn -> PC] /\ arg' \in [Conn -> Topic \cup {NoKey}]
    BY <1>1, <1>6, GotoIs DEF Hangup
  <2>. QED
    BY <1>6, <2>1 DEF Hangup, TypeOK
<1>7. CASE HandlerTracks(c)
  <2>1. presence' \in [Topic -> {NoKey} \cup SUBSET Conn] /\ tracked' \subseteq Conn \X Topic
    BY <1>1, <1>7, PresenceSteps DEF HandlerTracks
  <2>. QED
    BY <1>7, <2>1 DEF HandlerTracks, TypeOK
<1>8. CASE JoinRejected(c)
  <2>1. pc' \in [Conn -> PC] /\ arg' \in [Conn -> Topic \cup {NoKey}]
    BY <1>1, <1>8, GotoIs DEF JoinRejected
  <2>2. aborted' \subseteq Forwarder /\ subs' \in [Conn -> [Topic -> Forwarder \cup {0}]]
    BY <1>1, <1>8, AbortIs DEF JoinRejected
  <2>3. refused' \subseteq Conn \X Topic
    BY <1>1, <1>8 DEF JoinRejected, TypeOK
  <2>. QED
    BY <1>8, <2>1, <2>2, <2>3 DEF JoinRejected, TypeOK
<1>9. CASE HandlerPanics(c)
  <2>1. pc' \in [Conn -> PC] /\ arg' \in [Conn -> Topic \cup {NoKey}]
    BY <1>1, <1>9, GotoIs DEF HandlerPanics
  <2>2. subs' \in [Conn -> [Topic -> Forwarder \cup {0}]] /\ funnel' \in [Conn -> Seq(Topic \X Nat)]
    BY <1>9 DEF HandlerPanics, TypeOK
  <2>3. refused' \subseteq Conn \X Topic
    BY <1>9 DEF HandlerPanics, TypeOK
  <2>. QED
    BY <1>9, <2>1, <2>2, <2>3 DEF HandlerPanics, TypeOK
<1>10. CASE SendFails(c)
  <2>1. pc' \in [Conn -> PC] /\ arg' \in [Conn -> Topic \cup {NoKey}]
    BY <1>1, <1>10, GotoIs DEF SendFails
  <2>2. funnel[c] \in Seq(Topic \X Nat)
    BY DEF TypeOK
  <2>3. Tail(funnel[c]) \in Seq(Topic \X Nat)
    BY <1>10, <2>2 DEF SendFails
  <2>4. funnel' \in [Conn -> Seq(Topic \X Nat)]
    BY <1>10, <2>3 DEF SendFails, TypeOK
  <2>. QED
    BY <1>10, <2>1, <2>4 DEF SendFails, TypeOK
<1>11. CASE Deliver(c)
  <2>1. funnel[c] \in Seq(Topic \X Nat) /\ delivered[c] \in Seq(Topic \X Nat)
    BY DEF TypeOK
  <2>2. Tail(funnel[c]) \in Seq(Topic \X Nat)
        /\ Append(delivered[c], Head(funnel[c])) \in Seq(Topic \X Nat)
    BY <1>11, <2>1 DEF Deliver
  <2>. QED
    BY <1>11, <2>2 DEF Deliver, TypeOK
<1>. QED
  BY <1>2, <1>3, <1>4, <1>5, <1>6, <1>7, <1>8, <1>9, <1>10, <1>11 DEF ClientStep, HandlerFault

LEMMA StepTypeOK ==
    ASSUME TypeOK, LoopInv, ChannelInv, [Next]_vars
    PROVE  TypeOK'
<1>1. ASSUME NEW t \in Topic, Push(t)
      PROVE  TypeOK'
  BY <1>1, PushedLog DEF Push, TypeOK, taskVars, connVars, history
<1>2. CASE UNCHANGED vars
  BY <1>2 DEF vars, TypeOK
<1>. QED
  BY <1>1, <1>2, TaskTypeOK, LoopTypeOK, ClientTypeOK DEF Next

-----------------------------------------------------------------------------
(* Channels *)

\* A step of task f leaves the other tasks, the backend and the connections
\* alone; f runs on, or goes the way of its receiver. No entry of the topics
\* map is removed: the receiver that is being dropped counts itself.
LEMMA TaskStepIs ==
    ASSUME TypeOK, ChannelInv, NEW f \in Forwarder, TaskStep(f)
    PROVE  /\ \A g \in Forwarder : g # f => fwd'[g] = fwd[g]
           /\ UNCHANGED <<topics, log, connVars, presence, tracked, delivered, refused, left>>
           /\ Alive(f)
           /\ \/ /\ fwd'[f].conn = fwd[f].conn
                 /\ fwd'[f].topic = fwd[f].topic
                 /\ fwd'[f].chan = fwd[f].chan
                 /\ aborted' = aborted
                 /\ \/ fwd[f].task \in {"idle", "polling"} /\ fwd'[f].task \in {"idle", "polling"}
                    \/ Over(f) /\ fwd'[f].task = "dropping"
              \/ /\ fwd[f].task = "dropping"
                 /\ fwd'[f].task = "gone"
                 /\ fwd'[f].conn = NoConn
                 /\ aborted' = aborted \ {f}
<1> USE DEF backendVars, connVars, history
<1>1. CASE Recv(f)
  <2>1. PICK i \in Retained(f) : fwd' = [fwd EXCEPT ![f] = [@ EXCEPT !.held = i, !.cursor = i, !.task = "polling"]]
    BY <1>1 DEF Recv
  <2>. QED
    BY <1>1, <2>1 DEF Recv, Runs, Alive, TypeOK, Task
<1>2. CASE Forward(f)
  BY <1>2 DEF Forward, Runs, Alive, TypeOK, Task
<1>3. CASE Park(f)
  BY <1>3 DEF Park, Alive, TypeOK, Task
<1>4. CASE DropReceiver(f)
  <2>1. fwd[f].task \in {"idle", "polling"}
    BY <1>4 DEF DropReceiver, Over, Runs
  <2>2. f \in Receivers(fwd[f].topic)
    BY <2>1 DEF Receivers, ChannelInv, Alive
  <2>3. topics' = topics
    BY <1>4, <2>2 DEF DropReceiver
  <2>. QED
    BY <1>4, <2>1, <2>3 DEF DropReceiver, Alive, TypeOK, Task
<1>5. CASE DropFields(f)
  BY <1>5 DEF DropFields, Unspawned, Alive, TypeOK, Task
<1>. QED
  BY <1>1, <1>2, <1>3, <1>4, <1>5 DEF TaskStep

LEMMA StepChannelInv ==
    ASSUME TypeOK, ChannelInv, LoopInv, [Next]_vars
    PROVE  ChannelInv'
<1>1. ASSUME NEW f \in Forwarder, TaskStep(f)
      PROVE  ChannelInv'
  <2>1. \A g \in Forwarder : Alive(g)' => /\ Alive(g)
                                          /\ fwd'[g].conn = fwd[g].conn
                                          /\ fwd'[g].topic = fwd[g].topic
                                          /\ fwd'[g].chan = fwd[g].chan
    BY <1>1, TaskStepIs DEF Alive
  <2>2. UNCHANGED <<topics, pc, arg, chan>>
    BY <1>1, TaskStepIs DEF connVars
  <2>. QED
    BY <2>1, <2>2 DEF ChannelInv
<1>2. ASSUME NEW c \in Conn, NEW t \in Topic, Subscribe(c, t)
      PROVE  ChannelInv'
  <2>1. UNCHANGED fwd /\ BackendEntry(t) /\ chan' = [chan EXCEPT ![c] = topics'[t]]
    BY <1>2 DEF Subscribe, taskVars
  <2>2. \A u \in Topic : topics[u] # 0 => topics'[u] = topics[u]
    BY <2>1, EntryIs
  <2>3. topics'[t] # 0
    BY <2>1, EntryIs
  <2>4. \A f \in Forwarder : Alive(f)' => /\ fwd'[f].conn \in Conn
                                          /\ fwd'[f].topic \in Topic
                                          /\ fwd'[f].chan = topics'[fwd'[f].topic]
                                          /\ fwd'[f].chan # 0
    BY <2>1, <2>2 DEF ChannelInv, Alive
  <2>5. /\ pc'[c] = "subscribe" /\ arg'[c] = t
        /\ \A d \in Conn : d # c => pc'[d] = pc[d] /\ arg'[d] = arg[d]
    BY <1>2, GotoIs DEF Subscribe, PC
  <2>6. \A d \in Conn : pc'[d] = "subscribe" => /\ arg'[d] \in Topic
                                                /\ chan'[d] = topics'[arg'[d]]
                                                /\ chan'[d] # 0
    BY <2>1, <2>2, <2>3, <2>5 DEF ChannelInv, TypeOK
  <2>. QED
    BY <2>4, <2>6 DEF ChannelInv
<1>3. ASSUME NEW c \in Conn, NEW f \in Forwarder, Spawn(c, f)
      PROVE  ChannelInv'
  <2>1. /\ fwd'[f] = [conn |-> c, topic |-> arg[c], chan |-> chan[c],
                      cursor |-> Len(log[arg[c]]), held |-> 0, task |-> "idle"]
        /\ \A g \in Forwarder : g # f => fwd'[g] = fwd[g]
    BY <1>3 DEF Spawn, TypeOK
  <2>2. arg[c] \in Topic /\ chan[c] = topics[arg[c]] /\ chan[c] # 0 /\ UNCHANGED topics
    BY <1>3 DEF Spawn, ChannelInv, backendVars
  <2>3. /\ pc'[c] # "subscribe"
        /\ \A d \in Conn : d # c => pc'[d] = pc[d] /\ arg'[d] = arg[d] /\ chan'[d] = chan[d]
    <3>1. Goto(c, "join", arg[c]) \/ Goto(c, "select", NoKey)
      BY <1>3 DEF Spawn
    <3>2. "join" \in PC /\ "select" \in PC /\ arg[c] \in Topic \cup {NoKey}
      BY <2>2 DEF PC
    <3>3. /\ pc'[c] \in {"join", "select"}
          /\ \A d \in Conn : d # c => pc'[d] = pc[d] /\ arg'[d] = arg[d]
      <4>1. CASE Goto(c, "join", arg[c])
        BY <1>3, <3>2, <4>1, GotoIs
      <4>2. CASE Goto(c, "select", NoKey)
        BY <1>3, <3>2, <4>2, GotoIs
      <4>. QED
        BY <3>1, <4>1, <4>2
    <3>4. \A d \in Conn : d # c => chan'[d] = chan[d]
      BY <1>3 DEF Spawn, TypeOK
    <3>. QED
      BY <3>3, <3>4
  <2>4. \A g \in Forwarder : Alive(g)' => /\ fwd'[g].conn \in Conn
                                          /\ fwd'[g].topic \in Topic
                                          /\ fwd'[g].chan = topics'[fwd'[g].topic]
                                          /\ fwd'[g].chan # 0
    BY <2>1, <2>2 DEF ChannelInv, Alive
  <2>. QED
    BY <2>2, <2>3, <2>4 DEF ChannelInv
<1>4. ASSUME NEW c \in Conn,
             \/ HandlerReturns(c) \/ Unsubscribed(c) \/ (\E t \in Topic : CloseTopic(c, t))
             \/ TopicClosed(c) \/ Close(c)
             \/ (\E t \in Topic : Unsubscribe(c, t) \/ MessageToHandler(c, t))
             \/ Hangup(c) \/ HandlerFault(c)
      PROVE  ChannelInv'
  <2>1. UNCHANGED <<topics, fwd, chan>>
    BY <1>4 DEF HandlerReturns, Unsubscribed, CloseTopic, TopicClosed, Close, Unsubscribe, MessageToHandler, Hangup,
         HandlerFault, JoinRejected, HandlerPanics, SendFails, backendVars, taskVars
  <2>2. \E l \in PC \ {"subscribe"}, t \in Topic \cup {NoKey} : Goto(c, l, t)
    BY <1>4 DEF HandlerReturns, Unsubscribed, CloseTopic, TopicClosed, Close, Unsubscribe, MessageToHandler, Hangup,
         HandlerFault, JoinRejected, HandlerPanics, SendFails, PC
  <2>3. /\ pc'[c] # "subscribe"
        /\ \A d \in Conn : d # c => pc'[d] = pc[d] /\ arg'[d] = arg[d]
    BY <2>2, GotoIs
  <2>. QED
    BY <2>1, <2>3 DEF ChannelInv, Alive
<1>5. ASSUME \/ \E t \in Topic : Push(t)
             \/ \E c \in Conn : (\E t \in Topic : MessageBroadcast(c, t)) \/ HandlerTracks(c) \/ Deliver(c)
             \/ UNCHANGED vars
      PROVE  ChannelInv'
  <2>1. UNCHANGED <<topics, fwd, chan, pc, arg>>
    BY <1>5 DEF Push, MessageBroadcast, HandlerTracks, Deliver, vars, backendVars, taskVars, connVars
  <2>. QED
    BY <2>1 DEF ChannelInv, Alive
<1>. QED
  BY <1>1, <1>2, <1>3, <1>4, <1>5 DEF Next, LoopStep, ClientStep

-----------------------------------------------------------------------------
(* The loop and its subscriptions *)

\* A step of connection c leaves the other connections' subscriptions alone.
LEMMA OthersStay ==
    ASSUME TypeOK, LoopInv, NEW c \in Conn,
           LoopStep(c) \/ ClientStep(c) \/ HandlerTracks(c) \/ HandlerFault(c) \/ Deliver(c),
           NEW d \in Conn, d # c
    PROVE  pc'[d] = pc[d] /\ arg'[d] = arg[d] /\ subs'[d] = subs[d]
<1> USE DEF connVars
<1>1. CASE LoopStep(c)
  BY SMTT(20), <1>1 DEF LoopStep, Spawn, HandlerReturns, Unsubscribed, CloseTopic, TopicClosed, Close, Goto, Abort, TypeOK
<1>2. CASE ClientStep(c)
  BY <1>2 DEF ClientStep, Subscribe, Unsubscribe, MessageToHandler, MessageBroadcast, Hangup, Goto, Abort, TypeOK
<1>3. CASE HandlerFault(c)
  BY <1>3 DEF HandlerFault, JoinRejected, HandlerPanics, SendFails, Goto, Abort, TypeOK
<1>4. CASE HandlerTracks(c) \/ Deliver(c)
  BY <1>4 DEF HandlerTracks, Deliver
<1>. QED
  BY <1>1, <1>2, <1>3, <1>4

LEMMA StepLoopInv ==
    ASSUME TypeOK, ChannelInv, LoopInv, [Next]_vars
    PROVE  LoopInv'
<1> USE DEF connVars
<1>1. ASSUME NEW c \in Conn,
             LoopStep(c) \/ ClientStep(c) \/ HandlerTracks(c) \/ HandlerFault(c) \/ Deliver(c),
             /\ pc'[c] \in {"subscribe", "join", "message", "untrack", "close_untrack"} => arg'[c] \in Topic
             /\ pc'[c] = "subscribe" => subs'[c][arg'[c]] = 0
             /\ pc'[c] \in {"join", "message"} => subs'[c][arg'[c]] # 0
             /\ pc'[c] = "closed" => \A t \in Topic : subs'[c][t] = 0
      PROVE  LoopInv'
  BY <1>1, OthersStay DEF LoopInv
<1>2. ASSUME NEW c \in Conn, LoopStep(c)
      PROVE  LoopInv'
  <2>1. ASSUME NEW f \in Forwarder, Spawn(c, f)
        PROVE  LoopInv'
    <3>1. arg[c] \in Topic /\ f # 0
      BY <2>1 DEF Spawn, ChannelInv, Forwarder
    <3>2. subs'[c][arg[c]] = f /\ arg'[c] \in {arg[c], NoKey} /\ pc'[c] \in {"join", "select"}
          /\ (pc'[c] = "join" => arg'[c] = arg[c])
      BY <2>1, <3>1 DEF Spawn, Goto, TypeOK
    <3>. QED
      BY <1>1, <1>2, <3>1, <3>2
  <2>2. CASE HandlerReturns(c) \/ Unsubscribed(c) \/ TopicClosed(c)
    <3>1. pc'[c] \in {"select", "closing"}
      BY <2>2 DEF HandlerReturns, Unsubscribed, TopicClosed, Goto, TypeOK
    <3>. QED
      BY <1>1, <1>2, <3>1
  <2>3. ASSUME NEW t \in Topic, CloseTopic(c, t)
        PROVE  LoopInv'
    <3>1. pc'[c] = "close_untrack" /\ arg'[c] = t
      BY <2>3 DEF CloseTopic, Goto, TypeOK
    <3>. QED
      BY <1>1, <1>2, <3>1
  <2>4. CASE Close(c)
    <3>1. pc'[c] = "closed" /\ \A t \in Topic : subs'[c][t] = 0
      BY <2>4 DEF Close, Goto, Subscribed, TypeOK
    <3>. QED
      BY <1>1, <1>2, <3>1
  <2>. QED
    BY <1>2, <2>1, <2>2, <2>3, <2>4 DEF LoopStep
<1>3. ASSUME NEW c \in Conn, ClientStep(c)
      PROVE  LoopInv'
  <2>1. ASSUME NEW t \in Topic, Subscribe(c, t)
        PROVE  LoopInv'
    <3>1. pc'[c] = "subscribe" /\ arg'[c] = t /\ subs'[c][t] = 0
      BY <2>1 DEF Subscribe, MaySubscribe, Subscribed, Goto, TypeOK
    <3>. QED
      BY <1>1, <1>3, <3>1
  <2>2. ASSUME NEW t \in Topic, Unsubscribe(c, t)
        PROVE  LoopInv'
    <3>1. pc'[c] = "untrack" /\ arg'[c] = t
      BY <2>2 DEF Unsubscribe, Goto, TypeOK
    <3>. QED
      BY <1>1, <1>3, <3>1
  <2>3. ASSUME NEW t \in Topic, MessageToHandler(c, t)
        PROVE  LoopInv'
    <3>1. pc'[c] = "message" /\ arg'[c] = t /\ subs'[c][t] # 0
      BY <2>3 DEF MessageToHandler, Subscribed, Goto, TypeOK
    <3>. QED
      BY <1>1, <1>3, <3>1
  <2>4. ASSUME NEW t \in Topic, MessageBroadcast(c, t)
        PROVE  LoopInv'
    BY <2>4 DEF MessageBroadcast, LoopInv
  <2>5. CASE Hangup(c)
    <3>1. pc'[c] = "closing"
      BY <2>5 DEF Hangup, Goto, TypeOK
    <3>. QED
      BY <1>1, <1>3, <3>1
  <2>. QED
    BY <1>3, <2>1, <2>2, <2>3, <2>4, <2>5 DEF ClientStep
<1>4. ASSUME NEW c \in Conn, HandlerFault(c)
      PROVE  LoopInv'
  <2>1. CASE JoinRejected(c) \/ SendFails(c)
    <3>1. pc'[c] \in {"select", "closing"}
      BY <2>1 DEF JoinRejected, SendFails, Goto, TypeOK
    <3>. QED
      BY <1>1, <1>4, <3>1
  <2>2. CASE HandlerPanics(c)
    <3>1. pc'[c] = "closed" /\ \A t \in Topic : subs'[c][t] = 0
      BY <2>2 DEF HandlerPanics, Goto, TypeOK
    <3>. QED
      BY <1>1, <1>4, <3>1
  <2>. QED
    BY <1>4, <2>1, <2>2 DEF HandlerFault
<1>5. ASSUME \/ \E t \in Topic : Push(t)
             \/ \E f \in Forwarder : TaskStep(f)
             \/ \E c \in Conn : HandlerTracks(c) \/ Deliver(c)
             \/ UNCHANGED vars
      PROVE  LoopInv'
  <2>1. UNCHANGED <<pc, arg, subs>>
    BY <1>5, TaskStepIs DEF Push, HandlerTracks, Deliver, vars
  <2>. QED
    BY <2>1 DEF LoopInv
<1>. QED
  BY <1>2, <1>3, <1>4, <1>5 DEF Next

\* An aborted task is no longer in `subscriptions`, the others stay there.
LEMMA AbortSubsInv ==
    ASSUME TypeOK, ChannelInv, SubsInv, NEW c \in Conn, NEW t \in Topic, Abort(c, t), UNCHANGED fwd, pc[c] # "closed",
           \A d \in Conn : d # c => pc'[d] = pc[d]
    PROVE  SubsInv'
<1>1. /\ aborted' = IF subs[c][t] = 0 THEN aborted ELSE aborted \cup {subs[c][t]}
      /\ subs'[c][t] = 0
      /\ \A d \in Conn, u \in Topic : d # c \/ u # t => subs'[d][u] = subs[d][u]
  BY AbortIs
<1>2. subs[c][t] \in Forwarder \cup {0}
  BY DEF TypeOK
<1>3. \A f \in Forwarder : f \in aborted' => Alive(f)
  BY <1>1, <1>2 DEF SubsInv, Alive
<1>4. \A d \in Conn, u \in Topic : subs'[d][u] # 0 => subs'[d][u] = subs[d][u] /\ subs[d][u] \notin aborted'
  BY <1>1 DEF SubsInv
<1>5. ASSUME NEW f \in Forwarder, Alive(f), f \notin aborted', pc'[fwd[f].conn] # "closed"
      PROVE  subs'[fwd[f].conn][fwd[f].topic] = f
  <2>1. fwd[f].conn \in Conn /\ fwd[f].topic \in Topic
    BY <1>5 DEF Alive, ChannelInv
  <2>2. f \notin aborted /\ pc[fwd[f].conn] # "closed"
    BY <1>1, <1>5, <2>1
  <2>3. subs[fwd[f].conn][fwd[f].topic] = f
    BY <1>5, <2>2 DEF SubsInv
  <2>4. f # 0
    BY DEF Forwarder
  <2>. QED
    BY <1>1, <1>5, <2>1, <2>3, <2>4
<1>. QED
  BY <1>3, <1>4, <1>5 DEF SubsInv, Alive

LEMMA StepSubsInv ==
    ASSUME TypeOK, ChannelInv, LoopInv, SubsInv, [Next]_vars
    PROVE  SubsInv'
<1> USE DEF connVars, taskVars
<1>1. ASSUME UNCHANGED <<fwd, aborted, subs>>,
             \A d \in Conn : pc[d] = "closed" => pc'[d] = "closed"
      PROVE  SubsInv'
  <2>1. \A f \in Forwarder : Alive(f) => fwd[f].conn \in Conn
    BY DEF ChannelInv
  <2>. QED
    BY <1>1, <2>1 DEF SubsInv, Alive
<1>2. ASSUME NEW f \in Forwarder, TaskStep(f)
      PROVE  SubsInv'
  <2>1. UNCHANGED <<pc, subs>> /\ \A g \in Forwarder : g # f => fwd'[g] = fwd[g]
    BY <1>2, TaskStepIs
  <2>2. /\ Alive(f)
        /\ \A g \in Forwarder : g # f => (g \in aborted' <=> g \in aborted)
    BY <1>2, TaskStepIs
  <2>3. CASE /\ fwd'[f].conn = fwd[f].conn
             /\ fwd'[f].topic = fwd[f].topic
             /\ aborted' = aborted
             /\ fwd[f].task \in {"idle", "polling"} /\ fwd'[f].task \in {"idle", "polling"}
    <3>1. /\ \A g \in Forwarder : /\ fwd'[g].conn = fwd[g].conn
                                  /\ fwd'[g].topic = fwd[g].topic
                                  /\ Alive(g)' <=> Alive(g)
                                  /\ fwd[g].task \in {"idle", "polling"} => fwd'[g].task \in {"idle", "polling"}
          /\ \A c \in Conn, t \in Topic : subs[c][t] \in Forwarder \cup {0}
      BY ZenonT(30), <2>1, <2>3 DEF Alive, TypeOK
    <3>. QED
      BY <2>1, <2>3, <3>1 DEF SubsInv
  <2>4. CASE /\ fwd'[f].conn = fwd[f].conn
             /\ fwd'[f].topic = fwd[f].topic
             /\ aborted' = aborted
             /\ Over(f) /\ fwd'[f].task = "dropping"
    <3>1. \A c \in Conn, t \in Topic : subs[c][t] \in Forwarder \cup {0} /\ subs[c][t] # f
      BY <2>4 DEF Over, Runs, FunnelClosed, SubsInv, LoopInv, Forwarder, TypeOK
    <3>2. \A g \in Forwarder : /\ fwd'[g].conn = fwd[g].conn
                               /\ fwd'[g].topic = fwd[g].topic
                               /\ Alive(g)' <=> Alive(g)
      BY <2>1, <2>2, <2>4 DEF Alive
    <3>. QED
      BY <2>1, <2>4, <3>1, <3>2 DEF SubsInv
  <2>5. CASE /\ fwd[f].task = "dropping"
             /\ fwd'[f].task = "gone"
             /\ fwd'[f].conn = NoConn
             /\ aborted' = aborted \ {f}
    <3>1. \A c \in Conn, t \in Topic : subs[c][t] \in Forwarder \cup {0} /\ subs[c][t] # f
      <4>1. f # 0 /\ \A c \in Conn, t \in Topic : subs[c][t] = f => fwd[f].task \in {"idle", "polling"}
        BY DEF SubsInv, Forwarder
      <4>. QED
        BY <2>5, <4>1 DEF TypeOK
    <3>2. /\ ~Alive(f)'
          /\ \A g \in Forwarder : g # f => (Alive(g)' <=> Alive(g)) /\ fwd'[g] = fwd[g]
      BY <2>1, <2>5 DEF Alive
    <3>3. \A g \in Forwarder : g \in aborted' => Alive(g)'
      BY <2>2, <2>5, <3>2 DEF SubsInv
    <3>4. \A g \in Forwarder : ~Alive(g)' => fwd'[g].conn = NoConn
      BY <2>5, <3>2 DEF SubsInv
    <3>5. \A c \in Conn, t \in Topic :
             subs'[c][t] # 0 => /\ fwd'[subs'[c][t]].conn = c
                                /\ fwd'[subs'[c][t]].topic = t
                                /\ fwd'[subs'[c][t]].task \in {"idle", "polling"}
                                /\ subs'[c][t] \notin aborted'
      BY <2>1, <2>2, <3>1, <3>2 DEF SubsInv
    <3>6. \A g \in Forwarder :
             Alive(g)' /\ g \notin aborted' /\ pc'[fwd'[g].conn] # "closed"
                 => subs'[fwd'[g].conn][fwd'[g].topic] = g
      BY <2>1, <2>2, <3>2 DEF SubsInv
    <3>. QED
      BY <3>3, <3>4, <3>5, <3>6 DEF SubsInv
  <2>. QED
    BY <1>2, <2>3, <2>4, <2>5, TaskStepIs
<1>3. ASSUME NEW c \in Conn, NEW f \in Forwarder, Spawn(c, f)
      PROVE  SubsInv'
  <2>1. /\ fwd'[f] = [conn |-> c, topic |-> arg[c], chan |-> chan[c],
                      cursor |-> Len(log[arg[c]]), held |-> 0, task |-> "idle"]
        /\ \A g \in Forwarder : g # f => fwd'[g] = fwd[g]
        /\ ~Alive(f)
        /\ UNCHANGED aborted
    BY <1>3 DEF Spawn, TypeOK, Alive
  <2>2. arg[c] \in Topic /\ subs[c][arg[c]] = 0 /\ pc[c] = "subscribe"
    BY <1>3 DEF Spawn, LoopInv
  <2>3. /\ subs'[c][arg[c]] = f
        /\ \A d \in Conn, u \in Topic : d # c \/ u # arg[c] => subs'[d][u] = subs[d][u]
    BY <1>3, <2>2 DEF Spawn, TypeOK
  <2>4. \A d \in Conn : d # c => pc'[d] = pc[d]
    BY <1>3 DEF Spawn, Goto, TypeOK
  <2>5. \A g \in Forwarder : g \in aborted' => Alive(g)'
    BY <2>1 DEF SubsInv, Alive
  <2>6. \A g \in Forwarder : ~Alive(g)' => fwd'[g].conn = NoConn
    BY <2>1 DEF SubsInv, Alive
  <2>7. ASSUME NEW d \in Conn, NEW u \in Topic, subs'[d][u] # 0
        PROVE  /\ fwd'[subs'[d][u]].conn = d
               /\ fwd'[subs'[d][u]].topic = u
               /\ fwd'[subs'[d][u]].task \in {"idle", "polling"}
               /\ subs'[d][u] \notin aborted'
    <3>1. CASE d = c /\ u = arg[c]
      BY <2>1, <2>3, <3>1 DEF SubsInv
    <3>2. CASE d # c \/ u # arg[c]
      <4>1. subs'[d][u] = subs[d][u] /\ subs[d][u] \in Forwarder
        BY <2>3, <2>7, <3>2 DEF TypeOK
      <4>2. subs[d][u] # f
        BY <2>1, <2>7, <4>1 DEF SubsInv, Alive
      <4>. QED
        BY <2>1, <2>7, <4>1, <4>2 DEF SubsInv
    <3>. QED
      BY <3>1, <3>2
  <2>8. ASSUME NEW g \in Forwarder, Alive(g)', g \notin aborted', pc'[fwd'[g].conn] # "closed"
        PROVE  subs'[fwd'[g].conn][fwd'[g].topic] = g
    <3>1. CASE g = f
      BY <2>1, <2>3, <3>1
    <3>2. CASE g # f
      <4>1. Alive(g) /\ fwd'[g] = fwd[g] /\ g \notin aborted /\ g # 0
        BY <2>1, <2>8, <3>2 DEF Alive, Forwarder
      <4>2. fwd[g].conn \in Conn /\ fwd[g].topic \in Topic
        BY <4>1 DEF ChannelInv
      <4>3. pc[fwd[g].conn] # "closed"
        BY <2>2, <2>4, <2>8, <4>1, <4>2
      <4>4. subs[fwd[g].conn][fwd[g].topic] = g
        BY <4>1, <4>3 DEF SubsInv
      <4>. QED
        BY <2>2, <2>3, <4>1, <4>2, <4>4
    <3>. QED
      BY <3>1, <3>2
  <2>. QED
    BY <2>5, <2>6, <2>7, <2>8 DEF SubsInv
<1>4. ASSUME NEW c \in Conn, NEW t \in Topic, CloseTopic(c, t) \/ Unsubscribe(c, t)
      PROVE  SubsInv'
  <2>1. Abort(c, t) /\ UNCHANGED fwd /\ pc[c] # "closed"
    BY <1>4 DEF CloseTopic, Unsubscribe
  <2>2. \A d \in Conn : d # c => pc'[d] = pc[d]
    BY <1>4 DEF CloseTopic, Unsubscribe, Goto, TypeOK
  <2>. QED
    BY <2>1, <2>2, AbortSubsInv
<1>5. ASSUME NEW c \in Conn, JoinRejected(c)
      PROVE  SubsInv'
  <2>1. Abort(c, arg[c]) /\ UNCHANGED fwd /\ pc[c] # "closed" /\ arg[c] \in Topic
    BY <1>5 DEF JoinRejected, LoopInv
  <2>2. \A d \in Conn : d # c => pc'[d] = pc[d]
    BY <1>5 DEF JoinRejected, Goto, TypeOK
  <2>. QED
    BY <2>1, <2>2, AbortSubsInv
<1>6. ASSUME NEW c \in Conn, HandlerPanics(c)
      PROVE  SubsInv'
  <2>1. /\ UNCHANGED <<fwd, aborted>>
        /\ pc'[c] = "closed" /\ \A t \in Topic : subs'[c][t] = 0
        /\ \A d \in Conn : d # c => pc'[d] = pc[d] /\ subs'[d] = subs[d]
    BY <1>6 DEF HandlerPanics, Goto, TypeOK
  <2>2. \A f \in Forwarder : Alive(f) => fwd[f].conn \in Conn
    BY DEF ChannelInv
  <2>. QED
    BY <2>1, <2>2 DEF SubsInv, Alive
<1>7. ASSUME NEW c \in Conn,
             \/ \E t \in Topic : Subscribe(c, t) \/ MessageToHandler(c, t) \/ MessageBroadcast(c, t)
             \/ HandlerReturns(c) \/ Unsubscribed(c) \/ TopicClosed(c) \/ Close(c)
             \/ HandlerTracks(c) \/ Deliver(c) \/ Hangup(c) \/ SendFails(c)
      PROVE  SubsInv'
  <2>1. UNCHANGED <<fwd, aborted, subs>> /\ pc[c] # "closed"
    BY <1>7 DEF Subscribe, MessageToHandler, MessageBroadcast, HandlerReturns, Unsubscribed, TopicClosed, Close,
                HandlerTracks, Deliver, Hangup, SendFails
  <2>2. \A d \in Conn : d # c => pc'[d] = pc[d]
    BY <1>7 DEF Subscribe, MessageToHandler, MessageBroadcast, HandlerReturns, Unsubscribed, TopicClosed, Close,
                HandlerTracks, Deliver, Hangup, SendFails, Goto, TypeOK
  <2>. QED
    BY <1>1, <2>1, <2>2
<1>8. CASE (\E t \in Topic : Push(t)) \/ UNCHANGED vars
  BY <1>1, <1>8 DEF Push, vars
<1>. QED
  BY <1>2, <1>3, <1>4, <1>5, <1>6, <1>7, <1>8 DEF Next, LoopStep, ClientStep, HandlerFault

-----------------------------------------------------------------------------
(* The limit of subscriptions *)

\* The tasks are as many as there are spawned at most.
LEMMA TasksFinite ==
    /\ IsFiniteSet(Forwarder)
    /\ \A S \in SUBSET Forwarder : IsFiniteSet(S) /\ Cardinality(S) \in Nat
<1>1. IsFiniteSet(Forwarder)
  BY FS_Interval, RelayAssumption DEF Forwarder
<1>. QED
  BY <1>1, FS_Subset, FS_CardinalityType

\* A connection that has not ended has a subscription for every task it has
\* not aborted.
LEMMA ActiveAreSubscribed ==
    ASSUME TypeOK, ChannelInv, SubsInv, NEW c \in Conn, pc[c] # "closed"
    PROVE  /\ IsFiniteSet(Subscribed(c))
           /\ Cardinality(Active(c)) <= Cardinality(Subscribed(c))
<1>1. \A t \in Subscribed(c) : subs[c][t] \in Forwarder /\ fwd[subs[c][t]].topic = t
  BY DEF Subscribed, TypeOK, SubsInv
<1>2. IsFiniteSet(Subscribed(c))
  <2> DEFINE task == [t \in Subscribed(c) |-> subs[c][t]]
  <2>1. task \in Injection(Subscribed(c), Forwarder)
    BY <1>1 DEF Injection, IsInjective
  <2>. QED
    BY <2>1, TasksFinite, FS_Injection
<1>3. \A f \in Active(c) : fwd[f].topic \in Subscribed(c) /\ subs[c][fwd[f].topic] = f
  <2> SUFFICES ASSUME NEW f \in Active(c)
               PROVE  fwd[f].topic \in Subscribed(c) /\ subs[c][fwd[f].topic] = f
    OBVIOUS
  <2>1. f \in Forwarder /\ f # 0 /\ Alive(f)
    BY RelayAssumption DEF Active, SubsInv, Forwarder
  <2>2. fwd[f].topic \in Topic /\ subs[c][fwd[f].topic] = f
    BY <2>1 DEF Active, ChannelInv, SubsInv
  <2>. QED
    BY <2>1, <2>2 DEF Subscribed
<1>4. Cardinality(Active(c)) <= Cardinality(Subscribed(c))
  <2> DEFINE topic == [f \in Active(c) |-> fwd[f].topic]
  <2>1. topic \in Injection(Active(c), Subscribed(c))
    BY <1>3 DEF Injection, IsInjective
  <2>. QED
    BY <1>2, <2>1, FS_Injection
<1>. QED
  BY <1>2, <1>4

\* A connection without a new task keeps within its limit.
LEMMA FewerActive ==
    ASSUME BoundInv, NEW d \in Conn, Active(d)' \subseteq Active(d),
           pc'[d] = "subscribe" => pc[d] = "subscribe"
    PROVE  /\ Cardinality(Active(d)') <= max_subscriptions
           /\ pc'[d] = "subscribe" => Cardinality(Active(d)') < max_subscriptions
<1>1. Active(d) \subseteq Forwarder /\ Active(d)' \subseteq Forwarder
  BY DEF Active
<1>2. IsFiniteSet(Active(d)) /\ Cardinality(Active(d)) \in Nat /\ Cardinality(Active(d)') \in Nat
  BY <1>1, TasksFinite
<1>3. Cardinality(Active(d)') <= Cardinality(Active(d))
  BY <1>2, FS_Subset
<1>. QED
  BY <1>2, <1>3, RelayAssumption DEF BoundInv

LEMMA StepBoundInv ==
    ASSUME TypeOK, ChannelInv, LoopInv, SubsInv, BoundInv, [Next]_vars
    PROVE  BoundInv'
<1> USE DEF connVars, taskVars
<1>1. ASSUME \A d \in Conn : Active(d)' \subseteq Active(d) /\ (pc'[d] = "subscribe" => pc[d] = "subscribe")
      PROVE  BoundInv'
  BY <1>1, FewerActive DEF BoundInv
<1>2. ASSUME NEW f \in Forwarder, TaskStep(f)
      PROVE  BoundInv'
  <2>1. \A d \in Conn : Active(d)' \subseteq Active(d)
    BY <1>2, TaskStepIs, RelayAssumption DEF Active, Alive
  <2>. QED
    BY <1>1, <1>2, <2>1, TaskStepIs
<1>3. ASSUME NEW c \in Conn, NEW t \in Topic, Subscribe(c, t)
      PROVE  BoundInv'
  <2>1. \A d \in Conn : Active(d)' = Active(d)
    BY <1>3 DEF Subscribe, Active
  <2>2. \A d \in Conn : d # c => pc'[d] = pc[d]
    BY <1>3 DEF Subscribe, Goto, TypeOK
  <2>3. Cardinality(Active(c)) < max_subscriptions
    <3>1. Cardinality(Active(c)) <= Cardinality(Subscribed(c)) /\ IsFiniteSet(Subscribed(c))
      BY <1>3, ActiveAreSubscribed DEF Subscribe
    <3>2. Cardinality(Subscribed(c)) < max_subscriptions
      BY <1>3 DEF Subscribe, MaySubscribe
    <3>3. Active(c) \subseteq Forwarder
      BY DEF Active
    <3>4. Cardinality(Active(c)) \in Nat /\ Cardinality(Subscribed(c)) \in Nat
      BY <3>1, <3>3, TasksFinite, FS_CardinalityType
    <3>. QED
      BY <3>1, <3>2, <3>4, RelayAssumption
  <2>4. ASSUME NEW d \in Conn
        PROVE  /\ Cardinality(Active(d)') <= max_subscriptions
               /\ pc'[d] = "subscribe" => Cardinality(Active(d)') < max_subscriptions
    BY <2>1, <2>2, <2>3 DEF BoundInv
  <2>. QED
    BY <2>4 DEF BoundInv
<1>4. ASSUME NEW c \in Conn, NEW f \in Forwarder, Spawn(c, f)
      PROVE  BoundInv'
  <2>1. /\ fwd'[f].conn = c
        /\ \A g \in Forwarder : g # f => fwd'[g] = fwd[g]
        /\ ~Alive(f)
        /\ UNCHANGED aborted
        /\ pc[c] = "subscribe"
    BY <1>4 DEF Spawn, TypeOK, Alive
  <2>2. /\ pc'[c] # "subscribe"
        /\ \A d \in Conn : d # c => pc'[d] = pc[d]
    BY <1>4 DEF Spawn, Goto, TypeOK
  <2>3. Active(c)' \subseteq Active(c) \cup {f}
    BY <2>1 DEF Active
  <2>4. \A d \in Conn : d # c => Active(d)' \subseteq Active(d)
    BY <2>1, RelayAssumption DEF Active
  <2>5. Cardinality(Active(c)') <= max_subscriptions
    <3>1. IsFiniteSet(Active(c)) /\ Active(c) \cup {f} \subseteq Forwarder
      BY TasksFinite DEF Active
    <3>2. Cardinality(Active(c) \cup {f}) <= Cardinality(Active(c)) + 1
      <4>1. Cardinality(Active(c)) \in Nat
        BY <3>1, FS_CardinalityType
      <4>2. \/ Cardinality(Active(c) \cup {f}) = Cardinality(Active(c))
            \/ Cardinality(Active(c) \cup {f}) = Cardinality(Active(c)) + 1
        BY <3>1, FS_AddElement
      <4>. QED
        BY <4>1, <4>2
    <3>3. Cardinality(Active(c)') <= Cardinality(Active(c) \cup {f})
      BY <2>3, <3>1, TasksFinite, FS_Subset
    <3>4. Active(c)' \subseteq Forwarder /\ Active(c) \subseteq Forwarder
      BY DEF Active
    <3>5. Cardinality(Active(c)) < max_subscriptions
      BY <2>1 DEF BoundInv
    <3>. QED
      BY <3>1, <3>2, <3>3, <3>4, <3>5, TasksFinite, RelayAssumption
  <2>6. ASSUME NEW d \in Conn
        PROVE  /\ Cardinality(Active(d)') <= max_subscriptions
               /\ pc'[d] = "subscribe" => Cardinality(Active(d)') < max_subscriptions
    BY <2>2, <2>4, <2>5, FewerActive
  <2>. QED
    BY <2>6 DEF BoundInv
<1>5. ASSUME NEW c \in Conn,
             \/ \E t \in Topic : CloseTopic(c, t) \/ Unsubscribe(c, t) \/ MessageToHandler(c, t)
                                                                       \/ MessageBroadcast(c, t)
             \/ HandlerReturns(c) \/ Unsubscribed(c) \/ TopicClosed(c) \/ Close(c)
             \/ HandlerTracks(c) \/ Deliver(c) \/ Hangup(c) \/ HandlerFault(c)
      PROVE  BoundInv'
  <2>1. UNCHANGED fwd /\ aborted \subseteq aborted'
    BY <1>5 DEF CloseTopic, Unsubscribe, MessageToHandler, MessageBroadcast, HandlerReturns, Unsubscribed,
                TopicClosed, Close, HandlerTracks, Deliver, Hangup, HandlerFault, JoinRejected, HandlerPanics,
                SendFails, Abort
  <2>2. \A d \in Conn : pc'[d] = pc[d] \/ pc'[d] # "subscribe"
    BY <1>5 DEF CloseTopic, Unsubscribe, MessageToHandler, MessageBroadcast, HandlerReturns, Unsubscribed,
                TopicClosed, Close, HandlerTracks, Deliver, Hangup, HandlerFault, JoinRejected, HandlerPanics,
                SendFails, Goto, TypeOK
  <2>. QED
    BY <1>1, <2>1, <2>2 DEF Active
<1>6. CASE (\E t \in Topic : Push(t)) \/ UNCHANGED vars
  BY <1>1, <1>6 DEF Push, vars, Active
<1>. QED
  BY <1>2, <1>3, <1>4, <1>5, <1>6 DEF Next, LoopStep, ClientStep

-----------------------------------------------------------------------------
(* Presence *)

\* c is in the inner map of t.
Listed(c, t) == presence[t] # NoKey /\ c \in presence[t]

\* What the statements of PresenceMap do to the map.
LEMMA PresenceEffects ==
    ASSUME TypeOK, NEW c \in Conn, NEW t \in Topic
    PROVE  /\ Track(c, t) \/ UntrackConn(c, t) \/ DropEmpty(t)
                  => \A u \in Topic : u # t => presence'[u] = presence[u]
           /\ Track(c, t) => /\ presence'[t] # {}
                             /\ \A d \in Conn : Listed(d, t)' <=> d = c \/ Listed(d, t)
           /\ UntrackConn(c, t) => \A d \in Conn : Listed(d, t)' <=> d # c /\ Listed(d, t)
           /\ DropEmpty(t) => /\ presence'[t] # {}
                              /\ \A d \in Conn : Listed(d, t)' <=> Listed(d, t)
<1>1. presence[t] \in {NoKey} \cup SUBSET Conn /\ NoKey # {}
  BY RelayAssumption DEF TypeOK
<1>2. Track(c, t) \/ UntrackConn(c, t) \/ DropEmpty(t)
          => \A u \in Topic : u # t => presence'[u] = presence[u]
  BY DEF Track, UntrackConn, DropEmpty, TypeOK
<1>3. ASSUME Track(c, t)
      PROVE  presence'[t] # {} /\ \A d \in Conn : Listed(d, t)' <=> d = c \/ Listed(d, t)
  <2>1. presence'[t] = IF presence[t] = NoKey THEN {c} ELSE presence[t] \cup {c}
    BY <1>3 DEF Track, TypeOK
  <2>2. presence'[t] \in SUBSET Conn /\ presence'[t] # NoKey
    BY <1>1, <2>1, RelayAssumption
  <2>. QED
    BY <1>1, <2>1, <2>2 DEF Listed
<1>4. ASSUME UntrackConn(c, t)
      PROVE  \A d \in Conn : Listed(d, t)' <=> d # c /\ Listed(d, t)
  <2>1. presence'[t] = IF presence[t] = NoKey THEN NoKey ELSE presence[t] \ {c}
    BY <1>4 DEF UntrackConn, TypeOK
  <2>2. presence[t] # NoKey => presence'[t] \in SUBSET Conn /\ presence'[t] # NoKey
    BY <1>1, <2>1, RelayAssumption
  <2>. QED
    BY <1>1, <2>1, <2>2 DEF Listed
<1>5. ASSUME DropEmpty(t)
      PROVE  presence'[t] # {} /\ \A d \in Conn : Listed(d, t)' <=> Listed(d, t)
  <2>1. presence'[t] = IF presence[t] = {} THEN NoKey ELSE presence[t]
    BY <1>5 DEF DropEmpty, TypeOK
  <2>. QED
    BY <1>1, <2>1 DEF Listed
<1>. QED
  BY <1>2, <1>3, <1>4, <1>5

\* c is about to remove the entry of t if it is empty.
Removes(c, t) == pc[c] \in {"untrack", "close_untrack"} /\ arg[c] = t

\* The three parts of PresenceExact, by these names.
LEMMA PresenceParts ==
    PresenceExact <=>
        /\ \A c \in Conn, t \in Topic : <<c, t>> \in tracked <=> Listed(c, t)
        /\ \A t \in Topic : presence[t] = {} => \E c \in Conn : Removes(c, t)
        /\ \A c \in Conn, t \in Topic : Listed(c, t) => subs[c][t] # 0 \/ <<c, t>> \in refused
  BY DEF PresenceExact, Listed, Removes

LEMMA StepPresenceExact ==
    ASSUME TypeOK, ChannelInv, LoopInv, PresenceExact, [Next]_vars
    PROVE  PresenceExact'
<1> USE DEF connVars, history
<1>1. ASSUME UNCHANGED <<presence, tracked>>, refused \subseteq refused',
             \A d \in Conn, u \in Topic : /\ Removes(d, u) => Removes(d, u)'
                                          /\ subs[d][u] # 0 => subs'[d][u] # 0 \/ <<d, u>> \in refused'
      PROVE  PresenceExact'
  <2>1. \A d \in Conn, u \in Topic : Listed(d, u)' <=> Listed(d, u)
    BY <1>1 DEF Listed
  <2>2. \A d \in Conn, u \in Topic : <<d, u>> \in tracked' <=> Listed(d, u)'
    BY <1>1, <2>1, PresenceParts
  <2>3. \A u \in Topic : presence'[u] = {} => \E d \in Conn : Removes(d, u)'
    BY <1>1, PresenceParts
  <2>4. \A d \in Conn, u \in Topic : Listed(d, u)' => subs'[d][u] # 0 \/ <<d, u>> \in refused'
    BY <1>1, <2>1, PresenceParts
  <2>. QED
    BY <2>2, <2>3, <2>4 DEF PresenceExact, Listed, Removes
<1>2. ASSUME NEW c \in Conn, HandlerTracks(c)
      PROVE  PresenceExact'
  <2>1. PICK t \in Topic : t = arg[c] /\ subs[c][t] # 0 /\ Track(c, t) /\ UNCHANGED <<pc, arg, subs, refused>>
    BY <1>2 DEF HandlerTracks, LoopInv
  <2>2. /\ presence'[t] # {}
        /\ \A u \in Topic : u # t => presence'[u] = presence[u]
        /\ \A d \in Conn : Listed(d, t)' <=> d = c \/ Listed(d, t)
    BY <2>1, PresenceEffects
  <2>3. \A d \in Conn, u \in Topic : Listed(d, u)' <=> <<d, u>> = <<c, t>> \/ Listed(d, u)
    BY <2>1, <2>2 DEF Listed
  <2>4. tracked' = tracked \cup {<<c, t>>}
    BY <2>1 DEF Track
  <2>5. \A d \in Conn, u \in Topic : <<d, u>> \in tracked' <=> Listed(d, u)'
    BY <2>3, <2>4, PresenceParts
  <2>6. \A u \in Topic : presence'[u] = {} => \E d \in Conn : Removes(d, u)'
    BY <2>1, <2>2, PresenceParts DEF Removes
  <2>7. \A d \in Conn, u \in Topic : Listed(d, u)' => subs'[d][u] # 0 \/ <<d, u>> \in refused'
    BY <2>1, <2>3, PresenceParts
  <2>. QED
    BY <2>5, <2>6, <2>7 DEF PresenceExact, Listed, Removes
<1>3. ASSUME NEW c \in Conn, NEW t \in Topic, CloseTopic(c, t) \/ Unsubscribe(c, t)
      PROVE  PresenceExact'
  <2>1. UntrackConn(c, t) /\ Abort(c, t) /\ pc[c] \in {"closing", "select"} /\ UNCHANGED refused
    BY <1>3 DEF CloseTopic, Unsubscribe
  <2>2. /\ \A u \in Topic : u # t => presence'[u] = presence[u]
        /\ \A d \in Conn : Listed(d, t)' <=> d # c /\ Listed(d, t)
    BY <2>1, PresenceEffects
  <2>3. \A d \in Conn, u \in Topic : Listed(d, u)' <=> <<d, u>> # <<c, t>> /\ Listed(d, u)
    BY <2>2 DEF Listed
  <2>4. Removes(c, t)' /\ \A d \in Conn, u \in Topic : Removes(d, u) => Removes(d, u)'
    BY <1>3, <2>1 DEF CloseTopic, Unsubscribe, Goto, Removes, TypeOK
  <2>5. tracked' = tracked \ {<<c, t>>}
    BY <2>1 DEF UntrackConn
  <2>6. \A d \in Conn, u \in Topic : <<d, u>> \in tracked' <=> Listed(d, u)'
    BY <2>3, <2>5, PresenceParts
  <2>7. \A u \in Topic : presence'[u] = {} => \E d \in Conn : Removes(d, u)'
    BY <2>2, <2>4, PresenceParts
  <2>8. \A d \in Conn, u \in Topic : Listed(d, u)' => subs'[d][u] # 0 \/ <<d, u>> \in refused'
    BY <2>1, <2>3, AbortIs, PresenceParts
  <2>. QED
    BY <2>6, <2>7, <2>8 DEF PresenceExact, Listed, Removes
<1>4. ASSUME NEW c \in Conn, Unsubscribed(c) \/ TopicClosed(c)
      PROVE  PresenceExact'
  <2>1. PICK t \in Topic : t = arg[c] /\ DropEmpty(t) /\ UNCHANGED <<subs, refused, tracked>>
    BY <1>4 DEF Unsubscribed, TopicClosed, LoopInv
  <2>2. /\ presence'[t] # {}
        /\ \A u \in Topic : u # t => presence'[u] = presence[u]
        /\ \A d \in Conn : Listed(d, t)' <=> Listed(d, t)
    BY <2>1, PresenceEffects
  <2>3. \A d \in Conn, u \in Topic : Listed(d, u)' <=> Listed(d, u)
    BY <2>1, <2>2 DEF Listed
  <2>4. \A d \in Conn, u \in Topic : u # t /\ Removes(d, u) => Removes(d, u)'
    BY <1>4, <2>1 DEF Unsubscribed, TopicClosed, Goto, Removes, TypeOK
  <2>5. \A d \in Conn, u \in Topic : <<d, u>> \in tracked' <=> Listed(d, u)'
    BY <2>1, <2>3, PresenceParts
  <2>6. \A u \in Topic : presence'[u] = {} => \E d \in Conn : Removes(d, u)'
    BY <2>2, <2>4, PresenceParts
  <2>7. \A d \in Conn, u \in Topic : Listed(d, u)' => subs'[d][u] # 0 \/ <<d, u>> \in refused'
    BY <2>1, <2>3, PresenceParts
  <2>. QED
    BY <2>5, <2>6, <2>7 DEF PresenceExact, Listed, Removes
<1>5. ASSUME NEW c \in Conn, NEW f \in Forwarder, Spawn(c, f)
      PROVE  PresenceExact'
  <2>1. UNCHANGED <<presence, tracked, refused>> /\ arg[c] \in Topic /\ f # 0
    BY <1>5 DEF Spawn, ChannelInv, Forwarder
  <2>2. \A d \in Conn, u \in Topic : subs[d][u] # 0 => subs'[d][u] # 0
    BY <1>5, <2>1 DEF Spawn, TypeOK
  <2>3. \A d \in Conn, u \in Topic : Removes(d, u) => Removes(d, u)'
    BY <1>5 DEF Spawn, Goto, Removes, TypeOK
  <2>. QED
    BY <1>1, <2>1, <2>2, <2>3
<1>6. ASSUME NEW c \in Conn, JoinRejected(c)
      PROVE  PresenceExact'
  <2>1. /\ UNCHANGED <<presence, tracked>> /\ arg[c] \in Topic /\ Abort(c, arg[c])
        /\ refused' = refused \cup {<<c, arg[c]>>}
    BY <1>6 DEF JoinRejected, LoopInv
  <2>2. \A d \in Conn, u \in Topic : subs[d][u] # 0 => subs'[d][u] # 0 \/ <<d, u>> \in refused'
    BY <2>1, AbortIs
  <2>3. \A d \in Conn, u \in Topic : Removes(d, u) => Removes(d, u)'
    BY <1>6 DEF JoinRejected, Goto, Removes, TypeOK
  <2>. QED
    BY <1>1, <2>1, <2>2, <2>3
<1>7. ASSUME NEW c \in Conn, HandlerPanics(c)
      PROVE  PresenceExact'
  <2>1. UNCHANGED <<presence, tracked>> /\ refused' = refused \cup ({c} \X Topic)
    BY <1>7 DEF HandlerPanics
  <2>2. \A d \in Conn, u \in Topic : subs[d][u] # 0 => subs'[d][u] # 0 \/ <<d, u>> \in refused'
    BY <1>7, <2>1 DEF HandlerPanics, TypeOK
  <2>3. \A d \in Conn, u \in Topic : Removes(d, u) => Removes(d, u)'
    BY <1>7 DEF HandlerPanics, Goto, Removes, TypeOK
  <2>. QED
    BY <1>1, <2>1, <2>2, <2>3
<1>8. ASSUME NEW c \in Conn,
             \/ \E t \in Topic : Subscribe(c, t) \/ MessageToHandler(c, t) \/ MessageBroadcast(c, t)
             \/ HandlerReturns(c) \/ Close(c) \/ Deliver(c) \/ Hangup(c) \/ SendFails(c)
      PROVE  PresenceExact'
  <2>1. UNCHANGED <<presence, tracked, refused, subs>>
    BY <1>8 DEF Subscribe, MessageToHandler, MessageBroadcast, HandlerReturns, Close, Deliver, Hangup, SendFails
  <2>2. \A d \in Conn, u \in Topic : Removes(d, u) => Removes(d, u)'
    BY <1>8 DEF Subscribe, MessageToHandler, MessageBroadcast, HandlerReturns, Close, Deliver, Hangup, SendFails,
                Goto, Removes, TypeOK
  <2>. QED
    BY <1>1, <2>1, <2>2
<1>9. CASE (\E t \in Topic : Push(t)) \/ (\E f \in Forwarder : TaskStep(f)) \/ UNCHANGED vars
  <2>1. UNCHANGED <<presence, tracked, refused, subs, pc, arg>>
    BY <1>9, TaskStepIs DEF Push, vars
  <2>. QED
    BY <1>1, <2>1 DEF Removes
<1>. QED
  BY <1>2, <1>3, <1>4, <1>5, <1>6, <1>7, <1>8, <1>9 DEF Next, LoopStep, ClientStep, HandlerFault

-----------------------------------------------------------------------------
(* The order of the pushes *)

Message == Topic \X Nat

\* A message put behind older ones.
LEMMA AppendKeepsOrder ==
    ASSUME NEW s \in Seq(Message), NEW t \in Topic, NEW e \in Message
    PROVE  /\ Append(s, e) \in Seq(Message)
           /\ Sorted(s, t) /\ (e[1] = t => Older(s, t, e[2])) => Sorted(Append(s, e), t)
           /\ \A n \in Nat : Older(s, t, n) /\ (e[1] = t => e[2] < n) => Older(Append(s, e), t, n)
           /\ \A r \in Seq(Message) :
                 Ahead(r, s, t) /\ (e[1] = t => Older(r, t, e[2])) => Ahead(r, Append(s, e), t)
<1>1. /\ Append(s, e) \in Seq(Message)
      /\ Len(Append(s, e)) = Len(s) + 1 /\ Len(s) \in Nat
      /\ Append(s, e)[Len(s) + 1] = e
      /\ \A i \in 1 .. Len(s) : Append(s, e)[i] = s[i]
  OBVIOUS
<1>2. \A i \in 1 .. Len(Append(s, e)) : i \in 1 .. Len(s) \/ i = Len(s) + 1
  BY <1>1
<1>3. Sorted(s, t) /\ (e[1] = t => Older(s, t, e[2])) => Sorted(Append(s, e), t)
  BY <1>1, <1>2 DEF Sorted, Older
<1>4. \A n \in Nat : Older(s, t, n) /\ (e[1] = t => e[2] < n) => Older(Append(s, e), t, n)
  BY <1>1, <1>2 DEF Older
<1>5. \A r \in Seq(Message) :
         Ahead(r, s, t) /\ (e[1] = t => Older(r, t, e[2])) => Ahead(r, Append(s, e), t)
  BY <1>1, <1>2 DEF Ahead
<1>. QED
  BY <1>1, <1>3, <1>4, <1>5

\* The first message taken away, and put behind what was ahead of it.
LEMMA HeadMovesOn ==
    ASSUME NEW s \in Seq(Message), s # <<>>, NEW r \in Seq(Message), NEW t \in Topic
    PROVE  /\ Tail(s) \in Seq(Message) /\ Head(s) \in Message
           /\ Sorted(s, t) => Sorted(Tail(s), t)
           /\ Ahead(r, s, t) => Ahead(r, Tail(s), t)
           /\ \A n \in Nat : Older(s, t, n) => Older(Tail(s), t, n) /\ (Head(s)[1] = t => Head(s)[2] < n)
           /\ Ahead(r, s, t) => (Head(s)[1] = t => Older(r, t, Head(s)[2]))
           /\ Sorted(s, t) /\ Ahead(r, s, t) => Ahead(Append(r, Head(s)), Tail(s), t)
<1>1. /\ Tail(s) \in Seq(Message) /\ Head(s) \in Message
      /\ Len(s) \in Nat /\ Len(s) >= 1 /\ Len(Tail(s)) = Len(s) - 1
      /\ Head(s) = s[1]
      /\ \A i \in 1 .. Len(Tail(s)) : Tail(s)[i] = s[i + 1]
  OBVIOUS
<1>2. \A i \in 1 .. Len(Tail(s)) : i + 1 \in 1 .. Len(s) /\ i + 1 > 1
  BY <1>1
<1>3. Sorted(s, t) => Sorted(Tail(s), t)
  BY <1>1, <1>2 DEF Sorted
<1>4. Ahead(r, s, t) => Ahead(r, Tail(s), t)
  BY <1>1, <1>2 DEF Ahead
<1>5. \A n \in Nat : Older(s, t, n) => Older(Tail(s), t, n) /\ (Head(s)[1] = t => Head(s)[2] < n)
  BY <1>1, <1>2 DEF Older
<1>6. Ahead(r, s, t) => (Head(s)[1] = t => Older(r, t, Head(s)[2]))
  BY <1>1 DEF Ahead
<1>7. ASSUME Sorted(s, t), Ahead(r, s, t), NEW k \in 1 .. Len(Tail(s)), Tail(s)[k][1] = t
      PROVE  Older(Append(r, Head(s)), t, Tail(s)[k][2])
  <2>1. Older(r, t, Tail(s)[k][2])
    BY <1>4, <1>7 DEF Ahead
  <2>2. Head(s)[1] = t => Head(s)[2] < Tail(s)[k][2]
    BY <1>1, <1>2, <1>7 DEF Sorted
  <2>3. Tail(s)[k][2] \in Nat
    BY <1>1, <1>7 DEF Message
  <2>. QED
    BY <1>1, <2>1, <2>2, <2>3, AppendKeepsOrder
<1>. QED
  BY <1>1, <1>3, <1>4, <1>5, <1>6, <1>7 DEF Ahead

\* An empty funnel is in order.
LEMMA EmptyIsOrdered ==
    ASSUME NEW t \in Topic, NEW n \in Nat, NEW r \in Seq(Message)
    PROVE  Sorted(<<>>, t) /\ Older(<<>>, t, n) /\ Ahead(r, <<>>, t)
  BY DEF Sorted, Older, Ahead

\* Older than n is older than what comes after n.
LEMMA OlderThanLater ==
    ASSUME NEW s \in Seq(Message), NEW t \in Topic, NEW m \in Nat, NEW n \in Nat, m <= n, Older(s, t, m)
    PROVE  Older(s, t, n)
<1>1. \A i \in 1 .. Len(s) : s[i][2] \in Nat
  BY DEF Message
<1>. QED
  BY <1>1 DEF Older

Ending == {"closing", "close_untrack", "closed"}

\* c's tasks for t forward nothing in this step, and none is added; the
\* messages in front of them stay in order.
LEMMA SameServers ==
    ASSUME NEW c \in Conn, NEW t \in Topic, OrderAt(c, t),
           Sorted(delivered'[c], t), Sorted(funnel'[c], t), Ahead(delivered'[c], funnel'[c], t),
           \A n \in Nat : Older(delivered[c], t, n) /\ Older(funnel[c], t, n)
                              => Older(delivered'[c], t, n) /\ Older(funnel'[c], t, n),
           \A f \in Forwarder : Serves(f, c, t)' => /\ Serves(f, c, t)
                                                    /\ fwd'[f].held = fwd[f].held
                                                    /\ fwd'[f].cursor = fwd[f].cursor
                                                    /\ Upcoming(f) \in Nat,
           subs'[c][t] = 0 /\ pc'[c] \notin Ending => subs[c][t] = 0 /\ pc[c] \notin Ending
    PROVE  OrderAt(c, t)'
<1>1. \A f \in Forwarder : Serves(f, c, t)' =>
          /\ fwd'[f].held \in {0, fwd'[f].cursor}
          /\ Older(delivered[c], t, Upcoming(f)')
          /\ Older(funnel[c], t, Upcoming(f)')
          /\ Upcoming(f)' \in Nat
  BY DEF OrderAt, Upcoming
<1>2. \A f, g \in Forwarder : Serves(f, c, t)' /\ Serves(g, c, t)' => f = g
  BY DEF OrderAt
<1>3. subs'[c][t] = 0 /\ pc'[c] \notin Ending =>
          /\ \A f \in Forwarder : ~Serves(f, c, t)'
          /\ Older(delivered[c], t, 0)
          /\ Older(funnel[c], t, 0)
  BY DEF OrderAt, Ending
<1>4. /\ \A f \in Forwarder : Serves(f, c, t)' =>
            /\ Older(delivered'[c], t, Upcoming(f)')
            /\ Older(funnel'[c], t, Upcoming(f)')
      /\ subs'[c][t] = 0 /\ pc'[c] \notin Ending =>
            Older(delivered'[c], t, 0) /\ Older(funnel'[c], t, 0)
  BY <1>1, <1>3
<1>. QED
  BY <1>1, <1>2, <1>3, <1>4 DEF OrderAt, Ending

\* A task has a number of its own for what it forwards next.
LEMMA UpcomingIs ==
    ASSUME TypeOK, NEW f \in Forwarder
    PROVE  fwd[f].held \in Nat /\ fwd[f].cursor \in Nat /\ Upcoming(f) \in Nat
  BY DEF TypeOK, Task, Upcoming

\* The same, when the messages in front stay as they are.
LEMMA SameMessages ==
    ASSUME TypeOK, NEW c \in Conn, NEW t \in Topic, OrderAt(c, t),
           delivered'[c] = delivered[c], funnel'[c] = funnel[c],
           \A f \in Forwarder : Serves(f, c, t)' => /\ Serves(f, c, t)
                                                    /\ fwd'[f].held = fwd[f].held
                                                    /\ fwd'[f].cursor = fwd[f].cursor,
           subs'[c][t] = 0 /\ pc'[c] \notin Ending => subs[c][t] = 0 /\ pc[c] \notin Ending
    PROVE  OrderAt(c, t)'
<1>1. Sorted(delivered'[c], t) /\ Sorted(funnel'[c], t) /\ Ahead(delivered'[c], funnel'[c], t)
  BY DEF OrderAt
<1>. QED
  BY <1>1, SameServers, UpcomingIs

LEMMA TaskOrder ==
    ASSUME IInv, NEW f \in Forwarder, TaskStep(f), NEW c \in Conn, NEW t \in Topic, OrderAt(c, t)
    PROVE  OrderAt(c, t)'
<1> USE DEF IInv
<1>1. /\ \A g \in Forwarder : g # f => fwd'[g] = fwd[g]
      /\ UNCHANGED <<pc, subs, delivered>>
  BY TaskStepIs DEF connVars
<1>2. delivered[c] \in Seq(Message) /\ funnel[c] \in Seq(Message)
  BY DEF TypeOK, Message
<1>3. CASE Recv(f)
  <2>1. UNCHANGED funnel /\ fwd[f].held = 0 /\ fwd[f].task \in {"idle", "polling"}
    BY <1>3 DEF Recv, Runs
  <2>2. fwd[f].topic \in Topic
    BY <2>1 DEF ChannelInv, Alive
  <2>3. PICK i \in Retained(f) :
           fwd' = [fwd EXCEPT ![f] = [@ EXCEPT !.held = i, !.cursor = i, !.task = "polling"]]
    BY <1>3 DEF Recv
  <2>4. i \in Nat /\ i > fwd[f].cursor /\ fwd[f].cursor \in Nat
    BY <2>2, RetainedIs, UpcomingIs
  <2>5. /\ fwd'[f].held = i /\ fwd'[f].cursor = i
        /\ \A g \in Forwarder : Serves(g, c, t)' => Serves(g, c, t)
    BY <1>1, <2>1, <2>3 DEF Serves, TypeOK, Task
  <2>6. Serves(f, c, t) => Older(delivered[c], t, i) /\ Older(funnel[c], t, i)
    <3>1. Serves(f, c, t) => Older(delivered[c], t, fwd[f].cursor + 1)
                             /\ Older(funnel[c], t, fwd[f].cursor + 1)
      BY <2>1 DEF OrderAt, Upcoming
    <3>. QED
      BY <1>2, <2>4, <3>1, OlderThanLater
  <2>7. \A g \in Forwarder : Serves(g, c, t)' => /\ fwd'[g].held \in {0, fwd'[g].cursor}
                                                 /\ Older(delivered[c], t, Upcoming(g)')
                                                 /\ Older(funnel[c], t, Upcoming(g)')
    <3> SUFFICES ASSUME NEW g \in Forwarder, Serves(g, c, t)'
                 PROVE  /\ fwd'[g].held \in {0, fwd'[g].cursor}
                        /\ Older(delivered[c], t, Upcoming(g)')
                        /\ Older(funnel[c], t, Upcoming(g)')
      OBVIOUS
    <3>1. Serves(g, c, t)
      BY <2>5
    <3>2. CASE g # f
      BY <1>1, <3>1, <3>2 DEF OrderAt, Upcoming
    <3>3. CASE g = f
      <4>1. Upcoming(f)' = i
        BY <2>4, <2>5 DEF Upcoming
      <4>. QED
        BY <2>5, <2>6, <3>1, <3>3, <4>1
    <3>. QED
      BY <3>2, <3>3
  <2>. QED
    BY <1>1, <2>1, <2>5, <2>7 DEF OrderAt
<1>4. CASE Forward(f)
  <2>1. /\ fwd[f].task \in {"idle", "polling"} /\ fwd[f].held # 0
        /\ funnel' = [funnel EXCEPT ![fwd[f].conn] = Append(@, <<fwd[f].topic, fwd[f].held>>)]
        /\ fwd' = [fwd EXCEPT ![f] = [@ EXCEPT !.held = 0, !.task = "polling"]]
    BY <1>4 DEF Forward, Runs
  <2>2. fwd[f].conn \in Conn /\ fwd[f].topic \in Topic /\ fwd[f].held \in Nat /\ fwd[f].cursor \in Nat
    BY <2>1, UpcomingIs DEF ChannelInv, Alive
  <2>3. /\ fwd'[f].held = 0 /\ fwd'[f].cursor = fwd[f].cursor
        /\ \A g \in Forwarder : Serves(g, c, t)' => Serves(g, c, t)
    BY <1>1, <2>1 DEF Serves, TypeOK, Task
  <2>4. CASE fwd[f].conn # c
    <3>1. funnel'[c] = funnel[c]
      BY <2>1, <2>2, <2>4 DEF TypeOK
    <3>2. ~Serves(f, c, t)
      BY <2>4 DEF Serves
    <3>. QED
      BY <1>1, <2>3, <3>1, <3>2, SameMessages
  <2>5. CASE fwd[f].conn = c
    <3>1. PICK e \in Message : e = <<fwd[f].topic, fwd[f].held>>
      BY <2>2 DEF Message
    <3>2. funnel'[c] = Append(funnel[c], e) /\ e[1] = fwd[f].topic /\ e[2] = fwd[f].held
      BY <2>1, <2>2, <2>5, <3>1 DEF TypeOK
    <3>3. CASE fwd[f].topic # t
      <4>1. /\ Sorted(funnel'[c], t)
            /\ Ahead(delivered[c], funnel'[c], t)
            /\ \A n \in Nat : Older(funnel[c], t, n) => Older(funnel'[c], t, n)
        BY <1>2, <3>2, <3>3, AppendKeepsOrder DEF OrderAt
      <4>2. ~Serves(f, c, t) /\ Sorted(delivered'[c], t)
        BY <1>1, <3>3 DEF Serves, OrderAt
      <4>. QED
        BY <1>1, <2>3, <4>1, <4>2, SameServers, UpcomingIs
    <3>4. CASE fwd[f].topic = t
      <4>1. Serves(f, c, t)
        BY <2>1, <2>5, <3>4 DEF Serves
      <4>2. /\ fwd[f].held = fwd[f].cursor
            /\ Older(delivered[c], t, fwd[f].held)
            /\ Older(funnel[c], t, fwd[f].held)
            /\ Sorted(delivered[c], t) /\ Sorted(funnel[c], t) /\ Ahead(delivered[c], funnel[c], t)
            /\ \A g \in Forwarder : Serves(g, c, t) => g = f
            /\ subs[c][t] = 0 => pc[c] \in Ending
        BY <2>1, <4>1 DEF OrderAt, Upcoming, Ending
      <4>3. Sorted(funnel'[c], t) /\ Ahead(delivered[c], funnel'[c], t)
        BY <1>2, <3>2, <4>2, AppendKeepsOrder
      <4>4. Upcoming(f)' = fwd[f].cursor + 1 /\ fwd[f].cursor + 1 \in Nat
        BY <2>2, <2>3 DEF Upcoming
      <4>5. Older(delivered[c], t, fwd[f].cursor + 1) /\ Older(funnel[c], t, fwd[f].cursor + 1)
        BY <1>2, <2>2, <4>2, <4>4, OlderThanLater
      <4>6. Older(funnel'[c], t, fwd[f].cursor + 1)
        BY <1>2, <2>2, <3>2, <4>2, <4>4, <4>5, AppendKeepsOrder
      <4>7. \A g \in Forwarder : Serves(g, c, t)' => g = f
        BY <2>3, <4>2
      <4>. QED
        BY <1>1, <2>3, <4>2, <4>3, <4>4, <4>5, <4>6, <4>7 DEF OrderAt, Ending
    <3>. QED
      BY <3>3, <3>4
  <2>. QED
    BY <2>4, <2>5
<1>5. CASE Park(f)
  <2>1. UNCHANGED funnel /\ fwd[f].task = "polling" /\ fwd' = [fwd EXCEPT ![f].task = "idle"]
    BY <1>5 DEF Park
  <2>2. \A g \in Forwarder : Serves(g, c, t)' => /\ Serves(g, c, t)
                                                 /\ fwd'[g].held = fwd[g].held
                                                 /\ fwd'[g].cursor = fwd[g].cursor
    BY <1>1, <2>1 DEF Serves, TypeOK, Task
  <2>. QED
    BY <1>1, <2>1, <2>2, SameMessages
<1>6. CASE DropReceiver(f) \/ DropFields(f)
  <2>1. UNCHANGED funnel /\ ~Serves(f, c, t)'
    <3>1. CASE DropReceiver(f)
      <4>1. fwd'[f].task = "dropping"
        BY <3>1 DEF DropReceiver, TypeOK, Task
      <4>. QED
        BY <3>1, <4>1 DEF DropReceiver, Serves
    <3>2. CASE DropFields(f)
      <4>1. fwd'[f].task = "gone"
        BY <3>2 DEF DropFields, TypeOK, Unspawned
      <4>. QED
        BY <3>2, <4>1 DEF DropFields, Serves
    <3>. QED
      BY <1>6, <3>1, <3>2
  <2>2. \A g \in Forwarder : Serves(g, c, t)' => /\ Serves(g, c, t)
                                                 /\ fwd'[g].held = fwd[g].held
                                                 /\ fwd'[g].cursor = fwd[g].cursor
    BY <1>1, <2>1 DEF Serves
  <2>. QED
    BY <1>1, <2>1, <2>2, SameMessages
<1>. QED
  BY <1>3, <1>4, <1>5, <1>6 DEF TaskStep

\* A refusal and a farewell are remembered.
LEMMA HistoryGrows == ASSUME IInv, [Next]_vars PROVE refused \subseteq refused' /\ left \subseteq left'
<1> USE DEF history, connVars
<1>1. ASSUME NEW c \in Conn, LoopStep(c)
      PROVE  refused \subseteq refused' /\ left \subseteq left'
  BY <1>1 DEF LoopStep, Spawn, HandlerReturns, Unsubscribed, CloseTopic, TopicClosed, Close
<1>2. ASSUME NEW c \in Conn, ClientStep(c)
      PROVE  refused \subseteq refused' /\ left \subseteq left'
  BY <1>2 DEF ClientStep, Subscribe, Unsubscribe, MessageToHandler, MessageBroadcast, Hangup
<1>3. ASSUME NEW c \in Conn, HandlerTracks(c) \/ HandlerFault(c) \/ Deliver(c)
      PROVE  refused \subseteq refused' /\ left \subseteq left'
  BY <1>3 DEF HandlerTracks, HandlerFault, JoinRejected, HandlerPanics, SendFails, Deliver
<1>4. CASE (\E t \in Topic : Push(t)) \/ (\E f \in Forwarder : TaskStep(f)) \/ UNCHANGED vars
  BY <1>4, TaskStepIs DEF IInv, Push, vars
<1>. QED
  BY <1>1, <1>2, <1>3, <1>4 DEF Next

\* The task a connection spawns is the first for its topic, or an earlier
\* subscription of it was left or refused.
LEMMA SpawnOrder ==
    ASSUME IInv, NEW d \in Conn, NEW f \in Forwarder, Spawn(d, f),
           NEW c \in Conn, NEW t \in Topic, OrderAt(c, t)
    PROVE  OrderAt(c, t)'
<1> USE DEF IInv
<1>1. /\ arg[d] \in Topic /\ subs[d][arg[d]] = 0 /\ pc[d] = "subscribe" /\ f # 0
      /\ UNCHANGED <<delivered, funnel>>
  BY DEF Spawn, LoopInv, history, Forwarder
<1>2. /\ fwd'[f] = [conn |-> d, topic |-> arg[d], chan |-> chan[d],
                    cursor |-> Len(log[arg[d]]), held |-> 0, task |-> "idle"]
      /\ \A g \in Forwarder : g # f => fwd'[g] = fwd[g]
      /\ subs'[d][arg[d]] = f
      /\ \A b \in Conn, u \in Topic : b # d \/ u # arg[d] => subs'[b][u] = subs[b][u]
      /\ pc'[d] \in {"join", "select"}
      /\ \A b \in Conn : b # d => pc'[b] = pc[b]
  BY <1>1 DEF Spawn, Goto, TypeOK
<1>3. CASE c # d \/ t # arg[d]
  <2>1. \A g \in Forwarder : Serves(g, c, t)' => /\ Serves(g, c, t)
                                                 /\ fwd'[g].held = fwd[g].held
                                                 /\ fwd'[g].cursor = fwd[g].cursor
    BY <1>2, <1>3 DEF Serves
  <2>2. subs'[c][t] = 0 /\ pc'[c] \notin Ending => subs[c][t] = 0 /\ pc[c] \notin Ending
    BY <1>1, <1>2, <1>3 DEF Ending
  <2>. QED
    BY <1>1, <2>1, <2>2, SameMessages
<1>4. CASE c = d /\ t = arg[d]
  <2>1. /\ \A g \in Forwarder : ~Serves(g, c, t)
        /\ Older(delivered[c], t, 0) /\ Older(funnel[c], t, 0)
    BY <1>1, <1>4 DEF OrderAt
  <2>2. \A g \in Forwarder : Serves(g, c, t)' => g = f
    BY <1>2, <2>1 DEF Serves
  <2>3. Len(log[t]) \in Nat /\ delivered[c] \in Seq(Message) /\ funnel[c] \in Seq(Message)
    BY DEF TypeOK, Message
  <2>4. fwd'[f].held = 0 /\ Upcoming(f)' = Len(log[t]) + 1
    BY <1>2, <1>4 DEF Upcoming
  <2>5. Older(delivered[c], t, Len(log[t]) + 1) /\ Older(funnel[c], t, Len(log[t]) + 1)
    BY <2>1, <2>3, OlderThanLater
  <2>. QED
    BY <1>1, <1>2, <1>4, <2>2, <2>4, <2>5 DEF OrderAt
<1>. QED
  BY <1>3, <1>4

LEMMA StepOrderInv ==
    ASSUME IInv, [Next]_vars
    PROVE  OrderInv'
<1> SUFFICES ASSUME NEW c \in Conn, NEW t \in Topic, <<c, t>> \notin refused' \cup left'
             PROVE  OrderAt(c, t)'
  BY DEF OrderInv
<1> USE DEF IInv, connVars, taskVars, history
<1>1. OrderAt(c, t)
  BY HistoryGrows DEF OrderInv
<1>2. delivered[c] \in Seq(Message) /\ funnel[c] \in Seq(Message)
  BY DEF TypeOK, Message
<1>3. ASSUME UNCHANGED fwd, delivered'[c] = delivered[c], funnel'[c] = funnel[c],
             subs'[c][t] = 0 /\ pc'[c] \notin Ending => subs[c][t] = 0 /\ pc[c] \notin Ending
      PROVE  OrderAt(c, t)'
  BY <1>1, <1>3, SameMessages DEF Serves
<1>4. ASSUME NEW d \in Conn,
             \/ \E u \in Topic : Subscribe(d, u) \/ MessageToHandler(d, u) \/ MessageBroadcast(d, u)
             \/ HandlerReturns(d) \/ Unsubscribed(d) \/ TopicClosed(d) \/ HandlerTracks(d) \/ Hangup(d)
      PROVE  OrderAt(c, t)'
  <2>1. UNCHANGED <<fwd, delivered, funnel, subs>>
    BY <1>4 DEF Subscribe, MessageToHandler, MessageBroadcast, HandlerReturns, Unsubscribed, TopicClosed,
                HandlerTracks, Hangup
  <2>2. pc'[c] \notin Ending => pc[c] \notin Ending
    BY <1>4 DEF Subscribe, MessageToHandler, MessageBroadcast, HandlerReturns, Unsubscribed, TopicClosed,
                HandlerTracks, Hangup, Goto, Ending, TypeOK
  <2>. QED
    BY <1>3, <2>1, <2>2
<1>5. ASSUME NEW d \in Conn, NEW u \in Topic, CloseTopic(d, u) \/ Unsubscribe(d, u)
      PROVE  OrderAt(c, t)'
  <2>1. UNCHANGED <<fwd, delivered, funnel>> /\ Abort(d, u)
    BY <1>5 DEF CloseTopic, Unsubscribe
  <2>2. CASE c # d
    <3>1. subs'[c][t] = subs[c][t]
      BY <2>1, <2>2, AbortIs
    <3>2. pc'[c] = pc[c]
      BY <1>5, <2>2 DEF CloseTopic, Unsubscribe, Goto, TypeOK
    <3>. QED
      BY <1>3, <2>1, <3>1, <3>2
  <2>3. CASE c = d /\ CloseTopic(d, u)
    <3>1. pc'[c] \in Ending
      BY <2>3 DEF CloseTopic, Goto, Ending, TypeOK
    <3>. QED
      BY <1>3, <2>1, <3>1
  <2>4. CASE c = d /\ Unsubscribe(d, u)
    <3>1. pc[c] \notin Ending /\ (u = t => subs[c][t] = 0)
      BY <2>4 DEF Unsubscribe, Ending
    <3>2. u # t => subs'[c][t] = subs[c][t]
      BY <2>1, AbortIs
    <3>. QED
      BY <1>3, <2>1, <3>1, <3>2
  <2>. QED
    BY <1>5, <2>2, <2>3, <2>4
<1>6. ASSUME NEW d \in Conn, JoinRejected(d)
      PROVE  OrderAt(c, t)'
  <2>1. UNCHANGED <<fwd, delivered, funnel>> /\ Abort(d, arg[d]) /\ arg[d] \in Topic /\ pc[d] = "join"
    BY <1>6 DEF JoinRejected, LoopInv
  <2>2. c # d \/ t # arg[d]
    BY <1>6 DEF JoinRejected
  <2>3. subs'[c][t] = subs[c][t]
    BY <2>1, <2>2, AbortIs
  <2>4. pc[c] \in Ending => pc'[c] = pc[c]
    BY <1>6, <2>1 DEF JoinRejected, Goto, Ending, TypeOK
  <2>. QED
    BY <1>3, <2>1, <2>3, <2>4
<1>7. ASSUME NEW d \in Conn, HandlerPanics(d)
      PROVE  OrderAt(c, t)'
  <2>1. c # d
    BY <1>7 DEF HandlerPanics
  <2>2. UNCHANGED <<fwd, delivered>> /\ funnel'[c] = funnel[c] /\ subs'[c] = subs[c] /\ pc'[c] = pc[c]
    BY <1>7, <2>1 DEF HandlerPanics, Goto, TypeOK
  <2>. QED
    BY <1>3, <2>2
<1>8. ASSUME NEW d \in Conn, SendFails(d) \/ Close(d) \/ Deliver(d)
      PROVE  OrderAt(c, t)'
  <2>1. UNCHANGED <<fwd, subs>> /\ (pc'[c] \notin Ending => pc[c] \notin Ending)
    BY <1>8 DEF SendFails, Close, Deliver, Goto, Ending, TypeOK
  <2>2. CASE c # d
    <3>1. delivered'[c] = delivered[c] /\ funnel'[c] = funnel[c]
      BY <1>8, <2>2 DEF SendFails, Close, Deliver, TypeOK
    <3>. QED
      BY <1>3, <2>1, <3>1
  <2>3. ASSUME Sorted(delivered'[c], t), Sorted(funnel'[c], t), Ahead(delivered'[c], funnel'[c], t),
               \A n \in Nat : Older(delivered[c], t, n) /\ Older(funnel[c], t, n)
                                  => Older(delivered'[c], t, n) /\ Older(funnel'[c], t, n)
        PROVE  OrderAt(c, t)'
    BY <1>1, <2>1, <2>3, SameServers, UpcomingIs DEF Serves
  <2>4. Sorted(delivered[c], t) /\ Sorted(funnel[c], t) /\ Ahead(delivered[c], funnel[c], t)
    BY <1>1 DEF OrderAt
  <2>5. CASE c = d /\ Close(d)
    <3>1. funnel'[c] = <<>> /\ delivered'[c] = delivered[c]
      BY <2>5 DEF Close, TypeOK
    <3>. QED
      BY <1>2, <2>3, <2>4, <3>1, EmptyIsOrdered
  <2>6. CASE c = d /\ SendFails(d)
    <3>1. funnel[c] # <<>> /\ funnel'[c] = Tail(funnel[c]) /\ delivered'[c] = delivered[c]
      BY <2>6 DEF SendFails, TypeOK
    <3>. QED
      BY <1>2, <2>3, <2>4, <3>1, HeadMovesOn
  <2>7. CASE c = d /\ Deliver(d)
    <3>1. funnel[c] # <<>> /\ funnel'[c] = Tail(funnel[c])
          /\ delivered'[c] = Append(delivered[c], Head(funnel[c]))
      BY <2>7 DEF Deliver, TypeOK
    <3>2. /\ Head(funnel[c]) \in Message
          /\ Sorted(Tail(funnel[c]), t)
          /\ Ahead(Append(delivered[c], Head(funnel[c])), Tail(funnel[c]), t)
          /\ Head(funnel[c])[1] = t => Older(delivered[c], t, Head(funnel[c])[2])
          /\ \A n \in Nat : Older(funnel[c], t, n)
                => Older(Tail(funnel[c]), t, n) /\ (Head(funnel[c])[1] = t => Head(funnel[c])[2] < n)
      BY <1>2, <2>4, <3>1, HeadMovesOn
    <3>3. Sorted(Append(delivered[c], Head(funnel[c])), t)
      BY <1>2, <2>4, <3>2, AppendKeepsOrder
    <3>4. \A n \in Nat : Older(delivered[c], t, n) /\ Older(funnel[c], t, n)
                => Older(Append(delivered[c], Head(funnel[c])), t, n) /\ Older(Tail(funnel[c]), t, n)
      BY <1>2, <3>2, AppendKeepsOrder
    <3>. QED
      BY <2>3, <3>1, <3>2, <3>3, <3>4
  <2>. QED
    BY <1>8, <2>2, <2>5, <2>6, <2>7
<1>9. CASE (\E u \in Topic : Push(u)) \/ UNCHANGED vars
  BY <1>3, <1>9 DEF Push, vars
<1>. QED
  BY <1>1, <1>4, <1>5, <1>6, <1>7, <1>8, <1>9, TaskOrder, SpawnOrder
     DEF Next, LoopStep, ClientStep, HandlerFault

-----------------------------------------------------------------------------
(* The theorems *)

LEMMA InitIInv == Init => IInv
<1> SUFFICES ASSUME Init PROVE IInv
  OBVIOUS
<1> USE DEF Init
<1>1. TypeOK
  BY InitTypeOK
<1>2. ChannelInv
  BY DEF ChannelInv, Alive, Unspawned
<1>3. LoopInv
  BY DEF LoopInv
<1>4. SubsInv
  BY DEF SubsInv, Alive, Unspawned
<1>5. BoundInv
  <2>1. \A c \in Conn : Active(c) = {}
    BY RelayAssumption DEF Active, Unspawned
  <2>2. \A c \in Conn : Cardinality(Active(c)) = 0
    BY <2>1, FS_EmptySet, Zenon
  <2>3. 0 <= max_subscriptions /\ \A c \in Conn : pc[c] # "subscribe"
    BY RelayAssumption
  <2>. QED
    BY <2>2, <2>3 DEF BoundInv
<1>6. OrderInv
  <2>1. \A f \in Forwarder, c \in Conn, t \in Topic : ~Serves(f, c, t)
    BY DEF Serves, Unspawned
  <2>2. \A c \in Conn : delivered[c] = <<>> /\ funnel[c] = <<>>
    OBVIOUS
  <2>3. \A t \in Topic : Sorted(<<>>, t) /\ Ahead(<<>>, <<>>, t) /\ Older(<<>>, t, 0)
    BY DEF Sorted, Ahead, Older
  <2>4. \A c \in Conn, t \in Topic : OrderAt(c, t)
    BY <2>1, <2>2, <2>3 DEF OrderAt
  <2>. QED
    BY <2>4 DEF OrderInv
<1>7. PresenceExact
  BY RelayAssumption DEF PresenceExact
<1>. QED
  BY <1>1, <1>2, <1>3, <1>4, <1>5, <1>6, <1>7 DEF IInv

LEMMA StepIInv == IInv /\ [Next]_vars => IInv'
<1> SUFFICES ASSUME IInv, [Next]_vars PROVE IInv'
  OBVIOUS
<1>1. TypeOK /\ ChannelInv /\ LoopInv /\ SubsInv /\ BoundInv /\ PresenceExact
  BY DEF IInv
<1>. QED
  BY <1>1, StepTypeOK, StepChannelInv, StepLoopInv, StepSubsInv, StepBoundInv, StepOrderInv,
     StepPresenceExact DEF IInv

LEMMA IInvHolds == Spec => []IInv
  BY InitIInv, StepIInv, PTL DEF Spec

\* The relay's state keeps its types.
THEOREM RelayTypeCorrect == Spec => []TypeOK
<1>1. IInv => TypeOK
  BY DEF IInv
<1>. QED
  BY <1>1, IInvHolds, PTL

\* Every subscription listens to the channel that push() sends to, although
\* InMemoryBackend::subscribe clones the sender and subscribes to it in two
\* steps: no receiver's cleanup removes a topic in between.
THEOREM SubscribersAreReached == Spec => []SubscribersReachable
<1>1. IInv => SubscribersReachable
  <2> SUFFICES ASSUME IInv, NEW c \in Conn, NEW t \in Topic, subs[c][t] # 0
               PROVE  topics[t] # 0 /\ fwd[subs[c][t]].chan = topics[t]
    BY DEF SubscribersReachable
  <2>1. subs[c][t] \in Forwarder
    BY DEF IInv, TypeOK
  <2>2. Alive(subs[c][t]) /\ fwd[subs[c][t]].topic = t
    BY DEF IInv, SubsInv, Alive
  <2>. QED
    BY <2>1, <2>2 DEF IInv, ChannelInv
<1>. QED
  BY <1>1, IInvHolds, PTL

\* A client that never left a topic and was never refused gets its pushes in
\* the order pushed and none of them twice, through the broadcast channel,
\* the forwarding task and the funnel.
THEOREM PushesInOrder == Spec => []DeliveredInOrder
<1>1. IInv => DeliveredInOrder
  <2> SUFFICES ASSUME IInv, NEW c \in Conn, NEW i \in 1 .. Len(delivered[c]), NEW k \in 1 .. Len(delivered[c]),
                      i < k, delivered[c][k][1] = delivered[c][i][1],
                      <<c, delivered[c][i][1]>> \notin refused, <<c, delivered[c][i][1]>> \notin left
               PROVE  delivered[c][i][2] < delivered[c][k][2]
    BY DEF DeliveredInOrder
  <2>1. PICK t \in Topic : t = delivered[c][i][1]
    <3>1. delivered[c] \in Seq(Topic \X Nat)
      BY DEF IInv, TypeOK
    <3>2. delivered[c][i] \in Topic \X Nat
      BY <3>1
    <3>. QED
      BY <3>2
  <2>2. Sorted(delivered[c], t)
    BY <2>1 DEF IInv, OrderInv, OrderAt
  <2>. QED
    BY <2>1, <2>2 DEF Sorted
<1>. QED
  BY <1>1, IInvHolds, PTL

\* The presence map is what was tracked and not untracked since, an empty
\* inner map is about to be removed, and who is listed is subscribed or was
\* refused: PresenceMap's two-step untrack loses nobody.
THEOREM PresenceIsExact == Spec => []PresenceExact
<1>1. IInv => PresenceExact
  BY DEF IInv
<1>. QED
  BY <1>1, IInvHolds, PTL

\* No connection ever has more forwarding tasks alive and not aborted than
\* max_subscriptions_per_connection.
THEOREM TasksWithinLimit == Spec => []TasksBounded
<1>1. IInv => TasksBounded
  BY DEF IInv, BoundInv, Active, TasksBounded
<1>. QED
  BY <1>1, IInvHolds, PTL

\* An entry of the topics map, once made, is never removed or replaced: the
\* remove_if of BroadcastReceiver::drop counts the receiver it belongs to.
THEOREM TopicsStay == Spec => [][\A t \in Topic : topics[t] # 0 => topics'[t] = topics[t]]_vars
<1>1. IInv /\ [Next]_vars => [\A t \in Topic : topics[t] # 0 => topics'[t] = topics[t]]_vars
  <2> SUFFICES ASSUME IInv, Next PROVE \A t \in Topic : topics[t] # 0 => topics'[t] = topics[t]
    OBVIOUS
  <2> USE DEF IInv, backendVars
  <2>1. ASSUME NEW f \in Forwarder, TaskStep(f)
        PROVE  topics' = topics
    BY <2>1, TaskStepIs
  <2>2. ASSUME NEW c \in Conn, NEW t \in Topic, Subscribe(c, t)
        PROVE  \A u \in Topic : topics[u] # 0 => topics'[u] = topics[u]
    BY <2>2, EntryIs DEF Subscribe
  <2>3. ASSUME NEW c \in Conn,
               \/ LoopStep(c)
               \/ \E t \in Topic : Unsubscribe(c, t) \/ MessageToHandler(c, t) \/ MessageBroadcast(c, t)
               \/ Hangup(c) \/ HandlerTracks(c) \/ HandlerFault(c) \/ Deliver(c)
        PROVE  topics' = topics
    BY <2>3 DEF LoopStep, Spawn, HandlerReturns, Unsubscribed, CloseTopic, TopicClosed, Close, Unsubscribe,
                MessageToHandler, MessageBroadcast, Hangup, HandlerTracks, HandlerFault, JoinRejected,
                HandlerPanics, SendFails, Deliver
  <2>4. ASSUME NEW t \in Topic, Push(t)
        PROVE  topics' = topics
    BY <2>4 DEF Push
  <2>. QED
    BY <2>1, <2>2, <2>3, <2>4 DEF Next, ClientStep
<1>. QED
  BY <1>1, IInvHolds, PTL DEF Spec

=============================================================================
