-------------------------------- MODULE Relay --------------------------------
(***************************************************************************)
(* The relay: topics of the in-memory backend, the connection loops that   *)
(* serve WebSocket clients, one forwarding task per subscription, and the  *)
(* presence map.                                                           *)
(*                                                                         *)
(* A topic's tokio broadcast channel is the log of what was pushed to it   *)
(* and, per receiver, the position the receiver has reached; only the last *)
(* topic_capacity messages are kept, so a slow receiver skips a gap.  The  *)
(* topics map names a topic's current channel by a number (0: no entry).   *)
(*                                                                         *)
(* A forwarding task runs on another thread than its connection loop.      *)
(* JoinHandle::abort only marks it: a task that is being polled runs on    *)
(* until it has to wait, and is dropped then.                              *)
(*                                                                         *)
(* Wire messages that change nothing on the server (ping, binary frames,   *)
(* invalid JSON) are left out.  A channel handler is user code: it may     *)
(* track its connection, it may push (any Push below may be its), and it   *)
(* returns Ok, returns Err or panics.  The spawned Leave handlers can only *)
(* push.                                                                   *)
(***************************************************************************)
EXTENDS Integers, Sequences, FiniteSets, FiniteSetsExt

CONSTANTS
    Conn,              \* connection ids
    Topic,             \* topics
    Channel,           \* the topics find_channel has a handler for
    max_subscriptions, \* RelayConfig::max_subscriptions_per_connection
    topic_capacity,    \* RelayConfig::topic_capacity
    FunnelCapacity,    \* capacity of a connection's funnel, 256 in the code
    NoKey,             \* a topic without an entry in the presence map
    NoConn,            \* the connection of a task not spawned yet
    MaxForwarders,     \* bound: subscriptions made in a behaviour
    MaxPush            \* bound: messages pushed in a behaviour

ASSUME RelayAssumption ==
    /\ IsFiniteSet(Conn)
    /\ Channel \subseteq Topic
    /\ max_subscriptions \in Nat
    /\ topic_capacity \in Nat \ {0}
    /\ FunnelCapacity \in Nat \ {0}
    /\ MaxForwarders \in Nat
    /\ MaxPush \in Nat
    /\ NoConn \notin Conn
    /\ NoKey \notin Topic
    /\ \A S \in SUBSET Conn : S # NoKey

VARIABLES
    topics,     \* topics[t]: the channel registered for t, 0 if none
    created,    \* created[t]: the channels made for t so far
    log,        \* log[t]: the channel of each message pushed to t, in order
    fwd,        \* fwd[f]: forwarding task f with its receiver
    aborted,    \* the tasks JoinHandle::abort was called on
    pc,         \* pc[c]: where connection_loop is
    arg,        \* arg[c]: the topic connection_loop is working on
    chan,       \* chan[c]: the channel subscribe has cloned, 0 if none
    subs,       \* subs[c][t]: the task in `subscriptions`, 0 if none
    funnel,     \* funnel[c]: the mpsc channel between the tasks and the loop
    presence,   \* presence[t]: the connections tracked in t, or NoKey
    tracked,    \* history: the <<c, t>> tracked and not untracked since
    delivered,  \* history: the pushes sent to the client
    refused,    \* history: the <<c, t>> whose join was rejected or whose handler panicked
    left        \* history: the <<c, t>> that were unsubscribed once

backendVars == <<topics, created, log>>
taskVars == <<fwd, aborted>>
connVars == <<pc, arg, chan, subs>>
history == <<tracked, delivered, refused, left>>
vars == <<topics, created, log, fwd, aborted, pc, arg, chan, subs, funnel, presence,
          tracked, delivered, refused, left>>

Forwarder == 1 .. MaxForwarders

Task == [conn : Conn \cup {NoConn}, topic : Topic \cup {NoKey}, chan : Nat, cursor : Nat,
         held : Nat, task : {"none", "idle", "polling", "dropping", "gone"}]

\* Forwarder number f has not been spawned yet.
Unspawned == [conn |-> NoConn, topic |-> NoKey, chan |-> 0, cursor |-> 0,
              held |-> 0, task |-> "none"]

PC == {"select", "subscribe", "join", "message", "untrack", "closing",
       "close_untrack", "closed"}

-----------------------------------------------------------------------------
(* The backend: InMemoryBackend and BroadcastReceiver. *)

\* The receivers tx.receiver_count() counts: not dropped yet.
Receivers(t) == {f \in Forwarder : /\ fwd[f].topic = t
                                   /\ fwd[f].chan = topics[t]
                                   /\ fwd[f].task # "gone"}

\* What f's receiver has not read and the channel still holds.
Retained(f) ==
    LET entries == log[fwd[f].topic]
        sent == {i \in 1 .. Len(entries) : entries[i] = fwd[f].chan}
    IN  {i \in sent : /\ i > fwd[f].cursor
                      /\ Cardinality({k \in sent : k > i}) < topic_capacity}

\* InMemoryBackend::push: without an entry for the topic the message is dropped.
BackendPush(t) ==
    /\ MapThenSumSet(LAMBDA u : Len(log[u]), Topic) < MaxPush
    /\ log' = IF topics[t] = 0 THEN log
              ELSE [log EXCEPT ![t] = Append(@, topics[t])]

\* InMemoryBackend::subscribe up to the clone of the sender: the map entry is
\* locked for this step only.
BackendEntry(t) ==
    IF topics[t] # 0 THEN UNCHANGED <<topics, created>>
    ELSE /\ created' = [created EXCEPT ![t] = @ + 1]
         /\ topics' = [topics EXCEPT ![t] = created[t] + 1]

\* RelayHub::push, called by an HTTP handler or a channel handler.
Push(t) ==
    /\ BackendPush(t)
    /\ UNCHANGED <<topics, created, taskVars, connVars, funnel, presence, history>>

-----------------------------------------------------------------------------
(* The forwarding task spawned by a subscription. *)

HasRoom(f) == Len(funnel[fwd[f].conn]) < FunnelCapacity

FunnelClosed(f) == pc[fwd[f].conn] = "closed"

\* receiver.recv() or funnel.send() can make progress.
Ready(f) == IF fwd[f].held = 0 THEN Retained(f) # {}
            ELSE HasRoom(f) \/ FunnelClosed(f)

\* The task is being polled, or the executor may poll it: a task aborted
\* while it waits is not polled again.
Runs(f) == fwd[f].task = "polling" \/ (fwd[f].task = "idle" /\ f \notin aborted)

\* Mutant: a receiver that lagged stops receiving.
RecvStopsOnLag(f) ==
    /\ Runs(f)
    /\ fwd[f].held = 0
    /\ fwd[f].cursor + 1 \in Retained(f)
    /\ fwd' = [fwd EXCEPT ![f] = [@ EXCEPT !.held = fwd[f].cursor + 1, !.cursor = @ + 1, !.task = "polling"]]
    /\ UNCHANGED <<backendVars, aborted, connVars, funnel, presence, history>>

\* BroadcastReceiver::recv: the oldest message kept; Lagged skips the gap.
Recv(f) ==
    /\ Runs(f)
    /\ fwd[f].held = 0
    /\ \E i \in Retained(f) :
          /\ \A k \in Retained(f) : i <= k
          /\ fwd' = [fwd EXCEPT ![f] = [@ EXCEPT !.held = i, !.cursor = i, !.task = "polling"]]
    /\ UNCHANGED <<backendVars, aborted, connVars, funnel, presence, history>>

\* funnel.send(msg) with room in the funnel.
Forward(f) ==
    /\ Runs(f)
    /\ fwd[f].held # 0
    /\ ~FunnelClosed(f)
    /\ HasRoom(f)
    /\ funnel' = [funnel EXCEPT ![fwd[f].conn] = Append(@, <<fwd[f].topic, fwd[f].held>>)]
    /\ fwd' = [fwd EXCEPT ![f] = [@ EXCEPT !.held = 0, !.task = "polling"]]
    /\ UNCHANGED <<backendVars, aborted, connVars, presence, history>>

\* The task waits, for a message or for room.
Park(f) ==
    /\ fwd[f].task = "polling"
    /\ ~Ready(f)
    /\ fwd' = [fwd EXCEPT ![f].task = "idle"]
    /\ UNCHANGED <<backendVars, aborted, connVars, funnel, presence, history>>

\* The task is over: aborted while it waited, or the funnel is closed.
Over(f) == \/ fwd[f].task = "idle" /\ f \in aborted
           \/ Runs(f) /\ fwd[f].held # 0 /\ FunnelClosed(f)

\* Mutant: the receiver is dropped before the topic is checked, so it no
\* longer counts itself.
DropReceiverLast(f) ==
    /\ Over(f)
    /\ topics' = IF Receivers(fwd[f].topic) = {f}
                 THEN [topics EXCEPT ![fwd[f].topic] = 0] ELSE topics
    /\ fwd' = [fwd EXCEPT ![f] = [@ EXCEPT !.task = "dropping", !.held = 0, !.cursor = 0]]
    /\ UNCHANGED <<created, log, aborted, connVars, funnel, presence, history>>

\* BroadcastReceiver::drop: remove_if runs while the field rx is still alive.
DropReceiver(f) ==
    /\ Over(f)
    /\ topics' = IF Receivers(fwd[f].topic) = {}
                 THEN [topics EXCEPT ![fwd[f].topic] = 0] ELSE topics
    /\ fwd' = [fwd EXCEPT ![f] = [@ EXCEPT !.task = "dropping", !.held = 0, !.cursor = 0]]
    /\ UNCHANGED <<created, log, aborted, connVars, funnel, presence, history>>

\* After drop() the fields are dropped, rx among them.
DropFields(f) ==
    /\ fwd[f].task = "dropping"
    /\ fwd' = [fwd EXCEPT ![f] = [Unspawned EXCEPT !.task = "gone"]]
    /\ aborted' = aborted \ {f}
    /\ UNCHANGED <<backendVars, connVars, funnel, presence, history>>

-----------------------------------------------------------------------------
(* The presence map. *)

\* Mutant: the inner map is keyed by the topic.
TrackByTopic(c, t) ==
    /\ presence' = [presence EXCEPT ![t] = IF @ = NoKey THEN {t} ELSE @ \cup {t}]
    /\ tracked' = tracked \cup {<<c, t>>}

\* PresenceMap::track
Track(c, t) ==
    /\ presence' = [presence EXCEPT ![t] = IF @ = NoKey THEN {c} ELSE @ \cup {c}]
    /\ tracked' = tracked \cup {<<c, t>>}

\* PresenceMap::untrack, first statement: remove the connection from the inner map.
UntrackConn(c, t) ==
    /\ presence' = [presence EXCEPT ![t] = IF @ = NoKey THEN @ ELSE @ \ {c}]
    /\ tracked' = tracked \ {<<c, t>>}

\* Mutant: the entry is removed without looking at it again.
DropEmptyAlways(t) == presence' = [presence EXCEPT ![t] = NoKey]

\* PresenceMap::untrack, second statement: remove_if the inner map is empty.
DropEmpty(t) == presence' = [presence EXCEPT ![t] = IF @ = {} THEN NoKey ELSE @]

-----------------------------------------------------------------------------
(* connection_loop of connection c. *)

Goto(c, l, t) == pc' = [pc EXCEPT ![c] = l] /\ arg' = [arg EXCEPT ![c] = t]

Subscribed(c) == {t \in Topic : subs[c][t] # 0}

\* Mutant: a topic that is already subscribed gets a second task.
MaySubscribeAgain(c, t) == \/ t \in Subscribed(c)
                           \/ Cardinality(Subscribed(c)) < max_subscriptions

\* Mutant: the limit is off by one.
MaySubscribeOneMore(c, t) == /\ t \notin Subscribed(c)
                             /\ Cardinality(Subscribed(c)) <= max_subscriptions

MaySubscribe(c, t) == /\ t \notin Subscribed(c)
                      /\ Cardinality(Subscribed(c)) < max_subscriptions

\* ClientMessage::Subscribe, up to the clone of the topic's sender.
Subscribe(c, t) ==
    /\ pc[c] = "select"
    /\ MaySubscribe(c, t)
    /\ BackendEntry(t)
    /\ chan' = [chan EXCEPT ![c] = topics'[t]]
    /\ Goto(c, "subscribe", t)
    /\ UNCHANGED <<log, taskVars, subs, funnel, presence, history>>

\* tx.subscribe(), the spawn, the insert, and then the Join handler if there is one.
Spawn(c, f) ==
    /\ pc[c] = "subscribe"
    /\ fwd[f].task = "none"
    /\ \A k \in Forwarder : k < f => fwd[k].task # "none"
    /\ fwd' = [fwd EXCEPT ![f] = [conn |-> c, topic |-> arg[c], chan |-> chan[c],
                                  cursor |-> Len(log[arg[c]]), held |-> 0, task |-> "idle"]]
    /\ subs' = [subs EXCEPT ![c][arg[c]] = f]
    /\ chan' = [chan EXCEPT ![c] = 0]
    /\ IF arg[c] \in Channel THEN Goto(c, "join", arg[c]) ELSE Goto(c, "select", NoKey)
    /\ UNCHANGED <<backendVars, aborted, funnel, presence, history>>

\* A Join or Message handler calls Relay::track.
HandlerTracks(c) ==
    /\ pc[c] \in {"join", "message"}
    /\ Track(c, arg[c])
    /\ UNCHANGED <<backendVars, taskVars, connVars, funnel, delivered, refused, left>>

\* Join returns Ok (`subscribed` is sent), or Message returns Ok or Err.
HandlerReturns(c) ==
    /\ pc[c] \in {"join", "message"}
    /\ Goto(c, "select", NoKey)
    /\ UNCHANGED <<backendVars, taskVars, chan, subs, funnel, presence, history>>

\* subscriptions.remove(&topic) and handle.abort()
Abort(c, t) ==
    /\ aborted' = IF subs[c][t] = 0 THEN aborted ELSE aborted \cup {subs[c][t]}
    /\ subs' = [subs EXCEPT ![c][t] = 0]

\* Join returns Err: only the subscription is undone.
JoinRejected(c) ==
    /\ pc[c] = "join"
    /\ Abort(c, arg[c])
    /\ Goto(c, "select", NoKey)
    /\ refused' = refused \cup {<<c, arg[c]>>}
    /\ UNCHANGED <<backendVars, fwd, chan, funnel, presence, tracked, delivered, left>>

\* A handler panics: the connection's task dies without its cleanup and its
\* forwarding tasks are detached.
HandlerPanics(c) ==
    /\ pc[c] \in {"join", "message"}
    /\ Goto(c, "closed", NoKey)
    /\ funnel' = [funnel EXCEPT ![c] = <<>>]
    /\ subs' = [subs EXCEPT ![c] = [t \in Topic |-> 0]]
    /\ refused' = refused \cup ({c} \X Topic)
    /\ UNCHANGED <<backendVars, taskVars, chan, presence, tracked, delivered, left>>

\* ClientMessage::Unsubscribe, whether the topic is subscribed or not.
Unsubscribe(c, t) ==
    /\ pc[c] = "select"
    /\ Abort(c, t)
    /\ UntrackConn(c, t)
    /\ left' = IF subs[c][t] = 0 THEN left ELSE left \cup {<<c, t>>}
    /\ Goto(c, "untrack", t)
    /\ UNCHANGED <<backendVars, fwd, chan, funnel, delivered, refused>>

\* The rest of it: the map entry, and `unsubscribed` is sent.
Unsubscribed(c) ==
    /\ pc[c] = "untrack"
    /\ DropEmpty(arg[c])
    /\ Goto(c, "select", NoKey)
    /\ UNCHANGED <<backendVars, taskVars, chan, subs, funnel, history>>

\* ClientMessage::Message on a topic with a channel handler.
MessageToHandler(c, t) ==
    /\ pc[c] = "select"
    /\ t \in Subscribed(c) \cap Channel
    /\ Goto(c, "message", t)
    /\ UNCHANGED <<backendVars, taskVars, chan, subs, funnel, presence, history>>

\* ClientMessage::Message on a topic without one: broadcast.
MessageBroadcast(c, t) ==
    /\ pc[c] = "select"
    /\ t \in Subscribed(c) \ Channel
    /\ BackendPush(t)
    /\ UNCHANGED <<topics, created, taskVars, connVars, funnel, presence, history>>

\* funnel_rx.recv() and ws_tx.send()
Deliver(c) ==
    /\ pc[c] = "select"
    /\ funnel[c] # <<>>
    /\ funnel' = [funnel EXCEPT ![c] = Tail(@)]
    /\ delivered' = [delivered EXCEPT ![c] = Append(@, Head(funnel[c]))]
    /\ UNCHANGED <<backendVars, taskVars, connVars, presence, tracked, refused, left>>

\* ws_rx ends or fails.
Hangup(c) ==
    /\ pc[c] = "select"
    /\ Goto(c, "closing", NoKey)
    /\ UNCHANGED <<backendVars, taskVars, chan, subs, funnel, presence, history>>

\* ws_tx.send() of a push fails.
SendFails(c) ==
    /\ pc[c] = "select"
    /\ funnel[c] # <<>>
    /\ funnel' = [funnel EXCEPT ![c] = Tail(@)]
    /\ Goto(c, "closing", NoKey)
    /\ UNCHANGED <<backendVars, taskVars, chan, subs, presence, history>>

\* Mutant: the cleanup only forgets the handle, which detaches the task.
CloseTopicDetached(c, t) ==
    /\ pc[c] = "closing"
    /\ t \in Subscribed(c)
    /\ subs' = [subs EXCEPT ![c][t] = 0]
    /\ UntrackConn(c, t)
    /\ Goto(c, "close_untrack", t)
    /\ UNCHANGED <<backendVars, taskVars, chan, funnel, delivered, refused, left>>

\* One round of the cleanup loop over `subscriptions`.
CloseTopic(c, t) ==
    /\ pc[c] = "closing"
    /\ t \in Subscribed(c)
    /\ Abort(c, t)
    /\ UntrackConn(c, t)
    /\ Goto(c, "close_untrack", t)
    /\ UNCHANGED <<backendVars, fwd, chan, funnel, delivered, refused, left>>

TopicClosed(c) ==
    /\ pc[c] = "close_untrack"
    /\ DropEmpty(arg[c])
    /\ Goto(c, "closing", NoKey)
    /\ UNCHANGED <<backendVars, taskVars, chan, subs, funnel, history>>

\* connection_loop returns and drops funnel_rx.
Close(c) ==
    /\ pc[c] = "closing"
    /\ Subscribed(c) = {}
    /\ Goto(c, "closed", NoKey)
    /\ funnel' = [funnel EXCEPT ![c] = <<>>]
    /\ UNCHANGED <<backendVars, taskVars, chan, subs, presence, history>>

-----------------------------------------------------------------------------

Init ==
    /\ topics = [t \in Topic |-> 0]
    /\ created = [t \in Topic |-> 0]
    /\ log = [t \in Topic |-> <<>>]
    /\ fwd = [f \in Forwarder |-> Unspawned]
    /\ aborted = {}
    /\ pc = [c \in Conn |-> "select"]
    /\ arg = [c \in Conn |-> NoKey]
    /\ chan = [c \in Conn |-> 0]
    /\ subs = [c \in Conn |-> [t \in Topic |-> 0]]
    /\ funnel = [c \in Conn |-> <<>>]
    /\ presence = [t \in Topic |-> NoKey]
    /\ tracked = {}
    /\ delivered = [c \in Conn |-> <<>>]
    /\ refused = {}
    /\ left = {}

\* What the connection's own code does next, once it has something to do.
LoopStep(c) ==
    \/ \E f \in Forwarder : Spawn(c, f)
    \/ HandlerReturns(c)
    \/ Unsubscribed(c)
    \/ \E t \in Topic : CloseTopic(c, t)
    \/ TopicClosed(c)
    \/ Close(c)

ClientStep(c) ==
    \/ \E t \in Topic : \/ Subscribe(c, t)
                        \/ Unsubscribe(c, t)
                        \/ MessageToHandler(c, t)
                        \/ MessageBroadcast(c, t)
    \/ Hangup(c)

TaskStep(f) == Recv(f) \/ Forward(f) \/ Park(f) \/ DropReceiver(f) \/ DropFields(f)

HandlerFault(c) == JoinRejected(c) \/ HandlerPanics(c) \/ SendFails(c)

Next ==
    \/ \E t \in Topic : Push(t)
    \/ \E f \in Forwarder : TaskStep(f)
    \/ \E c \in Conn : \/ LoopStep(c)
                       \/ ClientStep(c)
                       \/ HandlerTracks(c)
                       \/ HandlerFault(c)
                       \/ Deliver(c)

Spec == Init /\ [][Next]_vars

(* Tokio polls every woken task again and again, and handlers return.      *)
(* select! chooses among its ready branches at random, so a message that   *)
(* waits in the funnel is not overtaken for ever by what the client sends. *)
FairSpec ==
    /\ Spec
    /\ \A f \in Forwarder : WF_vars(TaskStep(f))
    /\ \A c \in Conn : WF_vars(LoopStep(c)) /\ SF_vars(Deliver(c))

-----------------------------------------------------------------------------
(* Properties *)

\* Types of the relay's state.
TypeOK ==
    /\ topics \in [Topic -> Nat]
    /\ created \in [Topic -> Nat]
    /\ log \in [Topic -> Seq(Nat)]
    /\ fwd \in [Forwarder -> Task]
    /\ aborted \subseteq Forwarder
    /\ pc \in [Conn -> PC]
    /\ arg \in [Conn -> Topic \cup {NoKey}]
    /\ chan \in [Conn -> Nat]
    /\ subs \in [Conn -> [Topic -> Forwarder \cup {0}]]
    /\ funnel \in [Conn -> Seq(Topic \X Nat)]
    /\ presence \in [Topic -> {NoKey} \cup SUBSET Conn]
    /\ tracked \subseteq Conn \X Topic
    /\ delivered \in [Conn -> Seq(Topic \X Nat)]
    /\ refused \subseteq Conn \X Topic
    /\ left \subseteq Conn \X Topic

\* A subscription listens to the channel that push() sends to: no cleanup of
\* another connection's receiver ever cuts it off (InMemoryBackend::subscribe
\* clones the sender and subscribes to it in two steps).
SubscribersReachable ==
    \A c \in Conn, t \in Topic :
        subs[c][t] # 0 => topics[t] # 0 /\ fwd[subs[c][t]].chan = topics[t]

\* A client that never left a topic and was never refused gets each push of
\* the topic at most once and in the order pushed, gaps allowed.
DeliveredInOrder ==
    \A c \in Conn : \A i, k \in 1 .. Len(delivered[c]) :
        LET t == delivered[c][i][1] IN
        /\ i < k
        /\ delivered[c][k][1] = t
        /\ <<c, t>> \notin refused
        /\ <<c, t>> \notin left
        => delivered[c][i][2] < delivered[c][k][2]

\* max_subscriptions_per_connection bounds the tasks a connection keeps alive.
TasksBounded ==
    \A c \in Conn :
        Cardinality({f \in Forwarder : /\ fwd[f].conn = c
                                       /\ fwd[f].task # "gone"
                                       /\ f \notin aborted}) <= max_subscriptions

\* track and untrack of several connections never lose an entry, and an empty
\* inner map stays only as long as somebody is about to remove it. Presence
\* lists subscribers only, apart from a join whose handler tracked the
\* connection and then refused it: the hub untracks on unsubscribe and on
\* disconnect.
PresenceExact ==
    /\ \A c \in Conn, t \in Topic :
          <<c, t>> \in tracked <=> presence[t] # NoKey /\ c \in presence[t]
    /\ \A t \in Topic : presence[t] = {} =>
          \E c \in Conn : pc[c] \in {"untrack", "close_untrack"} /\ arg[c] = t
    /\ \A c \in Conn, t \in Topic :
          presence[t] # NoKey /\ c \in presence[t] => subs[c][t] # 0 \/ <<c, t>> \in refused

\* After a connection has ended its receivers go away, unless a handler
\* panicked and the tasks were detached.
ReceiversReleased ==
    \A f \in Forwarder :
        (fwd[f].task \notin {"none", "gone"} /\ pc[fwd[f].conn] = "closing") ~> fwd[f].task = "gone"

\* c has not been sent message i of topic t yet.
Owed(c, t, i) ==
    /\ pc[c] \notin {"closing", "close_untrack", "closed"}
    /\ subs[c][t] # 0
    /\ LET f == subs[c][t] IN \/ i \in Retained(f)
                              \/ fwd[f].held = i
                              \/ \E k \in 1 .. Len(funnel[c]) : funnel[c][k] = <<t, i>>

\* A push a subscriber still has in its channel, its task or its funnel
\* reaches the client, falls into a gap, or the subscription ends.
PushesArrive ==
    \A c \in Conn, t \in Topic : \A i \in 1 .. MaxPush : Owed(c, t, i) ~> ~Owed(c, t, i)

\* Documented: a receiver removes the topic's entry when it was the last one.
TopicsRemoved ==
    \A t \in Topic : topics[t] # 0 =>
        \/ Receivers(t) # {}
        \/ \E c \in Conn : pc[c] = "subscribe" /\ arg[c] = t

=============================================================================
