----------------------------- MODULE EventStream -----------------------------
(***************************************************************************)
(* Server-sent events: a handler's events go through a channel, or lie     *)
(* ready in an iterator, into SseBody; the connection's task polls the     *)
(* body for frames and writes them to the socket; a browser reads them.    *)
(* The keep-alive timer is part of the body and nothing else wakes the     *)
(* task of a stream that is idle.  Either end may go away at any time.     *)
(*                                                                         *)
(* Text is a sequence of characters, among them "LF" and "CR"; the name of *)
(* a field, with its colon, is one character.  The fields id and retry of  *)
(* an event are as `event`, of one line, and are left out.                 *)
(***************************************************************************)
EXTENDS Integers, Sequences, SequencesExt

CONSTANTS
    NoField,            \* None
    Error,              \* an Err(BodyError) instead of an event
    Output,             \* what a handler may yield: sequences of events, or of Error at the end
    ChannelCapacity,
    SocketRoom,         \* frames the socket takes before its client reads
    KeepAlive           \* values of keep_alive in ticks, 0 for None

ASSUME StreamAssumption ==
    /\ ChannelCapacity \in Nat \ {0} /\ SocketRoom \in Nat \ {0}
    /\ KeepAlive \subseteq Nat

VARIABLES
    output,     \* what the handler has still to yield
    sender,     \* its end of the channel: "open" or "dropped"
    channel,    \* what SseBody.stream has for the next polls
    body,       \* "none", "live", "ended", "failed" or "dropped"
    interval,   \* of the keep-alive
    sleep,      \* ticks until the timer elapses
    wakers,     \* what the task asked to wake it, {} while it runs
    wire,       \* frames the client has still to read
    client,     \* "reading" or "gone"
    received,   \* the messages the browser dispatched
    yielded,    \* history: events that went into the channel or the iterator
    silence     \* history: ticks since the last frame on a socket with room

streamVars == <<output, sender, channel, body, interval, sleep, wakers, wire, client,
                received, yielded, silence>>

-----------------------------------------------------------------------------
(* SseEvent *)

\* Mutant: a value is written as it is.
OneLine(name, text) == <<name>> \o text \o <<"LF">>

\* split('\n'): each line of the text becomes a line of the field.
Lines(name, text) ==
    FoldLeft(LAMBDA out, c : out \o (IF c = "LF" THEN <<"LF", name>> ELSE <<c>>), <<name>>, text)
        \o <<"LF">>

encode(e) ==
    (IF e.comment = NoField THEN <<>> ELSE Lines(": ", e.comment))
        \o (IF e.event = NoField THEN <<>> ELSE <<"event: ", e.event, "LF">>)
        \o (IF e.data = NoField THEN <<>> ELSE Lines("data: ", e.data))
        \o <<"LF">>

SSE_KEEP_ALIVE_FRAME_DEFAULT == <<":", "LF", "LF">>

-----------------------------------------------------------------------------
(* A browser *)

NoMessage == [data |-> NoField, event |-> NoField]

\* The end of a line: a field is taken in, an empty line dispatches.
LineRead(st) ==
    LET name == st.line[1]
        value == Tail(st.line)
    IN  CASE st.line = <<>> ->
               [st EXCEPT !.out = IF st.message.data = NoField THEN @ ELSE Append(@, st.message),
                          !.message = NoMessage]
          [] st.line # <<>> /\ name = "data: " ->
               [st EXCEPT !.line = <<>>,
                          !.message.data = IF @ = NoField THEN value ELSE @ \o <<"LF">> \o value]
          [] st.line # <<>> /\ name = "event: " ->
               [st EXCEPT !.line = <<>>, !.message.event = value[1]]
          [] OTHER -> [st EXCEPT !.line = <<>>]

\* Lines end with CR, LF or both.
Read(st, c) ==
    IF c = "LF" /\ st.cr THEN [st EXCEPT !.cr = FALSE]
    ELSE IF c \in {"CR", "LF"} THEN [LineRead(st) EXCEPT !.cr = c = "CR"]
    ELSE [st EXCEPT !.line = Append(@, c), !.cr = FALSE]

\* What an SSE response may send.
Frames == {encode(e) : e \in (UNION {ToSet(events) : events \in Output}) \ {Error}}
              \cup {SSE_KEEP_ALIVE_FRAME_DEFAULT}

\* The messages in a frame.
Messages == [frame \in Frames |->
    FoldLeft(Read, [line |-> <<>>, message |-> NoMessage, cr |-> FALSE, out |-> <<>>], frame).out]

-----------------------------------------------------------------------------
(* The handler *)

\* The response is made: over a channel, or over an iterator, which is as a
\* channel that is full and whose sender is gone.
into_response(events, source, ticks) ==
    /\ body = "none"
    /\ source = "iterator" => Error \notin ToSet(events)
    /\ body' = "live"
    /\ IF source = "receiver"
       THEN output' = events /\ UNCHANGED <<channel, yielded, sender>>
       ELSE channel' = events /\ yielded' = events /\ sender' = "dropped" /\ UNCHANGED output
    /\ interval' = ticks
    /\ sleep' = ticks
    /\ UNCHANGED <<wakers, wire, client, received, silence>>

Woken(by) == wakers' = IF by \in wakers THEN {} ELSE wakers

\* tx.send(), when the channel has room.
Send ==
    /\ sender = "open" /\ body = "live"
    /\ output # <<>> /\ Len(channel) < ChannelCapacity
    /\ channel' = Append(channel, Head(output))
    /\ yielded' = Append(yielded, Head(output))
    /\ output' = Tail(output)
    /\ Woken("stream")
    /\ UNCHANGED <<sender, body, interval, sleep, wire, client, received, silence>>

\* The handler is done, or a send failed because the body is gone.
DropSender ==
    /\ sender = "open" /\ body # "none"
    /\ output = <<>> \/ body # "live"
    /\ sender' = "dropped"
    /\ Woken("stream")
    /\ UNCHANGED <<output, channel, body, interval, sleep, wire, client, received, yielded, silence>>

-----------------------------------------------------------------------------
(* SseBody::poll_frame *)

\* The connection's task runs and has room to write.
CanPoll == body = "live" /\ wakers = {} /\ Len(wire) < SocketRoom

Written(frame) ==
    /\ wire' = Append(wire, frame)
    /\ silence' = 0

\* The stream has an event.
PollEvent ==
    /\ CanPoll
    /\ channel # <<>> /\ Head(channel) # Error
    /\ Written(encode(Head(channel)))
    /\ channel' = Tail(channel)
    /\ sleep' = interval
    /\ UNCHANGED <<output, sender, body, interval, wakers, client, received, yielded>>

\* The stream yields an error, which aborts the connection, or ends.
PollEnd ==
    /\ CanPoll
    /\ \/ channel # <<>> /\ Head(channel) = Error /\ body' = "failed"
       \/ channel = <<>> /\ sender = "dropped" /\ body' = "ended"
    /\ UNCHANGED <<output, sender, channel, interval, sleep, wakers, wire, client, received,
                   yielded, silence>>

StreamPending == channel = <<>> /\ sender = "open"

\* The stream is pending, the timer has elapsed.
PollKeepAlive ==
    /\ CanPoll /\ StreamPending
    /\ interval > 0 /\ sleep = 0
    /\ Written(SSE_KEEP_ALIVE_FRAME_DEFAULT)
    /\ sleep' = interval
    /\ UNCHANGED <<output, sender, channel, body, interval, wakers, client, received, yielded>>

\* The stream is pending and so is the timer: both will wake the task.
PollPending ==
    /\ CanPoll /\ StreamPending
    /\ interval = 0 \/ sleep > 0
    /\ wakers' = {"stream"} \cup (IF interval > 0 THEN {"timer"} ELSE {})
    /\ UNCHANGED <<output, sender, channel, body, interval, sleep, wire, client, received,
                   yielded, silence>>

-----------------------------------------------------------------------------
(* Time and the client *)

\* A tick of a timer that was started; what can be polled is polled before.
Elapse ==
    /\ body = "live" /\ interval > 0
    /\ ~CanPoll /\ sleep > 0
    /\ sleep' = sleep - 1
    /\ silence' = IF Len(wire) < SocketRoom THEN silence + 1 ELSE silence
    /\ IF sleep = 1 THEN Woken("timer") ELSE UNCHANGED wakers
    /\ UNCHANGED <<output, sender, channel, body, interval, wire, client, received, yielded>>

ReadFrame ==
    /\ client = "reading" /\ wire # <<>>
    /\ received' = received \o Messages[Head(wire)]
    /\ wire' = Tail(wire)
    /\ UNCHANGED <<output, sender, channel, body, interval, sleep, wakers, client, yielded, silence>>

\* The client goes away.
LeaveStream ==
    /\ client = "reading" /\ body # "none"
    /\ client' = "gone"
    /\ UNCHANGED <<output, sender, channel, body, interval, sleep, wakers, wire, received,
                   yielded, silence>>

\* The connection's task sees it and drops the body, stream and timer with it.
DropBody ==
    /\ client = "gone" /\ body = "live"
    /\ body' = "dropped"
    /\ UNCHANGED <<output, sender, channel, interval, sleep, wakers, wire, client, received,
                   yielded, silence>>

StreamInit ==
    /\ output = <<>> /\ channel = <<>> /\ wire = <<>> /\ received = <<>> /\ yielded = <<>>
    /\ sender = "open" /\ body = "none" /\ client = "reading"
    /\ interval = 0 /\ sleep = 0 /\ silence = 0
    /\ wakers = {}

Handler == Send \/ DropSender

Connection == PollEvent \/ PollEnd \/ PollKeepAlive \/ PollPending \/ DropBody

StreamNext ==
    \/ \E events \in Output, source \in {"receiver", "iterator"}, ticks \in KeepAlive :
          into_response(events, source, ticks)
    \/ Handler \/ Connection \/ Elapse \/ ReadFrame \/ LeaveStream

\* The handler goes on, the runtime polls tasks that are awake, time passes,
\* and a client that stays reads.
StreamFairness ==
    /\ WF_streamVars(Handler) /\ WF_streamVars(Connection)
    /\ WF_streamVars(Elapse) /\ WF_streamVars(ReadFrame)

StreamSpec == StreamInit /\ [][StreamNext]_streamVars /\ StreamFairness

-----------------------------------------------------------------------------
\* A CR inside of a line.
LoneCR(text) == \E i \in 1 .. Len(text) - 1 : text[i] = "CR" /\ text[i + 1] # "LF"

\* What a browser makes of CR LF, and of a CR at the end.
Normal(text) == SelectSeq(text, LAMBDA c : c # "CR")

\* The events that a browser is to see.
Visible(events) == SelectSeq(events, LAMBDA e : e # Error /\ e.data # NoField)

\* The browser dispatches the events with data, in their order, each of them
\* once and with its text; comments and keep-alives are nothing to it.  Of
\* data with a CR inside of a line only the part before it arrives, for encode
\* breaks lines at LF only.
InOrder ==
    LET events == Visible(yielded) IN
    /\ Len(received) <= Len(events)
    /\ \A i \in DOMAIN received :
          /\ received[i].event = events[i].event
          /\ LoneCR(events[i].data) \/ received[i].data = Normal(events[i].data)

\* A stream with a keep-alive is never silent for longer than its interval.
NeverSilent == interval > 0 => silence <= interval

\* The handler ends, and all its events have arrived, unless the client went
\* away or the handler failed.
Settled ==
    /\ sender = "dropped"
    /\ \/ client = "gone" \/ body = "failed"
       \/ output = <<>> /\ Len(received) = Len(Visible(yielded))

\* From the channel to the browser no event is lost, repeated, overtaken or
\* garbled, an idle stream is kept alive by nothing but its own timer, and no
\* handler is left waiting for a client that went away.
EventsArrive == [](InOrder /\ NeverSilent) /\ <>[](body # "none" => Settled)

=============================================================================
