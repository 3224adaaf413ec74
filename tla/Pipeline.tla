------------------------------ MODULE Pipeline ------------------------------
(***************************************************************************)
(* The middleware stack: the builder and prepare() put it together, then   *)
(* Next::run takes each request inward layer by layer to the router's      *)
(* handler and its answer outward again.  A layer may answer by itself, a  *)
(* timeout or a lost connection may drop everything inside a layer at a    *)
(* point where the request waits.                                          *)
(*                                                                         *)
(* Layers: "trace" (TraceIdMiddleware), "log", "cors", "compress",         *)
(* "timeout", "tower" (TowerLayerMiddleware), "limit" for the body limit   *)
(* and the rate limit, "auth" and "metrics".  A request: whether its       *)
(* method is OPTIONS, whether it brings an x-trace-id, accepts an encoding,*)
(* is over a limit, and is on a public route or has a valid token.         *)
(***************************************************************************)
EXTENDS Integers, Sequences, FiniteSets

CONSTANTS
    Layer,      \* layers the application may ask for
    MaxLayers,  \* bound: layers it asks for
    Sender,     \* clients with one request each
    Kind        \* requests: [options, traced, gzip, over_limit, allowed]

ASSUME PipelineAssumption ==
    /\ Layer \subseteq {"trace", "log", "cors", "compress", "timeout", "tower", "limit"}
    /\ IsFiniteSet(Sender)
    /\ Kind \subseteq [options : BOOLEAN, traced : BOOLEAN, gzip : BOOLEAN,
                       over_limit : BOOLEAN, allowed : BOOLEAN]

VARIABLES
    middlewares,            \* MiddlewareStack
    prepared,               \* prepare() was called
    incoming,               \* each client's request
    http_requests_in_flight,
    http_requests_total     \* summed over its labels

pipelineVars ==
    <<middlewares, prepared, incoming, http_requests_in_flight, http_requests_total>>

Depth == Len(middlewares)

At(q) == incoming[q].at

\* Where the request is: on the way inward before the layer `at` (before the
\* handler after the last one), or outward in it.
In(q, at) == incoming[q].way = "in" /\ At(q) = at

Out(q, at) == incoming[q].way = "out" /\ At(q) = at

-----------------------------------------------------------------------------
(* Rapina's builder and prepare() *)

AddLayer(layer) ==
    /\ ~prepared
    /\ Depth < MaxLayers
    /\ middlewares' = Append(middlewares, layer)
    /\ UNCHANGED <<prepared, incoming, http_requests_in_flight, http_requests_total>>

\* The trace context layer of otel, in front of all, only writes spans.
Prepare(auth, metrics) ==
    /\ ~prepared
    /\ prepared' = TRUE
    /\ middlewares' = middlewares \o (IF auth THEN <<"auth">> ELSE <<>>)
                                  \o (IF metrics THEN <<"metrics">> ELSE <<>>)
    /\ UNCHANGED <<incoming, http_requests_in_flight, http_requests_total>>

-----------------------------------------------------------------------------
(* A request and its answer *)

\* An answer: the layer it comes from and the headers set on its way.
AnswerOf(at, compressible) ==
    [from |-> at, compressible |-> compressible, encoded |-> FALSE, vary |-> "none",
     trace_id |-> "none"]

NoAnswer == AnswerOf(0, FALSE)

NoKind ==
    [options |-> FALSE, traced |-> FALSE, gzip |-> FALSE, over_limit |-> FALSE, allowed |-> FALSE]

\* prepare_request; the context's id is its own until a header replaces it.
Receive(q, kind) ==
    /\ prepared
    /\ incoming[q].way = "none"
    /\ incoming' = [incoming EXCEPT ![q] =
          [way |-> "in", at |-> 1, kind |-> kind, context |-> "own", logged |-> "none",
           seen |-> "none", answer |-> NoAnswer]]
    /\ UNCHANGED <<middlewares, prepared, http_requests_in_flight, http_requests_total>>

Preflight(layer, kind) == layer = "cors" /\ kind.options

OverLimit(layer, kind) == layer = "limit" /\ kind.over_limit

Unauthorized(layer, kind) == layer = "auth" /\ ~kind.allowed

\* The layer answers without calling next.
Refuses(layer, kind) ==
    Preflight(layer, kind) \/ OverLimit(layer, kind) \/ Unauthorized(layer, kind)

Told(kind) == IF kind.traced THEN "header" ELSE "own"

\* A tower layer puts the context it was called with back into the request's
\* extensions, and that is the one of prepare_request.
TowerContext == "own"

\* What a layer leaves in the extensions.
ContextInside(layer, q) ==
    IF layer = "trace" /\ incoming[q].kind.traced THEN "header"
    ELSE IF layer = "tower" THEN TowerContext ELSE incoming[q].context

\* RequestLogMiddleware opens its span with the id of the context it is given.
Logged(layer, before) == IF layer = "log" THEN "own" ELSE before

\* InFlightGuard::new.
Guarded(layer) == IF layer = "metrics" THEN 1 ELSE 0

\* The layer `at` calls next.
Enter(q, at) ==
    LET layer == middlewares[at]
    IN  /\ In(q, at)
        /\ ~Refuses(layer, incoming[q].kind)
        /\ incoming' = [incoming EXCEPT ![q] =
              [@ EXCEPT !.at = at + 1,
                        !.context = ContextInside(layer, q),
                        !.logged = Logged(layer, incoming[q].logged)]]
        /\ http_requests_in_flight' = http_requests_in_flight + Guarded(layer)
        /\ UNCHANGED <<middlewares, prepared, http_requests_total>>

Answered(q, answer) ==
    incoming' = [incoming EXCEPT ![q] =
        [@ EXCEPT !.way = "out", !.at = answer.from - 1, !.answer = answer]]

\* add_cors_headers; insert replaces a value that is there.
WithCors(answer) == [answer EXCEPT !.vary = "Origin"]

\* The answer of a layer by itself, which is shorter than a compressed body has
\* to be. preflight_response names the Origin as well.
AnswerBy(layer, at) ==
    IF layer = "cors" THEN WithCors(AnswerOf(at, FALSE)) ELSE AnswerOf(at, FALSE)

\* A tower layer may answer by itself: unready, in error, or as it likes.
Refuse(q, at) ==
    /\ In(q, at)
    /\ Refuses(middlewares[at], incoming[q].kind) \/ middlewares[at] = "tower"
    /\ Answered(q, AnswerBy(middlewares[at], at))
    /\ UNCHANGED <<middlewares, prepared, http_requests_in_flight, http_requests_total>>

\* Router::handle.
Handle(q, compressible) ==
    /\ In(q, Depth + 1)
    /\ incoming' = [incoming EXCEPT ![q] =
          [@ EXCEPT !.way = "out", !.at = Depth, !.seen = incoming[q].context,
                    !.answer = AnswerOf(Depth + 1, compressible)]]
    /\ UNCHANGED <<middlewares, prepared, http_requests_in_flight, http_requests_total>>

WithTraceId(kind, answer) == [answer EXCEPT !.trace_id = Told(kind)]

Compressed(kind, answer) ==
    IF kind.gzip /\ answer.compressible /\ ~answer.encoded
    THEN [answer EXCEPT !.encoded = TRUE, !.vary = "Accept-Encoding"] ELSE answer

\* What a layer does to the answer of next.
Outward(layer, kind, answer) ==
    CASE layer = "trace" -> WithTraceId(kind, answer)
      [] layer = "cors" -> WithCors(answer)
      [] layer = "compress" -> Compressed(kind, answer)
      [] OTHER -> answer

Leave(q, at) ==
    LET layer == middlewares[at]
        counted == Guarded(layer)
    IN  /\ Out(q, at)
        /\ incoming' = [incoming EXCEPT ![q] =
              [@ EXCEPT !.at = at - 1,
                        !.answer = Outward(layer, incoming[q].kind, incoming[q].answer)]]
        /\ http_requests_in_flight' = http_requests_in_flight - counted
        /\ http_requests_total' = http_requests_total + counted
        /\ UNCHANGED <<middlewares, prepared>>

-----------------------------------------------------------------------------
(* What ends a request before its answer *)

\* Handlers and the services of tower layers wait, and nothing else does.
Waits(q) ==
    \/ In(q, Depth + 1)
    \/ incoming[q].way \in {"in", "out"} /\ At(q) \in 1 .. Depth /\ middlewares[At(q)] = "tower"

\* Mutant: the gauge is only decremented after the answer.
ReleasedNever(q) == 0

\* InFlightGuard's drop, when the future that holds it is dropped.
Released(q) ==
    IF In(q, Depth + 1) /\ Depth > 0 /\ middlewares[Depth] = "metrics" THEN 1 ELSE 0

\* TimeoutMiddleware: the time of the layer `at` is over while what it wraps
\* waits.
Expire(q, at) ==
    /\ Waits(q) /\ at < At(q)
    /\ middlewares[at] = "timeout"
    /\ http_requests_in_flight' = http_requests_in_flight - Released(q)
    /\ Answered(q, AnswerOf(at, FALSE))
    /\ UNCHANGED <<middlewares, prepared, http_requests_total>>

\* The client closes the connection, or the handler panics.
Disconnect(q) ==
    /\ Waits(q)
    /\ http_requests_in_flight' = http_requests_in_flight - Released(q)
    /\ incoming' = [incoming EXCEPT ![q] = [@ EXCEPT !.way = "gone"]]
    /\ UNCHANGED <<middlewares, prepared, http_requests_total>>

-----------------------------------------------------------------------------

PipelineInit ==
    /\ middlewares = <<>>
    /\ prepared = FALSE
    /\ incoming = [q \in Sender |->
          [way |-> "none", at |-> 0, kind |-> NoKind, context |-> "own", logged |-> "none",
           seen |-> "none", answer |-> NoAnswer]]
    /\ http_requests_in_flight = 0
    /\ http_requests_total = 0

Build == (\E layer \in Layer : AddLayer(layer)) \/ (\E auth, metrics \in BOOLEAN : Prepare(auth, metrics))

Serve(q) ==
    \/ \E kind \in Kind : Receive(q, kind)
    \/ \E compressible \in BOOLEAN : Handle(q, compressible)
    \/ \E at \in 1 .. Depth : Enter(q, at) \/ Refuse(q, at) \/ Leave(q, at) \/ Expire(q, at)
    \/ Disconnect(q)

PipelineNext == Build \/ \E q \in Sender : Serve(q)

PipelineSpec == PipelineInit /\ [][PipelineNext]_pipelineVars

-----------------------------------------------------------------------------

PlacesOf(layer, from) == {at \in 1 .. Depth : middlewares[at] = layer /\ at < from}

Innermost(places) == CHOOSE at \in places : \A other \in places : at >= other

Done(q) == Out(q, 0)

\* The gauge is the number of requests in the handler, and every answer of a
\* handler is counted, the ones a timeout or the client did not wait for
\* included. What the layers answer themselves is counted nowhere: the metrics
\* layer is inside of them all.
MetricsTell ==
    LET leaving(q) == Out(q, Depth) /\ incoming[q].answer.from = Depth + 1
        inside == {q \in Sender : In(q, Depth + 1) \/ leaving(q)}
        handled == {q \in Sender : incoming[q].seen # "none"}
    IN  prepared =>
        IF PlacesOf("metrics", Depth + 1) # {}
        THEN /\ http_requests_in_flight = Cardinality(inside)
             /\ http_requests_total = Cardinality(handled \ inside)
        ELSE http_requests_in_flight = 0 /\ http_requests_total = 0

\* An answer names the id that the client sent, or else the context's own, if
\* and only if it passed a trace layer. The handler has the same id, unless a
\* tower layer stands inside the last trace layer. Of the id in the log, which by
\* middleware.md:467 would be the same and is the context's own, it says nothing.
TraceTold(q) ==
    LET answer == incoming[q].answer
        trace == PlacesOf("trace", Depth + 1)
        carried == trace # {} /\ PlacesOf("tower", Depth + 1) \subseteq 1 .. Innermost(trace)
    IN  /\ answer.trace_id = IF PlacesOf("trace", answer.from) = {} THEN "none"
                             ELSE Told(incoming[q].kind)
        /\ incoming[q].seen \in {"none", IF carried THEN Told(incoming[q].kind) ELSE "own"}

\* An answer is encoded if it may be and passed a compress layer. An encoded
\* one that no cors layer saw names Accept-Encoding, and one that is not encoded
\* names the Origin if a cors layer saw it, or gave it. Of the answers that both
\* kinds of layers set Vary on, this says nothing: each replaces what the other
\* one set, where middleware.md:83 and :124 promise both names.
VaryTold(q) ==
    LET answer == incoming[q].answer
        compress == PlacesOf("compress", answer.from)
        cors == PlacesOf("cors", answer.from + 1)
    IN  /\ answer.encoded <=> compress # {} /\ incoming[q].kind.gzip /\ answer.compressible
        /\ answer.encoded /\ cors = {} => answer.vary = "Accept-Encoding"
        /\ ~answer.encoded /\ cors # {} => answer.vary = "Origin"

\* What an answer and the metrics say of a request is what happened to it, in
\* every order of the layers: the ids of TraceIdMiddleware, the Vary header of
\* CorsMiddleware and CompressionMiddleware, and what MetricsMiddleware counts,
\* with the exceptions named above.
AnswersExplained ==
    /\ MetricsTell
    /\ \A q \in Sender : Done(q) => TraceTold(q) /\ VaryTold(q)

=============================================================================
