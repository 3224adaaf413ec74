----------------------------- MODULE ApiContract -----------------------------
(***************************************************************************)
(* The OpenAPI document as a contract: what the route macros tell of a     *)
(* handler next to what the code they generate asks of a request, the      *)
(* document that is built from the routes, and the commands that export    *)
(* it, check it and look for breaking changes before a branch is merged.   *)
(* A client is generated from a document of the main branch and calls      *)
(* whatever is merged later.                                               *)
(*                                                                         *)
(* A version of the application is a sequence of handlers in the order of  *)
(* their registration, each of them                                        *)
(*   [name, method, path, args, returns, type]                             *)
(* A path is a sequence of segments, those of parameters in Param; args is *)
(* a sequence of [kind, name, required, type, takes]; a type is [kind,     *)
(* fields], with fields a set of [name, type, required], where the type of *)
(* a field stands for all that is below it.  `takes` is what the T of a    *)
(* Path<T> or a Header<T> is parsed from: of a header texts, of a path     *)
(* texts for its parameters.  Descriptions, error responses and the routes *)
(* of the library itself are left out.                                     *)
(***************************************************************************)
EXTENDS Integers, Sequences, FiniteSets, SequencesExt

CONSTANTS
    Version,    \* versions of the application
    Param,      \* segments that are parameters
    Text,       \* what a client may put into a parameter or a header
    NotGiven    \* None

\* A body can only be the last argument, for bodies are read from the whole
\* request and all other arguments from its parts. An Option<Json<T>> does not
\* compile: there is no FromRequest for an Option.
ASSUME VersionAssumption ==
    \A v \in Version :
        /\ v \in Seq(ToSet(v))
        /\ \A h \in ToSet(v) :
              /\ h.path \in Seq(ToSet(h.path))
              /\ h.args \in Seq(ToSet(h.args))
              /\ \A i \in DOMAIN h.args : h.args[i].kind \in {"json", "form"} =>
                    i = Len(h.args) /\ h.args[i].required

VARIABLES
    main,       \* the version on the main branch
    base,       \* the document committed there
    head,       \* the version on the branch under way
    committed,  \* the document committed with it
    client,     \* the document a client was generated from
    hidden      \* history: operations whose answers diff had nothing to compare of since then

apiVars == <<main, base, head, committed, client, hidden>>

-----------------------------------------------------------------------------
(* The route macros *)

BodyKinds == {"json", "form"}

\* extract_json_inner_type: Json<T>, Result<Json<T>> and Result<Json<T>, E>.
ResponseSchema(h) == IF h.returns \in {"Json", "Result"} THEN h.type ELSE NotGiven

\* extract_request_body_meta: the body among the arguments, if there is one.
BodyMeta(args) ==
    {[kind |-> a.kind, type |-> a.type, required |-> a.required] :
        a \in {b \in ToSet(args) : b.kind \in BodyKinds}}

\* Methods that have no body do not tell of one.
RequestBody(h) == IF h.method \in {"POST", "PUT", "PATCH"} THEN BodyMeta(h.args) ELSE {}

\* collect_header_params
HeaderParameters(h) ==
    {[name |-> a.name, required |-> a.required] : a \in {b \in ToSet(h.args) : b.kind = "header"}}

Needed(type) == {f.name : f \in {g \in type.fields : g.required}}

\* What a request has to bring, `sent` being its [path, headers, query, body]:
\* path and headers map parameters and names to texts. A text that does not
\* parse is refused like a header that is missing.
ExtractPath(a, sent) == sent.path \in a.takes

ExtractHeader(a, sent) ==
    IF a.name \in DOMAIN sent.headers THEN sent.headers[a.name] \in a.takes ELSE ~a.required

ExtractQuery(a, sent) == Needed(a.type) \subseteq sent.query

\* A form asks for its content type, and the text of a form is no JSON.
ExtractBody(a, sent) ==
    \E body \in sent.body : body.kind = a.kind /\ Needed(a.type) \subseteq body.names

\* The generated body of call(): each argument is extracted in its turn, and
\* the first that fails is the answer.
Extracts(a, sent) ==
    /\ a.kind = "path" => ExtractPath(a, sent)
    /\ a.kind = "header" => ExtractHeader(a, sent)
    /\ a.kind = "query" => ExtractQuery(a, sent)
    /\ a.kind \in BodyKinds => ExtractBody(a, sent)

Accepts(h, sent) == \A a \in ToSet(h.args) : Extracts(a, sent)

-----------------------------------------------------------------------------
(* build_openapi_spec *)

\* `:param` becomes `{param}`, so that paths differ in the names as well.
OperationKey(h) == [path |-> h.path, method |-> h.method]

Documented == {"GET", "POST", "PUT", "DELETE", "PATCH"}

\* A handler's name is its operationId, and a second one is a panic.
Duplicate(v) == \E i, k \in DOMAIN v : i # k /\ v[i].name = v[k].name

\* Of two routes with one key the later stays.
Registered(v, key) == v[SelectLastInSeq(v, LAMBDA h : OperationKey(h) = key)]

BuildOperation(h) ==
    [headers |-> HeaderParameters(h), request |-> RequestBody(h), response |-> ResponseSchema(h)]

BuildSpec(v) ==
    [paths |-> {h.path : h \in ToSet(v)},
     ops |-> [key \in {OperationKey(h) : h \in {g \in ToSet(v) : g.method \in Documented}} |->
                 BuildOperation(Registered(v, key))]]

\* freeze: of the routes of one method, two with different names for one
\* parameter are a panic.
Conflicting(v) ==
    \E g, h \in ToSet(v) :
        /\ g.method = h.method
        /\ \E i \in DOMAIN g.path \cap DOMAIN h.path :
              /\ \A j \in 1 .. i - 1 : g.path[j] = h.path[j]
              /\ {g.path[i], h.path[i]} \subseteq Param
              /\ g.path[i] # h.path[i]

\* The document a version serves, if it starts.
Document ==
    [v \in Version |-> IF Duplicate(v) \/ Conflicting(v) THEN NotGiven ELSE BuildSpec(v)]

-----------------------------------------------------------------------------
(* detect_breaking_changes *)

RemovedEndpoints(old, new) == {<<"endpoint", p>> : p \in old.paths \ new.paths}

\* Mutant: only paths are compared.
RemovedMethodsIgnored(old, new) == {}

\* check_removed_methods
RemovedMethods(old, new) ==
    {<<"method", key>> : key \in {k \in DOMAIN old.ops \ DOMAIN new.ops : k.path \in new.paths}}

PropertyNames(type) == {f.name : f \in type.fields}

\* Only an object has properties, and an enumeration of objects no `type`.
HasProperties(type) == type.kind = "object"
HasType(type) == type.kind # "oneOf"

LostFields(was, is) ==
    IF HasProperties(was) /\ HasProperties(is) THEN PropertyNames(was) \ PropertyNames(is) ELSE {}

\* check_response_changes and check_schema_changes, at the top of the schema.
ResponseChanges(old, new) ==
    LET both == {k \in DOMAIN old.ops \cap DOMAIN new.ops :
                    old.ops[k].response # NotGiven /\ new.ops[k].response # NotGiven}
        was(k) == old.ops[k].response
        is(k) == new.ops[k].response
    IN  {<<"type", k>> : k \in {j \in both : /\ HasType(was(j)) /\ HasType(is(j))
                                         /\ was(j).kind # is(j).kind}}
        \cup UNION {{<<"field", k, n>> : n \in LostFields(was(k), is(k))} : k \in both}

Breaking(old, new) ==
    RemovedEndpoints(old, new) \cup RemovedMethods(old, new) \cup ResponseChanges(old, new)

-----------------------------------------------------------------------------
(* The branches *)

\* The developer changes the code.
Edit(v) ==
    /\ head' = v
    /\ UNCHANGED <<main, base, committed, client, hidden>>

\* rapina openapi export -o, from a server that runs the branch.
ExportSpec ==
    /\ Document[head] # NotGiven
    /\ committed' = Document[head]
    /\ UNCHANGED <<main, base, head, client, hidden>>

\* rapina openapi check
CheckPasses == Document[head] # NotGiven /\ committed = Document[head]

\* rapina openapi diff: the current document is the server's, the base one is
\* git's.
DiffPasses == Document[head] # NotGiven /\ Breaking(base, Document[head]) = {}

\* Operations of a document with no response schema, or one without a `type`.
Hidden(document) ==
    {key \in DOMAIN document.ops :
        LET response == document.ops[key].response
        IN  response = NotGiven \/ ~HasType(response)}

\* The branch is merged once both commands have passed.
MergeBranch ==
    /\ head # main
    /\ CheckPasses /\ DiffPasses
    /\ main' = head
    /\ base' = committed
    /\ hidden' = hidden \cup Hidden(committed)
    /\ UNCHANGED <<head, committed, client>>

\* A new client is generated from the document of the main branch.
GenerateClient ==
    /\ client # base
    /\ client' = base
    /\ hidden' = Hidden(base)
    /\ UNCHANGED <<main, base, head, committed>>

ApiInit ==
    /\ main \in {v \in Version : Document[v] # NotGiven}
    /\ head = main
    /\ base = Document[main] /\ committed = base /\ client = base
    /\ hidden = Hidden(base)

ApiNext ==
    \/ \E v \in Version : Edit(v)
    \/ ExportSpec \/ MergeBranch \/ GenerateClient

ApiSpec == ApiInit /\ [][ApiNext]_apiVars

-----------------------------------------------------------------------------

\* The URL of a path does not tell the names of its parameters.
SameUrls(p, q) ==
    /\ DOMAIN p = DOMAIN q
    /\ \A i \in DOMAIN p : p[i] = q[i] \/ {p[i], q[i]} \subseteq Param

\* The handlers that answer to a call of the operation, the last one or none:
\* of two routes with one pattern the router takes the later as well.
Serving(v, key) ==
    LET i == SelectLastInSeq(v, LAMBDA h : h.method = key.method /\ SameUrls(h.path, key.path))
    IN  IF i = 0 THEN {} ELSE {v[i]}

\* The places of the parameters of a path, and what a client may put there.
Places(path) == {i \in DOMAIN path : path[i] \in Param}

\* The least a client sends that goes by the document, with any texts: the
\* document gives no schema to the parameters of a path and calls every header
\* a string.
Calls(key, op) ==
    [path : [Places(key.path) -> Text],
     headers : [{p.name : p \in {q \in op.headers : q.required}} -> Text],
     query : {{}},
     body : {{[kind |-> body.kind, names |-> Needed(body.type)] :
                 body \in {b \in op.request : b.required}}}]

\* What no document tells: a query that has to be there, a body of GET or
\* DELETE, a parameter or a header that is parsed and may be refused.
Untold(h) ==
    \/ \E a \in ToSet(h.args) :
          \/ a.kind = "query" /\ Needed(a.type) # {}
          \/ a.kind = "path" /\ a.takes # [Places(h.path) -> Text]
          \/ a.kind = "header" /\ a.takes # Text
    \/ RequestBody(h) = {} /\ \E a \in ToSet(h.args) : a.kind \in BodyKinds

\* As long as branches are merged after check and diff, a client finds every
\* operation of the document it was generated from, under its path and method,
\* however many versions later.  The answer has the shape and the fields that
\* were promised, unless some version between had no schema for it, for diff
\* compares two neighbours and then has nothing to compare.  Calls are accepted
\* whatever the texts in them, unless the document asks for something else by
\* now, which diff does not look at, or the handler asks for what no document
\* tells: a Path<String> that has become a Path<u64> refuses calls unseen.  The
\* types of the fields may have changed as well, which by openapi.md:228 would
\* be breaking.
PromisesKept ==
    \A key \in DOMAIN client.ops :
        /\ Serving(main, key) # {}
        /\ \A h \in Serving(main, key) :
              /\ \/ key \in hidden
                 \/ /\ h.type.kind = client.ops[key].response.kind
                    /\ HasProperties(h.type) => PropertyNames(client.ops[key].response) \subseteq PropertyNames(h.type)
              /\ \/ \A sent \in Calls(key, client.ops[key]) : Accepts(h, sent)
                 \/ Untold(h)
                 \/ HeaderParameters(h) # client.ops[key].headers
                 \/ RequestBody(h) # client.ops[key].request

\* What diff calls breaking is: some call goes unanswered or lacks a field, or
\* a parameter of a path has another name now.
AlarmsMeant ==
    Document[head] # NotGiven =>
        \A change \in Breaking(base, Document[head]) :
            \/ /\ change[1] = "endpoint"
               /\ \/ \E key \in DOMAIN base.ops : key.path = change[2] /\ Serving(head, key) = {}
                  \/ \E p \in Document[head].paths : SameUrls(p, change[2])
                  \/ \A key \in DOMAIN base.ops : key.path # change[2]
            \/ /\ change[1] = "method"
               /\ \A h \in Serving(head, change[2]) : h.path # change[2].path
            \/ /\ change[1] \in {"field", "type"}
               /\ \E h \in Serving(head, change[2]) :
                     \/ change[1] = "field" /\ change[3] \notin PropertyNames(h.type)
                     \/ change[1] = "type" /\ h.type.kind # base.ops[change[2]].response.kind

\* The two together are what a team relies on that lets diff decide.
ContractKept == PromisesKept /\ AlarmsMeant

=============================================================================
