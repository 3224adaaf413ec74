---------------------------- MODULE OpenApiImport ----------------------------
(***************************************************************************)
(* `rapina import openapi`: the operations of a document, path by path,    *)
(* become handlers of modules and their bodies DTOs of the same modules;   *)
(* names are derived, made different, and given to what was parsed before. *)
(* Then the modules are written, a directory each, until one fails.        *)
(*                                                                         *)
(* A handler's name is a sequence: <<"a">> is a, <<"a", 2>> is a_2. What   *)
(* the types are called that are made of components and for handlers is    *)
(* left open: to_pascal_case and to_snake_case may well give one name to   *)
(* two of them.                                                            *)
(***************************************************************************)
EXTENDS Naturals, Sequences, SequencesExt

CONSTANTS
    Operation,      \* operations a document may have, see the comment below
    Missing,        \* no body, no type
    ComponentType(_),   \* to_pascal_case(&to_snake_case(name)) of a component
    HandlerType(_, _),  \* to_pascal_case(handler_name), and a suffix
    Tags,           \* modules the --tags filter lets through
    MaxOperations   \* bound on the operations of a document

(* An operation is a record of its module (its first tag or path segment), *)
(* the name derived for its handler, the schemas of its request and of its *)
(* success response, and whether it has query parameters. A schema is a    *)
(* record: how it is given ("ref" to a component, "inline", "array" of a   *)
(* component), its id, whether it is an object and has validations.        *)

(* The absence of a body has no type's name, and an id is one schema's.    *)
ASSUME OperationAssumption ==
    /\ MaxOperations \in Nat
    /\ \A op \in Operation :
          /\ Len(op.name) \in Nat \ {0}
          /\ op.name = [i \in 1 .. Len(op.name) |-> op.name[i]]
          /\ Missing # HandlerType(op.name, "Request") /\ Missing # HandlerType(op.name, "Response")
          /\ \A b \in {op.request, op.response} \ {Missing} :
                /\ b.object \in BOOLEAN /\ b.validated \in BOOLEAN
                /\ Missing # ComponentType(b.id)
    /\ \A op, other \in Operation :
          \A b \in {op.request, op.response} \ {Missing},
             c \in {other.request, other.response} \ {Missing} :
                b.id = c.id => b.object = c.object /\ b.validated = c.validated

VARIABLES
    document,   \* the operations read so far
    seen,       \* seen_handlers: how often each derived name came
    endpoints,  \* of each module, in the order of the document
    dtos,       \* of each module, by type name
    progress,      \* "parse", "queries", "write", "done", "failed"
    on_disk,    \* modules that have a directory under src
    written,    \* modules this run of the command has written
    complete    \* history: directories that hold all files of the import

importVars == <<document, seen, endpoints, dtos, progress, on_disk, written, complete>>

ImportModule == {op.module : op \in Operation}
HandlerName == {op.name : op \in Operation}

Put(f, k, v) == [x \in DOMAIN f \cup {k} |-> IF x = k THEN v ELSE f[x]]

Dto(schema, response) ==
    [schema |-> schema.id, has_validations |-> schema.validated, is_response |-> response]

\* What extract_request_body_name and extract_response_body_name have in
\* common: the type a body asks for.
BodyName(body, handler, suffix) ==
    CASE body = Missing -> Missing
      [] body # Missing /\ body.given = "ref" -> ComponentType(body.id)
      [] body # Missing /\ body.given = "inline" /\ body.object -> HandlerType(handler, suffix)
      [] OTHER -> Missing

RequestOf(op) ==
    [body |-> op.request, response |-> FALSE, type |-> BodyName(op.request, op.name, "Request")]

\* An array of a component asks for the component's type.
ResponseOf(op) ==
    [body |-> op.response, response |-> TRUE,
     type |-> IF op.response # Missing /\ op.response.given = "array"
              THEN ComponentType(op.response.id)
              ELSE BodyName(op.response, op.name, "Response")]

\* Objects are made types of, but not for an array.
Makes(b) == b.type # Missing /\ b.body.object /\ b.body.given # "array"

\* A component is left alone if there is a type of its name; what is inline is
\* inserted whatever was there.
WithBody(types, b) ==
    IF ~Makes(b) \/ (b.body.given = "ref" /\ b.type \in DOMAIN types) THEN types
    ELSE Put(types, b.type, Dto(b.body, b.response))

\* parse_operation: the types of the module with those of the operation.
ParsedDtos(types, op) == WithBody(WithBody(types, RequestOf(op)), ResponseOf(op))

\* Mutant: the second handler of a name keeps it.
DifferentLate(name, count) == IF count > 2 THEN Append(name, count) ELSE name

\* group_by_module: from the second on, a handler gets its count.
Different(name, count) == IF count > 1 THEN Append(name, count) ELSE name

ParsedEndpoint(op, types, count) ==
    LET request == RequestOf(op).type
    IN  [handler_name |-> Different(op.name, count),
         operation |-> op,
         request_body |-> request,
         response_body |-> ResponseOf(op).type,
         needs_validation |-> request \in DOMAIN types /\ types[request].has_validations]

\* group_by_module, one operation.
ParseOperation(op) ==
    /\ progress = "parse" /\ Len(document) < MaxOperations
    /\ document' = Append(document, op)
    /\ IF op.module \in Tags
       THEN LET types == ParsedDtos(dtos[op.module], op)
                count == seen[op.name] + 1
            IN  /\ seen' = [seen EXCEPT ![op.name] = count]
                /\ dtos' = [dtos EXCEPT ![op.module] = types]
                /\ endpoints' = [endpoints EXCEPT ![op.module] =
                                    Append(@, ParsedEndpoint(op, types, count))]
       ELSE UNCHANGED <<seen, dtos, endpoints>>
    /\ UNCHANGED <<progress, on_disk, written, complete>>

QueryName(e) == HandlerType(e.handler_name, "Query")

QueryDto == [schema |-> "query", has_validations |-> FALSE, is_response |-> FALSE]

QueryNames(list) == {QueryName(e) : e \in {f \in ToSet(list) : f.operation.query}}

\* The types of a module with those of its handlers that have query parameters.
WithQueries(types, list) ==
    LET names == QueryNames(list)
    IN  [x \in DOMAIN types \cup names |-> IF x \in names THEN QueryDto ELSE types[x]]

\* The end of group_by_module: types for the query parameters. A document
\* without operations, or none the filter lets through, is an error.
Queries ==
    /\ progress = "parse"
    /\ dtos' = [m \in ImportModule |-> WithQueries(dtos[m], endpoints[m])]
    /\ progress' = IF \A m \in ImportModule : endpoints[m] = <<>> THEN "failed" ELSE "write"
    /\ UNCHANGED <<document, seen, endpoints, on_disk, written, complete>>

Imported == {m \in ImportModule : endpoints[m] # <<>>}

\* write_module. A directory that exists is an error, and so is a write that
\* fails after the directory was made; what was written before stays.
WriteModule(m, all) ==
    /\ progress = "write"
    /\ m \in Imported \ written
    /\ IF m \in on_disk
       THEN /\ progress' = "failed"
            /\ UNCHANGED <<on_disk, written, complete>>
       ELSE /\ on_disk' = on_disk \cup {m}
            /\ written' = written \cup {m}
            /\ complete' = IF all THEN complete \cup {m} ELSE complete
            /\ progress' = IF ~all THEN "failed"
                        ELSE IF Imported \subseteq written \cup {m} THEN "done" ELSE "write"
    /\ UNCHANGED <<document, seen, endpoints, dtos>>

\* The user removes a directory, or runs the command again: it parses the
\* document to the same modules and writes them from the first one on.
RemoveDirectory(m) ==
    /\ progress \in {"failed", "done"}
    /\ m \in on_disk
    /\ on_disk' = on_disk \ {m}
    /\ complete' = complete \ {m}
    /\ UNCHANGED <<document, seen, endpoints, dtos, progress, written>>

RunAgain ==
    /\ progress \in {"failed", "done"} /\ Imported # {}
    /\ progress' = "write"
    /\ written' = {}
    /\ UNCHANGED <<document, seen, endpoints, dtos, on_disk, complete>>

ImportInit ==
    /\ document = <<>>
    /\ seen = [n \in HandlerName |-> 0]
    /\ endpoints = [m \in ImportModule |-> <<>>]
    /\ dtos = [m \in ImportModule |-> <<>>]
    /\ progress = "parse"
    /\ on_disk = {}
    /\ written = {}
    /\ complete = {}

ImportNext ==
    \/ \E op \in Operation : ParseOperation(op)
    \/ Queries
    \/ \E m \in ImportModule :
          \/ \E all \in BOOLEAN : WriteModule(m, all)
          \/ RemoveDirectory(m)
    \/ RunAgain

ImportSpec == ImportInit /\ [][ImportNext]_importVars

-----------------------------------------------------------------------------

Parsed == progress # "parse"

\* Two handlers of a module share a name only if the document itself names an
\* operation like a handler that was counted, foo_2 beside two foo.
HandlersDiffer ==
    \A m \in ImportModule : \A i, k \in DOMAIN endpoints[m] :
        i # k /\ endpoints[m][i].handler_name = endpoints[m][k].handler_name
            => \E a, b \in {i, k} : \E n \in 2 .. MaxOperations :
                  endpoints[m][a].operation.name = Append(endpoints[m][b].operation.name, n)

\* The bodies of a module in the order they are parsed, two of each operation.
Bodies(m) ==
    [i \in 1 .. 2 * Len(endpoints[m]) |->
        LET op == endpoints[m][(i + 1) \div 2].operation
        IN  IF i % 2 = 1 THEN RequestOf(op) ELSE ResponseOf(op)]

Makers(m, name) == {i \in DOMAIN Bodies(m) : Makes(Bodies(m)[i]) /\ Bodies(m)[i].type = name}

\* The one of them whose type it is: the last that is inline, or the first if
\* they are components.
Maker(m, name) ==
    LET inline == {i \in Makers(m, name) : Bodies(m)[i].body.given # "ref"}
    IN  Bodies(m)[IF inline # {} THEN Max(inline) ELSE Min(Makers(m, name))]

TypesMade(m) ==
    /\ DOMAIN dtos[m] = {name \in {b.type : b \in ToSet(Bodies(m))} : Makers(m, name) # {}}
                         \cup QueryNames(endpoints[m])
    /\ \A name \in DOMAIN dtos[m] :
          dtos[m][name] = IF name \in QueryNames(endpoints[m]) THEN QueryDto
                          ELSE Dto(Maker(m, name).body, Maker(m, name).response)

\* The name of a body's type is that of no other schema's type.
OwnName(m, b) ==
    \A i \in Makers(m, b.type) : Bodies(m)[i].body.id = b.body.id

AsAsked(m, b) == Makes(b) => dtos[m][b.type].schema = b.body.id

\* The import keeps to its document. Handlers differ, and a type that a handler
\* names is made of the schema its operation asked for, and its request is
\* validated if that schema is, unless the document gives the name to another
\* schema or to query parameters: then the parameters have it, or the last
\* inline body, or the first component. Types are made of nothing else. And the
\* command says it is done only if every module is written in full, whatever
\* earlier runs left behind.
ImportFaithful ==
    Parsed =>
        /\ HandlersDiffer
        /\ \A m \in ImportModule :
              /\ TypesMade(m)
              /\ \A i \in DOMAIN endpoints[m] :
                    LET e == endpoints[m][i]
                        request == RequestOf(e.operation)
                    IN  /\ \A b \in {request, ResponseOf(e.operation)} :
                              OwnName(m, b) /\ b.type \notin QueryNames(endpoints[m]) => AsAsked(m, b)
                        /\ OwnName(m, request) =>
                              (e.needs_validation <=> Makes(request) /\ request.body.validated)
        /\ progress = "done" => Imported \subseteq written /\ written \cap on_disk \subseteq complete

=============================================================================
