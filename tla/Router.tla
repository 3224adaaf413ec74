-------------------------------- MODULE Router --------------------------------
(***************************************************************************)
(* The routes of one HTTP method: registration, freeze(), and the lookup   *)
(* of a path in the static map and the radix trie, next to the linear scan *)
(* that both replaced.                                                     *)
(*                                                                         *)
(* A path is a sequence of bytes.  A pattern is a sequence of bytes and of *)
(* parameters, each of them a segment of its own: a colon inside a segment *)
(* is left out, as trie.rs documents.  So are the priorities of children:  *)
(* they do not change a lookup, since the prefixes of two children of a    *)
(* node differ in their first byte.                                        *)
(***************************************************************************)
EXTENDS Integers, Sequences, SequencesExt

CONSTANTS
    Byte,
    Name,       \* the parameters, ":id" and so on
    NoName,     \* a node without a parameter
    Pattern,    \* the patterns of the application
    Group,      \* prefixes given to group()
    RequestPath,
    MaxRoutes   \* bound: routes of the table

PatternToken == Byte \cup Name

IsParam(token) == token \in Name

FullSegments(s) ==
    \A i \in 1 .. Len(s) : IsParam(s[i]) =>
        /\ i > 1 => s[i - 1] = "/"
        /\ i < Len(s) => s[i + 1] = "/"

ASSUME RouterAssumption ==
    /\ MaxRoutes \in Nat
    /\ "/" \in Byte
    /\ Name \cap Byte = {} /\ NoName \notin Name
    /\ \A s \in Pattern \cup Group : s \in Seq(PatternToken) /\ s # <<>> /\ FullSegments(s)
    /\ \A path \in RequestPath : path \in Seq(Byte) /\ path # <<>>

VARIABLES
    routes,     \* the patterns, in the order of Router.routes
    phase,      \* "open", "frozen" or "panicked"
    static_map, \* the map, as a set of [path, route]
    trie        \* the arena: a sequence of nodes, the root first

routerVars == <<routes, phase, static_map, trie>>

NoRoute == 0      \* no route
NoNode == 0       \* no node

\* How many tokens there are before the next of `stops`, counted from the front
\* of s; the first `from` are passed.
End(s, from, stops) ==
    CHOOSE n \in from .. Len(s) :
        /\ \A i \in from + 1 .. n : s[i] \notin stops
        /\ n < Len(s) => s[n + 1] \in stops

Drop(s, n) == SubSeq(s, n + 1, Len(s))

-----------------------------------------------------------------------------
(* Segments *)

\* split('/'): the segments of a path or a pattern.
Segments(s) ==
    LET split[n \in 0 .. Len(s)] ==
            IF n = 0 THEN << <<>> >>
            ELSE IF s[n] = "/" THEN Append(split[n - 1], <<>>)
            ELSE [split[n - 1] EXCEPT ![Len(split[n - 1])] = Append(@, s[n])]
    IN  split[Len(s)]

IsParamSegment(segment) == segment # <<>> /\ IsParam(segment[1])

is_dynamic(pattern) ==
    \E i \in DOMAIN Segments(pattern) : IsParamSegment(Segments(pattern)[i])

route_specificity(pattern) ==
    LET segments == Segments(pattern)
    IN  [i \in DOMAIN segments |-> IF IsParamSegment(segments[i]) THEN 1 ELSE 0]

\* The order of Vec<u8>: by the first difference, else the shorter first.
Below(s, t) ==
    \E i \in 1 .. Len(t) :
        /\ \A j \in 1 .. i - 1 : j <= Len(s) /\ s[j] = t[j]
        /\ i <= Len(s) => s[i] < t[i]

\* sort_routes: the order of a stable sort by specificity, of which there is one.
SortedOrders(table) ==
    {order \in [DOMAIN table -> DOMAIN table] :
        \A i, j \in DOMAIN table : i < j =>
            LET s == route_specificity(table[order[i]])
                t == route_specificity(table[order[j]])
            IN  Below(s, t) \/ (s = t /\ order[i] < order[j])}

\* extract_path_params: the parameters of a path, or <<>> without a match.
extract_path_params(pattern, path) ==
    LET p == Segments(pattern)
        s == Segments(path)
        params == {i \in DOMAIN p : IsParamSegment(p[i])}
    IN  IF /\ Len(p) = Len(s)
           /\ \A i \in DOMAIN p : i \in params \/ p[i] = s[i]
        THEN <<{[name |-> p[i][1], value |-> s[i]] : i \in params}>>
        ELSE <<>>

-----------------------------------------------------------------------------
(* The radix trie *)

\* children maps the first byte of a child's prefix to the child, param is the
\* child for a parameter, name its name. A node is its place in the arena.
NewNode(prefix, name) ==
    [prefix |-> prefix, children |-> [byte \in {} |-> NoNode], param |-> NoNode,
     name |-> name, value |-> NoRoute]

\* How much of s, the first `from` tokens of which are passed, a prefix shares.
common_prefix_len(prefix, s, from) ==
    CHOOSE n \in 0 .. Len(prefix) :
        /\ from + n <= Len(s)
        /\ \A i \in 1 .. n : prefix[i] = s[from + i]
        /\ n < Len(prefix) /\ from + n < Len(s) => prefix[n + 1] # s[from + n + 1]

\* Mutant: the upper node keeps the route and the parameter.
split_node_shallow(arena, node, at) ==
    Append([arena EXCEPT ![node].prefix = SubSeq(@, 1, at),
                         ![node].children =
                             [byte \in {arena[node].prefix[at + 1]} |-> Len(arena) + 1]],
           [NewNode(Drop(arena[node].prefix, at), NoName)
                EXCEPT !.children = arena[node].children])

\* Everything but the front of the prefix moves into a new child.
split_node(arena, node, at) ==
    LET old == arena[node]
        front == [NewNode(SubSeq(old.prefix, 1, at), NoName)
                     EXCEPT !.children = [byte \in {old.prefix[at + 1]} |-> Len(arena) + 1]]
    IN  Append([arena EXCEPT ![node] = front], [old EXCEPT !.prefix = Drop(@, at)])

(* insert and insert_static: a walk down the trie, at a node whose prefix *)
(* is passed, as the first `used` tokens of the pattern are.              *)

\* The next token is a parameter.
ToParam(walk, pattern) ==
    LET new == Len(walk.arena) + 1
        child == walk.arena[walk.at].param
    IN  IF child # NoNode THEN [walk EXCEPT !.at = child, !.used = @ + 1]
        ELSE [arena |-> Append([walk.arena EXCEPT ![walk.at].param = new],
                               NewNode(<<>>, pattern[walk.used + 1])),
              at |-> new, used |-> walk.used + 1]

\* It is the first byte of a child, which is split if the pattern leaves its prefix.
ToChild(walk, pattern, child) ==
    LET prefix == walk.arena[child].prefix
        common == common_prefix_len(prefix, pattern, walk.used)
    IN  [arena |-> IF common < Len(prefix) THEN split_node(walk.arena, child, common)
                   ELSE walk.arena,
         at |-> child, used |-> walk.used + common]

\* No child begins with it: a new one takes the bytes before the next parameter.
ToNewChild(walk, pattern) ==
    LET new == Len(walk.arena) + 1
        end == End(pattern, walk.used, Name)
        byte == pattern[walk.used + 1]
        children == walk.arena[walk.at].children
    IN  [arena |-> Append([walk.arena EXCEPT ![walk.at].children =
                               [b \in DOMAIN children \cup {byte} |->
                                   IF b = byte THEN new ELSE children[b]]],
                          NewNode(SubSeq(pattern, walk.used + 1, end), NoName)),
         at |-> new, used |-> end]

Descend(walk, pattern) ==
    LET token == pattern[walk.used + 1]
        children == walk.arena[walk.at].children
    IN  IF walk.used = Len(pattern) THEN walk
        ELSE IF IsParam(token) THEN ToParam(walk, pattern)
        ELSE IF token \in DOMAIN children THEN ToChild(walk, pattern, children[token])
        ELSE ToNewChild(walk, pattern)

\* Every step uses a token at least.
insert(arena, pattern, route) ==
    LET walk[n \in 0 .. Len(pattern)] ==
            IF n = 0 THEN [arena |-> arena, at |-> 1, used |-> 0]
            ELSE Descend(walk[n - 1], pattern)
        end == walk[Len(pattern)]
    IN  [end.arena EXCEPT ![end.at].value = route]

\* PathParams::remove: the first entry of the name, and the last takes its place.
Removed(params, name) ==
    IF \A i \in DOMAIN params : params[i].name # name THEN params
    ELSE LET first == CHOOSE i \in DOMAIN params :
                          /\ params[i].name = name
                          /\ \A j \in 1 .. i - 1 : params[j].name # name
             last == Len(params)
         IN  [i \in 1 .. last - 1 |-> IF i = first THEN params[last] ELSE params[i]]

Found(route, params) == [route |-> route, params |-> params]

Binding(name, value) == [name |-> name, value |-> value]

\* lookup_recursive: the static child first, then the parameter. A call has the
\* node, how much of the path was passed before it, and the parameters so far;
\* deeper is the result of the calls it makes.
lookup_recursive(arena, path, deeper, call) ==
    LET node == arena[call.node]
        from == call.from + Len(node.prefix)
        next == path[from + 1]
        static == IF next \in DOMAIN node.children
                  THEN deeper[[node |-> node.children[next], from |-> from, params |-> call.params]]
                  ELSE Found(NoRoute, call.params)
        end == End(path, from, {"/"})
        name == arena[node.param].name
        pushed == Append(static.params, Binding(name, SubSeq(path, from + 1, end)))
        dynamic == deeper[[node |-> node.param, from |-> end, params |-> pushed]]
    IN  IF common_prefix_len(node.prefix, path, call.from) < Len(node.prefix)
        THEN Found(NoRoute, call.params)
        ELSE IF from = Len(path) THEN Found(node.value, call.params)
        ELSE IF static.route # NoRoute \/ node.param = NoNode THEN static
        ELSE IF dynamic.route # NoRoute THEN dynamic
        ELSE Found(NoRoute, Removed(dynamic.params, name))

\* No call goes deeper: a static child takes a byte, and no parameter follows
\* another one.
MaxDepth(path) == 2 * Len(path) + 2

Call(arena, path) ==
    [node : 1 .. Len(arena), from : 0 .. Len(path),
     params : Seq([name : Name, value : Seq(Byte)])]

Lookup(arena, path) ==
    LET found[depth \in 0 .. MaxDepth(path)] ==
            [call \in Call(arena, path) |->
                IF depth = 0 THEN Found(NoRoute, call.params)
                ELSE lookup_recursive(arena, path, found[depth - 1], call)]
    IN  found[MaxDepth(path)][[node |-> 1, from |-> 0, params |-> <<>>]]

-----------------------------------------------------------------------------
(* Router *)

\* StaticMap::build: of two routes with one pattern the later one stays.
BuildStatic(table) ==
    {[path |-> table[i], route |-> i] :
        i \in {i \in DOMAIN table : /\ ~is_dynamic(table[i])
                                    /\ \A j \in DOMAIN table : j > i => table[j] # table[i]}}

\* TrieRouter::build
BuildTrie(table) ==
    LET built[n \in 0 .. Len(table)] ==
            IF n = 0 THEN <<NewNode(<<>>, NoName)>>
            ELSE IF is_dynamic(table[n]) THEN insert(built[n - 1], table[n], n)
            ELSE built[n - 1]
    IN  built[Len(table)]

\* insert panics: at one place of the trie, two names for the parameter.
ConflictingNames(table) ==
    \E i, j \in {i \in DOMAIN table : is_dynamic(table[i])} :
        LET n == common_prefix_len(table[i], table[j], 0) + 1
        IN  /\ n <= Len(table[i]) /\ n <= Len(table[j])
            /\ IsParam(table[i][n]) /\ IsParam(table[j][n])

\* A route that is found, and its parameters; NotFound is 404.
NotFound == Found(NoRoute, <<>>)

resolve(path) ==
    LET hits == {e \in static_map : e.path = path}
        dynamic == Lookup(trie, path)
    IN  IF hits # {} THEN Found((CHOOSE e \in hits : TRUE).route, <<>>)
        ELSE IF dynamic.route # NoRoute THEN dynamic
        ELSE NotFound

\* trim_end_matches, trim_start_matches
TrimEnd(s) ==
    SubSeq(s, 1, CHOOSE n \in 0 .. Len(s) :
                     /\ n > 0 => s[n] # "/"
                     /\ \A i \in n + 1 .. Len(s) : s[i] = "/")
TrimStart(s) == Drop(s, End(s, 0, PatternToken \ {"/"}))

join_group_route_pattern(prefix, pattern) ==
    LET front == TrimEnd(prefix)
        rest == TrimStart(pattern)
    IN  IF front = <<>> THEN <<"/">> \o rest
        ELSE IF rest = <<>> THEN front
        ELSE front \o <<"/">> \o rest

\* route_named and the functions over it.
AddRoute ==
    /\ phase = "open"
    /\ Len(routes) < MaxRoutes
    /\ \E pattern \in Pattern : routes' = Append(routes, pattern)
    /\ UNCHANGED <<phase, static_map, trie>>

\* group: the routes of another router, here one route, behind a prefix.
AddGroup ==
    /\ phase = "open"
    /\ Len(routes) < MaxRoutes
    /\ \E prefix \in Group, pattern \in Pattern :
           routes' = Append(routes, join_group_route_pattern(prefix, pattern))
    /\ UNCHANGED <<phase, static_map, trie>>

\* prepare(): sort_routes, then freeze.
Freeze ==
    /\ phase = "open"
    /\ phase' = "frozen"
    /\ \E order \in SortedOrders(routes) :
          routes' = [i \in DOMAIN routes |-> routes[order[i]]]
    /\ ~ConflictingNames(routes')
    /\ static_map' = BuildStatic(routes')
    /\ trie' = BuildTrie(routes')

Panic ==
    /\ phase = "open"
    /\ ConflictingNames(routes)
    /\ phase' = "panicked"
    /\ UNCHANGED <<routes, static_map, trie>>

RouterInit ==
    /\ routes = <<>>
    /\ phase = "open"
    /\ static_map = {}
    /\ trie = <<NewNode(<<>>, NoName)>>

RouterNext == AddRoute \/ AddGroup \/ Freeze \/ Panic

RouterSpec == RouterInit /\ [][RouterNext]_routerVars

-----------------------------------------------------------------------------
\* resolve_linear: the first of the candidates that matches.
resolve_linear(path, candidates) ==
    LET matches == {i \in candidates : extract_path_params(routes[i], path) # <<>>}
    IN  IF matches = {} THEN NotFound
        ELSE LET i == CHOOSE i \in matches : \A j \in matches : i <= j
             IN  Found(i, extract_path_params(routes[i], path)[1])

NamesOnce(pattern) ==
    \A i, j \in DOMAIN pattern :
        i # j /\ IsParam(pattern[i]) => pattern[i] # pattern[j]

\* After freeze, the static map and the trie answer a path with the pattern
\* and the parameters that the linear scan over the sorted routes answers,
\* whatever the order of registration, as router/mod.rs:83 says; routing.md:277
\* says instead that routes are matched in the order they are added, which they
\* are not. Two things differ by intention or by accident and are left out: at the end of a path the trie takes no empty
\* value for a parameter ("/users/" is not "/users/:id"), and of routes with
\* one pattern the linear scan takes the first, the others the last. A
\* pattern that names two of its parameters alike is outside: its lookups
\* may take the value of one for the other.
ResolveAgrees ==
    phase = "frozen" /\ (\A i \in DOMAIN routes : NamesOnce(routes[i])) =>
        \A path \in RequestPath :
            LET Left(pattern) == IsParam(Last(pattern)) /\ Last(path) = "/"
                linear == resolve_linear(path, {i \in DOMAIN routes : ~Left(routes[i])})
                found == resolve(path)
            IN  IF linear.route = NoRoute THEN found = NotFound
                ELSE /\ found.route >= linear.route
                     /\ routes[found.route] = routes[linear.route]
                     /\ ToSet(found.params) = linear.params

=============================================================================
