---------------------------- MODULE MCGenerators ----------------------------
(* Instance, for TLC, of what outlives a process: the source files that     *)
(* commands write, the macro that reads some of them, the document built    *)
(* from what the route macros write, seeds and their tables, and the keys   *)
(* in Redis. They share no state; a behaviour looks at one of them, and the *)
(* others stay as they were.                                                *)
EXTENDS OpenApiImport, ImportedSchema, ApiContract, Seeds, MCRedis

CONSTANTS m1, m2, m3

VARIABLE part

schemaToolVars == <<schemaVars, migrationVars>>
generatorVars == <<importVars, schemaToolVars, schema, apiVars, seedVars, redisVars, part>>

-----------------------------------------------------------------------------
(* OpenApiImport: two modules and one the filter keeps out; a component that *)
(* is called like the request of a handler, or like its query parameters.   *)

InComponentType(id) ==
    CASE id = "c" -> <<"a", "Request">> [] id = "x" -> <<"a", "Query">> [] OTHER -> <<"schema", id>>

InHandlerType(handler, suffix) == Append(handler, suffix)

Body(given, id, object, validated) ==
    [given |-> given, id |-> id, object |-> object, validated |-> validated]

ref_s == Body("ref", "s", TRUE, TRUE)

Op(m, name, request, response, query) ==
    [module |-> m, name |-> name, request |-> request, response |-> response, query |-> query]

Operations ==
    {Op(m1, <<"a">>, request, Missing, FALSE) :
        request \in {ref_s, Body("inline", "t", TRUE, FALSE), Body("inline", "u", TRUE, TRUE)}}
    \cup {Op(m1, <<"a">>, Missing, response, FALSE) : response \in {ref_s, Body("array", "s", TRUE, TRUE)}}
    \cup {Op(m1, <<"a">>, ref_s, ref_s, FALSE)}
    \cup {Op(m1, <<"a", 2>>, Body("inline", "t", TRUE, FALSE), Missing, FALSE),
          Op(m1, <<"b">>, Body("ref", "c", TRUE, TRUE), Body("inline", "v", TRUE, FALSE), FALSE),
          Op(m2, <<"a">>, Body("inline", "w", FALSE, FALSE), Missing, TRUE),
          Op(m2, <<"a">>, Body("ref", "x", TRUE, TRUE), Missing, TRUE),
          Op(m3, <<"a">>, ref_s, Missing, FALSE)}

-----------------------------------------------------------------------------
(* SchemaTools: tables that refer to each other by keys of both types, one  *)
(* whose entity is called like the end of another's, and columns that       *)
(* cannot be expressed.                                                     *)

Col(name, type, nullable) == [name |-> name, type |-> type, nullable |-> nullable]

Refer(name, t) == [columns |-> {name}, table |-> t]

Tbl(name, key, columns, foreign_keys) ==
    [name |-> name, columns |-> columns \cup {Col(<<"id">>, key, FALSE)},
     primary_key |-> {<<"id">>}, foreign_keys |-> foreign_keys]

Stamp(word) == Col(<<word, "at">>, "DateTimeUtc", FALSE)

users == Tbl("users", "Uuid",
             {Col(<<"name">>, "String", FALSE), Stamp("created"), Stamp("updated")}, {})

posts == Tbl("posts", "I32", {Col(<<"user", "id">>, "Uuid", TRUE), Stamp("created")},
             {Refer(<<"user", "id">>, "users")})

blog_tags == Tbl("blog_tags", "I32",
                 {Col(<<"owner">>, "Uuid", FALSE), Col(<<"post", "id">>, "Uuid", FALSE),
                  Stamp("updated")},
                 {Refer(<<"owner">>, "users"), Refer(<<"post", "id">>, "posts")})

tags == Tbl("tags", "I32",
            {Col(<<"area">>, "Unmappable", FALSE), Col(<<"blog", "id">>, "I32", FALSE)},
            {Refer(<<"blog", "id">>, "blog_tags")})

rapina_jobs == Tbl("rapina_jobs", "Uuid", {Col(<<"created", "at">>, "DateTime", FALSE)}, {})

kinds == Tbl("kinds", "I32", {Col(<<"type">>, "String", FALSE)}, {})

categories == Tbl("categories", "I32", {}, {})

\* Its key is a foreign key, and another one leads to itself.
profiles == Tbl("profiles", "Uuid", {Col(<<"profile", "id">>, "Uuid", TRUE)},
                {Refer(<<"id">>, "users"), Refer(<<"profile", "id">>, "profiles")})

members == [Tbl("members", "I32", {Col(<<"team">>, "I32", FALSE)}, {})
               EXCEPT !.primary_key = {<<"id">>, <<"team">>}]

Databases ==
    {{users, posts, blog_tags}, {blog_tags, tags},
     {rapina_jobs, kinds, categories}, {members, users, profiles}, {}}

TagsAtEnd == {<<"blog_tags", "tags">>}

ReservedNames == {<<"type">>}

Plain(name) ==
    [name |-> name, fields |-> {}, belongs_to |-> {}, has_many |-> {},
     timestamps |-> [created |-> FALSE, updated |-> FALSE], default_key |-> TRUE]

\* None, or a block with two entities.
EntityFiles == {<<>>, <<<<Plain("users"), Plain("tags")>>>>}

-----------------------------------------------------------------------------
(* SchemaMacro: entities with the default key, with a key that may be a     *)
(* relation, and with a composite one.                                      *)

FieldOfKind(name, kind, type) ==
    [name |-> name, kind |-> kind, type |-> type, optional |-> FALSE, related |-> FALSE]

Fields ==
    {FieldOfKind(<<"f">>, "one", t) : t \in {"A", "B", "C"}}
        \cup {FieldOfKind(<<"g">>, "Vec", "A"),
              [FieldOfKind(<<"g">>, "one", "B") EXCEPT !.optional = TRUE],
              [FieldOfKind(<<"f">>, "one", "B") EXCEPT !.related = TRUE],
              [FieldOfKind(<<"h">>, "Vec", "A") EXCEPT !.related = TRUE],
              FieldOfKind(<<"f">>, "scalar", "Uuid"),
              FieldOfKind(<<"F">>, "one", "A"),
              FieldOfKind(<<"created", "at">>, "scalar", "Date"),
              [FieldOfKind(<<"f", "id">>, "scalar", "i64") EXCEPT !.optional = TRUE]}

Attrs(name, key) ==
    [name |-> name, primary_key |-> key, created |-> key = <<>>, updated |-> TRUE]

EntityAttrs ==
    {Attrs(name, <<>>) : name \in {"A", "B"}}
        \cup {Attrs(name, <<<<"f">>>>) : name \in {"B", "C"}}
        \cup {Attrs("B", <<<<"f">>, other>>) : other \in {<<"f">>, <<"g">>}}

InSnakeCase == [name \in {<<"F">>} |-> <<"f">>]

-----------------------------------------------------------------------------

(* ApiContract: versions that take something away from the first one, ask   *)
(* for more, or say less of their answers.                                  *)

Field(name) == [name |-> name, type |-> "string", required |-> TRUE]

Object(names) == [kind |-> "object", fields |-> {Field(n) : n \in names}]

Array == [kind |-> "array", fields |-> {}]
OneOf == [kind |-> "oneOf", fields |-> {}]

Handler(name, method, path, args, returns, type) ==
    [name |-> name, method |-> method, path |-> path, args |-> args,
     returns |-> returns, type |-> type]

Segments == {":id", ":name"}

Texts == {"7", "x"}

Arg(kind, names) ==
    [kind |-> kind, name |-> kind, required |-> TRUE, type |-> Object(names), takes |-> {}]

PathArg(texts) == [Arg("path", {}) EXCEPT !.takes = [{2} -> texts]]

HeaderArg(required, texts) == [Arg("header", {}) EXCEPT !.required = required, !.takes = texts]

list_users == Handler("list_users", "GET", <<"users">>, <<>>, "Json", Array)

CreateUser(kind, names) ==
    Handler("create_user", "POST", <<"users">>, <<Arg(kind, names)>>, "Result", Object({"id"}))

GetUser(param, args, returns, type) ==
    Handler("get_user", "GET", <<"users", param>>, <<PathArg(Texts)>> \o args, returns, type)

create_user == CreateUser("json", {"name"})
get_user == GetUser(":id", <<>>, "Result", Object({"id", "name"}))
delete_users == Handler("delete_users", "DELETE", <<"users">>, <<Arg("json", {"id"})>>, "other", OneOf)
rename_user ==
    Handler("rename_user", "POST", <<"users", ":name">>, <<PathArg(Texts), Arg("json", {"name"})>>,
            "Result", Object({"id"}))
options == Handler("options", "OPTIONS", <<"options">>, <<>>, "other", OneOf)

FirstVersion == <<list_users, create_user, get_user>>

Versions ==
    {<<>>, FirstVersion,
     <<list_users, create_user, get_user, delete_users, options>>,
     <<list_users, get_user>>,
     <<list_users, create_user>>,
     <<list_users, create_user, [get_user EXCEPT !.name = "list_users"]>>,
     <<list_users, get_user, [GetUser(":name", <<>>, "Json", Array) EXCEPT !.name = "find_user"]>>,
     <<list_users, create_user, get_user, rename_user>>,
     <<list_users, CreateUser("json", {"name", "email"}),
       GetUser(":id", <<HeaderArg(TRUE, Texts)>>, "Result", Object({"id", "name"}))>>,
     <<list_users, create_user,
       GetUser(":id", <<HeaderArg(FALSE, {"7"})>>, "Result", Object({"id", "name"}))>>,
     <<list_users, create_user, [get_user EXCEPT !.args = <<PathArg({"7"})>>]>>,
     <<list_users, create_user,
       [get_user EXCEPT !.type.fields = {Field("name"), [Field("id") EXCEPT !.type = "number"]}]>>,
     <<list_users, CreateUser("form", {"name"}),
       GetUser(":id", <<Arg("query", {"page"})>>, "Json", Object({"id", "name", "email"}))>>}
        \cup {<<list_users, create_user, user>> :
                 user \in {GetUser(":name", <<>>, "Result", Object({"id", "name"})),
                          GetUser(":id", <<>>, "Result", Object({"id"})),
                          GetUser(":id", <<>>, "other", Object({"id"})),
                          GetUser(":id", <<>>, "Json", Array),
                          GetUser(":id", <<>>, "Json", OneOf)}}

-----------------------------------------------------------------------------

(* Seeds: the application gives one id out in each table, and a load of      *)
(* generated records a second one. On SQLite and Postgres references go      *)
(* either way; on Postgres one table may have a column that JSON carries     *)
(* badly, on MySQL it has.                                                   *)

GeneratorsInit ==
    /\ part \in {"openapi", "import", "macro", "api", "seed", "redis"}
    /\ ImportInit /\ SchemaInit /\ SchemaMacroInit /\ ApiInit /\ SeedInit /\ RedisInit
    /\ part # "api" => main = <<>>
    /\ part # "import" => live = {} /\ blocks = <<>> /\ mod_rs = "none"
    /\ column[1] = "plain"
    /\ backend = "mysql" => child = 2 /\ column[2] = "wide"
    /\ part # "seed" => backend = "sqlite" /\ child = 1

GeneratorsNext ==
    /\ \/ part = "openapi" /\ ImportNext
          /\ UNCHANGED <<schemaToolVars, schema, apiVars, seedVars, redisVars>>
       \/ part = "import" /\ SchemaNext
          /\ UNCHANGED <<importVars, schema, apiVars, seedVars, redisVars>>
       \/ part = "macro" /\ SchemaMacroNext
          /\ UNCHANGED <<importVars, schemaToolVars, apiVars, seedVars, redisVars>>
       \/ part = "api" /\ ApiNext
          /\ UNCHANGED <<importVars, schemaToolVars, schema, seedVars, redisVars>>
       \/ part = "seed" /\ SeedNext
          /\ UNCHANGED <<importVars, schemaToolVars, schema, apiVars, redisVars>>
       \/ part = "redis" /\ RedisNext
          /\ UNCHANGED <<importVars, schemaToolVars, schema, apiVars, seedVars>>
    /\ UNCHANGED part

GeneratorsSpec == GeneratorsInit /\ [][GeneratorsNext]_generatorVars

=============================================================================
