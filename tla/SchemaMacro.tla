----------------------------- MODULE SchemaMacro -----------------------------
(***************************************************************************)
(* The schema! macro of rapina-macros: it parses a block of entities,      *)
(* analyses it and generates a SeaORM module for each. What it accepts has *)
(* to compile, and to mean what the block says: the later passes trust the *)
(* checks of the earlier ones.                                             *)
(*                                                                         *)
(* A field name is a sequence of its words, <<"author", "id">> for         *)
(* author_id. An entity: its name; the columns of #[primary_key], <<>>     *)
(* without one; its fields in order; whether it has created_at and         *)
(* updated_at. A field: its name; kind "scalar", "Vec" (Vec<T>) or "one"   *)
(* (T or Option<T>); its type, a scalar or the name T; optional; whether   *)
(* it is marked #[related].                                                *)
(***************************************************************************)
EXTENDS Naturals, Sequences, FiniteSets, SequencesExt

CONSTANTS
    EntityAttr,  \* entities without fields: a name and its attributes
    FieldDef,    \* fields
    SnakeCase,   \* heck's to_snake_case, for the names it changes
    MaxFields    \* bound: fields of the block

ASSUME SchemaMacroAssumption ==
    /\ EntityAttr \subseteq [name : STRING, primary_key : Seq(Seq(STRING)),
                              created : BOOLEAN, updated : BOOLEAN]
    /\ FieldDef \subseteq [name : Seq(STRING) \ {<<>>}, kind : {"scalar", "Vec", "one"},
                            type : STRING \ {"endless"}, optional : BOOLEAN, related : BOOLEAN]
    /\ \A name \in DOMAIN SnakeCase : SnakeCase[name] \in Seq(STRING) \ {<<>>}

VARIABLE schema  \* the block as parsed so far, a sequence of entities

-----------------------------------------------------------------------------
(* parse.rs and analyze.rs *)

Names(s) == {s[i].name : i \in DOMAIN s}

EntityOf(s, name) == s[CHOOSE i \in DOMAIN s : s[i].name = name]

FieldNames(e) == {e.fields[i].name : i \in DOMAIN e.fields}

FieldOf(e, name) == e.fields[CHOOSE i \in DOMAIN e.fields : e.fields[i].name = name]

IsRelation(f) == f.kind # "scalar"

\* EntityDef::parse: id is the macro's unless there is a key, names are unique.
WellFormed(e) ==
    /\ e.primary_key = <<>> => <<"id">> \notin FieldNames(e)
    /\ Cardinality(FieldNames(e)) = Len(e.fields)

\* analyze_entity: what stands in the way of the timestamps and of the key.
KeyExists(e) ==
    /\ e.created => <<"created", "at">> \notin FieldNames(e)
    /\ e.updated => <<"updated", "at">> \notin FieldNames(e)
    /\ \A k \in DOMAIN e.primary_key :
          /\ e.primary_key[k] \in FieldNames(e)
          /\ LET f == FieldOf(e, e.primary_key[k])
             IN  f.kind # "Vec" /\ ~(f.kind = "one" /\ f.optional)

\* analyze_field: a type that is no scalar is an entity of this block.
Known(s, f) == IsRelation(f) => f.type \in Names(s)

Targets(e) == {e.fields[i].type : i \in {k \in DOMAIN e.fields : IsRelation(e.fields[k])}}

\* group_fk_fields_by_target, of one kind.
Members(e, target, kind) ==
    {i \in DOMAIN e.fields : e.fields[i].kind = kind /\ e.fields[i].type = target}

\* pick_related_impl_field: the field that gets Related, or none for an error.
Winner(e, target) ==
    LET one == Members(e, target, "one")
        many == Members(e, target, "Vec")
        marked == {i \in one \cup many : e.fields[i].related}
        unmarked == IF Cardinality(one) = 1 THEN one ELSE {}
    IN  IF Cardinality(one \cup many) = 1 THEN one \cup many
        ELSE IF Cardinality(many) > 1 \/ Cardinality(marked) > 1 THEN {}
        ELSE IF marked = {} THEN unmarked ELSE marked

\* validate_related_attr_placement, then a winner for each target.
RelatedPicked(e) ==
    /\ \A i \in DOMAIN e.fields : e.fields[i].related => IsRelation(e.fields[i])
    /\ \A t \in Targets(e) : Winner(e, t) # {}

\* The entities the single key column of e belongs to: one or none.
KeyTarget(e) ==
    IF Len(e.primary_key) # 1 \/ e.primary_key[1] \notin FieldNames(e) THEN {}
    ELSE LET f == FieldOf(e, e.primary_key[1]) IN IF f.kind = "one" THEN {f.type} ELSE {}

\* Mutant: only an entity that is its own key is found.
KeyCycleDirect(s, e) == e.name \in KeyTarget(e)

\* primary_key_relationship_has_cycle, from an entity whose key is a relation.
KeyCycle(s, e) ==
    LET visit[name \in Names(s)] == [visiting \in SUBSET Names(s) |->
            \/ name \in visiting
            \/ \E t \in KeyTarget(EntityOf(s, name)) : visit[t][visiting \cup {name}]]
    IN  \E t \in KeyTarget(e) : visit[t][{e.name}]

\* validate_relationship_primary_keys
KeysResolve(s) ==
    /\ \A i \in DOMAIN s : ~KeyCycle(s, s[i])
    /\ \A i \in DOMAIN s : \A k \in DOMAIN s[i].fields :
          s[i].fields[k].kind = "one" => Len(EntityOf(s, s[i].fields[k].type).primary_key) <= 1

\* parse_schema and analyze_schema go through.
Accepted(s) ==
    /\ s # <<>> /\ Cardinality(Names(s)) = Len(s)
    /\ \A i \in DOMAIN s :
          /\ WellFormed(s[i])
          /\ \A k \in DOMAIN s[i].fields : Known(s, s[i].fields[k])
          /\ RelatedPicked(s[i])
          /\ KeyExists(s[i])
    /\ KeysResolve(s)

-----------------------------------------------------------------------------
(* generate.rs *)

\* resolve_target_pk_type, a recursion that no more entities than there are
\* can end; "endless" where they do not.
TargetKeyType(s, target) ==
    LET type[left \in 0 .. Len(s)] == [name \in Names(s) |->
            LET e == EntityOf(s, name)
                f == FieldOf(e, e.primary_key[1])
            IN  IF Len(e.primary_key) # 1 \/ f.kind = "Vec" THEN "i32"
                ELSE IF f.kind = "scalar" THEN f.type
                ELSE IF left = 0 THEN "endless" ELSE type[left - 1][f.type]]
    IN  type[Len(s)][target]

\* resolve_target_pk_column
TargetKeyColumn(s, target) ==
    LET key == EntityOf(s, target).primary_key IN IF Len(key) = 1 THEN key[1] ELSE <<"id">>

InKey(e, f) == \E k \in DOMAIN e.primary_key : e.primary_key[k] = f.name

Snake(name) == IF name \in DOMAIN SnakeCase THEN SnakeCase[name] ELSE name

\* The foreign key of a belongs_to, under its own name where it is a key.
KeyName(e, f) == IF InKey(e, f) THEN f.name ELSE Snake(f.name) \o <<"id">>

\* Where field i is written: once for each entry of the key that names it,
\* or, 0, among the fields that are in no key.
WrittenAt(e, i) ==
    IF InKey(e, e.fields[i])
    THEN {k \in DOMAIN e.primary_key : e.primary_key[k] = e.fields[i].name}
    ELSE {0}

ModelField(s, e, i, at) ==
    LET f == e.fields[i]
    IN  [of |-> i, at |-> at, key |-> at # 0, nullable |-> f.optional /\ at = 0,
         name |-> IF f.kind = "scalar" THEN f.name ELSE KeyName(e, f),
         type |-> IF f.kind = "scalar" THEN f.type ELSE TargetKeyType(s, f.type)]

\* generate_custom_pk_fields and generate_model_fields
WrittenFields(s, e) ==
    UNION {{ModelField(s, e, i, at) : at \in WrittenAt(e, i)} :
              i \in {k \in DOMAIN e.fields : e.fields[k].kind # "Vec"}}

\* What the macro adds.
AddedNames(e) ==
    (IF e.primary_key = <<>> THEN {<<"id">>} ELSE {})
    \cup (IF e.created THEN {<<"created", "at">>} ELSE {})
    \cup (IF e.updated THEN {<<"updated", "at">>} ELSE {})

AddedField(name) ==
    [of |-> 0, at |-> 0, key |-> name = <<"id">>, nullable |-> FALSE, name |-> name,
     type |-> IF name = <<"id">> THEN "i32" ELSE "DateTimeUtc"]

\* The fields of the Model, `of` the field they come from.
ModelFields(s, e) == WrittenFields(s, e) \cup {AddedField(name) : name \in AddedNames(e)}

\* What SeaORM makes of the has_many field i of e, R::to().rev(): it follows
\* the Related of the target for e, which may be a has_many again, and so on.
BackEdge(s, e, i) ==
    LET there == EntityOf(s, e.fields[i].type)
        back == Winner(there, e.name)
        again == Winner(e, there.name)
        one(entity, fields) == \E k \in fields : entity.fields[k].kind = "one"
    IN  IF back = {} THEN "missing"
        ELSE IF one(there, back) \/ one(e, again) THEN "found" ELSE "endless"

-----------------------------------------------------------------------------
(* Schema::parse and EntityDef::parse read the block from left to right; it *)
(* may end after each entity and field.                                     *)

SchemaMacroInit == schema = <<>>

FieldsRead == FoldLeft(LAMBDA n, e : n + Len(e.fields), 0, schema)

ParseEntity(attrs) ==
    schema' = Append(schema, [name |-> attrs.name, primary_key |-> attrs.primary_key,
                              fields |-> <<>>, created |-> attrs.created, updated |-> attrs.updated])

ParseField(f) ==
    /\ schema # <<>>
    /\ FieldsRead < MaxFields
    /\ schema' = [schema EXCEPT ![Len(schema)].fields = Append(@, f)]

\* Bound: a block with a name used twice, which nothing can mend, ends there.
SchemaMacroNext ==
    /\ \A i \in DOMAIN schema : WellFormed(schema[i])
    /\ \/ \E attrs \in EntityAttr : attrs.name \notin Names(schema) /\ ParseEntity(attrs)
       \/ \E f \in FieldDef : ParseField(f)

SchemaMacroSpec == SchemaMacroInit /\ [][SchemaMacroNext]_schema

-----------------------------------------------------------------------------

\* A foreign key column exists for each belongs_to, has the type of the key
\* column of its target, which exists, and is nullable where the relation is.
ForeignKeysFit(s) ==
    \A i \in DOMAIN s : \A k \in DOMAIN s[i].fields :
        LET f == s[i].fields[k]
        IN  f.kind = "one" =>
            \E c \in ModelFields(s, s[i]), d \in ModelFields(s, EntityOf(s, f.type)) :
                /\ c.of = k /\ c.nullable = f.optional
                /\ d.key /\ d.name = TargetKeyColumn(s, f.type)
                /\ c.type = d.type /\ c.type # "endless"

\* Field l of e gets the name of the foreign key of field k: it is called so,
\* or it is a relation whose own foreign key is.
Shadows(e, k, l) ==
    LET f == e.fields[k]
        g == e.fields[l]
    IN  /\ f.kind = "one" /\ ~InKey(e, f)
        /\ \/ g.name = Snake(f.name) \o <<"id">> /\ (g.kind = "scalar" \/ InKey(e, g))
           \/ g.kind = "one" /\ ~InKey(e, g) /\ Snake(g.name) = Snake(f.name)

\* A Model with two fields of one name does not compile. No pass refuses a
\* column that the key lists twice, nor a field that gets the name of the
\* foreign key of another; those are the only ways there.
ColumnsDiffer(s) ==
    \A i \in DOMAIN s :
        LET e == s[i]
            repeated == \E k, l \in DOMAIN e.primary_key :
                            k # l /\ e.primary_key[k] = e.primary_key[l]
            shadowed == \E k, l \in DOMAIN e.fields : k # l /\ Shadows(e, k, l)
        IN  (\E c, d \in ModelFields(s, e) : c # d /\ c.name = d.name)
            <=> repeated \/ shadowed

\* A has_many whose target belongs to e leads back to that relation, unless
\* #[related] gave Related to a has_many in its place. Two entities that only
\* have many of each other are accepted, and lead nowhere.
BackEdgesFound(s) ==
    \A i \in DOMAIN s : \A k \in DOMAIN s[i].fields :
        LET f == s[i].fields[k]
            there == EntityOf(s, f.type)
            back == Members(there, s[i].name, "one")
            marked == \E n \in Members(there, s[i].name, "Vec") : there.fields[n].related
        IN  f.kind = "Vec" =>
            /\ back # {} /\ ~marked => BackEdge(s, s[i], k) = "found"
            /\ back = {} /\ Members(s[i], f.type, "one") = {} => BackEdge(s, s[i], k) # "found"

\* A block the macro accepts has a meaning: keys resolve to a type, foreign
\* keys fit them, fields differ and each has_many finds its way back, with
\* the exceptions named above.
SchemasSound ==
    Accepted(schema) =>
        ForeignKeysFit(schema) /\ ColumnsDiffer(schema) /\ BackEdgesFound(schema)

=============================================================================
