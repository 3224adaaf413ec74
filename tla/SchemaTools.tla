----------------------------- MODULE SchemaTools -----------------------------
(***************************************************************************)
(* `rapina import database` and `--diff`: the tables of a database become  *)
(* schema! blocks in src/entity.rs, migrations and feature modules, table  *)
(* by table until one fails; the diff reads the blocks back, rebuilds the  *)
(* tables they imply and compares them with the database.                  *)
(*                                                                         *)
(* A column name is a sequence of its words, <<"author", "id">> for        *)
(* author_id. An entity has the name of the table it stands for: deriving  *)
(* one from the other (singularize, to_pascal_case) only matters where the *)
(* way back gives another table or one name ends with another.             *)
(***************************************************************************)
EXTENDS Migrations, FiniteSetsExt

CONSTANTS
    Database,    \* databases, see below
    Irregular,   \* tables whose name is not that of their entity plus "s"
    EndsWith,    \* pairs of entities of which the first's name ends with the second's
    Reserved,    \* column names FieldInfo::new refuses
    Handwritten, \* contents src/entity.rs may have before the first import
    MaxCommands  \* bound on the commands

(* A database is a set of tables. A table: its name; columns (name, type,  *)
(* nullable); the names of its primary key; foreign keys (names of columns,*)
(* table). Types are those of NormalizedType, or "Unmappable" for one that *)
(* schema! has no equivalent of.                                           *)

VARIABLES
    live,        \* the database
    blocks,      \* the schema! blocks of src/entity.rs, each a sequence of entities
    made,        \* the columns the migration of each import so far creates
    modules,     \* feature modules under src
    wired,       \* those src/main.rs declares
    batch,       \* tables the last import goes through, in its order
    position,    \* how many of them it has generated
    force,       \* its flag
    commands,    \* commands run so far
    stage        \* "idle", "import", "done", "failed"

schemaVars == <<live, blocks, made, modules, wired, batch, position, force, commands, stage>>

Id == <<"id">>
CreatedAt == <<"created", "at">>
UpdatedAt == <<"updated", "at">>

HasColumn(t, name) == \E c \in t.columns : c.name = name

ColumnOf(t, name) == CHOOSE c \in t.columns : c.name = name

-----------------------------------------------------------------------------
(* From the database to the entity *)

\* filter_and_validate_tables: one key column, named id, of a type schema! knows.
Importable(t) ==
    /\ t.primary_key = {Id}
    /\ ColumnOf(t, Id).type \in {"I32", "Uuid"}

DefaultKey(t) == ColumnOf(t, Id).type = "I32"

\* resolve_relationships: foreign keys of one column to a table of the same
\* import.
Resolved(t) ==
    {fk \in t.foreign_keys :
        /\ \E u \in ToSet(batch) : u.name = fk.table
        /\ \E name \in fk.columns : fk.columns = {name} /\ HasColumn(t, name)}

KeyColumn(fk) == CHOOSE name \in fk.columns : TRUE

StripId(name) == IF Len(name) > 1 /\ Last(name) = "id" THEN Front(name) ELSE name

BelongsTo(t) ==
    {[field |-> StripId(KeyColumn(fk)), to |-> fk.table,
      nullable |-> ColumnOf(t, KeyColumn(fk)).nullable] : fk \in Resolved(t)}

\* The other side, once per table however many of its keys lead here; a
\* has_many, a field called like the table, stands for no column.
HasMany(t) == {u.name : u \in {v \in ToSet(batch) : \E fk \in Resolved(v) : fk.table = t.name}}

\* generate_for_table: timestamps and the default key are left to the macro,
\* and a column without an equivalent is left out with a warning.
Kept(t) ==
    {c \in t.columns : /\ c.type # "Unmappable"
                       /\ c.name \notin {CreatedAt, UpdatedAt}
                       /\ c.name # Id \/ ~DefaultKey(t)}

\* Mutant: the two attributes are mixed up.
DetectTimestampsSwapped(t) ==
    [created |-> HasColumn(t, UpdatedAt), updated |-> HasColumn(t, CreatedAt)]

DetectTimestamps(t) ==
    [created |-> HasColumn(t, CreatedAt), updated |-> HasColumn(t, UpdatedAt)]

\* generate_schema_block: a foreign key is there as its relation.
Entity(t) ==
    [name |-> t.name,
     fields |-> {c \in Kept(t) : \A fk \in Resolved(t) : c.name # KeyColumn(fk)},
     belongs_to |-> BelongsTo(t),
     has_many |-> HasMany(t),
     timestamps |-> DetectTimestamps(t),
     default_key |-> DefaultKey(t)]

ImplicitKey == [name |-> Id, type |-> "I32", nullable |-> FALSE]

\* generate_migration: the plain columns, and no timestamps for an import.
Migrated(t) == Kept(t) \cup IF DefaultKey(t) THEN {ImplicitKey} ELSE {}

-----------------------------------------------------------------------------
(* From the entity back to a table, and the comparison *)

\* parse_schema_content: the entities of all blocks, in their order.
ParsedSchema(file) == FlattenSeq(file)

Written == ParsedSchema(blocks)

IsWritten(name) == \E i \in DOMAIN Written : Written[i].name = name

\* The first entity of that name.
EntityNamed(name) == Written[Min({i \in DOMAIN Written : Written[i].name = name})]

\* entity_pk_type: a key that is not among the plain fields counts as an I32.
EntityPkType(e) ==
    LET key == {c \in e.fields : c.name = Id}
    IN  IF e.default_key \/ key = {} THEN "I32" ELSE (CHOOSE c \in key : TRUE).type

Timestamp(name) == [name |-> name, type |-> "DateTimeUtc", nullable |-> FALSE]

\* reconstruct_table
Reconstructed(e) ==
    e.fields
    \cup {[name |-> Append(b.field, "id"), nullable |-> b.nullable,
           type |-> EntityPkType(EntityNamed(b.to))] :
             b \in {r \in e.belongs_to : IsWritten(r.to)}}
    \cup (IF e.default_key THEN {ImplicitKey} ELSE {})
    \cup (IF e.timestamps.created THEN {Timestamp(CreatedAt)} ELSE {})
    \cup (IF e.timestamps.updated THEN {Timestamp(UpdatedAt)} ELSE {})

\* A relation to an entity that is not in the file is skipped, under the name
\* of its field.
Unresolved(e) == {b.field : b \in {r \in e.belongs_to : ~IsWritten(r.to)}}

\* compare_type; String against Text is a note.
SameType(a, b) == a = b \/ {a, b} = {"String", "Text"}

\* compare_columns of the macro's table with one of the database: the names of
\* the columns that are missing, extra, or of another type or nullability.
Drift(e, columns) ==
    LET rebuilt == Reconstructed(e)
        expected == {c \in rebuilt : c.name \notin Unresolved(e)}
        found == {c \in columns : c.name \notin Unresolved(e)}
        matched == {p \in expected \X found : p[1].name = p[2].name}
        names(S) == {c.name : c \in S}
    IN  (names(expected) \ names(columns)) \cup (names(found) \ names(rebuilt))
        \cup {p[1].name : p \in {q \in matched : \/ ~SameType(q[1].type, q[2].type)
                                                 \/ q[1].nullable # q[2].nullable}}

\* compute_diff, for the entity of table t: table_name appends an "s".
InSync(t) == t.name \notin Irregular /\ Drift(EntityNamed(t.name), t.columns) = {}

-----------------------------------------------------------------------------
(* The commands *)

\* remove_schema_block drops each block with the text "Name {" in it.
RemoveSchemaBlock(name) ==
    SelectSeq(blocks, LAMBDA b :
        \A i \in DOMAIN b : b[i].name # name /\ <<b[i].name, name>> \notin EndsWith)

\* database(): the tables that pass, in the order the database lists them.
StartImport(order, f) ==
    /\ stage # "import" /\ commands < MaxCommands
    /\ order # <<>>
    /\ \A i \in DOMAIN order : Importable(order[i])
    /\ batch' = order
    /\ position' = 0
    /\ force' = f
    /\ commands' = commands + 1
    /\ stage' = "import"
    /\ UNCHANGED <<live, blocks, made, modules, wired>>
    /\ UNCHANGED migrationVars

\* FieldInfo::new validates the name of every column it keeps.
Refused(t) == \E c \in Kept(t) : c.name \in Reserved

\* update_entity_file
UpdateEntityFile(t) ==
    blocks' = Append(IF force THEN RemoveSchemaBlock(t.name) ELSE blocks, <<Entity(t)>>)

\* wire_main_rs, after the last table.
WireMain(tables) == wired' = wired \cup {t.name : t \in tables}

\* create_feature_module, which refuses to overwrite a module, and the end of
\* the loop of database().
CreateFeatureModule(t) ==
    IF t.name \in modules /\ ~force
    THEN /\ stage' = "failed"
         /\ UNCHANGED <<modules, wired, position>>
    ELSE /\ modules' = modules \cup {t.name}
         /\ position' = position + 1
         /\ IF position' = Len(batch)
            THEN stage' = "done" /\ WireMain(ToSet(batch))
            ELSE UNCHANGED <<stage, wired>>

\* generate_for_table: a column name is refused before anything is written, a
\* module that is there already after the entity and the migration were.
GenerateForTable ==
    /\ stage = "import"
    /\ LET t == batch[position + 1]
       IN  IF Refused(t)
           THEN /\ stage' = "failed"
                /\ UNCHANGED <<blocks, made, modules, wired, position>>
                /\ UNCHANGED migrationVars
           ELSE /\ UpdateEntityFile(t)
                /\ made' = [made EXCEPT ![t.name] = Migrated(t)]
                /\ CreateMigrationFile(t.name) /\ UNCHANGED now
                /\ CreateFeatureModule(t)
    /\ UNCHANGED <<live, batch, force, commands>>

SchemaInit ==
    /\ MigrationsInit
    /\ live \in Database
    /\ blocks \in Handwritten
    /\ made = [name \in {t.name : t \in UNION Database} |-> {}]
    /\ modules = {} /\ wired = {}
    /\ batch = <<>> /\ position = 0 /\ force = FALSE
    /\ commands = 0 /\ stage = "idle"

\* migrate new and jobs init.
OtherCommands ==
    /\ stage # "import" /\ commands < MaxCommands
    /\ commands' = commands + 1
    /\ JobsInit \/ \E name \in Name : NewMigration(name) \/ NewMigrationTorn(name)
    /\ UNCHANGED <<live, blocks, made, modules, wired, batch, position, force, stage>>

SchemaNext ==
    \/ \E tables \in SUBSET live, f \in BOOLEAN :
          \E order \in SetToSeqs(tables) : StartImport(order, f)
    \/ GenerateForTable
    \/ OtherCommands
    \/ Second /\ UNCHANGED schemaVars

SchemaSpec == SchemaInit /\ [][SchemaNext]_<<schemaVars, migrationVars>>

-----------------------------------------------------------------------------

Copies(name) == Cardinality({i \in DOMAIN Written : Written[i].name = name})

\* The entity of table i of the batch is not one that a later table removes: the
\* block with the text "Tag {" in it is that of a BlogTag too.
StaysInFile(i) == \A k \in i + 1 .. Len(batch) : <<batch[i].name, batch[k].name>> \notin EndsWith

\* A forced import that went through leaves one entity for each of its tables
\* that no later one removes, where by commands.md:197 none would.
EntitiesKept ==
    stage = "done" /\ force =>
        \A i \in DOMAIN batch : StaysInFile(i) => Copies(batch[i].name) = 1

\* What an entity and the columns behind it cannot differ in: each column has
\* an equivalent, timestamps are what the macro makes them, and a foreign key
\* ends in _id and has the type of the key it refers to.
RoundTrips(t) ==
    /\ t.name \notin Irregular
    /\ \A c \in t.columns :
          /\ c.type # "Unmappable"
          /\ c.name \in {CreatedAt, UpdatedAt} => c = Timestamp(c.name)
          /\ c.name = Id => ~c.nullable
    /\ \A fk \in Resolved(t) :
          /\ Last(KeyColumn(fk)) = "id" /\ Len(KeyColumn(fk)) > 1
          /\ ColumnOf(t, KeyColumn(fk)).type =
                ColumnOf(CHOOSE u \in ToSet(batch) : u.name = fk.table, Id).type

\* All an entity refers to is in the file.
Closed(t) == \A fk \in Resolved(t) : IsWritten(fk.table)

\* After an import of a new project the diff is empty for exactly the tables
\* that go the way there and back, as long as what they refer to is there.
DriftExplained ==
    stage = "done" /\ (force \/ \A t \in ToSet(batch) : Copies(t.name) = 1) =>
        \A t \in ToSet(batch) : IsWritten(t.name) /\ Closed(t) =>
            (InSync(t) <=> RoundTrips(t))

\* And the migration makes the table of the entity, but for its timestamps, which
\* it lacks: commands.md:100 and codegen.rs:535 have it otherwise.
MigrationsMakeTables ==
    stage = "done" /\ (force \/ \A t \in ToSet(batch) : Copies(t.name) = 1) =>
        \A t \in ToSet(batch) : IsWritten(t.name) /\ Closed(t) /\ RoundTrips(t) =>
            Drift(EntityNamed(t.name), made[t.name]) \subseteq {CreatedAt, UpdatedAt}

\* Importing, comparing and migrating agree on the schema: no entity is doubled,
\* and none lost whose name is not the end of an earlier one's; a diff after an
\* import shows what could not be expressed and nothing else; and migrations run
\* in the order of their creation.
ImportKeepsSchema ==
    /\ EntitiesKept
    /\ DriftExplained
    /\ MigrationsMakeTables
    /\ MigrationsRegistered

=============================================================================
