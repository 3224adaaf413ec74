--------------------------- MODULE ImportedSchema ---------------------------
(***************************************************************************)
(* What `rapina import database` writes to src/entity.rs is what the       *)
(* schema! macro reads: each block of the file is one call of the macro,   *)
(* with a registry of entities of its own.                                 *)
(***************************************************************************)
EXTENDS SchemaTools, SchemaMacro

\* The fields of a generated entity, in the macro's terms; their order does
\* not matter to what is accepted.
MacroFields(e) ==
    SetToSeq(
        {[name |-> f.name, kind |-> "scalar", type |-> f.type, optional |-> f.nullable,
          related |-> FALSE] : f \in e.fields}
        \cup {[name |-> b.field, kind |-> "one", type |-> b.to, optional |-> b.nullable,
               related |-> FALSE] : b \in e.belongs_to}
        \cup {[name |-> <<owner>>, kind |-> "Vec", type |-> owner, optional |-> FALSE,
               related |-> FALSE] : owner \in e.has_many})

MacroEntity(e) ==
    [name |-> e.name,
     primary_key |-> IF e.default_key THEN <<>> ELSE <<Id>>,
     fields |-> MacroFields(e),
     created |-> e.timestamps.created,
     updated |-> e.timestamps.updated]

\* schema! expands block by block.
Compiles(block) == Accepted([i \in DOMAIN block |-> MacroEntity(block[i])])

\* CHANGELOG.md:33 says that the import turns foreign keys into BelongsTo and
\* HasMany fields of the generated schema! blocks: blocks the macro accepts.
ImportedBlocksCompile ==
    stage = "done" => \A i \in DOMAIN blocks : Compiles(blocks[i])

=============================================================================
