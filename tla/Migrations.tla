------------------------------ MODULE Migrations ------------------------------
(***************************************************************************)
(* The files under src/migrations: `rapina migrate new`, the migrations an *)
(* import creates and `rapina jobs init` each write a file and edit        *)
(* mod.rs, whose `migrations!` macro says what runs, in its order. A name  *)
(* carries the second of its creation.                                     *)
(***************************************************************************)
EXTENDS Naturals, Sequences, SequencesExt

CONSTANTS
    Name,          \* names of migrations
    Jobs,          \* create_rapina_jobs, the framework's own
    JobsLike,      \* names in which that one occurs, it among them
    MaxTime        \* bound on the seconds that pass

VARIABLES
    now,
    files,         \* migration files, each [at, name]
    mod_rs,        \* "none", "macro", or "plain" for one without the macro
    mods,          \* the mod declarations, from the first line on
    registered,    \* the entries of the macro
    mentions,      \* the names in the text of mod.rs
    created        \* history: commands that created a migration, in their order

migrationVars == <<now, files, mod_rs, mods, registered, mentions, created>>

Second ==
    /\ now < MaxTime
    /\ now' = now + 1
    /\ UNCHANGED <<files, mod_rs, mods, registered, mentions, created>>

\* add_to_migrations_macro
AddToMacro(entries, migration) == Append(entries, migration)

\* update_mod_rs: the declaration goes before a file with the macro, and a file
\* without it gets the declaration only, at its end.
UpdateModRs(migration) ==
    /\ mentions' = mentions \cup {migration.name}
    /\ IF mod_rs = "plain"
       THEN /\ mods' = Append(mods, migration)
            /\ UNCHANGED <<mod_rs, registered>>
       ELSE /\ mods' = <<migration>> \o mods
            /\ mod_rs' = "macro"
            /\ registered' = AddToMacro(registered, migration)

\* create_migration_file writes over a file of the same second and name; its
\* callers are another command, which may go on to fail.
CreateMigrationFile(name) ==
    LET migration == [at |-> now, name |-> name]
    IN  /\ files' = files \cup {migration}
        /\ created' = Append(created, migration)
        /\ UpdateModRs(migration)

\* new_migration refuses to.
NewMigration(name) ==
    /\ [at |-> now, name |-> name] \notin files
    /\ CreateMigrationFile(name)
    /\ UNCHANGED now

\* The command ended between the file and mod.rs.
NewMigrationTorn(name) ==
    /\ [at |-> now, name |-> name] \notin files
    /\ files' = files \cup {[at |-> now, name |-> name]}
    /\ UNCHANGED <<now, mod_rs, mods, registered, mentions, created>>

\* jobs init. A file in which the name occurs counts as configured, if only in
\* the name of a migration of the user's; without the macro the `use` is all
\* that is added.
JobsInit ==
    LET jobs == [at |-> 0, name |-> Jobs]
    IN  /\ mentions \cap JobsLike = {}
        /\ mentions' = mentions \cup {Jobs}
        /\ mod_rs' = IF mod_rs = "none" THEN "macro" ELSE mod_rs
        /\ registered' = IF mod_rs = "plain" THEN registered ELSE AddToMacro(registered, jobs)
        /\ created' = Append(created, jobs)
        /\ UNCHANGED <<now, files, mods>>

MigrationsInit ==
    /\ now = 1
    /\ files = {}
    /\ mod_rs \in {"none", "plain"}
    /\ mods = <<>>
    /\ registered = <<>>
    /\ mentions = {}
    /\ created = <<>>

\* Migrations of the user's and of imports run in the order they were created
\* in, none of them twice unless two were created in one second under one name,
\* and each is declared and has its file; the framework's own runs at most once,
\* wherever in the list: not "always before" the others, as commands.md:418 has it.
\* All that was created runs, or nothing if mod.rs was there without the macro.
MigrationsRegistered ==
    LET Own(list) == SelectSeq(list, LAMBDA migration : migration.at # 0)
    IN  /\ Own(registered) = IF mod_rs = "plain" THEN <<>> ELSE Own(created)
        /\ Len(registered) = IF mod_rs = "plain" THEN 0 ELSE Len(created)
        /\ \A i, k \in DOMAIN Own(registered) : i < k => Own(registered)[i].at <= Own(registered)[k].at
        /\ ToSet(Own(registered)) \subseteq ToSet(mods) /\ ToSet(mods) \subseteq files
        /\ \A i, k \in DOMAIN created : i < k /\ created[i].at = 0 => created[k].at # 0

=============================================================================
