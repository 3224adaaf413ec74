-------------------------------- MODULE Seeds --------------------------------
(***************************************************************************)
(* `rapina seed load`, `dump` and `generate`, on a database of two tables, *)
(* the rows of one of which refer to rows of the other, beside an          *)
(* application that goes on writing. Tables are numbered in the            *)
(* alphabetical order of their names, which is the order of the files; the *)
(* records of a file come in any order. One seed command runs at a time.   *)
(***************************************************************************)
EXTENDS Integers, FiniteSetsExt

CONSTANTS
    Backend,   \* of "sqlite", "postgres" and "mysql"
    MaxParent, \* bounds on the ids the database gives out
    MaxChild,
    NoBackup,  \* the seed files are not one dump
    NoLoad     \* no load is under way

Table == {1, 2}

NoId == 0        \* the id of a record that leaves it to the database

VARIABLES
    backend,
    child,     \* the table whose rows refer to the other one's
    column,    \* of each table, the column JSON carries worst
    db,        \* the rows of each table, as committed
    next_id,   \* the id each table gives out next, as its sequence has it
    listed,    \* the tables that have a seed file
    file,      \* the records of each table's seed file: an id, what it refers to
               \* and, as in a row, whether the rest is what was written once
    alien,     \* there is a file load cannot use: of no table, or no records
    load,      \* the transaction of a load
    dumping,   \* the tables a running dump has still to write
    at_start,  \* history: the database when the dump of all tables that goes on
               \* began, if nobody has written since
    backup,    \* history: the database the seed files are a dump of
    excused,   \* history: a load committed, unchecked, what need not fit
    last       \* history: the last command and how it ended

seedVars == <<backend, child, column, db, next_id, listed, file, alien, load, dumping,
              at_start, backup, excused, last>>

parent == 3 - child

MaxId(t) == IF t = child THEN MaxChild ELSE MaxParent

Ids(rows) == {r.id : r \in rows}

Refers(d) == \A r \in d[child] : r.ref \in Ids(d[parent])

\* PRAGMA foreign_keys does nothing inside a transaction, so disable_fk_checks
\* leaves SQLite checking each statement; the others check nothing until the end.
Checked == backend = "sqlite"

\* Columns that do not come back as they were: a number above i64::MAX, of an
\* unsigned column of MySQL, goes in as f64; what is text in JSON (a UUID, a
\* time, a null) goes in as text, which Postgres refuses for another type.
Columns(b) ==
    {"plain"} \cup (IF b = "mysql" THEN {"wide"} ELSE {})
              \cup (IF b = "postgres" THEN {"text"} ELSE {})

json_to_sea_value(t, r) == IF column[t] = "wide" THEN [r EXCEPT !.exact = FALSE] ELSE r

-----------------------------------------------------------------------------
(* The transaction of a load, of which others see nothing: the rows it has *)
(* deleted, and those it has added.                                        *)

Gone(t) == IF load = NoLoad THEN {} ELSE load.gone[t]

Added(t) == IF load = NoLoad THEN {} ELSE load.added[t]

Left(t) == IF load = NoLoad THEN {} ELSE load.left[t]

View(t) == (db[t] \ Gone(t)) \cup Added(t)

\* A statement of the application that meets one of these rows waits for the
\* load to end. InnoDB's gap locks make more of them wait than these.
Locked(t) == Ids(Gone(t) \cup Added(t))

\* On SQLite they all wait, from the first statement of the load; what they do
\* between BEGIN and that statement they might have done before.
Writable == load = NoLoad \/ ~Checked

\* The id the database gives a row: Postgres asks its sequence, which knows
\* nothing of rows that brought their id; the others stay above every row.
Given(t) ==
    IF backend = "postgres" THEN next_id[t]
    ELSE Max({next_id[t]} \cup {i + 1 : i \in Ids(db[t]) \cup Locked(t)})

-----------------------------------------------------------------------------
(* The application *)

Record(op, ok) == last' = [op |-> op, ok |-> ok]

\* It wrote while a load may be under way; `crossing` what rows refer to.
Wrote(crossing) ==
    /\ at_start' = NoBackup
    /\ load' = IF load = NoLoad THEN NoLoad
               ELSE [load EXCEPT !.alone = FALSE, !.crossed = @ \/ crossing]

InsertRow(t, ref) ==
    LET id == Given(t)
    IN  /\ Writable /\ id \notin Locked(t)
        /\ id <= MaxId(t)
        /\ ref \in IF t = child THEN Ids(db[parent]) \ Locked(parent) ELSE {0}
        /\ next_id' = [next_id EXCEPT ![t] = id + 1]
        /\ IF id \in Ids(db[t]) THEN UNCHANGED db
           ELSE db' = [db EXCEPT ![t] = @ \cup {[id |-> id, ref |-> ref, exact |-> TRUE]}]
        /\ Record("insert", id \notin Ids(db[t]))
        /\ Wrote(t = child)
        /\ UNCHANGED <<backend, child, column, listed, file, alien, dumping, backup, excused>>

\* Postgres looks for references among committed rows; the others meet, and
\* wait for, the rows the load has added.
DeleteRow(t, r) ==
    /\ Writable /\ r.id \notin Locked(t)
    /\ t = parent =>
          /\ \A c \in db[child] : c.ref # r.id
          /\ backend # "postgres" => \A c \in Added(child) : c.ref # r.id
    /\ db' = [db EXCEPT ![t] = @ \ {r}]
    /\ Record("delete", TRUE)
    /\ Wrote(t = parent)
    /\ UNCHANGED <<backend, child, column, next_id, listed, file, alien, dumping, backup, excused>>

-----------------------------------------------------------------------------
(* load: one transaction around everything, a statement for each table to   *)
(* empty and each record, between which the application goes on.            *)

\* discover_seed_files finds one at least; begin, disable_fk_checks.
LoadBegins(tables, fresh) ==
    LET found == listed \cap tables
    IN  /\ load = NoLoad /\ dumping = {}
        /\ found # {} \/ (alien /\ tables = Table)
        /\ load' = [tables |-> tables, fresh |-> fresh,
                    empty |-> IF fresh THEN found ELSE {},
                    left |-> [t \in Table |-> IF t \in found THEN file[t] ELSE {}],
                    gone |-> [t \in Table |-> {}], added |-> [t \in Table |-> {}],
                    alone |-> TRUE, crossed |-> FALSE]
        /\ UNCHANGED <<backend, child, column, db, next_id, listed, file, alien, dumping,
                       at_start, backup, excused, last>>

\* truncate_tables: from the last table to the first.
ToEmpty(t) == load # NoLoad /\ t \in load.empty /\ \A u \in load.empty : u <= t

DeleteRefused(t) == Checked /\ t = parent /\ \E c \in View(child) : c.ref \in Ids(View(t))

LoadEmpties(t) ==
    /\ ToEmpty(t) /\ ~DeleteRefused(t)
    /\ load' = [load EXCEPT !.empty = @ \ {t}, !.gone[t] = db[t]]
    /\ UNCHANGED <<backend, child, column, db, next_id, listed, file, alien, dumping,
                   at_start, backup, excused, last>>

\* load's loop, insert_records: ON CONFLICT DO NOTHING, INSERT IGNORE.
ToInsert(t, record) ==
    /\ load # NoLoad /\ load.empty = {}
    /\ record \in load.left[t]
    /\ \A u \in Table : u < t => load.left[u] = {}

IdOf(t, record) == IF record.id = NoId THEN Given(t) ELSE record.id

InsertRefused(t, record) ==
    \/ column[t] = "text"
    \/ /\ Checked /\ t = child /\ record.ref \notin Ids(View(parent))
       /\ IdOf(t, record) \notin Ids(View(t))

\* Sequences are not part of the transaction.
LoadInserts(t, record) ==
    LET id == IdOf(t, record)
        row == [json_to_sea_value(t, record) EXCEPT !.id = id]
    IN  /\ ToInsert(t, record) /\ ~InsertRefused(t, record)
        /\ record.id = NoId => id <= MaxId(t) + 1
        /\ load' = [load EXCEPT !.left[t] = @ \ {record},
                                !.added[t] = IF id \in Ids(View(t)) THEN @ ELSE @ \cup {row}]
        /\ next_id' = IF record.id = NoId THEN [next_id EXCEPT ![t] = id + 1] ELSE next_id
        /\ UNCHANGED <<backend, child, column, db, listed, file, alien, dumping,
                       at_start, backup, excused, last>>

\* What the load under way is called when it has ended.
Command ==
    IF load.tables # Table \/ ~load.alone THEN "other"
    ELSE IF load.fresh THEN "restore" ELSE "load"

Unusable == alien /\ load.tables = Table

\* enable_fk_checks, commit.
LoadCommits ==
    /\ load # NoLoad /\ load.empty = {} /\ \A t \in Table : load.left[t] = {}
    /\ ~Unusable
    /\ db' = [t \in Table |-> View(t)]
    /\ excused' = (excused \/ (~Checked /\ (load.crossed \/ load.tables # Table
                                            \/ backup = NoBackup)))
    /\ load' = NoLoad
    /\ Record(Command, TRUE)
    /\ UNCHANGED <<backend, child, column, next_id, listed, file, alien, dumping, at_start, backup>>

\* Mutant: every statement commits by itself.
StatementsCommitted == [t \in Table |-> View(t)]

\* A transaction that is dropped is rolled back.
RolledBack == db

\* The database refuses a statement, or a file is of no use.
LoadRefused ==
    /\ \/ \E t \in Table : ToEmpty(t) /\ DeleteRefused(t)
       \/ \E t \in Table : \E record \in Left(t) : ToInsert(t, record) /\ InsertRefused(t, record)
       \/ load # NoLoad /\ Unusable
    /\ db' = RolledBack
    /\ load' = NoLoad
    /\ Record(Command, FALSE)
    /\ UNCHANGED <<backend, child, column, next_id, listed, file, alien, dumping,
                   at_start, backup, excused>>

\* A statement fails for another reason, the first or the last one too, which
\* only a superuser of Postgres may execute; or commit fails, or the process ends.
LoadInterrupted ==
    /\ load # NoLoad
    /\ db' = RolledBack
    /\ load' = NoLoad
    /\ Record("interrupted", FALSE)
    /\ UNCHANGED <<backend, child, column, next_id, listed, file, alien, dumping,
                   at_start, backup, excused>>

-----------------------------------------------------------------------------
(* dump: a query and a file for each table, in no transaction. *)

StartDump(tables) ==
    /\ dumping = {} /\ load = NoLoad
    /\ dumping' = tables
    /\ at_start' = IF tables = Table THEN db ELSE NoBackup
    /\ Record("dump", TRUE)
    /\ UNCHANGED <<backend, child, column, db, next_id, listed, file, alien, load, backup, excused>>

\* discover_tables orders by name; fetch_all_records, then the file is written.
\* Files of no table stay where they are.
DumpTable(t) ==
    /\ t \in dumping /\ \A u \in dumping : t <= u
    /\ dumping' = dumping \ {t}
    /\ listed' = listed \cup {t}
    /\ file' = [file EXCEPT ![t] = db[t]]
    /\ backup' = IF dumping = {t} THEN at_start ELSE NoBackup
    /\ at_start' = IF dumping = {t} THEN NoBackup ELSE at_start
    /\ Record("dump", TRUE)
    /\ UNCHANGED <<backend, child, column, db, next_id, alien, load, excused>>

\* A query or a write fails: what was written stays.
DumpFails ==
    /\ dumping # {}
    /\ dumping' = {}
    /\ at_start' = NoBackup
    /\ Record("dump", FALSE)
    /\ UNCHANGED <<backend, child, column, db, next_id, listed, file, alien, load, backup, excused>>

\* generate: records without an id. The file has the name of the entity in the
\* plural of `pluralize`, the table the one schema! gives it; and a reference
\* is generated as a field of the relation's name, not of its column. So the
\* file is of use only for an entity without references whose names agree.
Generate(t, fits) ==
    /\ dumping = {} /\ load = NoLoad
    /\ IF fits /\ t = parent
       THEN /\ listed' = listed \cup {t}
            /\ file' = [file EXCEPT ![t] = {[id |-> NoId, ref |-> 0, exact |-> TRUE]}]
            /\ UNCHANGED alien
       ELSE alien' = TRUE /\ UNCHANGED <<listed, file>>
    /\ backup' = NoBackup
    /\ Record("generate", TRUE)
    /\ UNCHANGED <<backend, child, column, db, next_id, load, dumping, at_start, excused>>

\* Someone removes the seed files that are of no use.
RemoveAlien ==
    /\ dumping = {} /\ load = NoLoad
    /\ alien /\ alien' = FALSE
    /\ Record("remove", TRUE)
    /\ UNCHANGED <<backend, child, column, db, next_id, listed, file, load, dumping,
                   at_start, backup, excused>>

SeedInit ==
    /\ backend \in Backend
    /\ child \in Table
    /\ column \in [Table -> Columns(backend)]
    /\ db = [t \in Table |-> {}]
    /\ next_id = [t \in Table |-> 1]
    /\ listed = {}
    /\ file = [t \in Table |-> {}]
    /\ alien = FALSE
    /\ load = NoLoad
    /\ dumping = {} /\ at_start = NoBackup
    /\ backup = NoBackup
    /\ excused = FALSE
    /\ last = [op |-> "generate", ok |-> TRUE]

SeedNext ==
    \/ \E t \in Table : \/ \E ref \in 0 .. MaxParent + 1 : InsertRow(t, ref)
                        \/ \E r \in db[t] : DeleteRow(t, r)
                        \/ LoadEmpties(t)
                        \/ \E record \in Left(t) : LoadInserts(t, record)
                        \/ DumpTable(t)
                        \/ \E fits \in BOOLEAN : Generate(t, fits)
    \/ \E tables \in {Table, {1}, {2}} : \/ StartDump(tables)
                                         \/ \E fresh \in BOOLEAN : LoadBegins(tables, fresh)
    \/ LoadCommits \/ LoadRefused \/ LoadInterrupted
    \/ DumpFails \/ RemoveAlien

SeedSpec == SeedInit /\ [][SeedNext]_seedVars

-----------------------------------------------------------------------------

\* Seeds keep the data whole, while others write. No row is left referring to
\* nothing, unless a load committed, on a database that had its checks off,
\* files that are not one whole dump, or beside an application that added a
\* row that refers or removed one that may be referred to. A load of a whole
\* dump over emptied tables, which nobody else writes meanwhile, brings back
\* the database as it was dumped, but for what f64 cannot hold; it is refused
\* only on SQLite if the referring table comes first, on Postgres for a column
\* that JSON has as text, and for a file of no table. And the application's
\* inserts collide with loaded ids on Postgres only. That a load run again adds
\* nothing, as commands.md:623 has it, is not said: records of generate have no
\* id and are inserted again.
SeedsKeepData ==
    /\ ~excused => Refers(db)
    /\ last.op = "restore" /\ backup # NoBackup =>
          /\ last.ok => db = [t \in Table |-> {json_to_sea_value(t, r) : r \in backup[t]}]
          /\ last.ok \/ (Checked /\ child = 1) \/ alien \/ \E t \in Table : column[t] = "text"
    /\ last.op = "insert" /\ ~last.ok => backend = "postgres"

=============================================================================
