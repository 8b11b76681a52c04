---------------------------- MODULE SchemaMigration ----------------------------
(***************************************************************************)
(* Schema migrations (crates/agmem-store, migrate.rs ensure, migrations/). *)
(*                                                                         *)
(* ensure reads the version, runs the pending batches one statement at a   *)
(* time and writes the version after each batch.  The process may die      *)
(* between any two statements.  A data dir has one owner; a shared server  *)
(* has several, each migrating or serving on its own, older ones too.      *)
(*                                                                         *)
(* The rows are what earlier versions left: a row stands for a claim and   *)
(* the text it came with.  Two rules of the engine matter.  A field's type *)
(* and default apply to writes, not to rows on disk; and an UPDATE coerces *)
(* every field of the row it writes, the ones it does not set too, so a    *)
(* row that lacks a required field cannot be updated at all.               *)
(***************************************************************************)
EXTENDS Common

CONSTANTS
    Process,      \* processes with this store open
    Binaries,     \* the versions of agmem they run, as schema versions
    Hash,         \* contents
    MaxRows,      \* bound on rows
    MaxKills    \* bound on processes killed

VARIABLES
    shared,       \* the store is on a server: several processes at once
    schema,       \* what is defined: fields, the type of supersedes, the indexes
    version,      \* meta:main.schema_version, 0 on a fresh store
    memory,       \* the rows
    proc,         \* each process
    kills

migrateVars == <<shared, schema, version, memory, proc, kills>>

-----------------------------------------------------------------------------
(***************************************************************************)
(* MIGRATIONS: the batches, as the statements the properties tell apart.   *)
(* v6, v7 and v9 add optional fields only, v8 widens an ASSERT.            *)
(***************************************************************************)
Migrations ==
    << <<"field:supersedes", "index:mem_hash">>,
       <<"field:derived_from">>,
       <<"overwrite:supersedes", "update:wrap", "update:empty">>,
       <<"field:occurred_at", "update:occurred_at">>,
       <<"field:dedup_key", "update:all", "remove:mem_hash", "index:mem_hash_live">>,
       <<"field:writer">>, <<"field:novelty">>, <<"overwrite:kind">>, <<"field:title">> >>

SchemaVersion == Len(Migrations)

\* A binary is of a version that had a schema; an absent value is no number and
\* none of the shapes a link can have.
ASSUME MigrateAssumption ==
    /\ Binaries \subseteq 1..SchemaVersion
    /\ None \notin Nat /\ None \notin {"option", "record", "list"}

Undefined == [fields |-> {}, supersedes |-> None, indexes |-> {}]

\* What an UPDATE of the row would be refused for.
Coerces(row, sch) ==
    /\ "derived_from" \in sch.fields => row.derived_from = "list"
    /\ sch.supersedes = "list" => row.supersedes = "list"
    /\ sch.supersedes = "option" => row.supersedes \in {None, "record"}

\* VALUE <string>(invalid_at ?? 'live'), computed by every write; 0 is 'live'.
Rekeyed(row, sch) ==
    IF "dedup_key" \in sch.fields
    THEN [row EXCEPT !.key = IF row.live THEN 0 ELSE row.closed_at] ELSE row

\* The unique indexes: mem_hash over content, mem_hash_live over content and key.
Indexed(rows, index) ==
    \A a, b \in DOMAIN rows : a # b /\ rows[a].hash = rows[b].hash =>
        /\ index # "mem_hash"
        /\ rows[a].key = None \/ rows[b].key = None \/ rows[a].key # rows[b].key

\* UPDATE memory SET ... WHERE: what it sets the rows it selects to, each of
\* which must coerce.
UpdateAll(rows, sch, set) ==
    [id \in DOMAIN rows |-> IF id \in DOMAIN set THEN Rekeyed(set[id], sch) ELSE rows[id]]
Refuses(sch, set) == \E id \in DOMAIN set : ~Coerces(set[id], sch)

\* Mutant: the UPDATEs of v3 set only the field they are about.
SetSupersedesAlone(row) == [row EXCEPT !.supersedes = "list"]

\* derived_from = derived_from ?? [], supersedes = [supersedes] or []
SetSupersedes(row) == [row EXCEPT !.supersedes = "list", !.derived_from = "list"]

\* The rows whose link has the given shape, with the link made a list.
Relinked(rows, shape) ==
    [id \in {r \in DOMAIN rows : rows[r].supersedes = shape} |-> SetSupersedes(rows[id])]

\* One statement: the schema and the rows it leaves, and whether it failed.
Run(statement, sch, rows) ==
    LET done(s, r) == [schema |-> s, rows |-> r, ok |-> TRUE]
        failed == [schema |-> sch, rows |-> rows, ok |-> FALSE]
        update(set) == IF Refuses(sch, set) THEN failed ELSE done(sch, UpdateAll(rows, sch, set))
        index(name) ==
            CASE name \in sch.indexes -> done(sch, rows)
              [] ~Indexed(rows, name) -> failed
              [] OTHER -> done([sch EXCEPT !.indexes = @ \cup {name}], rows)
        field(name) == done([sch EXCEPT !.fields = @ \cup {name}], rows)
    IN  CASE statement = "field:supersedes" ->
               done([sch EXCEPT !.supersedes = IF @ = None THEN "option" ELSE @], rows)
          [] statement = "overwrite:supersedes" -> done([sch EXCEPT !.supersedes = "list"], rows)
          [] statement = "update:wrap" -> update(Relinked(rows, "record"))
          [] statement = "update:empty" -> update(Relinked(rows, None))
          [] statement = "update:occurred_at" ->
               done(sch, [id \in DOMAIN rows |-> [rows[id] EXCEPT !.occurred_at = TRUE]])
          [] statement = "update:all" -> update(rows)
          [] statement = "index:mem_hash" -> index("mem_hash")
          [] statement = "index:mem_hash_live" -> index("mem_hash_live")
          [] statement = "remove:mem_hash" ->
               done([sch EXCEPT !.indexes = @ \ {"mem_hash"}], rows)
          [] statement = "field:derived_from" -> field("derived_from")
          [] statement = "field:occurred_at" -> field("occurred_at")
          [] statement = "field:dedup_key" -> field("dedup_key")
          [] statement \in {"field:writer", "field:novelty", "field:title", "overwrite:kind"} ->
               field(statement)

-----------------------------------------------------------------------------
Stopped == [step |-> "off", binary |-> 0, at |-> 0, statement |-> 0, contended |-> FALSE]
Up(p) == proc[p].step # "off"

MigrateInit ==
    /\ shared \in BOOLEAN
    /\ schema = Undefined
    /\ version = 0
    /\ memory = << >>
    /\ proc = [p \in Process |-> Stopped]
    /\ kills = 0

\* A process opens the store; on a data dir the lock keeps the others out.
OpenStore(p) ==
    /\ proc[p].step = "off"
    /\ shared \/ \A q \in Process : ~Up(q)
    /\ \E b \in Binaries :
         proc' = [q \in Process |->
                    IF q = p THEN [Stopped EXCEPT !.step = "gate", !.binary = b,
                                                  !.contended = \E r \in Process : Up(r)]
                    ELSE IF Up(q) THEN [proc[q] EXCEPT !.contended = TRUE] ELSE proc[q]]
    /\ UNCHANGED <<shared, schema, version, memory, kills>>

\* BOOTSTRAP and current_version: a newer store is refused untouched.
ReadVersion(p) ==
    /\ proc[p].step = "gate"
    /\ proc' = [proc EXCEPT ![p].step = CASE version > proc[p].binary -> "refused"
                                          [] version = proc[p].binary -> "serving"
                                          [] OTHER -> "migrate",
                            ![p].at = version, ![p].statement = 1]
    /\ UNCHANGED <<shared, schema, version, memory, kills>>

Batch(p) == Migrations[proc[p].at + 1]

\* One statement of the next batch.  A batch is sent whole, so one that fails
\* does not keep those behind it from running ...
Statement(p) ==
    /\ proc[p].step \in {"migrate", "erring"}
    /\ proc[p].statement <= Len(Batch(p))
    /\ LET result == Run(Batch(p)[proc[p].statement], schema, memory)
       IN  /\ schema' = result.schema
           /\ memory' = result.rows
           /\ proc' = [proc EXCEPT ![p].statement = @ + 1,
                                   ![p].step = IF result.ok THEN @ ELSE "erring"]
    /\ UNCHANGED <<shared, version, kills>>

\* ... and check() sees the error behind them all: it ends the startup.
BatchFails(p) ==
    /\ proc[p].step = "erring"
    /\ proc[p].statement > Len(Batch(p))
    /\ proc' = [proc EXCEPT ![p].step = "failed"]
    /\ UNCHANGED <<shared, schema, version, memory, kills>>

\* Mutant: the version recorded is the one the process is heading for.
BumpVersionAhead(p) ==
    /\ proc[p].step = "migrate"
    /\ proc[p].statement > Len(Batch(p))
    /\ version' = proc[p].binary
    /\ proc' = [proc EXCEPT ![p].at = @ + 1, ![p].statement = 1,
                            ![p].step = IF proc[p].at + 1 = proc[p].binary THEN "serving" ELSE "migrate"]
    /\ UNCHANGED <<shared, schema, memory, kills>>

\* UPSERT meta:main SET schema_version, then the next batch or the service.
BumpVersion(p) ==
    /\ proc[p].step = "migrate"
    /\ proc[p].statement > Len(Batch(p))
    /\ version' = proc[p].at + 1
    /\ proc' = [proc EXCEPT ![p].at = @ + 1, ![p].statement = 1,
                            ![p].step = IF proc[p].at + 1 = proc[p].binary THEN "serving" ELSE "migrate"]
    /\ UNCHANGED <<shared, schema, memory, kills>>

\* Stop, end with the error, or be killed: only the store remains.
Quit(p) ==
    /\ proc[p].step \in {"serving", "refused", "failed"}
    /\ proc' = [proc EXCEPT ![p] = Stopped]
    /\ UNCHANGED <<shared, schema, version, memory, kills>>

Kill(p) ==
    /\ proc[p].step \in {"migrate", "erring"} /\ kills < MaxKills
    /\ proc' = [proc EXCEPT ![p] = Stopped]
    /\ kills' = kills + 1
    /\ UNCHANGED <<shared, schema, version, memory>>

-----------------------------------------------------------------------------
\* A version before v5 takes any row of the content for a duplicate, a later
\* one only a live one.
Known(b, h) ==
    \E id \in DOMAIN memory : memory[id].hash = h /\ (b < 5 \/ memory[id].live)

\* CREATE as version b writes it; defaults fill in what b does not set.
Create(p) ==
    /\ proc[p].step = "serving" /\ Len(memory) < MaxRows
    /\ \E h \in Hash, corrects \in BOOLEAN :
         LET b == proc[p].binary
             link == IF b >= 3 THEN "list" ELSE IF corrects THEN "record" ELSE None
             row == Rekeyed([hash |-> h, live |-> TRUE, closed_at |-> None, key |-> None,
                      supersedes |-> IF link = None /\ schema.supersedes = "list" THEN "list" ELSE link,
                      derived_from |-> IF b >= 2 \/ "derived_from" \in schema.fields THEN "list" ELSE None,
                      occurred_at |-> b >= 4], schema)
             rows == Append(memory, row)
         IN  /\ ~Known(b, h) /\ Coerces(row, schema)
             /\ \A i \in schema.indexes : Indexed(rows, i)
             /\ memory' = rows
    /\ UNCHANGED <<shared, schema, version, proc, kills>>

\* Any UPDATE of a row: here one that closes it, at its own instant.
CloseRow(p) ==
    /\ proc[p].step = "serving"
    /\ \E id \in DOMAIN memory :
         /\ memory[id].live /\ Coerces(memory[id], schema)
         /\ memory' = [memory EXCEPT ![id] =
                         Rekeyed([@ EXCEPT !.live = FALSE, !.closed_at = id], schema)]
    /\ UNCHANGED <<shared, schema, version, proc, kills>>

MigrateNext ==
    \E p \in Process :
        \/ OpenStore(p) \/ ReadVersion(p) \/ Statement(p) \/ BatchFails(p) \/ BumpVersion(p)
        \/ Quit(p) \/ Kill(p) \/ Create(p) \/ CloseRow(p)

MigrateSpec == MigrateInit /\ [][MigrateNext]_migrateVars
-----------------------------------------------------------------------------
MigrateTypeOK ==
    /\ version \in 0..SchemaVersion
    /\ schema.indexes \subseteq {"mem_hash", "mem_hash_live"}
    /\ schema.supersedes \in {None, "option", "list"}
    /\ \A p \in Process : proc[p].step \in
         {"off", "gate", "migrate", "erring", "serving", "refused", "failed"}

Current(p) == proc[p].step = "serving" /\ proc[p].binary = SchemaVersion

(***************************************************************************)
(* Whatever versions wrote the rows and wherever their upgrades were cut   *)
(* short, a store this version serves has every row in its shape: any of   *)
(* its UPDATEs (reinforce, prune, forget, supersede) coerces, the link is  *)
(* a list, and the row is in the index that keeps live content unique.     *)
(* On a shared server an older process may write a text without a date     *)
(* behind the backfill, and a slow first startup may bring the old index   *)
(* back.                                                                   *)
(***************************************************************************)
ServedRowsUpdate ==
    \A p \in Process : Current(p) =>
        /\ \A id \in DOMAIN memory :
             /\ Coerces(memory[id], schema) /\ memory[id].supersedes = "list"
             /\ memory[id].key # None /\ (shared \/ memory[id].occurred_at)
        /\ "mem_hash_live" \in schema.indexes
        /\ shared \/ "mem_hash" \notin schema.indexes

(***************************************************************************)
(* A migration that was cut short is safe to run again: a startup that has *)
(* the store to itself never meets a statement that fails, whatever is on  *)
(* disk.                                                                   *)
(***************************************************************************)
RerunIsSafe ==
    \A p \in Process : proc[p].step \in {"erring", "failed"} => proc[p].contended
================================================================================
