---------------------------- MODULE StartupProofs ----------------------------
(***************************************************************************)
(* What holds of a store that processes open and serve: of the migrations, *)
(* for any number of processes, any mix of releases, any rows and any      *)
(* number of kills; of the vector space, for any number of processes,      *)
(* backends and rows, any installation and any bounds; of the model's      *)
(* thread and of the endpoint, for any number of callers, texts of any     *)
(* length, any slicing and batching, and any number of faults.             *)
(***************************************************************************)
EXTENDS SchemaMigration, VectorSpace, EmbedHost, FiniteSetTheorems, SequenceTheorems, TLAPS

(***************************************************************************)
(* The migrations                                                          *)
(***************************************************************************)
-----------------------------------------------------------------------------
(* The batches *)

\* The statement at each place.
LEMMA Batches ==
    /\ SchemaVersion = 9
    /\ Migrations[1] = <<"field:supersedes", "index:mem_hash">>
    /\ Migrations[2] = <<"field:derived_from">>
    /\ Migrations[3] = <<"overwrite:supersedes", "update:wrap", "update:empty">>
    /\ Migrations[4] = <<"field:occurred_at", "update:occurred_at">>
    /\ Migrations[5] = <<"field:dedup_key", "update:all", "remove:mem_hash", "index:mem_hash_live">>
    /\ Migrations[6] = <<"field:writer">>
    /\ Migrations[7] = <<"field:novelty">>
    /\ Migrations[8] = <<"overwrite:kind">>
    /\ Migrations[9] = <<"field:title">>
BY DEF Migrations, SchemaVersion

\* The length of each batch.
LEMMA Lengths ==
    /\ Len(Migrations[1]) = 2 /\ Len(Migrations[2]) = 1 /\ Len(Migrations[3]) = 3
    /\ Len(Migrations[4]) = 2 /\ Len(Migrations[5]) = 4 /\ Len(Migrations[6]) = 1
    /\ Len(Migrations[7]) = 1 /\ Len(Migrations[8]) = 1 /\ Len(Migrations[9]) = 1
<1>1. Len(Migrations[1]) = 2 /\ Len(Migrations[2]) = 1 /\ Len(Migrations[3]) = 3
  BY Batches
<1>2. Len(Migrations[4]) = 2 /\ Len(Migrations[5]) = 4 /\ Len(Migrations[6]) = 1
  BY Batches
<1>3. Len(Migrations[7]) = 1 /\ Len(Migrations[8]) = 1 /\ Len(Migrations[9]) = 1
  BY Batches
<1> QED  BY <1>1, <1>2, <1>3

\* No batch is empty.
LEMMA SomeLength ==
    ASSUME NEW a \in 0..8
    PROVE  Len(Migrations[a + 1]) \in Nat \ {0}
<1>1. \/ a + 1 = 1 \/ a + 1 = 2 \/ a + 1 = 3 \/ a + 1 = 4 \/ a + 1 = 5
      \/ a + 1 = 6 \/ a + 1 = 7 \/ a + 1 = 8 \/ a + 1 = 9
  OBVIOUS
<1> DEFINE n == a + 1
<1>2. \/ n = 1 \/ n = 2 \/ n = 3 \/ n = 4 \/ n = 5 \/ n = 6 \/ n = 7 \/ n = 8 \/ n = 9
  BY <1>1
<1> HIDE DEF n
<1>3. \A k \in {1, 2, 3, 4, 5, 6, 7, 8, 9} : Len(Migrations[k]) \in {1, 2, 3, 4}
  BY Lengths, Zenon
<1>4. n \in {1, 2, 3, 4, 5, 6, 7, 8, 9}
  BY <1>2
<1>5. Len(Migrations[n]) \in {1, 2, 3, 4}
  BY <1>3, <1>4
<1>6. {1, 2, 3, 4} \subseteq Nat \ {0}
  OBVIOUS
<1> QED  BY <1>5, <1>6 DEF n

At(a, s, n, k) == a = n - 1 /\ s = k

\* Every statement that runs is one of these, at its place.
LEMMA Places ==
    ASSUME NEW a \in 0..8, NEW s \in 1..Len(Migrations[a + 1])
    PROVE  LET x == Migrations[a + 1][s] IN
           \/ At(a, s, 1, 1) /\ x = "field:supersedes"
           \/ At(a, s, 1, 2) /\ x = "index:mem_hash"
           \/ At(a, s, 2, 1) /\ x = "field:derived_from"
           \/ At(a, s, 3, 1) /\ x = "overwrite:supersedes"
           \/ At(a, s, 3, 2) /\ x = "update:wrap"
           \/ At(a, s, 3, 3) /\ x = "update:empty"
           \/ At(a, s, 4, 1) /\ x = "field:occurred_at"
           \/ At(a, s, 4, 2) /\ x = "update:occurred_at"
           \/ At(a, s, 5, 1) /\ x = "field:dedup_key"
           \/ At(a, s, 5, 2) /\ x = "update:all"
           \/ At(a, s, 5, 3) /\ x = "remove:mem_hash"
           \/ At(a, s, 5, 4) /\ x = "index:mem_hash_live"
           \/ a > 4 /\ x \in {"field:writer", "field:novelty", "field:title", "overwrite:kind"}
<1>1. a = 0 \/ a = 1 \/ a = 2 \/ a = 3 \/ a = 4 \/ a = 5 \/ a = 6 \/ a = 7 \/ a = 8
  OBVIOUS
<1>2. CASE a = 0
  <2>1. a + 1 = 1 /\ Len(Migrations[a + 1]) = 2
    BY <1>2, Lengths
  <2>2. s = 1 \/ s = 2
    BY <2>1
  <2>3. Migrations[1][1] = "field:supersedes" /\ Migrations[1][2] = "index:mem_hash"
    BY Batches
  <2> QED  BY <1>2, <2>1, <2>2, <2>3 DEF At
<1>3. CASE a = 1
  <2>1. a + 1 = 2 /\ Len(Migrations[a + 1]) = 1
    BY <1>3, Lengths
  <2>2. s = 1
    BY <2>1
  <2>3. Migrations[2][1] = "field:derived_from"
    BY Batches
  <2> QED  BY <1>3, <2>1, <2>2, <2>3 DEF At
<1>4. CASE a = 2
  <2>1. a + 1 = 3 /\ Len(Migrations[a + 1]) = 3
    BY <1>4, Lengths
  <2>2. s = 1 \/ s = 2 \/ s = 3
    BY <2>1
  <2>3. Migrations[3][1] = "overwrite:supersedes" /\ Migrations[3][2] = "update:wrap" /\ Migrations[3][3] = "update:empty"
    BY Batches
  <2> QED  BY <1>4, <2>1, <2>2, <2>3 DEF At
<1>5. CASE a = 3
  <2>1. a + 1 = 4 /\ Len(Migrations[a + 1]) = 2
    BY <1>5, Lengths
  <2>2. s = 1 \/ s = 2
    BY <2>1
  <2>3. Migrations[4][1] = "field:occurred_at" /\ Migrations[4][2] = "update:occurred_at"
    BY Batches
  <2> QED  BY <1>5, <2>1, <2>2, <2>3 DEF At
<1>6. CASE a = 4
  <2>1. a + 1 = 5 /\ Len(Migrations[a + 1]) = 4
    BY <1>6, Lengths
  <2>2. s = 1 \/ s = 2 \/ s = 3 \/ s = 4
    BY <2>1
  <2>3. Migrations[5][1] = "field:dedup_key" /\ Migrations[5][2] = "update:all" /\ Migrations[5][3] = "remove:mem_hash" /\ Migrations[5][4] = "index:mem_hash_live"
    BY Batches
  <2> QED  BY <1>6, <2>1, <2>2, <2>3 DEF At
<1>7. CASE a = 5
  <2>1. a + 1 = 6 /\ Len(Migrations[a + 1]) = 1
    BY <1>7, Lengths
  <2>2. s = 1
    BY <2>1
  <2>3. Migrations[6][1] = "field:writer"
    BY Batches
  <2> QED  BY <1>7, <2>1, <2>2, <2>3 DEF At
<1>8. CASE a = 6
  <2>1. a + 1 = 7 /\ Len(Migrations[a + 1]) = 1
    BY <1>8, Lengths
  <2>2. s = 1
    BY <2>1
  <2>3. Migrations[7][1] = "field:novelty"
    BY Batches
  <2> QED  BY <1>8, <2>1, <2>2, <2>3 DEF At
<1>9. CASE a = 7
  <2>1. a + 1 = 8 /\ Len(Migrations[a + 1]) = 1
    BY <1>9, Lengths
  <2>2. s = 1
    BY <2>1
  <2>3. Migrations[8][1] = "overwrite:kind"
    BY Batches
  <2> QED  BY <1>9, <2>1, <2>2, <2>3 DEF At
<1>10. CASE a = 8
  <2>1. a + 1 = 9 /\ Len(Migrations[a + 1]) = 1
    BY <1>10, Lengths
  <2>2. s = 1
    BY <2>1
  <2>3. Migrations[9][1] = "field:title"
    BY Batches
  <2> QED  BY <1>10, <2>1, <2>2, <2>3 DEF At
<1> QED  BY <1>1, <1>2, <1>3, <1>4, <1>5, <1>6, <1>7, <1>8, <1>9, <1>10

-----------------------------------------------------------------------------
(* The store *)

Rows == [hash : Hash, live : BOOLEAN, closed_at : Nat \cup {None}, key : Nat \cup {None},
         supersedes : {None, "record", "list"}, derived_from : {None, "list"},
         occurred_at : BOOLEAN]

FieldNames == {"derived_from", "occurred_at", "dedup_key",
               "field:writer", "field:novelty", "field:title", "overwrite:kind"}

Schemas == [fields : SUBSET FieldNames, supersedes : {None, "option", "list"},
            indexes : SUBSET {"mem_hash", "mem_hash_live"}]

\* A row's key, where it has one, is the one its instants give.
Keyed(table) ==
    \A id \in DOMAIN table :
        /\ ~table[id].live => table[id].closed_at = id
        /\ table[id].key # None => table[id].key = IF table[id].live THEN 0 ELSE id

\* A content has one live row: that is what a CREATE asks for, with any index.
OneLive(table) ==
    \A a, b \in DOMAIN table :
        a # b /\ table[a].hash = table[b].hash => ~(table[a].live /\ table[b].live)

\* A link became a list together with the citations.
Linked(table) ==
    \A id \in DOMAIN table : table[id].supersedes = "list" => table[id].derived_from = "list"

\* What a store is in, whoever has it open.
Sound(sch, table) ==
    /\ sch \in Schemas /\ table \in Seq(Rows)
    /\ Keyed(table) /\ OneLive(table) /\ Linked(table)
    /\ sch.supersedes = "list" => "derived_from" \in sch.fields
    /\ "dedup_key" \in sch.fields \/ \A id \in DOMAIN table : table[id].key = None

\* What a batch leaves behind, which no later write undoes.
Cited(sch) == "derived_from" \in sch.fields
Listed(sch) == Cited(sch) /\ sch.supersedes = "list"
Wrapped(sch, table) == Listed(sch) /\ \A id \in DOMAIN table : table[id].supersedes # "record"
Relisted(sch, table) == Wrapped(sch, table) /\ \A id \in DOMAIN table : table[id].supersedes # None
KeyField(sch) == "dedup_key" \in sch.fields
AllKeyed(sch, table) == KeyField(sch) /\ \A id \in DOMAIN table : table[id].key # None
LiveIndex(sch) == "mem_hash_live" \in sch.indexes

\* From one store to a later one.
Grows(s, r, t, u) ==
    /\ s.fields \subseteq t.fields
    /\ s.supersedes = "list" => t.supersedes = "list"
    /\ "mem_hash_live" \in s.indexes => "mem_hash_live" \in t.indexes
    /\ DOMAIN r \subseteq DOMAIN u
    /\ \A id \in DOMAIN r :
         /\ u[id].supersedes \in {r[id].supersedes, "list"}
         /\ r[id].key # None => u[id].key # None
    /\ \A id \in DOMAIN u \ DOMAIN r :
         /\ s.supersedes = "list" => u[id].supersedes = "list"
         /\ "dedup_key" \in s.fields => u[id].key # None

-----------------------------------------------------------------------------
(* The processes *)

Procs == [step : {"off", "gate", "migrate", "erring", "serving", "refused", "failed"},
          binary : 0..9, at : 0..9, statement : Nat, contended : BOOLEAN]

UnderWay == {"migrate", "serving"}

\* Where a process stands in its own batches.
Placed(r) ==
    /\ r.step \notin {"off"} => r.binary \in Binaries
    /\ r.step = "migrate" => /\ r.at < r.binary
                             /\ r.statement \in 1..(Len(Migrations[r.at + 1]) + 1)
    /\ r.step = "erring" => r.at = 0 /\ r.statement = Len(Migrations[1]) + 1
    /\ r.step = "serving" => r.at = r.binary /\ r.statement = 1

\* The kth statement of batch n is behind the version or behind a process.
Passed(r, n, k) == r.step \in UnderWay /\ (r.at >= n \/ (r.at = n - 1 /\ r.statement > k))
Reached(v, pr, n, k) == v >= n \/ \E p \in Process : Passed(pr[p], n, k)

\* A process nobody disturbed is the only one, and the version is its own.
Lone(v, pr, p) ==
    /\ \A q \in Process : pr[q].step # "off" => q = p
    /\ pr[p].step \in UnderWay => pr[p].at = v

ProcInv(v, pr, sh) ==
    /\ v \in 0..9
    /\ pr \in [Process -> Procs]
    /\ \A p \in Process : Placed(pr[p])
    /\ \A p \in Process : pr[p].step \in UnderWay /\ pr[p].at >= 1 => v >= 1
    /\ \A p \in Process : pr[p].step # "off" /\ ~pr[p].contended => Lone(v, pr, p)
    /\ ~sh => \A p \in Process : ~pr[p].contended

BatchInv(v, pr, sch, table) ==
    /\ Reached(v, pr, 2, 1) => Cited(sch)
    /\ Reached(v, pr, 3, 1) => Listed(sch)
    /\ Reached(v, pr, 3, 2) => Wrapped(sch, table)
    /\ Reached(v, pr, 3, 3) => Relisted(sch, table)
    /\ Reached(v, pr, 5, 1) => KeyField(sch)
    /\ Reached(v, pr, 5, 2) => AllKeyed(sch, table)
    /\ Reached(v, pr, 5, 4) => LiveIndex(sch)

\* A data dir has one process, so nothing is written behind a batch.
OwnInv(v, pr, sch, table) ==
    /\ Reached(v, pr, 4, 2) => \A id \in DOMAIN table : table[id].occurred_at
    /\ Reached(v, pr, 5, 3) => "mem_hash" \notin sch.indexes

MigrateInv ==
    /\ ProcInv(version, proc, shared)
    /\ Sound(schema, memory)
    /\ version = 0 => DOMAIN memory = {}
    /\ BatchInv(version, proc, schema, memory)
    /\ ~shared => OwnInv(version, proc, schema, memory)
    /\ RerunIsSafe
-----------------------------------------------------------------------------
(* One statement *)

\* A later schema over the same rows.
LEMMA SchemaGrows ==
    ASSUME NEW s, NEW t, NEW table, Sound(s, table), t \in Schemas,
           s.fields \subseteq t.fields,
           s.supersedes = "list" => t.supersedes = "list",
           t.supersedes = "list" => "derived_from" \in t.fields,
           "mem_hash_live" \in s.indexes => "mem_hash_live" \in t.indexes
    PROVE  Sound(t, table) /\ Grows(s, table, t, table)
BY DEF Sound, Grows

Field(sch, name) == [sch EXCEPT !.fields = @ \cup {name}]

\* The schema with one more field.
LEMMA FieldSchema ==
    ASSUME NEW sch \in Schemas, NEW name \in FieldNames
    PROVE  /\ Field(sch, name) \in Schemas
           /\ Field(sch, name).fields = sch.fields \cup {name}
           /\ Field(sch, name).indexes = sch.indexes
           /\ Field(sch, name).supersedes = sch.supersedes
<1>1. sch.fields \cup {name} \subseteq FieldNames
  BY DEF Schemas
<1>2. Field(sch, name) = [sch EXCEPT !.fields = sch.fields \cup {name}]
  BY DEF Field, Schemas
<1> QED  BY <1>1, <1>2 DEF Schemas

\* DEFINE FIELD adds a field, whatever it is.
LEMMA RunFields ==
    ASSUME NEW sch, NEW table
    PROVE  LET done(s) == [schema |-> s, rows |-> table, ok |-> TRUE] IN
           /\ Run("field:derived_from", sch, table) = done(Field(sch, "derived_from"))
           /\ Run("field:occurred_at", sch, table) = done(Field(sch, "occurred_at"))
           /\ Run("field:dedup_key", sch, table) = done(Field(sch, "dedup_key"))
           /\ \A x \in {"field:writer", "field:novelty", "field:title", "overwrite:kind"} :
                Run(x, sch, table) = done(Field(sch, x))
           /\ Run("field:supersedes", sch, table) =
                done([sch EXCEPT !.supersedes = IF @ = None THEN "option" ELSE @])
           /\ Run("overwrite:supersedes", sch, table) = done([sch EXCEPT !.supersedes = "list"])
           /\ Run("remove:mem_hash", sch, table) =
                done([sch EXCEPT !.indexes = @ \ {"mem_hash"}])
<1>1. Run("field:derived_from", sch, table)
         = [schema |-> Field(sch, "derived_from"), rows |-> table, ok |-> TRUE]
  BY DEF Run, Field
<1>2. Run("field:occurred_at", sch, table)
         = [schema |-> Field(sch, "occurred_at"), rows |-> table, ok |-> TRUE]
  BY DEF Run, Field
<1>3. Run("field:dedup_key", sch, table)
         = [schema |-> Field(sch, "dedup_key"), rows |-> table, ok |-> TRUE]
  BY DEF Run, Field
<1>4. ASSUME NEW x \in {"field:writer", "field:novelty", "field:title", "overwrite:kind"}
      PROVE  Run(x, sch, table) = [schema |-> Field(sch, x), rows |-> table, ok |-> TRUE]
  BY DEF Run, Field
<1>5. Run("field:supersedes", sch, table)
         = [schema |-> [sch EXCEPT !.supersedes = IF @ = None THEN "option" ELSE @],
            rows |-> table, ok |-> TRUE]
  BY DEF Run
<1>6. Run("overwrite:supersedes", sch, table)
         = [schema |-> [sch EXCEPT !.supersedes = "list"], rows |-> table, ok |-> TRUE]
  BY DEF Run
<1>7. Run("remove:mem_hash", sch, table)
         = [schema |-> [sch EXCEPT !.indexes = @ \ {"mem_hash"}], rows |-> table, ok |-> TRUE]
  BY DEF Run
<1> QED  BY <1>1, <1>2, <1>3, <1>4, <1>5, <1>6, <1>7

\* DEFINE INDEX leaves an index there is, fails on rows that clash, or adds it.
LEMMA RunIndex ==
    ASSUME NEW sch, NEW table, NEW i \in {"mem_hash", "mem_hash_live"}, NEW x,
           \/ i = "mem_hash" /\ x = "index:mem_hash"
           \/ i = "mem_hash_live" /\ x = "index:mem_hash_live"
    PROVE  \/ /\ i \in sch.indexes
              /\ Run(x, sch, table) = [schema |-> sch, rows |-> table, ok |-> TRUE]
           \/ /\ ~Indexed(table, i)
              /\ Run(x, sch, table) = [schema |-> sch, rows |-> table, ok |-> FALSE]
           \/ Run(x, sch, table) = [schema |-> [sch EXCEPT !.indexes = @ \cup {i}],
                                   rows |-> table, ok |-> TRUE]
<1>1. CASE i = "mem_hash" /\ x = "index:mem_hash"
  BY <1>1 DEF Run
<1>2. CASE i = "mem_hash_live" /\ x = "index:mem_hash_live"
  BY <1>2 DEF Run
<1> QED  BY <1>1, <1>2

\* An UPDATE fails as a whole or writes the rows it selects.
LEMMA RunUpdates ==
    ASSUME NEW sch, NEW table
    PROVE  LET did(set) == IF Refuses(sch, set)
                           THEN [schema |-> sch, rows |-> table, ok |-> FALSE]
                           ELSE [schema |-> sch, rows |-> UpdateAll(table, sch, set), ok |-> TRUE]
           IN  /\ Run("update:wrap", sch, table) = did(Relinked(table, "record"))
               /\ Run("update:empty", sch, table) = did(Relinked(table, None))
               /\ Run("update:all", sch, table) = did(table)
               /\ Run("update:occurred_at", sch, table) =
                    [schema |-> sch, ok |-> TRUE,
                     rows |-> [id \in DOMAIN table |-> [table[id] EXCEPT !.occurred_at = TRUE]]]
<1>1. Run("update:wrap", sch, table) =
        IF Refuses(sch, Relinked(table, "record"))
        THEN [schema |-> sch, rows |-> table, ok |-> FALSE]
        ELSE [schema |-> sch, rows |-> UpdateAll(table, sch, Relinked(table, "record")), ok |-> TRUE]
  BY DEF Run
<1>2. Run("update:empty", sch, table) =
        IF Refuses(sch, Relinked(table, None))
        THEN [schema |-> sch, rows |-> table, ok |-> FALSE]
        ELSE [schema |-> sch, rows |-> UpdateAll(table, sch, Relinked(table, None)), ok |-> TRUE]
  BY DEF Run
<1>3. Run("update:all", sch, table) =
        IF Refuses(sch, table)
        THEN [schema |-> sch, rows |-> table, ok |-> FALSE]
        ELSE [schema |-> sch, rows |-> UpdateAll(table, sch, table), ok |-> TRUE]
  BY DEF Run
<1>4. Run("update:occurred_at", sch, table) =
        [schema |-> sch, ok |-> TRUE,
         rows |-> [id \in DOMAIN table |-> [table[id] EXCEPT !.occurred_at = TRUE]]]
  BY DEF Run
<1> QED  BY <1>1, <1>2, <1>3, <1>4
\* A row as a statement may leave it.
Touched(sch, table, id, row) ==
    /\ row \in Rows
    /\ row.hash = table[id].hash /\ row.live = table[id].live
    /\ row.closed_at = table[id].closed_at
    /\ \/ row.key = table[id].key
       \/ "dedup_key" \in sch.fields /\ row.key = IF row.live THEN 0 ELSE id
    /\ row.supersedes \in {table[id].supersedes, "list"}
    /\ row.supersedes = "list" => row.derived_from = "list"

\* A row of a sound store is a row, at a number.
LEMMA RowOf ==
    ASSUME NEW sch, NEW table, Sound(sch, table), NEW id \in DOMAIN table
    PROVE  /\ table[id] \in Rows /\ id \in Nat \ {0}
           /\ Len(table) \in Nat /\ DOMAIN table = 1..Len(table)
BY LenProperties DEF Sound

\* Rows that were only touched leave the store sound, and later.
LEMMA TouchGrows ==
    ASSUME NEW sch, NEW table, Sound(sch, table), NEW u,
           u = [id \in DOMAIN table |-> u[id]],
           \A id \in DOMAIN table : Touched(sch, table, id, u[id])
    PROVE  Sound(sch, u) /\ Grows(sch, table, sch, u) /\ DOMAIN u = DOMAIN table
<1>1. DOMAIN u = DOMAIN table
  OBVIOUS
<1>2. \A id \in DOMAIN table : table[id] \in Rows /\ id \in Nat \ {0}
  BY RowOf
<1>3. u \in Seq(Rows)
  <2>1. DOMAIN table = 1..Len(table) /\ Len(table) \in Nat
    BY LenProperties DEF Sound
  <2>2. u \in [1..Len(table) -> Rows]
    BY <2>1 DEF Touched
  <2> QED  BY <2>1, <2>2, SeqDef
<1>4. Keyed(u)
  <2> SUFFICES ASSUME NEW id \in DOMAIN table
               PROVE  /\ ~u[id].live => u[id].closed_at = id
                      /\ u[id].key # None => u[id].key = IF u[id].live THEN 0 ELSE id
    BY <1>1 DEF Keyed
  <2>1. /\ ~table[id].live => table[id].closed_at = id
        /\ table[id].key # None => table[id].key = IF table[id].live THEN 0 ELSE id
    BY DEF Sound, Keyed
  <2> QED  BY <2>1 DEF Touched
<1>5. OneLive(u)
  <2> SUFFICES ASSUME NEW a \in DOMAIN table, NEW b \in DOMAIN table, a # b,
                      u[a].hash = u[b].hash
               PROVE  ~(u[a].live /\ u[b].live)
    BY <1>1 DEF OneLive
  <2>1. table[a].hash = table[b].hash => ~(table[a].live /\ table[b].live)
    BY DEF Sound, OneLive
  <2> QED  BY <2>1 DEF Touched
<1>6. Linked(u)
  BY <1>1 DEF Linked, Touched
<1>7. "dedup_key" \in sch.fields \/ \A id \in DOMAIN u : u[id].key = None
  BY <1>1 DEF Sound, Touched
<1>8. Grows(sch, table, sch, u)
  <2> SUFFICES ASSUME NEW id \in DOMAIN table, table[id].key # None
               PROVE  u[id].key # None
    BY <1>1 DEF Grows, Touched
  <2> QED  BY <1>2, MigrateAssumption DEF Touched
<1> QED  BY <1>1, <1>3, <1>4, <1>5, <1>6, <1>7, <1>8 DEF Sound

\* What Rekeyed gives a row is its key, or what the row had.
LEMMA RekeyedRow ==
    ASSUME NEW sch, NEW row \in Rows, NEW id \in Nat, ~row.live => row.closed_at = id
    PROVE  LET new == Rekeyed(row, sch) IN
           /\ new \in Rows
           /\ new.hash = row.hash /\ new.live = row.live /\ new.closed_at = row.closed_at
           /\ new.supersedes = row.supersedes /\ new.derived_from = row.derived_from
           /\ new.occurred_at = row.occurred_at
           /\ "dedup_key" \notin sch.fields => new.key = row.key
           /\ "dedup_key" \in sch.fields => new.key = IF row.live THEN 0 ELSE id
<1>1. CASE "dedup_key" \in sch.fields
  <2> DEFINE k == IF row.live THEN 0 ELSE row.closed_at
  <2>1. k \in Nat \cup {None} /\ k = IF row.live THEN 0 ELSE id
    OBVIOUS
  <2>2. Rekeyed(row, sch) = [row EXCEPT !.key = k]
    BY <1>1 DEF Rekeyed
  <2> HIDE DEF k
  <2> QED  BY <1>1, <2>1, <2>2 DEF Rows
<1>2. CASE "dedup_key" \notin sch.fields
  BY <1>2 DEF Rekeyed
<1> QED  BY <1>1, <1>2

\* The link made a list, with the citations.
LEMMA SetSupersedesRow ==
    ASSUME NEW row \in Rows
    PROVE  LET new == SetSupersedes(row) IN
           /\ new \in Rows /\ new.supersedes = "list" /\ new.derived_from = "list"
           /\ new.hash = row.hash /\ new.live = row.live /\ new.closed_at = row.closed_at
           /\ new.key = row.key /\ new.occurred_at = row.occurred_at
BY DEF SetSupersedes, Rows

\* The UPDATEs of v3 make the links of one shape lists, and touch no other row.
LEMMA RelinkRows ==
    ASSUME NEW sch, NEW table, Sound(sch, table), NEW shape
    PROVE  LET u == UpdateAll(table, sch, Relinked(table, shape)) IN
           /\ Sound(sch, u) /\ Grows(sch, table, sch, u) /\ DOMAIN u = DOMAIN table
           /\ \A id \in DOMAIN table :
                u[id].supersedes = IF table[id].supersedes = shape THEN "list"
                                   ELSE table[id].supersedes
           /\ \A id \in DOMAIN table : u[id].occurred_at = table[id].occurred_at
<1> DEFINE set == Relinked(table, shape)
           u == UpdateAll(table, sch, set)
<1>1. u = [id \in DOMAIN table |-> u[id]]
  BY DEF UpdateAll
<1>2. ASSUME NEW id \in DOMAIN table
      PROVE  /\ Touched(sch, table, id, u[id])
             /\ u[id].supersedes = IF table[id].supersedes = shape THEN "list"
                                   ELSE table[id].supersedes
             /\ u[id].occurred_at = table[id].occurred_at
  <2>1. table[id] \in Rows /\ id \in Nat
    BY RowOf
  <2>2. ~table[id].live => table[id].closed_at = id
    BY DEF Sound, Keyed
  <2>3. CASE table[id].supersedes = shape
    <3>1. u[id] = Rekeyed(SetSupersedes(table[id]), sch)
      BY <2>3 DEF UpdateAll, Relinked
    <3> DEFINE row == SetSupersedes(table[id])
    <3>2. /\ row \in Rows /\ row.supersedes = "list" /\ row.derived_from = "list"
          /\ row.hash = table[id].hash /\ row.live = table[id].live
          /\ row.closed_at = table[id].closed_at
          /\ row.key = table[id].key /\ row.occurred_at = table[id].occurred_at
      BY <2>1, SetSupersedesRow
    <3> HIDE DEF row
    <3>3. u[id] = Rekeyed(row, sch)
      BY <3>1 DEF row
    <3> HIDE DEF u
    <3> QED  BY <2>1, <2>2, <2>3, <3>2, <3>3, RekeyedRow DEF Touched
  <2>4. CASE table[id].supersedes # shape
    <3>1. u[id] = table[id]
      BY <2>4 DEF UpdateAll, Relinked
    <3>2. table[id].supersedes = "list" => table[id].derived_from = "list"
      BY DEF Sound, Linked
    <3> HIDE DEF u
    <3> QED  BY <2>1, <2>4, <3>1, <3>2 DEF Touched
  <2> QED  BY <2>3, <2>4
<1> HIDE DEF u
<1>3. Sound(sch, u) /\ Grows(sch, table, sch, u) /\ DOMAIN u = DOMAIN table
  BY <1>1, <1>2, TouchGrows
<1> QED  BY <1>2, <1>3 DEF u

\* The UPDATE of v5 keys every row.
LEMMA RekeyRows ==
    ASSUME NEW sch, NEW table, Sound(sch, table), KeyField(sch)
    PROVE  LET u == UpdateAll(table, sch, table) IN
           /\ Sound(sch, u) /\ Grows(sch, table, sch, u) /\ DOMAIN u = DOMAIN table
           /\ \A id \in DOMAIN table : u[id].key # None
           /\ \A id \in DOMAIN table : u[id].occurred_at = table[id].occurred_at
<1> DEFINE u == UpdateAll(table, sch, table)
<1>1. u = [id \in DOMAIN table |-> u[id]]
  BY DEF UpdateAll
<1>2. ASSUME NEW id \in DOMAIN table
      PROVE  /\ Touched(sch, table, id, u[id])
             /\ u[id].key # None
             /\ u[id].occurred_at = table[id].occurred_at
  <2>1. table[id] \in Rows /\ id \in Nat
    BY RowOf
  <2>2. ~table[id].live => table[id].closed_at = id
    BY DEF Sound, Keyed
  <2>3. u[id] = Rekeyed(table[id], sch)
    BY DEF UpdateAll
  <2>4. table[id].supersedes = "list" => table[id].derived_from = "list"
    BY DEF Sound, Linked
  <2> HIDE DEF u
  <2> QED  BY <2>1, <2>2, <2>3, <2>4, RekeyedRow, MigrateAssumption DEF Touched, KeyField
<1> HIDE DEF u
<1>3. Sound(sch, u) /\ Grows(sch, table, sch, u) /\ DOMAIN u = DOMAIN table
  BY <1>1, <1>2, TouchGrows
<1> QED  BY <1>2, <1>3 DEF u

\* The UPDATE of v4 dates every row.
LEMMA DateRows ==
    ASSUME NEW sch, NEW table, Sound(sch, table)
    PROVE  LET u == [id \in DOMAIN table |-> [table[id] EXCEPT !.occurred_at = TRUE]] IN
           /\ Sound(sch, u) /\ Grows(sch, table, sch, u) /\ DOMAIN u = DOMAIN table
           /\ \A id \in DOMAIN table : u[id].occurred_at = TRUE
<1> DEFINE u == [id \in DOMAIN table |-> [table[id] EXCEPT !.occurred_at = TRUE]]
<1>1. u = [id \in DOMAIN table |-> u[id]]
  OBVIOUS
<1>2. ASSUME NEW id \in DOMAIN table
      PROVE  Touched(sch, table, id, u[id]) /\ u[id].occurred_at = TRUE
  <2>1. table[id] \in Rows
    BY RowOf
  <2>2. u[id] = [table[id] EXCEPT !.occurred_at = TRUE]
    OBVIOUS
  <2>3. table[id].supersedes = "list" => table[id].derived_from = "list"
    BY DEF Sound, Linked
  <2> HIDE DEF u
  <2> QED  BY <2>1, <2>2, <2>3 DEF Touched, Rows
<1> HIDE DEF u
<1>3. Sound(sch, u) /\ Grows(sch, table, sch, u) /\ DOMAIN u = DOMAIN table
  BY <1>1, <1>2, TouchGrows
<1> QED  BY <1>2, <1>3 DEF u
\* Live rows of one content are one, and closed ones have keys of their own: the
\* new index never meets a clash.
LEMMA LiveKeysDiffer ==
    ASSUME NEW sch, NEW table, Sound(sch, table)
    PROVE  Indexed(table, "mem_hash_live")
<1> SUFFICES ASSUME NEW a \in DOMAIN table, NEW b \in DOMAIN table, a # b,
                    table[a].hash = table[b].hash, table[a].key # None, table[b].key # None
             PROVE  table[a].key # table[b].key
  BY DEF Indexed
<1>1. a \in Nat \ {0} /\ b \in Nat \ {0}
  BY RowOf
<1>2. ~(table[a].live /\ table[b].live)
  BY DEF Sound, OneLive
<1>3. /\ table[a].key = IF table[a].live THEN 0 ELSE a
      /\ table[b].key = IF table[b].live THEN 0 ELSE b
  BY DEF Sound, Keyed
<1> QED  BY <1>1, <1>2, <1>3

\* What a process found or did before it runs statement s of batch a + 1.
Before(a, s, sch, table) ==
    /\ a >= 2 => Cited(sch)
    /\ a = 2 /\ s >= 2 => Listed(sch)
    /\ a = 2 /\ s >= 3 => Wrapped(sch, table)
    /\ a >= 3 => Relisted(sch, table)
    /\ a = 4 /\ s >= 2 => KeyField(sch)

\* What the statement leaves.
Ran(a, s, sch, table, r) ==
    /\ Sound(r.schema, r.rows) /\ Grows(sch, table, r.schema, r.rows)
    /\ DOMAIN r.rows = DOMAIN table
    /\ At(a, s, 2, 1) => Cited(r.schema)
    /\ At(a, s, 3, 1) => Listed(r.schema)
    /\ At(a, s, 3, 2) => Wrapped(r.schema, r.rows)
    /\ At(a, s, 3, 3) => Relisted(r.schema, r.rows)
    /\ At(a, s, 5, 1) => KeyField(r.schema)
    /\ At(a, s, 5, 2) => AllKeyed(r.schema, r.rows)
    /\ At(a, s, 5, 4) => LiveIndex(r.schema)
    /\ \A id \in DOMAIN table :
         (table[id].occurred_at = TRUE) \/ At(a, s, 4, 2) => r.rows[id].occurred_at = TRUE
    /\ "mem_hash" \in r.schema.indexes =>
         ~At(a, s, 5, 3) /\ ("mem_hash" \in sch.indexes \/ At(a, s, 1, 2))
    /\ r.ok = TRUE \/ (r.ok = FALSE /\ At(a, s, 1, 2) /\ ~Indexed(table, "mem_hash"))

\* Every statement leaves a sound and later store with its own part done, and
\* only the first version's index can fail.
LEMMA RunAfter ==
    ASSUME NEW a \in 0..8, NEW s \in 1..Len(Migrations[a + 1]), NEW sch, NEW table,
           Sound(sch, table), Before(a, s, sch, table)
    PROVE  Ran(a, s, sch, table, Run(Migrations[a + 1][s], sch, table))
<1> DEFINE x == Migrations[a + 1][s]
           r == Run(x, sch, table)
<1> SUFFICES Ran(a, s, sch, table, r)
  OBVIOUS
<1>0. s \in Nat
  BY SomeLength
<1>r. r = Run(x, sch, table)
  OBVIOUS
<1> HIDE DEF r, x
<1>s. sch \in Schemas
  BY DEF Sound
<1>1. CASE At(a, s, 1, 1) /\ x = "field:supersedes"
  <2>1. /\ r.schema = [sch EXCEPT !.supersedes = IF @ = None THEN "option" ELSE @]
        /\ r.rows = table /\ r.ok = TRUE
    BY <1>1, <1>r, RunFields
  <2>2. /\ r.schema \in Schemas /\ r.schema.fields = sch.fields
        /\ r.schema.indexes = sch.indexes
        /\ r.schema.supersedes = "list" <=> sch.supersedes = "list"
    BY <2>1, <1>s, MigrateAssumption DEF Schemas
  <2>3. Sound(r.schema, table) /\ Grows(sch, table, r.schema, table)
    BY <2>2, SchemaGrows DEF Sound
  <2> QED  BY <1>1, <2>1, <2>2, <2>3 DEF Ran, At
<1>2. CASE At(a, s, 1, 2) /\ x = "index:mem_hash"
  <2>1. \/ r = [schema |-> sch, rows |-> table, ok |-> TRUE]
        \/ ~Indexed(table, "mem_hash") /\ r = [schema |-> sch, rows |-> table, ok |-> FALSE]
        \/ r = [schema |-> [sch EXCEPT !.indexes = @ \cup {"mem_hash"}], rows |-> table, ok |-> TRUE]
    BY <1>2, <1>r, RunIndex
  <2>2. /\ r.schema \in Schemas /\ r.schema.fields = sch.fields
        /\ sch.indexes \subseteq r.schema.indexes
        /\ r.schema.supersedes = sch.supersedes
    BY <2>1, <1>s DEF Schemas
  <2>3. r.rows = table /\ (r.ok = TRUE \/ (r.ok = FALSE /\ ~Indexed(table, "mem_hash")))
    BY <2>1
  <2>4. Sound(r.schema, table) /\ Grows(sch, table, r.schema, table)
    BY <2>2, SchemaGrows DEF Sound
  <2> QED  BY <1>2, <2>2, <2>3, <2>4 DEF Ran, At
<1>3. CASE At(a, s, 2, 1) /\ x = "field:derived_from"
  <2>0. "derived_from" \in FieldNames
    BY DEF FieldNames
  <2>1. r.schema = Field(sch, "derived_from") /\ r.rows = table /\ r.ok = TRUE
    BY <1>3, <1>r, RunFields
  <2>2. /\ r.schema \in Schemas /\ r.schema.fields = sch.fields \cup {"derived_from"}
        /\ r.schema.indexes = sch.indexes /\ r.schema.supersedes = sch.supersedes
    BY <2>0, <2>1, <1>s, FieldSchema
  <2>3. Sound(r.schema, table) /\ Grows(sch, table, r.schema, table)
    BY <2>2, SchemaGrows DEF Sound
  <2> QED  BY <1>3, <2>1, <2>2, <2>3 DEF Ran, At, Cited
<1>4. CASE At(a, s, 3, 1) /\ x = "overwrite:supersedes"
  <2>1. r.schema = [sch EXCEPT !.supersedes = "list"] /\ r.rows = table /\ r.ok = TRUE
    BY <1>4, <1>r, RunFields
  <2>2. /\ r.schema \in Schemas /\ r.schema.fields = sch.fields
        /\ r.schema.indexes = sch.indexes /\ r.schema.supersedes = "list"
    BY <2>1, <1>s DEF Schemas
  <2>3. "derived_from" \in sch.fields
    BY <1>4 DEF Before, At, Cited
  <2>4. Sound(r.schema, table) /\ Grows(sch, table, r.schema, table)
    BY <2>2, <2>3, SchemaGrows DEF Sound
  <2> QED  BY <1>4, <2>1, <2>2, <2>3, <2>4 DEF Ran, At, Cited, Listed
<1>5. CASE At(a, s, 3, 2) /\ x = "update:wrap"
  <2>1. Listed(sch)
    BY <1>5 DEF Before, At
  <2> DEFINE u == UpdateAll(table, sch, Relinked(table, "record"))
  <2>2. ~Refuses(sch, Relinked(table, "record"))
    <3> SUFFICES ASSUME NEW id \in DOMAIN table
                 PROVE  Coerces(SetSupersedes(table[id]), sch)
      BY DEF Refuses, Relinked
    <3> QED  BY <2>1, RowOf, SetSupersedesRow DEF Coerces, Listed
  <2>3. r.schema = sch /\ r.rows = u /\ r.ok = TRUE
    BY <1>5, <2>2, <1>r, RunUpdates
  <2>4. /\ Sound(sch, u) /\ Grows(sch, table, sch, u) /\ DOMAIN u = DOMAIN table
        /\ \A id \in DOMAIN table : u[id].supersedes # "record"
        /\ \A id \in DOMAIN table : u[id].occurred_at = table[id].occurred_at
    BY RelinkRows
  <2> HIDE DEF u
  <2> QED  BY <1>5, <2>1, <2>3, <2>4 DEF Ran, At, Wrapped
<1>6. CASE At(a, s, 3, 3) /\ x = "update:empty"
  <2>1. Wrapped(sch, table) /\ Listed(sch)
    BY <1>6 DEF Before, At, Wrapped
  <2> DEFINE u == UpdateAll(table, sch, Relinked(table, None))
  <2>2. ~Refuses(sch, Relinked(table, None))
    <3> SUFFICES ASSUME NEW id \in DOMAIN table
                 PROVE  Coerces(SetSupersedes(table[id]), sch)
      BY DEF Refuses, Relinked
    <3> QED  BY <2>1, RowOf, SetSupersedesRow DEF Coerces, Listed
  <2>3. r.schema = sch /\ r.rows = u /\ r.ok = TRUE
    BY <1>6, <2>2, <1>r, RunUpdates
  <2>4. /\ Sound(sch, u) /\ Grows(sch, table, sch, u) /\ DOMAIN u = DOMAIN table
        /\ \A id \in DOMAIN table : u[id].supersedes = IF table[id].supersedes = None THEN "list"
                                                      ELSE table[id].supersedes
        /\ \A id \in DOMAIN table : u[id].occurred_at = table[id].occurred_at
    BY RelinkRows
  <2>5. \A id \in DOMAIN table : u[id].supersedes # None /\ u[id].supersedes # "record"
    BY <2>1, <2>4, MigrateAssumption DEF Wrapped
  <2> HIDE DEF u
  <2> QED  BY <1>6, <2>1, <2>3, <2>4, <2>5 DEF Ran, At, Relisted, Wrapped
<1>7. CASE At(a, s, 4, 1) /\ x = "field:occurred_at"
  <2>0. "occurred_at" \in FieldNames
    BY DEF FieldNames
  <2>1. r.schema = Field(sch, "occurred_at") /\ r.rows = table /\ r.ok = TRUE
    BY <1>7, <1>r, RunFields
  <2>2. /\ r.schema \in Schemas /\ sch.fields \subseteq r.schema.fields
        /\ r.schema.indexes = sch.indexes /\ r.schema.supersedes = sch.supersedes
    BY <2>0, <2>1, <1>s, FieldSchema
  <2>3. Sound(r.schema, table) /\ Grows(sch, table, r.schema, table)
    BY <2>2, SchemaGrows DEF Sound
  <2> QED  BY <1>7, <2>1, <2>2, <2>3 DEF Ran, At
<1>8. CASE At(a, s, 4, 2) /\ x = "update:occurred_at"
  <2> DEFINE u == [id \in DOMAIN table |-> [table[id] EXCEPT !.occurred_at = TRUE]]
  <2>0. r = [schema |-> sch, ok |-> TRUE, rows |-> u]
    BY <1>8, <1>r, RunUpdates, Zenon
  <2>1. r.schema = sch /\ r.rows = u /\ r.ok = TRUE
    BY <2>0
  <2>2. /\ Sound(sch, u) /\ Grows(sch, table, sch, u) /\ DOMAIN u = DOMAIN table
        /\ \A id \in DOMAIN table : u[id].occurred_at = TRUE
    BY DateRows
  <2> HIDE DEF u
  <2> QED  BY <1>8, <2>1, <2>2 DEF Ran, At
<1>9. CASE At(a, s, 5, 1) /\ x = "field:dedup_key"
  <2>0. "dedup_key" \in FieldNames
    BY DEF FieldNames
  <2>1. r.schema = Field(sch, "dedup_key") /\ r.rows = table /\ r.ok = TRUE
    BY <1>9, <1>r, RunFields
  <2>2. /\ r.schema \in Schemas /\ r.schema.fields = sch.fields \cup {"dedup_key"}
        /\ r.schema.indexes = sch.indexes /\ r.schema.supersedes = sch.supersedes
    BY <2>0, <2>1, <1>s, FieldSchema
  <2>3. Sound(r.schema, table) /\ Grows(sch, table, r.schema, table)
    BY <2>2, SchemaGrows DEF Sound
  <2> QED  BY <1>9, <2>1, <2>2, <2>3 DEF Ran, At, KeyField
<1>10. CASE At(a, s, 5, 2) /\ x = "update:all"
  <2>1. Relisted(sch, table) /\ Wrapped(sch, table) /\ Listed(sch) /\ KeyField(sch)
    BY <1>10 DEF Before, At, Relisted, Wrapped
  <2> DEFINE u == UpdateAll(table, sch, table)
  <2>2. ~Refuses(sch, table)
    <3> SUFFICES ASSUME NEW id \in DOMAIN table
                 PROVE  Coerces(table[id], sch)
      BY DEF Refuses
    <3>1. table[id].supersedes \in {None, "record", "list"}
      BY RowOf DEF Rows
    <3>2. table[id].supersedes = "list"
      BY <2>1, <3>1 DEF Relisted, Wrapped
    <3>3. table[id].derived_from = "list"
      BY <3>2 DEF Sound, Linked
    <3> QED  BY <2>1, <3>2, <3>3 DEF Coerces, Listed
  <2>3. r.schema = sch /\ r.rows = u /\ r.ok = TRUE
    BY <1>10, <2>2, <1>r, RunUpdates
  <2>4. /\ Sound(sch, u) /\ Grows(sch, table, sch, u) /\ DOMAIN u = DOMAIN table
        /\ \A id \in DOMAIN table : u[id].key # None
        /\ \A id \in DOMAIN table : u[id].occurred_at = table[id].occurred_at
    BY <2>1, RekeyRows
  <2> HIDE DEF u
  <2> QED  BY <1>10, <2>1, <2>3, <2>4 DEF Ran, At, AllKeyed
<1>11. CASE At(a, s, 5, 3) /\ x = "remove:mem_hash"
  <2>0. r = [schema |-> [sch EXCEPT !.indexes = @ \ {"mem_hash"}], rows |-> table, ok |-> TRUE]
    BY <1>11, <1>r, RunFields, Zenon
  <2>1. r.schema = [sch EXCEPT !.indexes = @ \ {"mem_hash"}] /\ r.rows = table /\ r.ok = TRUE
    BY <2>0
  <2>2. /\ r.schema \in Schemas /\ r.schema.fields = sch.fields
        /\ r.schema.indexes = sch.indexes \ {"mem_hash"}
        /\ r.schema.supersedes = sch.supersedes
    BY <2>1, <1>s DEF Schemas
  <2>3. Sound(r.schema, table) /\ Grows(sch, table, r.schema, table)
    BY <2>2, SchemaGrows DEF Sound
  <2> QED  BY <1>11, <2>1, <2>2, <2>3 DEF Ran, At
<1>12. CASE At(a, s, 5, 4) /\ x = "index:mem_hash_live"
  <2>1. \/ "mem_hash_live" \in sch.indexes /\ r = [schema |-> sch, rows |-> table, ok |-> TRUE]
        \/ r = [schema |-> [sch EXCEPT !.indexes = @ \cup {"mem_hash_live"}],
                rows |-> table, ok |-> TRUE]
    BY <1>12, <1>r, RunIndex, LiveKeysDiffer
  <2>2. /\ r.schema \in Schemas /\ r.schema.fields = sch.fields
        /\ r.schema.indexes = sch.indexes \cup {"mem_hash_live"}
        /\ r.schema.supersedes = sch.supersedes
    BY <2>1, <1>s DEF Schemas
  <2>3. r.rows = table /\ r.ok = TRUE
    BY <2>1
  <2>4. Sound(r.schema, table) /\ Grows(sch, table, r.schema, table)
    BY <2>2, SchemaGrows DEF Sound
  <2> QED  BY <1>12, <2>2, <2>3, <2>4 DEF Ran, At, LiveIndex
<1>13. CASE a > 4 /\ x \in {"field:writer", "field:novelty", "field:title", "overwrite:kind"}
  <2>1. r.schema = Field(sch, x) /\ r.rows = table /\ r.ok = TRUE
    BY <1>13, <1>r, RunFields
  <2>2. x \in FieldNames
    BY <1>13 DEF FieldNames
  <2>3. /\ r.schema \in Schemas /\ sch.fields \subseteq r.schema.fields
        /\ r.schema.indexes = sch.indexes /\ r.schema.supersedes = sch.supersedes
    BY <2>1, <2>2, <1>s, FieldSchema
  <2>4. Sound(r.schema, table) /\ Grows(sch, table, r.schema, table)
    BY <2>3, SchemaGrows DEF Sound
  <2> QED  BY <1>13, <2>1, <2>3, <2>4 DEF Ran, At
<1>14. \/ At(a, s, 1, 1) /\ x = "field:supersedes"
       \/ At(a, s, 1, 2) /\ x = "index:mem_hash"
       \/ At(a, s, 2, 1) /\ x = "field:derived_from"
       \/ At(a, s, 3, 1) /\ x = "overwrite:supersedes"
       \/ At(a, s, 3, 2) /\ x = "update:wrap"
       \/ At(a, s, 3, 3) /\ x = "update:empty"
       \/ At(a, s, 4, 1) /\ x = "field:occurred_at"
       \/ At(a, s, 4, 2) /\ x = "update:occurred_at"
       \/ At(a, s, 5, 1) /\ x = "field:dedup_key"
       \/ At(a, s, 5, 2) /\ x = "update:all"
       \/ At(a, s, 5, 3) /\ x = "remove:mem_hash"
       \/ At(a, s, 5, 4) /\ x = "index:mem_hash_live"
       \/ a > 4 /\ x \in {"field:writer", "field:novelty", "field:title", "overwrite:kind"}
  BY Places, Zenon DEF x
<1> QED
  BY <1>1, <1>2, <1>3, <1>4, <1>5, <1>6, <1>7, <1>8, <1>9, <1>10, <1>11, <1>12, <1>13, <1>14
-----------------------------------------------------------------------------
(* What a batch left stays *)

\* Nothing that a batch laid down is lost on the way to a later store.
LEMMA LaidStays ==
    ASSUME NEW s, NEW r, NEW t, NEW u, Grows(s, r, t, u)
    PROVE  /\ Cited(s) => Cited(t)
           /\ Listed(s) => Listed(t)
           /\ Wrapped(s, r) => Wrapped(t, u)
           /\ Relisted(s, r) => Relisted(t, u)
           /\ KeyField(s) => KeyField(t)
           /\ AllKeyed(s, r) => AllKeyed(t, u)
           /\ LiveIndex(s) => LiveIndex(t)
<1>1. /\ Cited(s) => Cited(t)
      /\ Listed(s) => Listed(t)
      /\ KeyField(s) => KeyField(t)
      /\ LiveIndex(s) => LiveIndex(t)
  BY DEF Grows, Cited, Listed, KeyField, LiveIndex
<1>2. ASSUME Wrapped(s, r)
      PROVE  Wrapped(t, u)
  <2>1. Listed(t) /\ s.supersedes = "list"
    BY <1>1, <1>2 DEF Wrapped, Listed
  <2>2. ASSUME NEW id \in DOMAIN u
        PROVE  u[id].supersedes # "record"
    <3>1. CASE id \in DOMAIN r
      BY <1>2, <3>1 DEF Wrapped, Grows
    <3>2. CASE id \notin DOMAIN r
      BY <2>1, <3>2 DEF Grows
    <3> QED  BY <3>1, <3>2
  <2> QED  BY <2>1, <2>2 DEF Wrapped
<1>3. ASSUME Relisted(s, r)
      PROVE  Relisted(t, u)
  <2>1. Wrapped(t, u) /\ s.supersedes = "list"
    BY <1>2, <1>3 DEF Relisted, Wrapped, Listed
  <2>2. ASSUME NEW id \in DOMAIN u
        PROVE  u[id].supersedes # None
    <3>1. CASE id \in DOMAIN r
      BY <1>3, <3>1, MigrateAssumption DEF Relisted, Grows
    <3>2. CASE id \notin DOMAIN r
      BY <2>1, <3>2, MigrateAssumption DEF Grows
    <3> QED  BY <3>1, <3>2
  <2> QED  BY <2>1, <2>2 DEF Relisted
<1>4. ASSUME AllKeyed(s, r)
      PROVE  AllKeyed(t, u)
  <2>1. KeyField(t) /\ "dedup_key" \in s.fields
    BY <1>1, <1>4 DEF AllKeyed, KeyField
  <2>2. ASSUME NEW id \in DOMAIN u
        PROVE  u[id].key # None
    <3>1. CASE id \in DOMAIN r
      BY <1>4, <3>1 DEF AllKeyed, Grows
    <3>2. CASE id \notin DOMAIN r
      BY <2>1, <3>2 DEF Grows
    <3> QED  BY <3>1, <3>2
  <2> QED  BY <2>1, <2>2 DEF AllKeyed
<1> QED  BY <1>1, <1>2, <1>3, <1>4

\* No place is passed but those that were.
NoFurther(v, pr, v2, pr2) ==
    \A n \in 1..9 : \A k \in 1..Len(Migrations[n]) : Reached(v2, pr2, n, k) => Reached(v, pr, n, k)

\* The places the invariants name are places of the batches.
LEMMA SpotsKept ==
    ASSUME NEW v, NEW pr, NEW v2, NEW pr2, NoFurther(v, pr, v2, pr2)
    PROVE  /\ Reached(v2, pr2, 2, 1) => Reached(v, pr, 2, 1)
           /\ Reached(v2, pr2, 3, 1) => Reached(v, pr, 3, 1)
           /\ Reached(v2, pr2, 3, 2) => Reached(v, pr, 3, 2)
           /\ Reached(v2, pr2, 3, 3) => Reached(v, pr, 3, 3)
           /\ Reached(v2, pr2, 4, 2) => Reached(v, pr, 4, 2)
           /\ Reached(v2, pr2, 5, 1) => Reached(v, pr, 5, 1)
           /\ Reached(v2, pr2, 5, 2) => Reached(v, pr, 5, 2)
           /\ Reached(v2, pr2, 5, 3) => Reached(v, pr, 5, 3)
           /\ Reached(v2, pr2, 5, 4) => Reached(v, pr, 5, 4)
<1>1. 1 \in 1..Len(Migrations[2]) /\ 2 \in 1..9
  BY Lengths
<1>2. 1 \in 1..Len(Migrations[3]) /\ 2 \in 1..Len(Migrations[3]) /\ 3 \in 1..Len(Migrations[3]) /\ 3 \in 1..9
  BY Lengths
<1>3. 2 \in 1..Len(Migrations[4]) /\ 4 \in 1..9
  BY Lengths
<1>4. /\ 1 \in 1..Len(Migrations[5]) /\ 2 \in 1..Len(Migrations[5])
      /\ 3 \in 1..Len(Migrations[5]) /\ 4 \in 1..Len(Migrations[5]) /\ 5 \in 1..9
  BY Lengths
<1> QED  BY <1>1, <1>2, <1>3, <1>4, Zenon DEF NoFurther

\* A later store keeps the invariant of the batches while nobody gets further.
LEMMA BatchKept ==
    ASSUME NEW v, NEW pr, NEW v2, NEW pr2, NoFurther(v, pr, v2, pr2),
           NEW s, NEW r, NEW t, NEW u, Grows(s, r, t, u), BatchInv(v, pr, s, r)
    PROVE  BatchInv(v2, pr2, t, u)
BY SpotsKept, LaidStays, Zenon DEF BatchInv

-----------------------------------------------------------------------------
(* The processes *)

\* One process that is up moves on or stops.
LEMMA OneMoves ==
    ASSUME NEW v, NEW pr, NEW sh, ProcInv(v, pr, sh), NEW p \in Process, NEW new \in Procs,
           NEW v2 \in 0..9, pr[p].step # "off", Placed(new),
           new.contended = pr[p].contended \/ new = Stopped,
           v >= 1 => v2 >= 1,
           new.step \in UnderWay => (new.at >= 1 => v2 >= 1),
           new.step \in UnderWay /\ ~new.contended => new.at = v2
    PROVE  ProcInv(v2, [pr EXCEPT ![p] = new], sh)
<1> DEFINE pr2 == [pr EXCEPT ![p] = new]
<1>1. /\ pr2 \in [Process -> Procs] /\ pr2[p] = new
      /\ \A q \in Process : q # p => pr2[q] = pr[q]
  BY DEF ProcInv
<1> HIDE DEF pr2
<1>2. \A q \in Process : Placed(pr2[q])
  BY <1>1 DEF ProcInv
<1>3. ASSUME NEW q \in Process, pr2[q].step \in UnderWay, pr2[q].at >= 1
      PROVE  v2 >= 1
  BY <1>1, <1>3 DEF ProcInv
<1>4. ASSUME NEW q \in Process, pr2[q].step # "off", ~pr2[q].contended
      PROVE  Lone(v2, pr2, q)
  <2>1. CASE q = p
    <3>1. ~pr[p].contended
      BY <1>1, <1>4, <2>1 DEF Stopped
    <3>2. \A z \in Process : pr[z].step # "off" => z = p
      BY <3>1 DEF ProcInv, Lone
    <3> QED  BY <1>1, <1>4, <2>1, <3>2 DEF Lone
  <2>2. CASE q # p
    <3>1. Lone(v, pr, q)
      BY <1>1, <1>4, <2>2 DEF ProcInv
    <3> QED  BY <2>2, <3>1 DEF Lone
  <2> QED  BY <2>1, <2>2
<1>5. ASSUME ~sh, NEW q \in Process
      PROVE  ~pr2[q].contended
  BY <1>1, <1>5 DEF ProcInv, Stopped
<1>6. ProcInv(v2, pr2, sh)
  BY <1>1, <1>2, <1>3, <1>4, <1>5 DEF ProcInv
<1> QED  BY <1>6 DEF pr2

\* What a process that moved has passed is what it had passed.
LEMMA OnePasses ==
    ASSUME NEW v, NEW pr, NEW v2, NEW p \in Process, NEW new, pr \in [Process -> Procs],
           \A n \in 1..9 : \A k \in 1..Len(Migrations[n]) :
              /\ v2 >= n => Reached(v, pr, n, k)
              /\ Passed(new, n, k) => Reached(v, pr, n, k)
    PROVE  NoFurther(v, pr, v2, [pr EXCEPT ![p] = new])
<1> DEFINE pr2 == [pr EXCEPT ![p] = new]
<1> SUFFICES ASSUME NEW n \in 1..9, NEW k \in 1..Len(Migrations[n]), Reached(v2, pr2, n, k)
             PROVE  Reached(v, pr, n, k)
  BY DEF NoFurther
<1>1. pr2[p] = new /\ \A q \in Process : q # p => pr2[q] = pr[q]
  OBVIOUS
<1> HIDE DEF pr2
<1>2. CASE v2 >= n
  BY <1>2
<1>3. CASE \E q \in Process : Passed(pr2[q], n, k)
  <2>1. PICK q \in Process : Passed(pr2[q], n, k)
    BY <1>3
  <2>2. CASE q = p
    BY <1>1, <2>1, <2>2
  <2>3. CASE q # p
    <3>1. Passed(pr[q], n, k)
      BY <1>1, <2>1, <2>3
    <3> QED  BY <3>1 DEF Reached
  <2> QED  BY <2>2, <2>3
<1> QED  BY <1>2, <1>3 DEF Reached
-----------------------------------------------------------------------------
(* The steps *)

\* A step of the processes alone leaves the store as it was.
LEMMA StoreRests ==
    ASSUME MigrateInv, UNCHANGED <<shared, schema, memory>>,
           ProcInv(version', proc', shared), NoFurther(version, proc, version', proc'),
           version' = 0 => version = 0, RerunIsSafe'
    PROVE  MigrateInv'
<1>1. Grows(schema, memory, schema', memory')
  BY DEF Grows
<1>2. BatchInv(version', proc', schema', memory')
  BY <1>1, BatchKept DEF MigrateInv
<1>3. ~shared => OwnInv(version', proc', schema', memory')
  BY SpotsKept DEF MigrateInv, OwnInv
<1>4. Sound(schema', memory') /\ (version' = 0 => DOMAIN memory' = {})
  BY DEF MigrateInv
<1> QED  BY <1>2, <1>3, <1>4 DEF MigrateInv

\* Opening disturbs those who are there, and moves nobody.
LEMMA OpenStoreStep ==
    ASSUME MigrateInv, NEW p \in Process, OpenStore(p)
    PROVE  MigrateInv'
<1>1. PICK b \in Binaries :
         proc' = [q \in Process |->
                    IF q = p THEN [Stopped EXCEPT !.step = "gate", !.binary = b,
                                                  !.contended = \E r \in Process : Up(r)]
                    ELSE IF Up(q) THEN [proc[q] EXCEPT !.contended = TRUE] ELSE proc[q]]
  BY DEF OpenStore
<1>2. UNCHANGED <<shared, schema, version, memory>>
  BY DEF OpenStore
<1>b. b \in 0..9
  BY MigrateAssumption, Batches
<1>t. proc \in [Process -> Procs]
  BY DEF MigrateInv, ProcInv
<1> DEFINE busy == \E r \in Process : Up(r)
<1>3. /\ proc'[p].step = "gate" /\ proc'[p].binary = b /\ proc'[p].contended = busy
      /\ proc'[p] \in Procs
  <2>1. proc'[p] = [Stopped EXCEPT !.step = "gate", !.binary = b, !.contended = busy]
    BY <1>1
  <2>2. busy \in BOOLEAN
    OBVIOUS
  <2> HIDE DEF busy
  <2>3. proc'[p] = [step |-> "gate", binary |-> b, at |-> 0, statement |-> 0, contended |-> busy]
    BY <2>1 DEF Stopped
  <2> QED  BY <1>b, <2>2, <2>3 DEF Procs
<1>4. ASSUME NEW q \in Process, q # p
      PROVE  /\ proc'[q] \in Procs
             /\ proc'[q].step = proc[q].step /\ proc'[q].binary = proc[q].binary
             /\ proc'[q].at = proc[q].at /\ proc'[q].statement = proc[q].statement
             /\ proc[q].step # "off" => proc'[q].contended = TRUE
             /\ proc[q].step = "off" => proc'[q] = proc[q]
  <2>1. CASE Up(q)
    <3>1. proc'[q] = [proc[q] EXCEPT !.contended = TRUE]
      BY <1>1, <1>4, <2>1
    <3> QED  BY <1>t, <2>1, <3>1 DEF Procs, Up
  <2>2. CASE ~Up(q)
    <3>1. proc'[q] = proc[q]
      BY <1>1, <1>4, <2>2
    <3> QED  BY <1>t, <2>2, <3>1 DEF Up
  <2> QED  BY <2>1, <2>2
<1>5. proc' \in [Process -> Procs]
  BY <1>1, <1>3, <1>4
<1>6. NoFurther(version, proc, version', proc')
  <2> SUFFICES ASSUME NEW n \in 1..9, NEW k \in 1..Len(Migrations[n]),
                      Reached(version, proc', n, k)
               PROVE  Reached(version, proc, n, k)
    BY <1>2 DEF NoFurther
  <2>1. ASSUME NEW q \in Process, Passed(proc'[q], n, k)
        PROVE  Passed(proc[q], n, k)
    <3>1. q # p
      BY <1>3, <2>1 DEF Passed, UnderWay
    <3> QED  BY <1>4, <2>1, <3>1 DEF Passed
  <2> QED  BY <2>1 DEF Reached
<1>7. \A q \in Process : Placed(proc'[q])
  <2>1. Placed(proc'[p])
    BY <1>3 DEF Placed
  <2>2. ASSUME NEW q \in Process, q # p
        PROVE  Placed(proc'[q])
    <3>1. Placed(proc[q])
      BY DEF MigrateInv, ProcInv
    <3> QED  BY <1>4, <2>2, <3>1 DEF Placed
  <2> QED  BY <2>1, <2>2
<1>8. ASSUME NEW q \in Process, proc'[q].step \in UnderWay, proc'[q].at >= 1
      PROVE  version >= 1
  <2>1. q # p
    BY <1>3, <1>8 DEF UnderWay
  <2> QED  BY <1>4, <1>8, <2>1 DEF MigrateInv, ProcInv
<1>9. ASSUME NEW q \in Process, proc'[q].step # "off", ~proc'[q].contended
      PROVE  Lone(version, proc', q)
  <2>1. q = p
    BY <1>4, <1>9
  <2>2. ~busy
    BY <1>3, <1>9, <2>1
  <2>3. \A z \in Process : proc[z].step = "off"
    BY <2>2 DEF Up
  <2>4. \A z \in Process : z # p => proc'[z].step = "off"
    BY <1>4, <2>3
  <2> QED  BY <1>3, <2>1, <2>4 DEF Lone, UnderWay
<1>10. ASSUME ~shared, NEW q \in Process
       PROVE  ~proc'[q].contended
  <2>1. \A z \in Process : ~Up(z)
    BY <1>10 DEF OpenStore
  <2>2. CASE q = p
    BY <1>3, <2>1, <2>2
  <2>3. CASE q # p
    <3>1. proc'[q] = proc[q]
      BY <1>4, <2>1, <2>3 DEF Up
    <3> QED  BY <1>10, <3>1 DEF MigrateInv, ProcInv
  <2> QED  BY <2>2, <2>3
<1>11. ProcInv(version', proc', shared)
  <2>1. version \in 0..9
    BY DEF MigrateInv, ProcInv
  <2> QED  BY <1>2, <1>5, <1>7, <1>8, <1>9, <1>10, <2>1 DEF ProcInv
<1>12. RerunIsSafe'
  <2> SUFFICES ASSUME NEW q \in Process, proc'[q].step \in {"erring", "failed"}
               PROVE  proc'[q].contended
    BY DEF RerunIsSafe
  <2>1. q # p
    BY <1>3
  <2> QED  BY <1>4, <2>1
<1> QED  BY <1>2, <1>6, <1>11, <1>12, StoreRests

\* A process finds the version: it has passed what the version has.
LEMMA ReadVersionStep ==
    ASSUME MigrateInv, NEW p \in Process, ReadVersion(p)
    PROVE  MigrateInv'
<1> DEFINE step == CASE version > proc[p].binary -> "refused"
                     [] version = proc[p].binary -> "serving"
                     [] OTHER -> "migrate"
           new == [proc[p] EXCEPT !.step = step, !.at = version, !.statement = 1]
<1>t. /\ proc \in [Process -> Procs] /\ version \in 0..9 /\ Placed(proc[p])
      /\ ProcInv(version, proc, shared)
  BY DEF MigrateInv, ProcInv
<1>1. proc[p].step = "gate" /\ UNCHANGED <<shared, schema, version, memory>>
  BY DEF ReadVersion
<1>m. proc' = [proc EXCEPT ![p].step = step, ![p].at = version, ![p].statement = 1]
  BY DEF ReadVersion
<1>3. proc[p] \in Procs /\ proc[p].binary \in 0..9 /\ proc[p].contended \in BOOLEAN
  BY <1>t DEF Procs
<1>b. proc[p].binary \in 1..9
  BY <1>t, <1>1, MigrateAssumption, Batches DEF Placed
<1>4. /\ step \in {"refused", "serving", "migrate"}
      /\ step = "serving" => version = proc[p].binary
      /\ step = "migrate" => version < proc[p].binary
  BY <1>t, <1>3
<1> HIDE DEF step
<1>2. proc' = [proc EXCEPT ![p] = new]
  BY <1>t, <1>m DEF Procs
<1>5. /\ new \in Procs /\ new.step = step /\ new.at = version /\ new.statement = 1
      /\ new.binary = proc[p].binary /\ new.contended = proc[p].contended
  BY <1>t, <1>3, <1>4 DEF Procs
<1> HIDE DEF new
<1>6. Placed(new)
  <2>1. step = "migrate" => new.statement \in 1..(Len(Migrations[new.at + 1]) + 1)
    <3> SUFFICES ASSUME step = "migrate"
                 PROVE  new.statement \in 1..(Len(Migrations[new.at + 1]) + 1)
      OBVIOUS
    <3>1. version \in 0..8
      BY <1>t, <1>b, <1>4
    <3> QED  BY <1>5, <3>1, SomeLength
  <2>2. new.binary \in Binaries
    BY <1>t, <1>1, <1>5 DEF Placed
  <2> QED  BY <1>4, <1>5, <2>1, <2>2 DEF Placed
<1>7. ProcInv(version', proc', shared)
  BY <1>t, <1>1, <1>2, <1>5, <1>6, OneMoves
<1>8. NoFurther(version, proc, version', proc')
  <2>1. ASSUME NEW n \in 1..9, NEW k \in 1..Len(Migrations[n])
        PROVE  /\ version >= n => Reached(version, proc, n, k)
               /\ Passed(new, n, k) => Reached(version, proc, n, k)
    <3>1. k >= 1
      OBVIOUS
    <3> QED  BY <1>5, <3>1 DEF Reached, Passed
  <2> QED  BY <1>t, <1>1, <1>2, <2>1, OnePasses
<1>9. RerunIsSafe'
  <2> SUFFICES ASSUME NEW q \in Process, proc'[q].step \in {"erring", "failed"}
               PROVE  proc'[q].contended
    BY DEF RerunIsSafe
  <2>1. q # p
    BY <1>t, <1>2, <1>4, <1>5
  <2> QED  BY <1>t, <1>2, <2>1 DEF MigrateInv, RerunIsSafe
<1> QED  BY <1>1, <1>7, <1>8, <1>9, StoreRests

\* The version is written when every statement of the batch is behind.
LEMMA BumpVersionStep ==
    ASSUME MigrateInv, NEW p \in Process, BumpVersion(p)
    PROVE  MigrateInv'
<1> DEFINE step == IF proc[p].at + 1 = proc[p].binary THEN "serving" ELSE "migrate"
           new == [proc[p] EXCEPT !.step = step, !.at = proc[p].at + 1, !.statement = 1]
<1>t. /\ proc \in [Process -> Procs] /\ version \in 0..9 /\ Placed(proc[p])
      /\ ProcInv(version, proc, shared)
  BY DEF MigrateInv, ProcInv
<1>1. /\ proc[p].step = "migrate" /\ UNCHANGED <<shared, schema, memory>>
      /\ version' = proc[p].at + 1 /\ proc[p].statement > Len(Migrations[proc[p].at + 1])
  BY DEF BumpVersion, Batch
<1>2. proc' = [proc EXCEPT ![p] = new]
  BY <1>t DEF BumpVersion, Procs
<1>3. /\ proc[p] \in Procs /\ proc[p].at \in 0..9 /\ proc[p].statement \in Nat
      /\ proc[p].contended \in BOOLEAN
  BY <1>t DEF Procs
<1>b. proc[p].binary \in 1..9 /\ proc[p].binary \in Binaries
  BY <1>t, <1>1, MigrateAssumption, Batches DEF Placed
<1>4. /\ proc[p].at \in 0..8 /\ proc[p].at < proc[p].binary
      /\ step \in {"serving", "migrate"}
      /\ step = "serving" => proc[p].at + 1 = proc[p].binary
      /\ step = "migrate" => proc[p].at + 1 < proc[p].binary
  BY <1>t, <1>b, <1>1, <1>3 DEF Placed
<1>n. proc[p].at + 1 \in 0..9
  BY <1>4
<1> HIDE DEF step
<1>5. /\ new \in Procs /\ new.step = step /\ new.at = proc[p].at + 1 /\ new.statement = 1
      /\ new.binary = proc[p].binary /\ new.contended = proc[p].contended
  BY <1>t, <1>n, <1>3, <1>4 DEF Procs
<1> HIDE DEF new
<1>6. Placed(new)
  <2>1. step = "migrate" => new.statement \in 1..(Len(Migrations[new.at + 1]) + 1)
    <3> SUFFICES ASSUME step = "migrate"
                 PROVE  new.statement \in 1..(Len(Migrations[new.at + 1]) + 1)
      OBVIOUS
    <3>1. proc[p].at + 1 \in 0..8
      BY <1>b, <1>4
    <3>2. Len(Migrations[(proc[p].at + 1) + 1]) \in Nat \ {0}
      BY <3>1, SomeLength
    <3> QED  BY <1>5, <3>2
  <2> QED  BY <1>b, <1>4, <1>5, <2>1 DEF Placed
<1>v. version' \in 0..9 /\ version' >= 1
  BY <1>1, <1>4
<1>7. ProcInv(version', proc', shared)
  <2>1. new.step \in UnderWay /\ ~new.contended => new.at = version'
    BY <1>1, <1>5
  <2> QED  BY <1>t, <1>v, <1>1, <1>2, <1>5, <1>6, <2>1, OneMoves
<1>8. NoFurther(version, proc, version', proc')
  <2>1. ASSUME NEW n \in 1..9, NEW k \in 1..Len(Migrations[n])
        PROVE  /\ version' >= n => Reached(version, proc, n, k)
               /\ Passed(new, n, k) => Reached(version, proc, n, k)
    <3>0. n - 1 \in 0..8 /\ (n - 1) + 1 = n
      OBVIOUS
    <3>1. k >= 1 /\ k \in Nat /\ k <= Len(Migrations[n]) /\ Len(Migrations[n]) \in Nat
      BY <3>0, SomeLength
    <3>2. proc[p].at >= n => Passed(proc[p], n, k)
      BY <1>1 DEF Passed, UnderWay
    <3>3. ASSUME proc[p].at + 1 = n
          PROVE  Passed(proc[p], n, k)
      <4>1. proc[p].statement > Len(Migrations[n]) /\ proc[p].at = n - 1
        BY <1>1, <1>4, <3>3
      <4> QED  BY <1>1, <1>3, <3>1, <4>1 DEF Passed, UnderWay
    <3>4. proc[p].at + 1 >= n => Reached(version, proc, n, k)
      BY <1>4, <3>2, <3>3 DEF Reached
    <3> QED  BY <1>1, <1>4, <1>5, <3>1, <3>4 DEF Passed
  <2> QED  BY <1>t, <1>2, <2>1, OnePasses
<1>9. RerunIsSafe'
  <2> SUFFICES ASSUME NEW q \in Process, proc'[q].step \in {"erring", "failed"}
               PROVE  proc'[q].contended
    BY DEF RerunIsSafe
  <2>1. q # p
    BY <1>t, <1>2, <1>4, <1>5
  <2> QED  BY <1>t, <1>2, <2>1 DEF MigrateInv, RerunIsSafe
<1> QED  BY <1>v, <1>1, <1>7, <1>8, <1>9, StoreRests

\* A process that is gone has passed nothing; the store keeps what it did.
LEMMA StopStep ==
    ASSUME MigrateInv, NEW p \in Process, Quit(p) \/ Kill(p)
    PROVE  MigrateInv'
<1>t. /\ proc \in [Process -> Procs] /\ version \in 0..9
      /\ ProcInv(version, proc, shared)
  BY DEF MigrateInv, ProcInv
<1>1. /\ proc[p].step # "off" /\ UNCHANGED <<shared, schema, version, memory>>
      /\ proc' = [proc EXCEPT ![p] = Stopped]
  BY DEF Quit, Kill
<1>2. Stopped \in Procs /\ Placed(Stopped) /\ Stopped.step \notin UnderWay
  BY DEF Stopped, Procs, Placed, UnderWay
<1>3. ProcInv(version', proc', shared)
  BY <1>t, <1>1, <1>2, OneMoves
<1>4. NoFurther(version, proc, version', proc')
  <2>1. ASSUME NEW n \in 1..9, NEW k \in 1..Len(Migrations[n])
        PROVE  /\ version >= n => Reached(version, proc, n, k)
               /\ Passed(Stopped, n, k) => Reached(version, proc, n, k)
    BY <1>2 DEF Reached, Passed
  <2> QED  BY <1>t, <1>1, <2>1, OnePasses
<1>5. RerunIsSafe'
  <2> SUFFICES ASSUME NEW q \in Process, proc'[q].step \in {"erring", "failed"}
               PROVE  proc'[q].contended
    BY DEF RerunIsSafe
  <2>1. q # p
    BY <1>t, <1>1 DEF Stopped
  <2> QED  BY <1>t, <1>1, <2>1 DEF MigrateInv, RerunIsSafe
<1> QED  BY <1>1, <1>3, <1>4, <1>5, StoreRests
\* A process that has passed statement k of batch n, or the version that has, has
\* the whole of every earlier place behind it.
LEMMA BeforeIt ==
    ASSUME NEW v, NEW pr, NEW p \in Process, NEW sch, NEW table, BatchInv(v, pr, sch, table),
           pr[p] \in Procs, pr[p].step = "migrate"
    PROVE  Before(pr[p].at, pr[p].statement, sch, table)
<1>1. pr[p].at \in Nat /\ pr[p].statement \in Nat
  BY DEF Procs
<1>2. ASSUME NEW n \in Nat, NEW k \in Nat,
             pr[p].at >= n \/ (pr[p].at = n - 1 /\ pr[p].statement > k)
      PROVE  Reached(v, pr, n, k)
  BY <1>2 DEF Reached, Passed, UnderWay
<1>3. /\ pr[p].at >= 2 => Reached(v, pr, 2, 1)
      /\ pr[p].at = 2 /\ pr[p].statement >= 2 => Reached(v, pr, 3, 1)
      /\ pr[p].at = 2 /\ pr[p].statement >= 3 => Reached(v, pr, 3, 2)
      /\ pr[p].at >= 3 => Reached(v, pr, 3, 3)
      /\ pr[p].at = 4 /\ pr[p].statement >= 2 => Reached(v, pr, 5, 1)
  BY <1>1, <1>2
<1> QED  BY <1>3 DEF Before, BatchInv

\* One statement: its own part is done, and nothing else is passed.
LEMMA StatementStep ==
    ASSUME MigrateInv, NEW p \in Process, Statement(p)
    PROVE  MigrateInv'
<1> DEFINE a == proc[p].at
           k == proc[p].statement
           r == Run(Migrations[a + 1][k], schema, memory)
           step == IF r.ok THEN "migrate" ELSE "erring"
           new == [proc[p] EXCEPT !.statement = k + 1, !.step = step]
<1>t. /\ proc \in [Process -> Procs] /\ version \in 0..9 /\ Placed(proc[p])
      /\ ProcInv(version, proc, shared) /\ Sound(schema, memory)
      /\ BatchInv(version, proc, schema, memory)
  BY DEF MigrateInv, ProcInv
<1>0. proc[p].step = "migrate" /\ k <= Len(Migrations[a + 1])
  <2>1. proc[p].step \in {"migrate", "erring"} /\ k <= Len(Migrations[a + 1])
    BY DEF Statement, Batch
  <2>2. proc[p].step # "erring"
    <3> SUFFICES ASSUME proc[p].step = "erring"
                 PROVE  FALSE
      OBVIOUS
    <3>1. proc[p].at = 0 /\ proc[p].statement = Len(Migrations[1]) + 1
      BY <1>t DEF Placed
    <3>2. Len(Migrations[a + 1]) = 2 /\ k = 3
      BY <3>1, Lengths
    <3> QED  BY <2>1, <3>2
  <2> QED  BY <2>1, <2>2
<1>1. /\ proc[p].step = "migrate" /\ UNCHANGED <<shared, version>>
      /\ k <= Len(Migrations[a + 1])
      /\ schema' = r.schema /\ memory' = r.rows
      /\ proc' = [proc EXCEPT ![p].statement = @ + 1, ![p].step = step]
  <2>1. /\ UNCHANGED <<shared, version>> /\ schema' = r.schema /\ memory' = r.rows
        /\ proc' = [proc EXCEPT ![p].statement = @ + 1,
                                ![p].step = IF r.ok THEN @ ELSE "erring"]
    BY DEF Statement, Batch
  <2> HIDE DEF r
  <2> QED  BY <1>0, <2>1
<1>2. /\ proc[p] \in Procs /\ a \in 0..9 /\ k \in Nat /\ proc[p].contended \in BOOLEAN
      /\ proc[p].binary \in 0..9
  BY <1>t DEF Procs
<1>b. proc[p].binary \in 1..9 /\ proc[p].binary \in Binaries
  BY <1>t, <1>1, MigrateAssumption, Batches DEF Placed
<1>3. a \in 0..8 /\ a < proc[p].binary /\ k \in 1..(Len(Migrations[a + 1]) + 1)
  <2>1. a < proc[p].binary /\ k \in 1..(Len(Migrations[a + 1]) + 1)
    BY <1>t, <1>1 DEF Placed
  <2>2. a \in 0..8
    BY <1>b, <1>2, <2>1
  <2> QED  BY <2>1, <2>2
<1>l. Len(Migrations[a + 1]) \in Nat \ {0}
  BY <1>3, SomeLength
<1>4. k \in 1..Len(Migrations[a + 1])
  BY <1>l, <1>1, <1>2, <1>3
<1>5. Before(a, k, schema, memory)
  BY <1>t, <1>1, <1>2, BeforeIt
<1>6. Ran(a, k, schema, memory, r)
  BY <1>t, <1>3, <1>4, <1>5, RunAfter
<1>7. proc' = [proc EXCEPT ![p] = new]
  <2> HIDE DEF step, r
  <2> QED  BY <1>t, <1>1 DEF Procs
<1> HIDE DEF r
<1>8. /\ step \in {"migrate", "erring"}
      /\ step = "erring" => At(a, k, 1, 2) /\ ~Indexed(memory, "mem_hash")
  BY <1>6 DEF Ran
<1> HIDE DEF step
<1>n. k + 1 \in Nat
  BY <1>2
<1>9. /\ new \in Procs /\ new.step = step /\ new.at = a /\ new.statement = k + 1
      /\ new.binary = proc[p].binary /\ new.contended = proc[p].contended
  <2> DEFINE m == k + 1
  <2>1. m \in Nat /\ new = [proc[p] EXCEPT !.statement = m, !.step = step]
    BY <1>n
  <2> HIDE DEF m, new
  <2>2. /\ new \in Procs /\ new.step = step /\ new.at = a /\ new.statement = m
        /\ new.binary = proc[p].binary /\ new.contended = proc[p].contended
    BY <1>2, <1>8, <2>1 DEF Procs
  <2> QED  BY <2>2 DEF m
<1> HIDE DEF new
<1>10. ProcInv(version', proc', shared)
  <2>1. Placed(new)
    <3>1. step = "migrate" => a < proc[p].binary /\ k + 1 \in 1..(Len(Migrations[a + 1]) + 1)
      BY <1>l, <1>3, <1>4
    <3>2. step = "erring" => a = 0 /\ k + 1 = Len(Migrations[1]) + 1
      BY <1>8, Lengths DEF At
    <3> QED  BY <1>b, <1>8, <1>9, <3>1, <3>2 DEF Placed
  <2>2. proc[p].at >= 1 => version >= 1
    BY <1>t, <1>1 DEF ProcInv, UnderWay
  <2>3. ~proc[p].contended => proc[p].at = version
    BY <1>t, <1>1 DEF ProcInv, Lone, UnderWay
  <2>4. /\ proc[p].step # "off" /\ new \in Procs /\ new.contended = proc[p].contended
        /\ new.at >= 1 => version >= 1
        /\ ~new.contended => new.at = version
    BY <1>1, <1>9, <2>2, <2>3
  <2> HIDE DEF a, k
  <2>5. ProcInv(version, [proc EXCEPT ![p] = new], shared)
    BY <1>t, <2>1, <2>4, OneMoves
  <2> QED  BY <1>1, <1>7, <2>5
<1>11. ASSUME NEW n \in 1..9, NEW j \in Nat, Reached(version', proc', n, j)
       PROVE  Reached(version, proc, n, j) \/ At(a, k, n, j)
  <2>1. CASE version' >= n
    BY <1>1, <2>1 DEF Reached
  <2>2. CASE \E q \in Process : Passed(proc'[q], n, j)
    <3>1. PICK q \in Process : Passed(proc'[q], n, j)
      BY <2>2
    <3>2. CASE q # p
      <4>1. proc'[q] = proc[q]
        BY <1>t, <1>7, <3>2
      <4> QED  BY <3>1, <4>1 DEF Reached
    <3>3. CASE q = p
      <4>1. proc'[q] = new
        BY <1>t, <1>7, <3>3
      <4>2. a >= n \/ (a = n - 1 /\ k + 1 > j)
        BY <1>9, <3>1, <4>1 DEF Passed
      <4>3. a >= n \/ (a = n - 1 /\ k > j) \/ At(a, k, n, j)
        BY <1>2, <4>2 DEF At
      <4>4. a >= n \/ (a = n - 1 /\ k > j) => Passed(proc[p], n, j)
        BY <1>1 DEF Passed, UnderWay
      <4> QED  BY <4>3, <4>4 DEF Reached
    <3> QED  BY <3>2, <3>3
  <2> QED  BY <1>11, <2>1, <2>2 DEF Reached
<1>12. BatchInv(version', proc', schema', memory')
  <2>1. Grows(schema, memory, schema', memory')
    BY <1>1, <1>6 DEF Ran
  <2>2. /\ Reached(version', proc', 2, 1) => Reached(version, proc, 2, 1) \/ At(a, k, 2, 1)
        /\ Reached(version', proc', 3, 1) => Reached(version, proc, 3, 1) \/ At(a, k, 3, 1)
        /\ Reached(version', proc', 3, 2) => Reached(version, proc, 3, 2) \/ At(a, k, 3, 2)
        /\ Reached(version', proc', 3, 3) => Reached(version, proc, 3, 3) \/ At(a, k, 3, 3)
        /\ Reached(version', proc', 5, 1) => Reached(version, proc, 5, 1) \/ At(a, k, 5, 1)
        /\ Reached(version', proc', 5, 2) => Reached(version, proc, 5, 2) \/ At(a, k, 5, 2)
        /\ Reached(version', proc', 5, 4) => Reached(version, proc, 5, 4) \/ At(a, k, 5, 4)
    BY <1>11
  <2> HIDE DEF a, k
  <2>3. /\ At(a, k, 2, 1) => Cited(schema')
        /\ At(a, k, 3, 1) => Listed(schema')
        /\ At(a, k, 3, 2) => Wrapped(schema', memory')
        /\ At(a, k, 3, 3) => Relisted(schema', memory')
        /\ At(a, k, 5, 1) => KeyField(schema')
        /\ At(a, k, 5, 2) => AllKeyed(schema', memory')
        /\ At(a, k, 5, 4) => LiveIndex(schema')
    BY <1>1, <1>6 DEF Ran
  <2>4. /\ Cited(schema) => Cited(schema')
        /\ Listed(schema) => Listed(schema')
        /\ Wrapped(schema, memory) => Wrapped(schema', memory')
        /\ Relisted(schema, memory) => Relisted(schema', memory')
        /\ KeyField(schema) => KeyField(schema')
        /\ AllKeyed(schema, memory) => AllKeyed(schema', memory')
        /\ LiveIndex(schema) => LiveIndex(schema')
    BY <2>1, LaidStays
  <2> QED  BY <1>t, <2>2, <2>3, <2>4 DEF BatchInv
<1>13. ASSUME ~shared
       PROVE  OwnInv(version', proc', schema', memory')
  <2>1. OwnInv(version, proc, schema, memory)
    BY <1>13 DEF MigrateInv
  <2>2. Lone(version, proc, p)
    BY <1>t, <1>1, <1>13 DEF ProcInv
  <2>3. ASSUME Reached(version', proc', 4, 2), NEW id \in DOMAIN memory'
        PROVE  memory'[id].occurred_at
    <3>1. Reached(version, proc, 4, 2) \/ At(a, k, 4, 2)
      BY <1>11, <2>3
    <3>2. id \in DOMAIN memory
      BY <1>1, <1>6, <2>3 DEF Ran
    <3>3. memory[id].occurred_at = TRUE \/ At(a, k, 4, 2)
      <4>1. CASE Reached(version, proc, 4, 2)
        <5>1. memory[id].occurred_at
          BY <2>1, <3>2, <4>1 DEF OwnInv
        <5>2. memory[id].occurred_at \in BOOLEAN
          BY <1>t, <3>2, RowOf DEF Rows
        <5> QED  BY <5>1, <5>2
      <4> QED  BY <3>1, <4>1
    <3> QED  BY <1>1, <1>6, <3>2, <3>3 DEF Ran
  <2>4. ASSUME Reached(version', proc', 5, 3), "mem_hash" \in schema'.indexes
        PROVE  FALSE
    <3>1. /\ ~At(a, k, 5, 3)
          /\ "mem_hash" \in schema.indexes \/ At(a, k, 1, 2)
      BY <1>1, <1>6, <2>4 DEF Ran
    <3>2. Reached(version, proc, 5, 3)
      BY <1>11, <2>4, <3>1
    <3>3. a = 0 /\ version = 0
      BY <2>1, <2>2, <3>1, <3>2, <1>1 DEF OwnInv, At, Lone, UnderWay
    <3>4. PICK q \in Process : Passed(proc[q], 5, 3)
      BY <3>2, <3>3 DEF Reached
    <3>5. q = p
      BY <2>2, <3>4 DEF Lone, Passed, UnderWay
    <3> QED  BY <3>3, <3>4, <3>5 DEF Passed
  <2> QED  BY <2>3, <2>4 DEF OwnInv
<1>14. RerunIsSafe'
  <2> SUFFICES ASSUME NEW q \in Process, proc'[q].step \in {"erring", "failed"}
               PROVE  proc'[q].contended
    BY DEF RerunIsSafe
  <2>1. CASE q # p
    BY <1>t, <1>7, <2>1 DEF MigrateInv, RerunIsSafe
  <2>2. CASE q = p
    <3>1. proc'[q] = new /\ step = "erring"
      BY <1>t, <1>7, <1>8, <1>9, <2>2
    <3>2. a = 0 /\ ~Indexed(memory, "mem_hash")
      BY <1>8, <3>1 DEF At
    <3>3. ~proc[p].contended => version = 0
      BY <1>t, <1>1, <3>2 DEF ProcInv, Lone, UnderWay
    <3>4. version = 0 => Indexed(memory, "mem_hash")
      BY DEF MigrateInv, Indexed
    <3> QED  BY <1>2, <1>9, <3>1, <3>2, <3>3, <3>4
  <2> QED  BY <2>1, <2>2
<1>15. Sound(schema', memory') /\ DOMAIN memory' = DOMAIN memory
  BY <1>1, <1>6 DEF Ran
<1> QED  BY <1>1, <1>10, <1>12, <1>13, <1>14, <1>15 DEF MigrateInv

\* The end of a batch one of whose statements failed: nothing is passed.
LEMMA BatchFailsStep ==
    ASSUME MigrateInv, NEW p \in Process, BatchFails(p)
    PROVE  MigrateInv'
<1> DEFINE new == [proc[p] EXCEPT !.step = "failed"]
<1>t. /\ proc \in [Process -> Procs] /\ version \in 0..9 /\ proc[p] \in Procs
      /\ ProcInv(version, proc, shared) /\ Placed(proc[p]) /\ RerunIsSafe
  BY DEF MigrateInv, ProcInv
<1>1. /\ proc[p].step = "erring" /\ UNCHANGED <<shared, schema, version, memory>>
      /\ proc' = [proc EXCEPT ![p].step = "failed"]
  BY DEF BatchFails
<1>2. proc' = [proc EXCEPT ![p] = new]
  BY <1>t, <1>1
<1>3. /\ new \in Procs /\ new.step = "failed" /\ new.binary = proc[p].binary
      /\ new.contended = proc[p].contended
  BY <1>t DEF Procs
<1> HIDE DEF new
<1>4. Placed(new) /\ new.step \notin UnderWay
  BY <1>t, <1>1, <1>3 DEF Placed, UnderWay
<1>5. ProcInv(version', proc', shared)
  <2>1. proc[p].step # "off" /\ (version >= 1 => version >= 1)
    BY <1>1
  <2>2. ProcInv(version, [proc EXCEPT ![p] = new], shared)
    BY <1>t, <1>3, <1>4, <2>1, OneMoves
  <2> QED  BY <1>1, <1>2, <2>2
<1>6. NoFurther(version, proc, version', proc')
  <2>1. ASSUME NEW n \in 1..9, NEW k \in 1..Len(Migrations[n])
        PROVE  /\ version >= n => Reached(version, proc, n, k)
               /\ Passed(new, n, k) => Reached(version, proc, n, k)
    <3>1. ~Passed(new, n, k)
      BY <1>4 DEF Passed
    <3> QED  BY <3>1 DEF Reached
  <2>2. NoFurther(version, proc, version, [proc EXCEPT ![p] = new])
    BY <1>t, <2>1, OnePasses
  <2> QED  BY <1>1, <1>2, <2>2
<1>7. RerunIsSafe'
  <2> SUFFICES ASSUME NEW q \in Process, proc'[q].step \in {"erring", "failed"}
               PROVE  proc'[q].contended
    BY DEF RerunIsSafe
  <2>1. CASE q = p
    BY <1>t, <1>1, <1>2, <1>3, <2>1 DEF RerunIsSafe
  <2>2. CASE q # p
    BY <1>t, <1>2, <2>2 DEF RerunIsSafe
  <2> QED  BY <2>1, <2>2
<1> QED  BY <1>1, <1>5, <1>6, <1>7, StoreRests

\* A step of the rows alone: the processes stand where they stood.
LEMMA ProcessesRest ==
    ASSUME MigrateInv, NEW p \in Process, proc[p].step = "serving",
           UNCHANGED <<shared, schema, version, proc>>,
           Sound(schema, memory'), Grows(schema, memory, schema, memory'),
           ~shared => (Reached(version, proc, 4, 2) => \A id \in DOMAIN memory' : memory'[id].occurred_at)
    PROVE  MigrateInv'
<1>1. NoFurther(version, proc, version', proc')
  BY DEF NoFurther
<1>2. BatchInv(version', proc', schema', memory')
  BY <1>1, BatchKept DEF MigrateInv
<1>3. ~shared => OwnInv(version', proc', schema', memory')
  BY DEF MigrateInv, OwnInv
<1>4. version # 0
  <2>0. Placed(proc[p])
    BY DEF MigrateInv, ProcInv
  <2>1. proc[p].at \in 1..9
    BY <2>0, MigrateAssumption, Batches DEF Placed
  <2> QED  BY <2>1 DEF MigrateInv, ProcInv, UnderWay
<1>5. ProcInv(version', proc', shared') /\ RerunIsSafe'
  BY DEF MigrateInv, RerunIsSafe
<1> QED  BY <1>2, <1>3, <1>4, <1>5 DEF MigrateInv
\* A CREATE of any version fits the store it is made in.
LEMMA CreateStep ==
    ASSUME MigrateInv, NEW p \in Process, Create(p)
    PROVE  MigrateInv'
<1> DEFINE b == proc[p].binary
           link(c) == IF b >= 3 THEN "list" ELSE IF c THEN "record" ELSE None
           plain(h, c) ==
             [hash |-> h, live |-> TRUE, closed_at |-> None, key |-> None,
              supersedes |-> IF link(c) = None /\ schema.supersedes = "list" THEN "list" ELSE link(c),
              derived_from |-> IF b >= 2 \/ "derived_from" \in schema.fields THEN "list" ELSE None,
              occurred_at |-> b >= 4]
<1>1. PICK h \in Hash, c \in BOOLEAN :
         /\ ~Known(b, h) /\ Coerces(Rekeyed(plain(h, c), schema), schema)
         /\ memory' = Append(memory, Rekeyed(plain(h, c), schema))
  BY DEF Create
<1>2. proc[p].step = "serving" /\ UNCHANGED <<shared, schema, version, proc>>
  BY DEF Create
<1>t. /\ proc \in [Process -> Procs] /\ version \in 0..9 /\ Placed(proc[p])
      /\ ProcInv(version, proc, shared) /\ Sound(schema, memory) /\ memory \in Seq(Rows)
  BY DEF MigrateInv, ProcInv, Sound
<1>b. b \in 1..9 /\ proc[p].at = b /\ proc[p].statement = 1
  BY <1>t, <1>2, MigrateAssumption, Batches DEF Placed
<1>3. /\ plain(h, c) \in Rows /\ plain(h, c).hash = h /\ plain(h, c).live = TRUE
      /\ plain(h, c).closed_at = None /\ plain(h, c).key = None
      /\ plain(h, c).supersedes = "list" => plain(h, c).derived_from = "list"
      /\ b >= 4 => plain(h, c).occurred_at = TRUE
  <2> DEFINE l == IF link(c) = None /\ schema.supersedes = "list" THEN "list" ELSE link(c)
             d == IF b >= 2 \/ "derived_from" \in schema.fields THEN "list" ELSE None
             o == b >= 4
  <2>1. l \in {None, "record", "list"} /\ d \in {None, "list"} /\ o \in BOOLEAN
    OBVIOUS
  <2>2. l = "list" => d = "list"
    BY <1>b, <1>t, MigrateAssumption DEF Sound
  <2>3. b >= 4 => o = TRUE
    OBVIOUS
  <2>4. plain(h, c) = [hash |-> h, live |-> TRUE, closed_at |-> None, key |-> None,
                       supersedes |-> l, derived_from |-> d, occurred_at |-> o]
    OBVIOUS
  <2> HIDE DEF l, d, o, plain, b
  <2> QED  BY <2>1, <2>2, <2>3, <2>4 DEF Rows
<1> DEFINE row == Rekeyed(plain(h, c), schema)
<1>4. /\ row \in Rows /\ row.hash = h /\ row.live = TRUE
      /\ row.key = IF "dedup_key" \in schema.fields THEN 0 ELSE None
      /\ row.supersedes = "list" => row.derived_from = "list"
      /\ b >= 4 => row.occurred_at = TRUE
  <2> DEFINE q == plain(h, c)
  <2> HIDE DEF b
  <2>1. /\ q \in Rows /\ q.hash = h /\ q.live = TRUE
        /\ q.closed_at = None /\ q.key = None
        /\ q.supersedes = "list" => q.derived_from = "list"
        /\ b >= 4 => q.occurred_at = TRUE
    BY <1>3
  <2> HIDE DEF q
  <2>2. LET z == Rekeyed(q, schema) IN
        /\ z \in Rows /\ z.hash = q.hash /\ z.live = q.live
        /\ z.supersedes = q.supersedes /\ z.derived_from = q.derived_from
        /\ z.occurred_at = q.occurred_at
        /\ "dedup_key" \notin schema.fields => z.key = q.key
        /\ "dedup_key" \in schema.fields => z.key = IF q.live THEN 0 ELSE 0
    BY <2>1, RekeyedRow
  <2>3. row = Rekeyed(q, schema)
    BY DEF q
  <2> HIDE DEF row
  <2> QED  BY <2>1, <2>2, <2>3
<1>5. ~Known(b, h) /\ Coerces(row, schema) /\ memory' = Append(memory, row)
  BY <1>1
<1> HIDE DEF row, plain, link, b
<1> DEFINE n == Len(memory)
<1>6. /\ n \in Nat /\ DOMAIN memory = 1..n /\ memory' \in Seq(Rows)
      /\ DOMAIN memory' = 1..(n + 1)
      /\ \A id \in 1..n : memory'[id] = memory[id]
      /\ memory'[n + 1] = row
  BY <1>t, <1>4, <1>5, LenProperties, AppendProperties
<1> HIDE DEF n
<1>7. DOMAIN memory \subseteq DOMAIN memory' /\ n + 1 \in DOMAIN memory' /\ n + 1 \notin DOMAIN memory
      /\ \A id \in DOMAIN memory' : id \in DOMAIN memory \/ id = n + 1
  BY <1>6
<1>8. \A id \in DOMAIN memory : memory'[id] = memory[id]
  BY <1>6
<1>9. \A id \in DOMAIN memory : memory[id] \in Rows
  BY <1>t, RowOf
<1>10. Keyed(memory')
  <2>1. Keyed(memory)
    BY <1>t DEF Sound
  <2>2. /\ ~row.live => row.closed_at = n + 1
        /\ row.key # None => row.key = IF row.live THEN 0 ELSE n + 1
    BY <1>4
  <2> QED  BY <1>6, <1>7, <1>8, <2>1, <2>2 DEF Keyed
<1>11. OneLive(memory')
  <2>1. ASSUME NEW id \in DOMAIN memory, memory[id].hash = h
        PROVE  ~memory[id].live
    BY <1>5, <2>1 DEF Known
  <2>2. ASSUME NEW x \in DOMAIN memory', NEW y \in DOMAIN memory', x # y,
               memory'[x].hash = memory'[y].hash
        PROVE  ~(memory'[x].live /\ memory'[y].live)
    <3>1. CASE x \in DOMAIN memory /\ y \in DOMAIN memory
      BY <1>t, <1>8, <2>2, <3>1 DEF Sound, OneLive
    <3>2. CASE x = n + 1
      <4>1. y \in DOMAIN memory /\ memory'[x] = row
        BY <1>6, <1>7, <2>2, <3>2
      <4>2. memory[y].hash = h
        BY <1>4, <1>8, <2>2, <4>1
      <4> QED  BY <1>8, <2>1, <4>1, <4>2
    <3>3. CASE y = n + 1
      <4>1. x \in DOMAIN memory /\ memory'[y] = row
        BY <1>6, <1>7, <2>2, <3>3
      <4>2. memory[x].hash = h
        BY <1>4, <1>8, <2>2, <4>1
      <4> QED  BY <1>8, <2>1, <4>1, <4>2
    <3> QED  BY <1>7, <2>2, <3>1, <3>2, <3>3
  <2> QED  BY <2>2 DEF OneLive
<1>12. Linked(memory')
  <2>1. Linked(memory)
    BY <1>t DEF Sound
  <2> QED  BY <1>4, <1>6, <1>7, <1>8, <2>1 DEF Linked
<1>13. "dedup_key" \in schema.fields \/ \A id \in DOMAIN memory' : memory'[id].key = None
  BY <1>t, <1>4, <1>6, <1>7, <1>8 DEF Sound
<1>14. Sound(schema, memory')
  BY <1>t, <1>6, <1>10, <1>11, <1>12, <1>13 DEF Sound
<1>15. Grows(schema, memory, schema, memory')
  <2>1. schema.supersedes = "list" => row.supersedes = "list"
    BY <1>5 DEF Coerces
  <2>2. "dedup_key" \in schema.fields => row.key # None
    BY <1>4, MigrateAssumption
  <2>3. ASSUME NEW id \in DOMAIN memory' \ DOMAIN memory
        PROVE  memory'[id] = row
    BY <1>6, <1>7
  <2> QED  BY <1>7, <1>8, <2>1, <2>2, <2>3 DEF Grows
<1>16. ASSUME ~shared, Reached(version, proc, 4, 2), NEW id \in DOMAIN memory'
       PROVE  memory'[id].occurred_at
  <2>1. CASE id \in DOMAIN memory
    BY <1>8, <1>16, <2>1 DEF MigrateInv, OwnInv
  <2>2. CASE id = n + 1
    <3>1. Lone(version, proc, p)
      BY <1>t, <1>2, <1>16 DEF ProcInv
    <3>2. proc[p].at = version
      BY <1>2, <3>1 DEF Lone, UnderWay
    <3>3. b >= 4
      <4>1. CASE version >= 4
        BY <1>b, <3>2, <4>1
      <4>2. CASE \E q \in Process : Passed(proc[q], 4, 2)
        <5>1. PICK q \in Process : Passed(proc[q], 4, 2)
          BY <4>2
        <5>2. q = p
          BY <3>1, <5>1 DEF Lone, Passed, UnderWay
        <5> QED  BY <1>b, <5>1, <5>2 DEF Passed
      <4> QED  BY <1>16, <4>1, <4>2 DEF Reached
    <3> QED  BY <1>4, <1>6, <2>2, <3>3
  <2> QED  BY <1>7, <2>1, <2>2
<1> QED  BY <1>2, <1>14, <1>15, <1>16, ProcessesRest

\* A row that is closed leaves the others, and frees its content.
LEMMA CloseRowStep ==
    ASSUME MigrateInv, NEW p \in Process, CloseRow(p)
    PROVE  MigrateInv'
<1> DEFINE closed(id) == [memory[id] EXCEPT !.live = FALSE, !.closed_at = id]
<1>1. PICK id \in DOMAIN memory :
         /\ memory[id].live /\ Coerces(memory[id], schema)
         /\ memory' = [memory EXCEPT ![id] = Rekeyed(closed(id), schema)]
  BY DEF CloseRow
<1>2. proc[p].step = "serving" /\ UNCHANGED <<shared, schema, version, proc>>
  BY DEF CloseRow
<1>t. Sound(schema, memory) /\ memory \in Seq(Rows)
  BY DEF MigrateInv, Sound
<1>n. /\ Len(memory) \in Nat /\ DOMAIN memory = 1..Len(memory)
      /\ memory[id] \in Rows /\ id \in Nat \ {0}
  BY <1>t, RowOf
<1> DEFINE row == Rekeyed(closed(id), schema)
<1>3. /\ row \in Rows /\ row.hash = memory[id].hash /\ row.live = FALSE /\ row.closed_at = id
      /\ row.supersedes = memory[id].supersedes /\ row.derived_from = memory[id].derived_from
      /\ row.occurred_at = memory[id].occurred_at
      /\ row.key = IF "dedup_key" \in schema.fields THEN id ELSE memory[id].key
  <2> DEFINE q == closed(id)
  <2>1. /\ q \in Rows /\ q.hash = memory[id].hash /\ q.live = FALSE /\ q.closed_at = id
        /\ q.supersedes = memory[id].supersedes /\ q.derived_from = memory[id].derived_from
        /\ q.occurred_at = memory[id].occurred_at /\ q.key = memory[id].key
    BY <1>n DEF Rows
  <2> HIDE DEF q
  <2>2. LET z == Rekeyed(q, schema) IN
        /\ z \in Rows /\ z.hash = q.hash /\ z.live = q.live /\ z.closed_at = q.closed_at
        /\ z.supersedes = q.supersedes /\ z.derived_from = q.derived_from
        /\ z.occurred_at = q.occurred_at
        /\ "dedup_key" \notin schema.fields => z.key = q.key
        /\ "dedup_key" \in schema.fields => z.key = IF q.live THEN 0 ELSE id
    BY <1>n, <2>1, RekeyedRow
  <2>3. row = Rekeyed(q, schema)
    BY DEF q
  <2> HIDE DEF row
  <2> QED  BY <2>1, <2>2, <2>3
<1>4. memory' = [memory EXCEPT ![id] = row]
  BY <1>1
<1> HIDE DEF row, closed
<1>5. /\ DOMAIN memory' = DOMAIN memory /\ memory'[id] = row
      /\ \A z \in DOMAIN memory : z # id => memory'[z] = memory[z]
  BY <1>4
<1>6. memory' \in Seq(Rows)
  <2>1. memory \in [1..Len(memory) -> Rows]
    BY <1>t, LenProperties
  <2>2. memory' \in [1..Len(memory) -> Rows]
    BY <1>3, <1>4, <2>1
  <2> QED  BY <1>n, <2>2, SeqDef
<1>7. Keyed(memory')
  <2>1. Keyed(memory)
    BY <1>t DEF Sound
  <2>2. /\ ~row.live => row.closed_at = id
        /\ row.key # None => row.key = IF row.live THEN 0 ELSE id
    BY <1>t, <1>3 DEF Sound
  <2> QED  BY <1>5, <2>1, <2>2 DEF Keyed
<1>8. OneLive(memory')
  <2>1. ASSUME NEW z \in DOMAIN memory
        PROVE  memory'[z].hash = memory[z].hash /\ (memory'[z].live => memory[z].live)
    BY <1>3, <1>5
  <2>2. OneLive(memory)
    BY <1>t DEF Sound
  <2> QED  BY <1>5, <2>1, <2>2 DEF OneLive
<1>9. ASSUME NEW z \in DOMAIN memory
      PROVE  /\ memory'[z].supersedes = memory[z].supersedes
             /\ memory'[z].derived_from = memory[z].derived_from
             /\ memory'[z].occurred_at = memory[z].occurred_at
             /\ memory[z].key # None => memory'[z].key # None
             /\ "dedup_key" \notin schema.fields => memory'[z].key = memory[z].key
  BY <1>n, <1>3, <1>5, MigrateAssumption
<1>10. Linked(memory')
  BY <1>t, <1>5, <1>9 DEF Sound, Linked
<1>11. "dedup_key" \in schema.fields \/ \A z \in DOMAIN memory' : memory'[z].key = None
  BY <1>t, <1>5, <1>9 DEF Sound
<1>12. Sound(schema, memory')
  BY <1>t, <1>6, <1>7, <1>8, <1>10, <1>11 DEF Sound
<1>13. Grows(schema, memory, schema, memory')
  BY <1>5, <1>9 DEF Grows
<1>14. ASSUME ~shared, Reached(version, proc, 4, 2), NEW z \in DOMAIN memory'
       PROVE  memory'[z].occurred_at
  BY <1>5, <1>9, <1>14 DEF MigrateInv, OwnInv
<1> QED  BY <1>2, <1>12, <1>13, <1>14, ProcessesRest

-----------------------------------------------------------------------------
(* The theorems *)

\* A fresh store has no row and no process.
LEMMA MigrateStart == MigrateInit => MigrateInv
<1> SUFFICES ASSUME MigrateInit
             PROVE  MigrateInv
  OBVIOUS
<1>1. Stopped \in Procs /\ Placed(Stopped) /\ Stopped.step = "off" /\ Stopped.contended = FALSE
  BY DEF Stopped, Procs, Placed
<1>2. ProcInv(version, proc, shared)
  BY <1>1 DEF MigrateInit, ProcInv, UnderWay
<1>3. memory = << >> /\ DOMAIN memory = {} /\ memory \in Seq(Rows)
  BY EmptySeq DEF MigrateInit
<1>4. Undefined \in Schemas /\ Undefined.supersedes # "list"
  BY MigrateAssumption DEF Undefined, Schemas
<1>5. Sound(schema, memory)
  BY <1>3, <1>4 DEF MigrateInit, Sound, Keyed, OneLive, Linked
<1>6. ASSUME NEW n \in 1..9, NEW k
      PROVE  ~Reached(version, proc, n, k)
  BY <1>1 DEF MigrateInit, Reached, Passed, UnderWay
<1>7. BatchInv(version, proc, schema, memory) /\ OwnInv(version, proc, schema, memory)
  BY <1>6 DEF BatchInv, OwnInv
<1>8. RerunIsSafe
  BY <1>1 DEF MigrateInit, RerunIsSafe
<1> QED  BY <1>2, <1>3, <1>5, <1>7, <1>8 DEF MigrateInv

\* The invariant is inductive.
LEMMA MigrateStep == MigrateInv /\ [MigrateNext]_migrateVars => MigrateInv'
<1> SUFFICES ASSUME MigrateInv, [MigrateNext]_migrateVars
             PROVE  MigrateInv'
  OBVIOUS
<1>1. CASE UNCHANGED migrateVars
  BY <1>1 DEF migrateVars, MigrateInv, RerunIsSafe
<1>2. ASSUME NEW p \in Process,
             \/ OpenStore(p) \/ ReadVersion(p) \/ Statement(p) \/ BatchFails(p) \/ BumpVersion(p)
             \/ Quit(p) \/ Kill(p) \/ Create(p) \/ CloseRow(p)
      PROVE  MigrateInv'
  BY <1>2, OpenStoreStep, ReadVersionStep, StatementStep, BatchFailsStep, BumpVersionStep,
     StopStep, CreateStep, CloseRowStep
<1> QED  BY <1>1, <1>2 DEF MigrateNext

\* What the invariant says of a store this version serves.
LEMMA ServedIsCurrent == MigrateInv => ServedRowsUpdate
<1> SUFFICES ASSUME MigrateInv, NEW p \in Process, Current(p)
             PROVE  /\ \A id \in DOMAIN memory :
                         /\ Coerces(memory[id], schema) /\ memory[id].supersedes = "list"
                         /\ memory[id].key # None /\ (shared \/ memory[id].occurred_at)
                    /\ "mem_hash_live" \in schema.indexes
                    /\ shared \/ "mem_hash" \notin schema.indexes
  BY DEF ServedRowsUpdate
<1>1. proc[p].step = "serving" /\ proc[p].at = 9
  BY Batches DEF Current, MigrateInv, ProcInv, Placed
<1>2. ASSUME NEW n \in 1..9, NEW k
      PROVE  Reached(version, proc, n, k)
  BY <1>1 DEF Reached, Passed, UnderWay
<1>3. /\ Relisted(schema, memory) /\ Wrapped(schema, memory) /\ Listed(schema)
      /\ AllKeyed(schema, memory) /\ LiveIndex(schema)
  <2>1. /\ Reached(version, proc, 3, 3) /\ Reached(version, proc, 5, 2)
        /\ Reached(version, proc, 5, 4)
    BY <1>2
  <2> QED  BY <2>1 DEF MigrateInv, BatchInv, Relisted, Wrapped
<1>4. ASSUME NEW id \in DOMAIN memory
      PROVE  /\ Coerces(memory[id], schema) /\ memory[id].supersedes = "list"
             /\ memory[id].key # None /\ (shared \/ memory[id].occurred_at)
  <2>1. memory[id].supersedes \in {None, "record", "list"}
    BY RowOf DEF MigrateInv, Rows
  <2>2. memory[id].supersedes = "list"
    BY <1>3, <2>1 DEF Relisted, Wrapped
  <2>3. memory[id].derived_from = "list"
    BY <2>2 DEF MigrateInv, Sound, Linked
  <2>4. Reached(version, proc, 4, 2)
    BY <1>2
  <2>5. shared \/ memory[id].occurred_at
    BY <2>4 DEF MigrateInv, OwnInv
  <2> QED  BY <1>3, <2>2, <2>3, <2>5 DEF Coerces, Listed, AllKeyed
<1>5. shared \/ "mem_hash" \notin schema.indexes
  <2>1. Reached(version, proc, 5, 3)
    BY <1>2
  <2> QED  BY <2>1 DEF MigrateInv, OwnInv
<1> QED  BY <1>3, <1>4, <1>5 DEF LiveIndex

(***************************************************************************)
(* A startup that has the store to itself never fails (migrate.rs ensure), *)
(* whatever statement the upgrade before it was killed at, for any rows,   *)
(* releases and number of kills.  The index of the first version is the    *)
(* only statement that can fail, and alone a process meets it only on a    *)
(* store without rows.                                                     *)
(***************************************************************************)
THEOREM MigrationsRerun == MigrateSpec => []RerunIsSafe
<1>1. MigrateInv => RerunIsSafe
  BY DEF MigrateInv
<1> QED  BY MigrateStart, MigrateStep, <1>1, PTL DEF MigrateSpec

(***************************************************************************)
(* A store the current version serves has every row in its shape and in    *)
(* the index of live content, on a data dir and on a server that older     *)
(* releases write to and half-migrate at the same time.                    *)
(***************************************************************************)
THEOREM ServedStoreIsCurrent == MigrateSpec => []ServedRowsUpdate
BY MigrateStart, MigrateStep, ServedIsCurrent, PTL DEF MigrateSpec

(***************************************************************************)
(* The vector space                                                        *)
(***************************************************************************)
-----------------------------------------------------------------------------
(* Types *)

\* What a process that is up knows: it runs what the installation configures,
\* between the resolve and the service only a backend with vectors is under
\* way, and a drain that has not given up has failures left.
Running ==
    /\ setup \in Setups
    /\ meta # None => meta = [model |-> meta.model, dim |-> meta.dim, revision |-> meta.revision]
    /\ \A p \in Proc : pc[p] # "down" => backend[p] \in setup.configured /\ tool[p] \in setup.tools
    /\ \A p \in Proc : pc[p] \notin {"down", "resolve", "serving"} => backend[p].dim > 0
    /\ \A p \in Proc : drain[p] # "gave up" => failures[p] < DrainGiveUp
    /\ \A p \in Proc : pc[p] # "serving" => drain[p] = "off" /\ failures[p] = 0

TypeInv == TypeOK /\ Running

Stages == Statements \cup {None}
Widths == {b.dim : b \in Backend}
SpaceRecord(m) ==
    m # None => /\ m.dim \in Widths \ {0}
                /\ m = [model |-> m.model, dim |-> m.dim, revision |-> m.revision]

\* An installation configures backends, and what is run is a serve or a reindex.
LEMMA SetupShape ==
    \A s \in Setups : /\ s.remote \in BOOLEAN /\ s.configured \subseteq Backend
                      /\ s.tools \subseteq {"serve", "reindex"} /\ s.fails \in BOOLEAN
                      /\ s.crashes \in Nat /\ s.starts \in Nat
BY VectorAssumption DEF Setup

\* A backend in use is a record with a width.
LEMMA BackendShape ==
    ASSUME Running, NEW p \in Proc, pc[p] # "down"
    PROVE  /\ backend[p] \in Backend /\ backend[p] # None /\ backend[p].dim \in Nat
           /\ backend[p] = [model |-> backend[p].model, dim |-> backend[p].dim,
                            revision |-> backend[p].revision]
BY VectorAssumption, SetupShape DEF Running

\* pending_count is never more than the rows there can be, and it is 0 only
\* when nothing is pending.
LEMMA PendingCount ==
    ASSUME rows \subseteq Row
    PROVE  /\ Cardinality(Pending) \in 0..Cardinality(Row)
           /\ Cardinality(Pending) = 0 <=> Pending = {}
<1>1. IsFiniteSet(Row) /\ Pending \subseteq Row
  BY VectorAssumption DEF Pending
<1>2. IsFiniteSet(Pending) /\ Cardinality(Pending) <= Cardinality(Row)
  BY <1>1, FS_Subset
<1>3. Cardinality(Pending) \in Nat /\ Cardinality(Row) \in Nat
  BY <1>1, <1>2, FS_CardinalityType
<1> QED  BY <1>2, <1>3, FS_EmptySet

\* A store as it is found has its types, and nothing runs yet.
LEMMA TypeInit == Init => TypeInv
<1> SUFFICES ASSUME Init PROVE TypeInv
  OBVIOUS
<1>1. setup \in Setups /\ setup.crashes \in Nat /\ setup.starts \in Nat
  BY SetupShape DEF Init
<1>2. meta \in Stored /\ (meta # None => meta \in Backend /\ meta.dim > 0 /\ meta.dim \in Nat)
  BY VectorAssumption DEF Init
<1>3. meta # None => meta = [model |-> meta.model, dim |-> meta.dim, revision |-> meta.revision]
  BY <1>2, VectorAssumption
<1>4. rows \subseteq Row
  BY DEF Init
<1>5. vec \in [Row -> Backend \cup {None}]
  BY <1>2 DEF Init
<1>6. width \in [Table -> {b.dim : b \in Backend} \cup {BakedDim}]
  BY <1>2 DEF Init
<1>7. Cardinality(Row) \in Nat /\ DrainGiveUp \in Nat \ {0}
  BY VectorAssumption, FS_CardinalityType
<1>8. TypeOK
  BY <1>1, <1>2, <1>4, <1>5, <1>6, <1>7 DEF Init, TypeOK, PCs
<1>9. Running
  BY <1>1, <1>3, <1>7 DEF Init, Running
<1> QED  BY <1>8, <1>9 DEF TypeInv

\* A process that leaves keeps nothing, and the others keep what they have.
LEMMA TypeLeave ==
    ASSUME TypeInv, NEW p \in Proc, Leave(p),
           setup' = setup, rows' = rows, vec' = vec, meta' = meta,
           width' \in [Table -> {b.dim : b \in Backend} \cup {BakedDim}],
           tool' = tool, backend' = backend, starts' = starts, crashes' \in 0..setup.crashes
    PROVE  TypeInv'
<1>1. 0 \in 0..Cardinality(Row) /\ 0 \in 0..DrainGiveUp /\ 0 < DrainGiveUp
  BY VectorAssumption, FS_CardinalityType
<1>2. TypeOK'
  BY <1>1 DEF TypeInv, TypeOK, Leave, PCs
<1>3. Running'
  BY <1>1 DEF TypeInv, TypeOK, Running, Leave
<1> QED  BY <1>2, <1>3 DEF TypeInv

\* A step that only moves a process on from where it opens the store.
LEMMA TypeGoto ==
    ASSUME TypeInv, NEW p \in Proc, NEW where \in PCs \ {"down", "resolve", "serving"},
           pc[p] \notin {"down", "serving"}, backend[p].dim > 0, Goto(p, where),
           setup' = setup, rows' = rows, vec' \in [Row -> Backend \cup {None}],
           SpaceRecord(meta'),
           width' \in [Table -> {b.dim : b \in Backend} \cup {BakedDim}],
           stage' \in [Proc -> Stages],
           UNCHANGED <<tool, backend, lock, loop, starts, crashes>>
    PROVE  TypeInv'
<1>1. TypeOK'
  BY DEF TypeInv, TypeOK, Goto, loop, Stages, Statements, SpaceRecord, Widths
<1>2. Running'
  BY DEF TypeInv, TypeOK, Running, Goto, loop, SpaceRecord
<1> QED  BY <1>1, <1>2 DEF TypeInv

\* What a batch means for the loop keeps the counters in their bounds.
LEMMA TypeSettle ==
    ASSUME TypeInv, NEW p \in Proc, NEW left \in 0..Cardinality(Row),
           drain[p] \in {"read", "write", "recount"}, Settle(p, left) \/ DrainFailed(p)
    PROVE  /\ pending' \in [Proc -> 0..Cardinality(Row)]
           /\ failures' \in [Proc -> 0..DrainGiveUp]
           /\ drain' \in [Proc -> {"off", "read", "write", "recount", "gave up"}]
           /\ \A q \in Proc : drain'[q] # "gave up" => failures'[q] < DrainGiveUp
           /\ \A q \in Proc : q # p => drain'[q] = drain[q] /\ failures'[q] = failures[q]
<1> DEFINE Count == 0..Cardinality(Row)
           Fails == 0..DrainGiveUp
<1>1. /\ pending \in [Proc -> Count] /\ failures \in [Proc -> Fails]
      /\ drain \in [Proc -> {"off", "read", "write", "recount", "gave up"}]
      /\ \A q \in Proc : drain[q] # "gave up" => failures[q] < DrainGiveUp
  BY DEF TypeInv, TypeOK, Running
<1>2. left \in Count /\ failures[p] \in Fails /\ failures[p] < DrainGiveUp
  <2> HIDE DEF Fails, Count
  <2>1. failures[p] \in Fails /\ failures[p] < DrainGiveUp
    BY <1>1
  <2> QED  BY <2>1 DEF Count
<1>3. 0 \in Fails /\ 0 < DrainGiveUp /\ failures[p] + 1 \in Fails
      /\ (failures[p] + 1 >= DrainGiveUp \/ failures[p] + 1 < DrainGiveUp)
  BY <1>2, VectorAssumption
<1> HIDE DEF Count, Fails
<1> DEFINE Kept ==
           /\ pending' \in [Proc -> Count] /\ failures' \in [Proc -> Fails]
           /\ drain' \in [Proc -> {"off", "read", "write", "recount", "gave up"}]
           /\ \A q \in Proc : drain'[q] # "gave up" => failures'[q] < DrainGiveUp
           /\ \A q \in Proc : q # p => drain'[q] = drain[q] /\ failures'[q] = failures[q]
<1>4. ASSUME DrainFailed(p) PROVE Kept
  BY <1>1, <1>2, <1>3, <1>4 DEF DrainFailed
<1>5. ASSUME /\ pending' = [pending EXCEPT ![p] = left]
             /\ failures' = [failures EXCEPT ![p] = 0]
             /\ drain' = [drain EXCEPT ![p] = IF left = 0 THEN "off" ELSE "read"]
      PROVE  Kept
  BY <1>1, <1>2, <1>3, <1>5
<1>6. Kept
  <2> HIDE DEF Kept
  <2> QED  BY <1>4, <1>5 DEF Settle
<1> QED  BY <1>6 DEF Count, Fails

\* A step of a serving process keeps its place.
LEMMA TypeServing ==
    ASSUME TypeInv, NEW p \in Proc, pc[p] = "serving",
           setup' = setup, width' = width, meta' = meta,
           rows' \subseteq Row, vec' \in [Row -> Backend \cup {None}], batch' \in [Proc -> SUBSET Row],
           pending' \in [Proc -> 0..Cardinality(Row)],
           failures' \in [Proc -> 0..DrainGiveUp],
           drain' \in [Proc -> {"off", "read", "write", "recount", "gave up"}],
           \A q \in Proc : drain'[q] # "gave up" => failures'[q] < DrainGiveUp,
           \A q \in Proc : q # p => drain'[q] = drain[q] /\ failures'[q] = failures[q],
           UNCHANGED <<pc, tool, backend, stage, lock, starts, crashes>>
    PROVE  TypeInv'
<1>1. TypeOK'
  BY DEF TypeInv, TypeOK
<1>2. Running'
  BY DEF TypeInv, TypeOK, Running
<1> QED  BY <1>1, <1>2 DEF TypeInv

\* Every step keeps the shapes.
LEMMA TypeStep == TypeInv /\ [Next]_vars => TypeInv'
<1> SUFFICES ASSUME TypeInv, [Next]_vars PROVE TypeInv'
  OBVIOUS
<1>0. /\ rows \subseteq Row /\ vec \in [Row -> Backend \cup {None}]
      /\ width \in [Table -> {b.dim : b \in Backend} \cup {BakedDim}]
      /\ batch \in [Proc -> SUBSET Row]
      /\ stage \in [Proc -> Stages]
      /\ crashes \in 0..setup.crashes /\ starts \in 0..setup.starts
      /\ setup \in Setups /\ setup.starts \in Nat /\ setup.crashes \in Nat
      /\ pc \in [Proc -> PCs] /\ tool \in [Proc -> {"serve", "reindex"}]
      /\ backend \in [Proc -> Backend \cup {None}] /\ lock \in Proc \cup {None}
  BY SetupShape DEF TypeInv, TypeOK, Running, Stages, Statements
<1>0a. SpaceRecord(meta)
  BY DEF TypeInv, TypeOK, Running, SpaceRecord, Widths
<1>0b. /\ pending \in [Proc -> 0..Cardinality(Row)] /\ failures \in [Proc -> 0..DrainGiveUp]
       /\ drain \in [Proc -> {"off", "read", "write", "recount", "gave up"}]
       /\ \A q \in Proc : drain[q] # "gave up" => failures[q] < DrainGiveUp
       /\ \A q \in Proc : pc[q] # "serving" => drain[q] = "off" /\ failures[q] = 0
  BY DEF TypeInv, TypeOK, Running
<1>0c. \A q \in Proc : pc[q] \notin {"down", "resolve", "serving"} => backend[q].dim > 0
  BY DEF TypeInv, Running
<1>0d. TypeOK /\ Running
  BY DEF TypeInv
<1>0e. 0 \in 0..Cardinality(Row)
  BY VectorAssumption, FS_CardinalityType
<1>1. ASSUME NEW p \in Proc, Start(p) PROVE TypeInv'
  <2>1. PICK b \in setup.configured, t \in setup.tools :
           backend' = [backend EXCEPT ![p] = b] /\ tool' = [tool EXCEPT ![p] = t]
    BY <1>1 DEF Start
  <2>2. b \in Backend /\ t \in {"serve", "reindex"}
    BY <1>0, SetupShape
  <2>3. lock' \in Proc \cup {None} /\ starts' \in 0..setup.starts
    BY <1>0, <1>1 DEF Start
  <2>4. pc' = [pc EXCEPT ![p] = "resolve"] /\ UNCHANGED <<store, stage, loop, crashes>>
    BY <1>1 DEF Start
  <2>5. pc[p] = "down"
    BY <1>1 DEF Start
  <2>6. TypeOK'
    BY <1>0d, <1>0, <2>1, <2>2, <2>3, <2>4 DEF TypeOK, store, loop, PCs
  <2>7. Running'
    BY <1>0d, <1>0, <2>1, <2>4, <2>5 DEF Running, store, loop
  <2> QED  BY <2>6, <2>7 DEF TypeInv
<1>2. ASSUME NEW p \in Proc, Resolve(p) PROVE TypeInv'
  <2>1. backend[p] \in Backend /\ backend[p].dim \in Nat /\ pc[p] = "resolve"
    BY <1>0, <1>2, BackendShape, <1>0d DEF Resolve
  <2>2. CASE backend[p].dim = 0
    <3>1. Goto(p, "serving") /\ UNCHANGED <<stage, store, lock, tool, backend, loop, crashes, starts>>
      BY <1>2, <2>1, <2>2 DEF Resolve
    <3>2. TypeOK'
      BY <1>0d, <1>0, <3>1 DEF TypeOK, Goto, store, loop, PCs
    <3>3. Running'
      BY <1>0d, <1>0, <1>0b, <2>1, <3>1 DEF Running, Goto, store, loop
    <3> QED  BY <3>2, <3>3 DEF TypeInv
  <2>3. CASE backend[p].dim > 0
    <3>1. PICK where \in {"reset", "count", "ensure"} : Goto(p, where)
      <4>1. Goto(p, "reset") \/ Goto(p, "count") \/ Goto(p, "ensure")
        <5>1. backend[p].dim # 0
          BY <2>1, <2>3
        <5>2. \/ Goto(p, "reset")
              \/ Goto(p, IF tool[p] = "reindex" THEN "count" ELSE "ensure")
          BY <1>2, <5>1 DEF Resolve
        <5> QED  BY <5>2
      <4> QED  BY <4>1
    <3>2. stage' \in [Proc -> Stages]
      BY <1>0, <1>2 DEF Resolve, Stages, Statements
    <3>3. UNCHANGED <<store, lock, tool, backend, loop, crashes, starts>>
      BY <1>2 DEF Resolve
    <3> QED  BY <1>0, <1>0a, <2>1, <2>3, <3>1, <3>2, <3>3, TypeGoto DEF PCs, store
  <2> QED  BY <2>1, <2>2, <2>3
<1>3. ASSUME NEW p \in Proc, EnsureEmbedder(p) PROVE TypeInv'
  <2>1. backend[p].dim > 0 /\ pc[p] = "ensure" /\ UNCHANGED <<store, tool, backend, crashes, starts>>
    BY <1>0, <1>0c, <1>3 DEF EnsureEmbedder
  <2>2. CASE Leave(p)
    BY <1>0, <2>1, <2>2, TypeLeave DEF store
  <2>3. CASE ~Leave(p)
    <3>1. PICK where \in {"adopt", "record", "backfill", "count"} :
             Goto(p, where) /\ UNCHANGED <<lock, loop>>
      BY <1>3, <2>3 DEF EnsureEmbedder
    <3>2. stage' \in [Proc -> Stages]
      BY <1>0, <1>3, <2>3 DEF EnsureEmbedder, Stages, Statements
    <3> QED  BY <1>0, <1>0a, <2>1, <3>1, <3>2, TypeGoto DEF PCs, store
  <2> QED  BY <2>2, <2>3
<1>4. ASSUME NEW p \in Proc, Backfill(p) PROVE TypeInv'
  <2>1. /\ backend[p].dim > 0 /\ pc[p] = "backfill" /\ Goto(p, "count")
        /\ UNCHANGED <<setup, rows, vec, width, lock, tool, backend, stage, loop, crashes, starts>>
    BY <1>0, <1>0c, <1>4 DEF Backfill
  <2>2. SpaceRecord(meta')
    <3>1. CASE meta # None /\ meta.revision = None
      <4>1. meta' = [model |-> meta.model, dim |-> meta.dim, revision |-> backend[p].revision]
        BY <1>0a, <1>4, <3>1 DEF Backfill, SpaceRecord
      <4> QED  BY <1>0a, <3>1, <4>1 DEF SpaceRecord
    <3>2. CASE ~(meta # None /\ meta.revision = None)
      BY <1>0a, <1>4, <3>2 DEF Backfill
    <3> QED  BY <3>1, <3>2
  <2> QED  BY <1>0, <2>1, <2>2, TypeGoto DEF PCs
<1>5. ASSUME NEW p \in Proc, NEW s, NEW t, NEW next \in {"clear chunk", "define memory"},
             ClearVectors(p, s, t, next)
      PROVE  TypeInv'
  <2>1. pc[p] \in {"reset", "adopt"} /\ backend[p].dim > 0
    BY <1>0, <1>0c, <1>5 DEF ClearVectors, Resetting
  <2>2. Goto(p, pc[p])
    BY <1>0, <1>5 DEF ClearVectors, Goto
  <2>3. vec' \in [Row -> Backend \cup {None}]
    BY <1>0, <1>5 DEF ClearVectors
  <2>4. stage' \in [Proc -> Stages]
    BY <1>0, <1>5 DEF ClearVectors, Stages, Statements
  <2>5. UNCHANGED <<setup, rows, width, meta, lock, tool, backend, loop, crashes, starts>>
    BY <1>5 DEF ClearVectors
  <2> QED  BY <1>0, <1>0a, <2>1, <2>2, <2>3, <2>4, <2>5, TypeGoto DEF PCs
<1>6. ASSUME NEW p \in Proc, NEW s \in {"define memory", "define chunk", "define chunk after error"},
             NEW t \in Table, Redefine(p, s, t)
      PROVE  TypeInv'
  <2>1. pc[p] \in {"reset", "adopt"} /\ backend[p].dim > 0 /\ backend[p] \in Backend
    BY <1>0, <1>0c, <1>6, BackendShape, <1>0d DEF Redefine, Resetting
  <2>2. width' \in [Table -> {b.dim : b \in Backend} \cup {BakedDim}]
    BY <1>0, <1>6, <2>1 DEF Redefine
  <2>3. UNCHANGED <<setup, rows, vec, meta, tool, backend, crashes, starts>>
    BY <1>6 DEF Redefine
  <2>4. CASE Leave(p)
    BY <1>0, <2>2, <2>3, <2>4, TypeLeave
  <2>5. CASE ~Leave(p)
    <3>1. PICK next \in {"define chunk", "define chunk after error", None} :
             /\ stage' = [stage EXCEPT ![p] = next]
             /\ IF next = None THEN Returns(p) ELSE UNCHANGED pc
             /\ UNCHANGED <<lock, loop>>
      BY <1>6, <2>5 DEF Redefine, AfterRedefine
    <3>2. stage' \in [Proc -> Stages]
      BY <1>0, <3>1 DEF Stages, Statements
    <3>3. PICK where \in {"reset", "adopt", "set", "record"} : Goto(p, where)
      BY <1>0, <2>1, <3>1 DEF Returns, Goto
    <3> QED  BY <1>0, <1>0a, <2>1, <2>2, <2>3, <3>1, <3>2, <3>3, TypeGoto DEF PCs
  <2> QED  BY <2>4, <2>5
<1>7. ASSUME NEW p \in Proc, SetEmbedder(p) \/ RecordEmbedder(p) PROVE TypeInv'
  <2>1. /\ backend[p].dim > 0 /\ pc[p] \in {"set", "record"}
        /\ UNCHANGED <<setup, rows, vec, width, lock, tool, backend, stage, loop, crashes, starts>>
    BY <1>0, <1>0c, <1>7 DEF SetEmbedder, RecordEmbedder
  <2>2. /\ backend[p] \in Backend /\ backend[p].dim \in Nat
        /\ backend[p] = [model |-> backend[p].model, dim |-> backend[p].dim,
                         revision |-> backend[p].revision]
    BY <1>0, <2>1, BackendShape, <1>0d
  <2>3. meta' = backend[p] \/ meta' = meta
    BY <1>7 DEF SetEmbedder, RecordEmbedder
  <2>4. SpaceRecord(meta')
    <3>1. SpaceRecord(backend[p])
      BY <2>1, <2>2 DEF SpaceRecord, Widths
    <3> QED  BY <1>0a, <2>3, <3>1
  <2>5. PICK where \in {"count", "reread"} : Goto(p, where)
    BY <1>7 DEF SetEmbedder, RecordEmbedder
  <2> QED  BY <1>0, <2>1, <2>4, <2>5, TypeGoto DEF PCs
<1>8. ASSUME NEW p \in Proc, Reread(p) PROVE TypeInv'
  <2>1. backend[p].dim > 0 /\ pc[p] = "reread" /\ UNCHANGED <<store, tool, backend, crashes, starts>>
    BY <1>0, <1>0c, <1>8 DEF Reread
  <2>2. CASE Leave(p)
    BY <1>0, <2>1, <2>2, TypeLeave DEF store
  <2>3. CASE Goto(p, "count") /\ UNCHANGED <<lock, stage, loop>>
    BY <1>0, <1>0a, <2>1, <2>3, TypeGoto DEF PCs, store
  <2> QED  BY <1>8, <2>2, <2>3 DEF Reread
<1>9. ASSUME NEW p \in Proc, CountPending(p) PROVE TypeInv'
  <2>1. Cardinality(Pending) \in 0..Cardinality(Row)
    BY <1>0, PendingCount
  <2>2. pending' \in [Proc -> 0..Cardinality(Row)]
    <3> DEFINE Count == 0..Cardinality(Row)
    <3>1. pending \in [Proc -> Count] /\ Cardinality(Pending) \in Count
      BY <1>0b, <2>1
    <3> HIDE DEF Count
    <3>2. pending' \in [Proc -> Count]
      BY <1>9, <3>1 DEF CountPending
    <3> QED  BY <3>2 DEF Count
  <2>3. drain' \in [Proc -> {"off", "read", "write", "recount", "gave up"}]
    BY <1>0b, <1>9 DEF CountPending
  <2>4. /\ Goto(p, "serving") /\ pc[p] = "count"
        /\ UNCHANGED <<store, lock, tool, backend, stage, batch, failures, crashes, starts>>
    BY <1>9 DEF CountPending
  <2>5. TypeOK'
    BY <1>0d, <1>0, <1>0a, <1>0b, <2>2, <2>3, <2>4 DEF TypeOK, Goto, PCs, store
  <2>6. \A q \in Proc : drain'[q] # "gave up" => failures'[q] < DrainGiveUp
    <3>1. failures[p] = 0 /\ 0 < DrainGiveUp
      BY <1>0b, <2>4, VectorAssumption
    <3>2. \A q \in Proc \ {p} : drain'[q] = drain[q]
      BY <1>0b, <1>9 DEF CountPending
    <3> QED  BY <1>0b, <2>4, <3>1, <3>2
  <2>7. \A q \in Proc : pc'[q] # "serving" => drain'[q] = "off" /\ failures'[q] = 0
    BY <1>0, <1>0b, <1>9, <2>4 DEF CountPending, Goto
  <2>8. Running'
    BY <1>0d, <1>0, <2>4, <2>6, <2>7 DEF Running, Goto, store
  <2> QED  BY <2>5, <2>8 DEF TypeInv
<1>10. ASSUME NEW p \in Proc, ReadBatch(p) PROVE TypeInv'
  <2>1. /\ pc[p] = "serving" /\ drain[p] = "read"
        /\ UNCHANGED <<store, lock, pc, tool, backend, stage, crashes, starts>>
    BY <1>10 DEF ReadBatch
  <2>2. batch' \in [Proc -> SUBSET Row]
    BY <1>0, <1>10 DEF ReadBatch, Pending
  <2>3. CASE Settle(p, 0)
    BY <1>0, <1>0e, <2>1, <2>2, <2>3, TypeSettle, TypeServing DEF store
  <2>4. CASE drain' = [drain EXCEPT ![p] = "write"] /\ UNCHANGED <<pending, failures>>
    <3>1. /\ drain' \in [Proc -> {"off", "read", "write", "recount", "gave up"}]
          /\ \A q \in Proc : drain'[q] # "gave up" => failures'[q] < DrainGiveUp
          /\ \A q \in Proc : q # p => drain'[q] = drain[q] /\ failures'[q] = failures[q]
      BY <1>0b, <2>1, <2>4
    <3> QED  BY <1>0, <1>0b, <2>1, <2>2, <2>4, <3>1, TypeServing DEF store
  <2> QED  BY <1>10, <2>3, <2>4 DEF ReadBatch
<1>11. ASSUME NEW p \in Proc, WriteBatch(p) PROVE TypeInv'
  <2>1. /\ pc[p] = "serving" /\ drain[p] = "write"
        /\ UNCHANGED <<setup, rows, width, meta, lock, pc, tool, backend, stage, crashes, starts>>
    BY <1>11 DEF WriteBatch
  <2>2. batch' \in [Proc -> SUBSET Row]
    BY <1>0, <1>11 DEF WriteBatch
  <2>3. vec' \in [Row -> Backend \cup {None}]
    <3>1. backend[p] \in Backend
      BY <2>1, BackendShape, <1>0d
    <3> QED  BY <1>0, <1>11, <3>1 DEF WriteBatch
  <2>4. CASE DrainFailed(p)
    BY <1>0, <2>1, <2>2, <2>3, <2>4, <1>0e, TypeSettle, TypeServing
  <2>5. CASE drain' = [drain EXCEPT ![p] = "recount"] /\ UNCHANGED <<pending, failures>>
    <3>1. /\ drain' \in [Proc -> {"off", "read", "write", "recount", "gave up"}]
          /\ \A q \in Proc : drain'[q] # "gave up" => failures'[q] < DrainGiveUp
          /\ \A q \in Proc : q # p => drain'[q] = drain[q] /\ failures'[q] = failures[q]
      BY <1>0b, <2>1, <2>5
    <3> QED  BY <1>0, <1>0b, <2>1, <2>2, <2>3, <2>5, <3>1, TypeServing
  <2> QED  BY <1>11, <2>4, <2>5 DEF WriteBatch
<1>12. ASSUME NEW p \in Proc, Recount(p) PROVE TypeInv'
  <2>1. /\ pc[p] = "serving" /\ drain[p] = "recount" /\ Settle(p, Cardinality(Pending))
        /\ UNCHANGED <<store, lock, pc, tool, backend, stage, batch, crashes, starts>>
    BY <1>12 DEF Recount
  <2>2. Cardinality(Pending) \in 0..Cardinality(Row)
    BY <1>0, PendingCount
  <2> QED  BY <1>0, <2>1, <2>2, TypeSettle, TypeServing DEF store
<1>13. ASSUME NEW p \in Proc, WriteRow(p) \/ DeleteRow(p) PROVE TypeInv'
  <2>1. /\ pc[p] = "serving"
        /\ UNCHANGED <<setup, width, meta, lock, pc, tool, backend, stage, loop, crashes, starts>>
    BY <1>13 DEF WriteRow, DeleteRow
  <2>2. backend[p] \in Backend
    BY <2>1, BackendShape, <1>0d
  <2>3. rows' \subseteq Row /\ vec' \in [Row -> Backend \cup {None}]
    BY <1>0, <1>13, <2>2 DEF WriteRow, DeleteRow
  <2> QED  BY <1>0, <1>0b, <2>1, <2>3, TypeServing DEF loop
<1>14. ASSUME NEW p \in Proc, Exit(p) \/ Crash(p) PROVE TypeInv'
  <2>1. Leave(p) /\ UNCHANGED <<store, tool, backend, starts>>
    BY <1>14 DEF Exit, Crash
  <2>2. crashes' \in 0..setup.crashes
    <3>1. crashes' = crashes \/ (crashes' = crashes + 1 /\ crashes < setup.crashes)
      BY <1>14 DEF Exit, Crash
    <3> QED  BY <1>0, <3>1
  <2> QED  BY <1>0, <2>1, <2>2, TypeLeave DEF store
<1>15. ASSUME UNCHANGED vars PROVE TypeInv'
  BY <1>15 DEF vars, TypeInv, TypeOK, Running
<1>16. ASSUME NEW p \in Proc, ResetVectors(p) PROVE TypeInv'
  BY <1>5, <1>6, <1>16 DEF ResetVectors, Table
<1> QED  BY <1>1, <1>2, <1>3, <1>4, <1>7, <1>8, <1>9, <1>10, <1>11, <1>12, <1>13, <1>14, <1>15, <1>16
         DEF Next, Step

(***************************************************************************)
(* Every variable keeps its shape, on an embedded engine and on a server:  *)
(* the recorded space is one of the widths the indexes can be defined      *)
(* with, the notice never counts more rows than there are, and the drain's *)
(* failures stay within DRAIN_GIVE_UP (reindex::drain).                    *)
(***************************************************************************)
THEOREM VectorTypes == Spec => []TypeOK
<1>1. TypeInv => TypeOK
  BY DEF TypeInv
<1> QED  BY <1>1, TypeInit, TypeStep, PTL DEF Spec

-----------------------------------------------------------------------------
(* The record *)

\* The statements that write meta:main; no other step does.
LEMMA MetaWriters ==
    ASSUME Next, meta' # meta
    PROVE  \E p \in Proc : Backfill(p) \/ SetEmbedder(p) \/ RecordEmbedder(p)
<1>1. PICK p \in Proc : Start(p) \/ Step(p) \/ WriteRow(p) \/ DeleteRow(p) \/ Exit(p) \/ Crash(p)
  BY DEF Next
<1>2. ~(Start(p) \/ WriteRow(p) \/ DeleteRow(p) \/ Exit(p) \/ Crash(p))
  BY DEF Start, WriteRow, DeleteRow, Exit, Crash, store
<1>3. ~(Resolve(p) \/ EnsureEmbedder(p) \/ Reread(p) \/ CountPending(p))
  BY DEF Resolve, EnsureEmbedder, Reread, CountPending, store
<1>4. ~(ReadBatch(p) \/ WriteBatch(p) \/ Recount(p))
  BY DEF ReadBatch, WriteBatch, Recount, store
<1>5. ~ResetVectors(p)
  BY DEF ResetVectors, ClearVectors, Redefine
<1> QED  BY <1>1, <1>2, <1>3, <1>4, <1>5 DEF Step

(***************************************************************************)
(* A recorded space is replaced only by a process that has cleared the     *)
(* vectors and redefined the indexes (set_embedder), or completed with a   *)
(* revision (the backfill of ensure_embedder), for any number of processes *)
(* first-running one shared server at once (issue #72).                    *)
(***************************************************************************)
THEOREM RecordsStand == Spec => RecordStands
<1>1. ASSUME TypeInv, Next, meta # None, meta' # meta
      PROVE  \/ \E p \in Proc : pc[p] = "set" /\ meta' = backend[p]
             \/ Matches(meta, meta')
  <2>1. PICK p \in Proc : Backfill(p) \/ SetEmbedder(p) \/ RecordEmbedder(p)
    BY <1>1, MetaWriters
  <2>2. CASE SetEmbedder(p)
    BY <2>2 DEF SetEmbedder
  <2>3. CASE RecordEmbedder(p)
    BY <1>1, <2>3 DEF RecordEmbedder
  <2>4. CASE Backfill(p)
    <3>1. meta.revision = None /\ meta' = [meta EXCEPT !.revision = backend[p].revision]
      BY <1>1, <2>4 DEF Backfill
    <3>2. meta = [model |-> meta.model, dim |-> meta.dim, revision |-> meta.revision]
      BY <1>1 DEF TypeInv, Running
    <3>3. meta' = [model |-> meta.model, dim |-> meta.dim, revision |-> backend[p].revision]
      BY <3>1, <3>2
    <3> QED  BY <1>1, <3>1, <3>3 DEF Matches
  <2> QED  BY <2>1, <2>2, <2>3, <2>4
<1>2. TypeInv /\ [Next]_vars =>
        [meta # None /\ meta' # meta =>
            \/ \E p \in Proc : pc[p] = "set" /\ meta' = backend[p]
            \/ Matches(meta, meta')]_vars
  BY <1>1 DEF vars
<1> QED  BY <1>2, TypeInit, TypeStep, PTL DEF Spec, RecordStands

-----------------------------------------------------------------------------
(* One process at a time *)

\* On an embedded engine a process that is up holds the data-dir lock.
Alone == ~setup.remote => \A p \in Proc : pc[p] # "down" => lock = p

Acts(p) == Start(p) \/ Step(p) \/ WriteRow(p) \/ DeleteRow(p) \/ Exit(p) \/ Crash(p)

\* A step is one process's: the others stay where they are.
LEMMA OthersStay ==
    ASSUME TypeInv, NEW p \in Proc, Acts(p)
    PROVE  /\ setup' = setup
           /\ \A q \in Proc \ {p} : pc'[q] = pc[q]
           /\ pc' \in [Proc -> PCs]
           /\ Start(p) \/ pc[p] # "down"
           /\ Start(p) \/ lock' = lock \/ Leave(p)
<1> DEFINE Others == \A q \in Proc \ {p} : pc'[q] = pc[q]
<1>0. pc \in [Proc -> PCs]
  BY DEF TypeInv, TypeOK
<1>t. TypeInv'
  BY TypeStep DEF Acts, Next
<1>1. pc' \in [Proc -> PCs]
  BY <1>t DEF TypeInv, TypeOK
<1>2. CASE Start(p)
  BY <1>0, <1>1, <1>2 DEF Start, store
<1>3. CASE WriteRow(p) \/ DeleteRow(p) \/ Exit(p) \/ Crash(p)
  BY <1>0, <1>1, <1>3 DEF WriteRow, DeleteRow, Exit, Crash, Leave, store
<1>4. CASE Resolve(p) \/ EnsureEmbedder(p) \/ Reread(p)
  BY <1>0, <1>1, <1>4 DEF Resolve, EnsureEmbedder, Reread, Leave, Goto, store
<1>5. CASE Backfill(p) \/ SetEmbedder(p) \/ RecordEmbedder(p) \/ CountPending(p)
  BY <1>0, <1>1, <1>5 DEF Backfill, SetEmbedder, RecordEmbedder, CountPending, Goto, store
<1>6. CASE ReadBatch(p) \/ WriteBatch(p) \/ Recount(p)
  BY <1>0, <1>1, <1>6 DEF ReadBatch, WriteBatch, Recount, store
<1>7. CASE ResetVectors(p)
  <2>1. ASSUME NEW s, NEW t, Redefine(p, s, t)
        PROVE  setup' = setup /\ Others /\ pc[p] # "down" /\ (lock' = lock \/ Leave(p))
    BY <1>0, <2>1 DEF Redefine, Resetting, Returns, Leave, Goto
  <2>2. ASSUME NEW s, NEW t, NEW next, ClearVectors(p, s, t, next)
        PROVE  setup' = setup /\ Others /\ pc[p] # "down" /\ lock' = lock
    BY <1>0, <2>2 DEF ClearVectors, Resetting
  <2>3. setup' = setup /\ Others /\ pc[p] # "down" /\ (lock' = lock \/ Leave(p))
    <3> HIDE DEF Others
    <3> QED  BY <1>7, <2>1, <2>2 DEF ResetVectors
  <2> QED  BY <1>1, <2>3
<1> QED  BY <1>2, <1>3, <1>4, <1>5, <1>6, <1>7 DEF Acts, Step

\* The process that acts is the only one that is up.
LEMMA OthersDown ==
    ASSUME TypeInv, Alone, ~setup.remote, NEW p \in Proc, Acts(p)
    PROVE  \A q \in Proc \ {p} : pc[q] = "down" /\ pc'[q] = "down"
<1>1. \A q \in Proc \ {p} : pc'[q] = pc[q]
  BY OthersStay
<1>2. CASE Start(p)
  BY <1>1, <1>2, VectorAssumption DEF Start, Alone
<1>3. CASE pc[p] # "down"
  BY <1>1, <1>3 DEF Alone
<1> QED  BY <1>2, <1>3, OthersStay

\* Every step keeps the data-dir lock with the one process that is not down.
LEMMA AloneStep ==
    ASSUME TypeInv, Alone, [Next]_vars
    PROVE  Alone'
<1>1. CASE UNCHANGED vars
  BY <1>1 DEF vars, Alone
<1>2. ASSUME NEW p \in Proc, Acts(p) PROVE Alone'
  <2> SUFFICES ASSUME ~setup.remote PROVE \A q \in Proc : pc'[q] # "down" => lock' = q
    BY <1>2, OthersStay DEF Alone
  <2>1. \A q \in Proc \ {p} : pc'[q] = "down"
    BY <1>2, OthersDown
  <2>2. pc'[p] # "down" => lock' = p
    <3>1. CASE Start(p)
      BY <3>1 DEF Start
    <3>2. CASE pc[p] # "down" /\ lock' = lock
      BY <3>2 DEF Alone
    <3>3. CASE Leave(p)
      BY <3>3 DEF Leave, TypeInv, TypeOK
    <3> QED  BY <1>2, <3>1, <3>2, <3>3, OthersStay
  <2> QED  BY <2>1, <2>2
<1> QED  BY <1>1, <1>2 DEF Next, Acts

-----------------------------------------------------------------------------
(* One space *)

\* The record m can stand for vectors of b for good: it names their model and
\* width, their revision does not contradict it, and while it has no revision
\* they have none either, or one that every release agrees on.
Told(s, m, b) ==
    /\ m # None /\ m.model = b.model /\ m.dim = b.dim
    /\ RevisionsTold(s) =>
         /\ Matches(m, b)
         /\ m.revision = None =>
               b.revision = None \/ (OnePin(s) /\ b \in s.configured)

AllClear == \A r \in Row : vec[r] = None

\* What the place of a process says of the space: one that serves writes
\* vectors the record stands for; the script of a move has cleared what it is
\* past; and a first run finds no record until it writes its own.
ProcSpace(p) ==
    /\ pc[p] \in {"count", "serving"} /\ backend[p].dim > 0 => Told(setup, meta, backend[p])
    /\ pc[p] = "backfill" =>
         Matches(meta, backend[p]) /\ meta.revision = None /\ backend[p].revision # None
    /\ pc[p] \in {"reset", "adopt"} =>
         /\ stage[p] = "clear chunk" => \A r \in RowsOf("memory") : vec[r] = None
         /\ stage[p] \notin {"clear memory", "clear chunk"} => AllClear
    /\ pc[p] = "set" => AllClear
    /\ pc[p] \in {"adopt", "record"} => meta = None
    /\ pc[p] = "reread" => meta = backend[p]
    /\ pc[p] = "serving" /\ drain[p] # "off" => backend[p].dim > 0

SpaceInv ==
    ~setup.remote =>
        /\ \A r \in Row : vec[r] # None => Told(setup, meta, vec[r])
        /\ AllPinned(setup) /\ meta # None => meta.revision # None
        /\ \A p \in Proc : ProcSpace(p)

\* A store as it is found has only vectors of the space it records.
LEMMA SpaceInit == Init => SpaceInv
<1> SUFFICES ASSUME Init PROVE SpaceInv
  OBVIOUS
<1>1. \A r \in Row : vec[r] # None => vec[r] = meta /\ meta # None
  BY DEF Init
<1>2. meta # None => meta \in Stored \ {None} /\ meta.dim > 0
  BY VectorAssumption DEF Init
<1>3. \A p \in Proc : ProcSpace(p)
  BY DEF Init, ProcSpace
<1>4. meta # None => Told(setup, meta, meta)
  BY DEF Told, Matches
<1> QED  BY <1>1, <1>2, <1>3, <1>4 DEF SpaceInv, AllPinned

\* A process that is down says nothing.
LEMMA DownSpace ==
    ASSUME NEW q \in Proc, pc'[q] = "down"
    PROVE  ProcSpace(q)'
BY DEF ProcSpace

\* So a step has to answer for its own process only.
LEMMA SpaceFrame ==
    ASSUME TypeInv, Alone, SpaceInv, ~setup.remote, NEW p \in Proc, Acts(p),
           \A r \in Row : vec'[r] # None => Told(setup, meta', vec'[r]),
           AllPinned(setup) /\ meta' # None => meta'.revision # None,
           ProcSpace(p)'
    PROVE  SpaceInv'
<1>1. \A q \in Proc \ {p} : pc'[q] = "down"
  BY OthersDown
<1>2. \A q \in Proc : ProcSpace(q)'
  BY <1>1, DownSpace
<1> QED  BY <1>2, OthersStay DEF SpaceInv

\* A backend is told by itself.
LEMMA ToldSelf ==
    ASSUME NEW s, NEW b, b # None
    PROVE  Told(s, b, b)
BY DEF Told, Matches

\* Every step leaves the vectors under a record that stands for them, and each
\* process where the rest of its script can keep them there.
LEMMA SpaceStep ==
    ASSUME TypeInv, Alone, SpaceInv, [Next]_vars
    PROVE  SpaceInv'
<1>0. CASE UNCHANGED vars
  BY <1>0 DEF vars, SpaceInv, ProcSpace, AllClear
<1>1. ASSUME NEW p \in Proc, Acts(p), setup.remote PROVE SpaceInv'
  BY <1>1, OthersStay DEF SpaceInv
<1> SUFFICES ASSUME ~setup.remote, NEW p \in Proc, Acts(p) PROVE SpaceInv'
  BY <1>0, <1>1 DEF Next, Acts
<1> DEFINE Recorded == \A r \in Row : vec'[r] # None => Told(setup, meta', vec'[r])
           Pinned == AllPinned(setup) /\ meta' # None => meta'.revision # None
<1>2. /\ \A r \in Row : vec[r] # None => Told(setup, meta, vec[r])
      /\ AllPinned(setup) /\ meta # None => meta.revision # None
      /\ ProcSpace(p)
  BY DEF SpaceInv
<1>3. SUFFICES Recorded /\ Pinned /\ ProcSpace(p)'
  BY SpaceFrame
<1>4. /\ pc \in [Proc -> PCs] /\ vec \in [Row -> Backend \cup {None}]
      /\ stage \in [Proc -> Stages] /\ backend \in [Proc -> Backend \cup {None}]
      /\ setup \in Setups /\ setup' = setup /\ rows \subseteq Row
      /\ batch \in [Proc -> SUBSET Row]
  BY OthersStay DEF TypeInv, TypeOK, Running, Stages, Statements
<1>5. pc[p] # "down" => /\ backend[p] \in setup.configured /\ tool[p] \in setup.tools
                        /\ backend[p] \in Backend /\ backend[p] # None /\ backend[p].dim \in Nat
                        /\ backend[p] = [model |-> backend[p].model, dim |-> backend[p].dim,
                                         revision |-> backend[p].revision]
  BY BackendShape DEF TypeInv, Running
<1>6. ASSUME vec' = vec, meta' = meta PROVE Recorded /\ Pinned
  BY <1>2, <1>6
<1>7. CASE Start(p)
  <2>1. pc'[p] = "resolve" /\ vec' = vec /\ meta' = meta
    BY <1>4, <1>7 DEF Start, store
  <2> QED  BY <1>6, <2>1 DEF ProcSpace
<1>8. ASSUME vec' = vec, meta' = meta, Leave(p) PROVE Recorded /\ Pinned /\ ProcSpace(p)'
  <2>1. pc'[p] = "down"
    BY <1>4, <1>8 DEF Leave
  <2> QED  BY <1>6, <1>8, <2>1, DownSpace
<1>9. CASE Exit(p) \/ Crash(p)
  BY <1>8, <1>9 DEF Exit, Crash, store
<1>10. CASE Resolve(p)
  <2>1. /\ vec' = vec /\ meta' = meta /\ backend' = backend /\ pc[p] = "resolve"
    BY <1>10 DEF Resolve, store
  <2>2. CASE backend[p].dim = 0
    <3>1. pc'[p] = "serving"
      BY <1>4, <1>5, <1>10, <2>1, <2>2 DEF Resolve, Goto
    <3>2. drain'[p] = "off"
      BY <1>10, <2>1 DEF Resolve, loop, TypeInv, Running
    <3> QED  BY <1>6, <2>1, <2>2, <3>1, <3>2 DEF ProcSpace
  <2>3. CASE /\ backend[p].dim # 0 /\ Goto(p, "reset") /\ stage' = [stage EXCEPT ![p] = "clear memory"]
    <3>1. pc'[p] = "reset" /\ stage'[p] = "clear memory"
      BY <1>4, <2>3 DEF Goto
    <3> QED  BY <1>6, <2>1, <3>1 DEF ProcSpace
  <2>4. CASE tool[p] # "reindex" /\ Goto(p, "ensure")
    <3>1. pc'[p] = "ensure"
      BY <1>4, <2>4 DEF Goto
    <3> QED  BY <1>6, <2>1, <3>1 DEF ProcSpace
  <2>5. CASE /\ tool[p] = "reindex" /\ Matches(meta, backend[p]) /\ Goto(p, "count")
    <3>1. pc'[p] = "count" /\ "reindex" \in setup.tools /\ backend[p] \in setup.configured
      BY <1>4, <1>5, <2>1, <2>5 DEF Goto
    <3>2. Told(setup, meta, backend[p])
      BY <1>2, <2>5, <3>1 DEF Told, Matches, RevisionsTold
    <3> QED  BY <1>6, <2>1, <3>1, <3>2, <1>4 DEF ProcSpace
  <2> QED
    <3>1. \/ backend[p].dim = 0
          \/ /\ backend[p].dim # 0 /\ Goto(p, "reset")
             /\ stage' = [stage EXCEPT ![p] = "clear memory"]
          \/ tool[p] # "reindex" /\ Goto(p, "ensure")
          \/ tool[p] = "reindex" /\ Matches(meta, backend[p]) /\ Goto(p, "count")
      <4>1. tool[p] \in {"serve", "reindex"}
        BY DEF TypeInv, TypeOK
      <4> QED  BY <1>10, <4>1 DEF Resolve
    <3> QED  BY <2>2, <2>3, <2>4, <2>5, <3>1
<1>11. CASE EnsureEmbedder(p)
  <2>1. vec' = vec /\ meta' = meta /\ backend' = backend /\ pc[p] = "ensure"
    BY <1>11 DEF EnsureEmbedder, store
  <2>2. CASE Leave(p)
    BY <1>8, <2>1, <2>2
  <2>3. CASE meta = None /\ Goto(p, "adopt") /\ stage' = [stage EXCEPT ![p] = "clear memory"]
    <3>1. pc'[p] = "adopt" /\ stage'[p] = "clear memory"
      BY <1>4, <2>3 DEF Goto
    <3> QED  BY <1>6, <2>1, <2>3, <3>1 DEF ProcSpace
  <2>4. CASE meta = None /\ Goto(p, "record")
    <3>1. pc'[p] = "record"
      BY <1>4, <2>4 DEF Goto
    <3> QED  BY <1>6, <2>1, <2>4, <3>1 DEF ProcSpace
  <2>5. CASE /\ Matches(meta, backend[p]) /\ meta.revision = None /\ backend[p].revision # None
             /\ Goto(p, "backfill")
    <3>1. pc'[p] = "backfill"
      BY <1>4, <2>5 DEF Goto
    <3> QED  BY <1>6, <2>1, <2>5, <3>1 DEF ProcSpace
  <2>6. CASE /\ Matches(meta, backend[p]) /\ ~(meta.revision = None /\ backend[p].revision # None)
             /\ Goto(p, "count")
    <3>1. pc'[p] = "count"
      BY <1>4, <2>6 DEF Goto
    <3>2. Told(setup, meta, backend[p])
      BY <2>6 DEF Told, Matches
    <3> QED  BY <1>4, <1>6, <2>1, <3>1, <3>2 DEF ProcSpace
  <2> QED  BY <1>11, <2>2, <2>3, <2>4, <2>5, <2>6 DEF EnsureEmbedder
<1>12. CASE Backfill(p)
  <2>1. /\ pc[p] = "backfill" /\ vec' = vec /\ backend' = backend /\ Goto(p, "count")
    BY <1>12 DEF Backfill
  <2>2. /\ Matches(meta, backend[p]) /\ meta.revision = None /\ backend[p].revision # None
        /\ meta # None
    BY <1>2, <2>1 DEF ProcSpace, Matches
  <2>3. meta = [model |-> meta.model, dim |-> meta.dim, revision |-> meta.revision]
    BY <2>2 DEF TypeInv, Running
  <2>4. meta' = [model |-> meta.model, dim |-> meta.dim, revision |-> backend[p].revision]
    BY <1>12, <2>2, <2>3 DEF Backfill
  <2>5. meta' = backend[p]
    BY <1>5, <2>1, <2>2, <2>4 DEF Matches
  <2>6. ASSUME NEW r \in Row, vec[r] # None PROVE Told(setup, backend[p], vec[r])
    <3>1. Told(setup, meta, vec[r])
      BY <1>2, <2>6
    <3>2. backend[p] # None /\ backend[p].model = vec[r].model /\ backend[p].dim = vec[r].dim
      BY <1>5, <2>1, <2>2, <3>1 DEF Told, Matches
    <3>3. ASSUME RevisionsTold(setup)
          PROVE  vec[r].revision # None => backend[p].revision = vec[r].revision
      <4>1. vec[r].revision # None => OnePin(setup) /\ vec[r] \in setup.configured
        BY <2>2, <3>1, <3>3 DEF Told
      <4> QED  BY <1>5, <2>1, <2>2, <3>2, <4>1 DEF OnePin
    <3> QED  BY <2>2, <3>2, <3>3 DEF Told, Matches
  <2>7. pc'[p] = "count" /\ Told(setup, backend[p], backend[p])
    BY <1>4, <1>5, <2>1, ToldSelf DEF Goto
  <2> QED  BY <1>4, <2>1, <2>2, <2>5, <2>6, <2>7 DEF ProcSpace
<1>13. ASSUME NEW s, NEW t, NEW next, ClearVectors(p, s, t, next),
              \/ s = "clear memory" /\ t = "memory" /\ next = "clear chunk"
              \/ s = "clear chunk" /\ t = "chunk" /\ next = "define memory"
       PROVE  Recorded /\ Pinned /\ ProcSpace(p)'
  <2>1. /\ meta' = meta /\ backend' = backend /\ pc' = pc /\ pc[p] \in {"reset", "adopt"}
        /\ stage[p] = s /\ stage'[p] = next
    BY <1>4, <1>13 DEF ClearVectors, Resetting
  <2>2. \A r \in Row : vec'[r] = IF r \in RowsOf(t) THEN None ELSE vec[r]
    BY <1>13 DEF ClearVectors
  <2>3. Recorded /\ Pinned
    BY <1>2, <2>1, <2>2
  <2>4. next = "clear chunk" => \A r \in RowsOf("memory") : vec'[r] = None
    BY <1>13, <2>2 DEF RowsOf
  <2>5. next = "define memory" => \A r \in Row : vec'[r] = None
    BY <1>2, <1>13, <2>1, <2>2 DEF RowsOf, TableOf, ProcSpace
  <2>6. pc[p] = "adopt" => meta = None
    BY <1>2 DEF ProcSpace
  <2> QED  BY <1>13, <2>1, <2>3, <2>4, <2>5, <2>6 DEF ProcSpace, AllClear
<1>14. ASSUME NEW s, NEW t, Redefine(p, s, t),
              s \in {"define memory", "define chunk", "define chunk after error"}
       PROVE  Recorded /\ Pinned /\ ProcSpace(p)'
  <2>1. /\ meta' = meta /\ vec' = vec /\ backend' = backend /\ pc[p] \in {"reset", "adopt"}
        /\ stage[p] = s
    BY <1>14 DEF Redefine, Resetting
  <2>2. \A r \in Row : vec[r] = None
    BY <1>2, <1>14, <2>1 DEF ProcSpace, AllClear
  <2>3. pc[p] = "adopt" => meta = None
    BY <1>2 DEF ProcSpace
  <2>4. CASE Leave(p)
    BY <1>8, <2>1, <2>4
  <2>5. CASE ~Leave(p)
    <3>1. IF AfterRedefine(s, \E r \in rows \cap RowsOf(t) : vec[r] # None /\ vec[r].dim # backend[p].dim) = None
          THEN Returns(p) ELSE pc' = pc /\ stage'[p] \in {"define chunk", "define chunk after error", None}
      BY <1>4, <1>14, <2>5 DEF Redefine, AfterRedefine
    <3>2. CASE Returns(p)
      <4>1. pc'[p] = IF pc[p] = "reset" THEN "set" ELSE "record"
        BY <1>4, <3>2 DEF Returns, Goto
      <4> QED  BY <1>6, <2>1, <2>2, <2>3, <4>1 DEF ProcSpace, AllClear
    <3>3. CASE pc' = pc
      BY <1>6, <2>1, <2>2, <2>3, <3>3 DEF ProcSpace, AllClear, RowsOf
    <3> QED  BY <3>1, <3>2, <3>3
  <2> QED  BY <2>4, <2>5
<1>15. CASE ResetVectors(p)
  <2> HIDE DEF Recorded, Pinned
  <2> QED  BY <1>13, <1>14, <1>15 DEF ResetVectors
<1>16. CASE SetEmbedder(p)
  <2>1. /\ pc[p] = "set" /\ vec' = vec /\ meta' = backend[p] /\ backend' = backend /\ pc'[p] = "count"
    BY <1>4, <1>16 DEF SetEmbedder, Goto
  <2>2. \A r \in Row : vec[r] = None
    BY <1>2, <2>1 DEF ProcSpace, AllClear
  <2>3. Told(setup, backend[p], backend[p])
    BY <1>5, <2>1, ToldSelf
  <2>4. backend[p].dim > 0
    BY <2>1 DEF TypeInv, Running
  <2>5. Pinned
    BY <1>5, <2>1, <2>4 DEF AllPinned
  <2> QED  BY <1>4, <2>1, <2>2, <2>3, <2>5 DEF ProcSpace
<1>17. CASE RecordEmbedder(p)
  <2>1. /\ pc[p] = "record" /\ vec' = vec /\ backend' = backend /\ pc'[p] = "reread"
        /\ meta = None /\ meta' = backend[p]
    BY <1>2, <1>4, <1>17 DEF RecordEmbedder, Goto, ProcSpace
  <2>2. \A r \in Row : vec[r] = None
    BY <1>2, <2>1 DEF Told
  <2>3. backend[p].dim > 0
    BY <2>1 DEF TypeInv, Running
  <2>4. Pinned
    BY <1>5, <2>1, <2>3 DEF AllPinned
  <2> QED  BY <2>1, <2>2, <2>4 DEF ProcSpace
<1>18. CASE Reread(p)
  <2>1. /\ pc[p] = "reread" /\ vec' = vec /\ meta' = meta /\ backend' = backend
        /\ meta = backend[p]
    BY <1>2, <1>18 DEF Reread, store, ProcSpace
  <2>2. CASE Leave(p)
    BY <1>8, <2>1, <2>2
  <2>3. CASE Goto(p, "count")
    <3>1. pc'[p] = "count" /\ Told(setup, backend[p], backend[p])
      BY <1>4, <1>5, <2>1, <2>3, ToldSelf DEF Goto
    <3> QED  BY <1>4, <1>6, <2>1, <3>1 DEF ProcSpace
  <2> QED  BY <1>18, <2>2, <2>3 DEF Reread
<1>19. CASE CountPending(p)
  <2>1. /\ pc[p] = "count" /\ vec' = vec /\ meta' = meta /\ backend' = backend /\ pc'[p] = "serving"
    BY <1>4, <1>19 DEF CountPending, Goto, store
  <2>2. backend[p].dim > 0
    BY <2>1 DEF TypeInv, Running
  <2> QED  BY <1>2, <1>4, <1>6, <2>1, <2>2 DEF ProcSpace
<1>20. ASSUME pc[p] = "serving", pc' = pc, meta' = meta, backend' = backend,
              drain' = drain \/ drain[p] # "off"
       PROVE  ProcSpace(p)' /\ Pinned
  BY <1>2, <1>4, <1>20 DEF ProcSpace
<1>21. CASE ReadBatch(p) \/ Recount(p)
  BY <1>6, <1>20, <1>21 DEF ReadBatch, Recount, store
<1>22. CASE WriteBatch(p)
  <2>1. /\ pc[p] = "serving" /\ pc' = pc /\ meta' = meta /\ backend' = backend
        /\ drain[p] # "off"
    BY <1>22 DEF WriteBatch
  <2>2. CASE vec' = vec
    BY <1>6, <1>20, <2>1, <2>2
  <2>3. CASE vec' = [r \in Row |-> IF r \in batch[p] \cap rows THEN backend[p] ELSE vec[r]]
    <3>1. Told(setup, meta, backend[p])
      BY <1>2, <2>1 DEF ProcSpace
    <3>2. Recorded
      BY <1>2, <2>1, <2>3, <3>1
    <3> QED  BY <1>20, <2>1, <3>2
  <2> QED  BY <1>22, <2>2, <2>3 DEF WriteBatch
<1>23. CASE WriteRow(p)
  <2>1. /\ pc[p] = "serving" /\ pc' = pc /\ meta' = meta /\ backend' = backend
        /\ drain' = drain
    BY <1>23 DEF WriteRow, loop
  <2>2. PICK r \in Row \ rows :
           vec' = [vec EXCEPT ![r] = IF backend[p].dim = 0 THEN None ELSE backend[p]]
    BY <1>23 DEF WriteRow
  <2>3. backend[p].dim # 0 => Told(setup, meta, backend[p])
    BY <1>2, <1>5, <2>1 DEF ProcSpace
  <2>4. Recorded
    BY <1>2, <1>4, <2>1, <2>2, <2>3
  <2> QED  BY <1>20, <2>1, <2>4
<1>24. CASE DeleteRow(p)
  <2>1. /\ pc[p] = "serving" /\ pc' = pc /\ meta' = meta /\ backend' = backend
        /\ drain' = drain
    BY <1>24 DEF DeleteRow, loop
  <2>2. PICK r \in rows : vec' = [vec EXCEPT ![r] = None]
    BY <1>24 DEF DeleteRow
  <2>3. Recorded
    BY <1>2, <1>4, <2>1, <2>2
  <2> QED  BY <1>20, <2>1, <2>3
<1> HIDE DEF Recorded, Pinned
<1> QED  BY <1>7, <1>9, <1>10, <1>11, <1>12, <1>15, <1>16, <1>17, <1>18, <1>19, <1>21, <1>22, <1>23, <1>24
         DEF Acts, Step

(***************************************************************************)
(* One store, one geometry: on an embedded engine, whatever backends       *)
(* follow each other, wherever a move or a drain is cut short, every       *)
(* vector was built by the recorded model at the recorded width, and       *)
(* where the revisions are told at a revision that matches                 *)
(* (startup::resolve, reindex::execute, migrate::ensure_embedder).         *)
(***************************************************************************)
THEOREM StoreHoldsOneSpace == Spec => []OneSpace
<1>1. Init => TypeInv /\ Alone /\ SpaceInv
  BY TypeInit, SpaceInit DEF Init, Alone
<1>2. TypeInv /\ Alone /\ SpaceInv /\ [Next]_vars => (TypeInv /\ Alone /\ SpaceInv)'
  BY TypeStep, AloneStep, SpaceStep
<1>3. TypeInv /\ SpaceInv => OneSpace
  BY DEF TypeInv, TypeOK, SpaceInv, OneSpace, Told
<1> QED  BY <1>1, <1>2, <1>3, PTL DEF Spec

-----------------------------------------------------------------------------
(* The notice *)

\* On an embedded engine a count of 0 is taken, or settled on, only when no row
\* is without a vector, and no step of the process that counted adds one.
LEMMA NoticeStep ==
    ASSUME TypeInv, Alone, SpaceInv, NoticeHonest, [Next]_vars
    PROVE  NoticeHonest'
<1>0. CASE UNCHANGED vars
  BY <1>0 DEF vars, NoticeHonest, Serves, Pending
<1>1. ASSUME NEW p \in Proc, Acts(p), setup.remote PROVE NoticeHonest'
  BY <1>1, OthersStay DEF NoticeHonest
<1> SUFFICES ASSUME ~setup.remote, NEW p \in Proc, Acts(p) PROVE NoticeHonest'
  BY <1>0, <1>1 DEF Next, Acts
<1>2. SUFFICES ASSUME Serves(p)', pending'[p] = 0 PROVE Pending' = {}
  BY OthersDown DEF NoticeHonest, Serves
<1>3. /\ pc \in [Proc -> PCs] /\ vec \in [Row -> Backend \cup {None}] /\ rows \subseteq Row
      /\ backend \in [Proc -> Backend \cup {None}]
  BY DEF TypeInv, TypeOK
<1>4. pending \in [Proc -> 0..Cardinality(Row)]
  BY DEF TypeInv, TypeOK
<1>5. Cardinality(Pending) = 0 <=> Pending = {}
  BY <1>3, PendingCount
<1>6. pc'[p] = "serving" /\ backend'[p].dim > 0
  BY <1>2 DEF Serves
<1>7. pending[p] = 0 /\ pc[p] = "serving" /\ backend' = backend => Pending = {}
  BY <1>6 DEF NoticeHonest, Serves
<1>8. CASE CountPending(p)
  <2>1. Cardinality(Pending) = 0
    BY <1>2, <1>4, <1>8 DEF CountPending
  <2> QED  BY <1>5, <1>8, <2>1 DEF CountPending, store, Pending
<1>9. CASE Resolve(p)
  <2>1. backend' = backend /\ pc[p] = "resolve" /\ backend[p].dim \in Nat
    BY <1>9, BackendShape DEF Resolve, TypeInv
  <2>2. backend[p].dim # 0
    BY <1>6, <2>1
  <2>3. Goto(p, "reset") \/ Goto(p, IF tool[p] = "reindex" THEN "count" ELSE "ensure")
    BY <1>9, <2>2 DEF Resolve
  <2> QED  BY <1>3, <1>6, <2>3 DEF Goto
<1>10. CASE Start(p) \/ Exit(p) \/ Crash(p)
  BY <1>3, <1>6, <1>10 DEF Start, Exit, Crash, Leave
<1>11. CASE EnsureEmbedder(p) \/ Backfill(p) \/ SetEmbedder(p) \/ RecordEmbedder(p) \/ Reread(p)
  BY <1>3, <1>6, <1>11 DEF EnsureEmbedder, Backfill, SetEmbedder, RecordEmbedder, Reread, Leave, Goto
<1>12. CASE ResetVectors(p)
  <2>1. ASSUME NEW s, NEW t, Redefine(p, s, t) PROVE pc'[p] # "serving"
    BY <1>3, <2>1 DEF Redefine, Resetting, Returns, Leave, Goto
  <2>2. ASSUME NEW s, NEW t, NEW next, ClearVectors(p, s, t, next) PROVE pc'[p] # "serving"
    BY <1>3, <2>2 DEF ClearVectors, Resetting
  <2> QED  BY <1>6, <1>12, <2>1, <2>2 DEF ResetVectors
<1>13. CASE ReadBatch(p)
  <2>1. pc[p] = "serving" /\ backend' = backend /\ rows' = rows /\ vec' = vec
    BY <1>13 DEF ReadBatch, store
  <2>2. CASE Pending = {}
    BY <2>1, <2>2 DEF Pending
  <2>3. CASE Pending # {}
    BY <1>2, <1>7, <1>13, <2>1, <2>3 DEF ReadBatch
  <2> QED  BY <2>2, <2>3
<1>14. CASE WriteBatch(p)
  <2>1. pc[p] = "serving" /\ backend' = backend /\ rows' = rows /\ pending' = pending
    BY <1>14 DEF WriteBatch, DrainFailed
  <2>2. Pending = {}
    BY <1>2, <1>7, <2>1
  <2>3. backend[p] # None
    BY <2>1, BackendShape DEF TypeInv
  <2>4. \A r \in Row : vec'[r] = vec[r] \/ vec'[r] = backend[p]
    BY <1>14 DEF WriteBatch
  <2> QED  BY <1>3, <2>1, <2>2, <2>3, <2>4 DEF Pending
<1>15. CASE Recount(p)
  <2>1. /\ pc[p] = "serving" /\ backend' = backend /\ rows' = rows /\ vec' = vec
        /\ Settle(p, Cardinality(Pending))
    BY <1>15 DEF Recount, store
  <2>2. CASE pending' = pending
    BY <1>2, <1>7, <2>1, <2>2 DEF Pending
  <2>3. CASE pending' = [pending EXCEPT ![p] = Cardinality(Pending)]
    <3>1. Cardinality(Pending) = 0
      BY <1>2, <1>4, <2>3
    <3> QED  BY <1>5, <2>1, <3>1 DEF Pending
  <2> QED  BY <2>1, <2>2, <2>3 DEF Settle, DrainFailed
<1>16. CASE WriteRow(p)
  <2>1. pc[p] = "serving" /\ backend' = backend /\ pending' = pending
    BY <1>16 DEF WriteRow, loop
  <2>2. Pending = {}
    BY <1>2, <1>7, <2>1
  <2>3. backend[p] # None /\ backend[p].dim # 0
    <3>1. backend[p] # None /\ backend[p].dim \in Nat /\ backend[p].dim > 0
      BY <1>6, <2>1, BackendShape DEF TypeInv
    <3> QED  BY <3>1
  <2>4. PICK r \in Row \ rows :
           rows' = rows \cup {r} /\ vec' = [vec EXCEPT ![r] = backend[p]]
    BY <1>16, <2>3 DEF WriteRow
  <2> QED  BY <1>3, <2>2, <2>3, <2>4 DEF Pending
<1>17. CASE DeleteRow(p)
  <2>1. pc[p] = "serving" /\ backend' = backend /\ pending' = pending
    BY <1>17 DEF DeleteRow, loop
  <2>2. Pending = {}
    BY <1>2, <1>7, <2>1
  <2>3. PICK r \in rows : rows' = rows \ {r} /\ vec' = [vec EXCEPT ![r] = None]
    BY <1>17 DEF DeleteRow
  <2> QED  BY <1>3, <2>2, <2>3 DEF Pending
<1> QED  BY <1>8, <1>9, <1>10, <1>11, <1>12, <1>13, <1>14, <1>15, <1>16, <1>17 DEF Acts, Step

(***************************************************************************)
(* The "still being re-embedded" notice (VectorState.pending) is never     *)
(* down in a process that serves vectors while a row has none, on an       *)
(* embedded engine, whatever the drain does, gives up or races deletes.    *)
(***************************************************************************)
THEOREM NoticeStaysHonest == Spec => []NoticeHonest
<1>1. Init => TypeInv /\ Alone /\ SpaceInv /\ NoticeHonest
  BY TypeInit, SpaceInit DEF Init, Alone, NoticeHonest, Serves
<1>2. /\ TypeInv /\ Alone /\ SpaceInv /\ NoticeHonest /\ [Next]_vars
      => (TypeInv /\ Alone /\ SpaceInv /\ NoticeHonest)'
  BY TypeStep, AloneStep, SpaceStep, NoticeStep
<1> QED  BY <1>1, <1>2, PTL DEF Spec

-----------------------------------------------------------------------------
(* The width of the indexes *)

\* The installations whose indexes stay usable: an embedded engine, and either
\* no crash cuts a move short or every configured model has one width, so that
\* no process opens the store with the width a move was leaving.
OneWidth(s) == \A b, c \in s.configured : b.dim > 0 /\ c.dim > 0 => b.dim = c.dim
Recoverable(s) == ~s.remote /\ (s.crashes = 0 \/ OneWidth(s))

\* No process is between the first statement of a move and its record.
Whole == \A p \in Proc : pc[p] \notin {"reset", "set", "adopt", "record"}

\* The record and the indexes agree.
Agrees(m, w) ==
    \A b \in setup.configured : b.dim > 0 =>
        /\ m # None /\ m.dim = b.dim => \A t \in Table : w[t] = b.dim
        /\ m = None /\ b.dim = BakedDim => \A t \in Table : w[t] = b.dim

\* The script of a move has redefined what it is past.
ProcWidth(p) ==
    /\ pc[p] \in {"set", "record"} => \A t \in Table : width[t] = backend[p].dim
    /\ pc[p] \in {"reset", "adopt"} =>
         /\ stage[p] = "define chunk" => width["memory"] = backend[p].dim
         /\ stage[p] # "define chunk after error"
    /\ pc[p] = "adopt" => backend[p].dim # BakedDim

\* They agree while no move is under way, and all along where the widths never
\* differ.
WidthInv ==
    Recoverable(setup) =>
        /\ Whole \/ OneWidth(setup) => Agrees(meta, width)
        /\ \A p \in Proc : ProcWidth(p)

\* A store as it is found has its indexes at the recorded width, or the baked one.
LEMMA WidthInit == Init => WidthInv
<1> SUFFICES ASSUME Init PROVE WidthInv
  OBVIOUS
<1>1. Agrees(meta, width)
  BY DEF Init, Agrees
<1>2. \A p \in Proc : ProcWidth(p)
  BY DEF Init, ProcWidth
<1> QED  BY <1>1, <1>2 DEF WidthInv

\* Every step keeps the index widths in agreement with the record, or with a move
\* that will be resumed.
LEMMA WidthStep ==
    ASSUME TypeInv, Alone, SpaceInv, WidthInv, [Next]_vars
    PROVE  WidthInv'
<1>0. CASE UNCHANGED vars
  BY <1>0 DEF vars, WidthInv, Agrees, ProcWidth, Whole
<1>1. ASSUME NEW p \in Proc, Acts(p), ~Recoverable(setup) PROVE WidthInv'
  BY <1>1, OthersStay DEF WidthInv
<1> SUFFICES ASSUME Recoverable(setup), NEW p \in Proc, Acts(p) PROVE WidthInv'
  BY <1>0, <1>1 DEF Next, Acts
<1>2. /\ ~setup.remote /\ setup' = setup
      /\ \A q \in Proc \ {p} : pc[q] = "down" /\ pc'[q] = "down"
  BY OthersStay, OthersDown DEF Recoverable
<1>3. /\ pc \in [Proc -> PCs] /\ stage \in [Proc -> Stages]
      /\ width \in [Table -> Widths \cup {BakedDim}]
  BY DEF TypeInv, TypeOK, Stages, Statements, Widths
<1> DEFINE InMove == {"reset", "set", "adopt", "record"}
           After == \A b \in setup.configured : b.dim > 0 =>
                      /\ meta' # None /\ meta'.dim = b.dim => \A t \in Table : width'[t] = b.dim
                      /\ meta' = None /\ b.dim = BakedDim => \A t \in Table : width'[t] = b.dim
           Goal == (pc'[p] \notin InMove \/ OneWidth(setup) => After) /\ ProcWidth(p)'
<1>4. SUFFICES Goal
  <2>1. \A q \in Proc \ {p} : ProcWidth(q)'
    BY <1>2 DEF ProcWidth
  <2>2. Whole' => pc'[p] \notin InMove
    BY DEF Whole
  <2>3. After => Agrees(meta, width)'
    BY <1>2 DEF Agrees
  <2> QED  BY <1>2, <2>1, <2>2, <2>3 DEF WidthInv
<1>5. (pc[p] \notin InMove \/ OneWidth(setup)) => Agrees(meta, width)
  BY <1>2 DEF WidthInv, Whole
<1>6. ProcWidth(p) /\ ProcSpace(p)
  BY <1>2 DEF WidthInv, SpaceInv
<1>7. pc[p] # "down" => /\ backend[p] \in setup.configured /\ backend[p].dim \in Nat
                        /\ backend[p] # None
  BY BackendShape DEF TypeInv, Running
<1>8. ASSUME meta' = meta, width' = width, pc[p] \notin InMove \/ OneWidth(setup)
      PROVE  After
  BY <1>5, <1>8 DEF Agrees
<1>9. ASSUME meta' = meta, width' = width, pc[p] \notin InMove, pc'[p] \notin InMove
      PROVE  Goal
  BY <1>8, <1>9 DEF ProcWidth
<1>10. CASE Start(p)
  <2>1. meta' = meta /\ width' = width /\ pc[p] = "down" /\ pc'[p] = "resolve"
    BY <1>3, <1>10 DEF Start, store
  <2> QED  BY <1>9, <2>1
<1>11. CASE Exit(p)
  <2>1. meta' = meta /\ width' = width /\ pc[p] = "serving" /\ pc'[p] = "down"
    BY <1>3, <1>11 DEF Exit, Leave, store
  <2> QED  BY <1>9, <2>1
<1>12. CASE Crash(p)
  <2>1. meta' = meta /\ width' = width /\ pc'[p] = "down" /\ crashes < setup.crashes
    BY <1>3, <1>12 DEF Crash, Leave, store
  <2>2. OneWidth(setup)
    <3>1. crashes \in 0..setup.crashes
      BY DEF TypeInv, TypeOK
    <3>2. setup.crashes # 0
      BY <2>1, <3>1
    <3> QED  BY <3>2 DEF Recoverable
  <2> QED  BY <1>8, <2>1, <2>2 DEF ProcWidth
<1>13. CASE Resolve(p)
  <2>1. meta' = meta /\ width' = width /\ pc[p] = "resolve" /\ backend' = backend
    BY <1>13 DEF Resolve, store
  <2>2. CASE Goto(p, "reset") /\ stage' = [stage EXCEPT ![p] = "clear memory"]
    <3>1. pc'[p] = "reset" /\ stage'[p] = "clear memory"
      BY <1>3, <2>2 DEF Goto
    <3> QED  BY <1>8, <2>1, <3>1 DEF ProcWidth
  <2>3. CASE pc'[p] \in {"serving", "count", "ensure"}
    BY <1>9, <2>1, <2>3
  <2> QED  BY <1>3, <1>13, <2>2, <2>3 DEF Resolve, Goto
<1>14. CASE EnsureEmbedder(p)
  <2>1. meta' = meta /\ width' = width /\ pc[p] = "ensure" /\ backend' = backend
    BY <1>14 DEF EnsureEmbedder, store
  <2>2. CASE /\ backend[p].dim # BakedDim /\ Goto(p, "adopt")
             /\ stage' = [stage EXCEPT ![p] = "clear memory"]
    <3>1. pc'[p] = "adopt" /\ stage'[p] = "clear memory"
      BY <1>3, <2>2 DEF Goto
    <3> QED  BY <1>8, <2>1, <2>2, <3>1 DEF ProcWidth
  <2>3. CASE meta = None /\ backend[p].dim = BakedDim /\ Goto(p, "record")
    <3>1. pc'[p] = "record" /\ backend[p].dim > 0
      BY <1>3, <2>1, <2>3 DEF Goto, TypeInv, Running
    <3>2. \A t \in Table : width[t] = backend[p].dim
      BY <1>5, <1>7, <2>1, <2>3, <3>1 DEF Agrees
    <3> QED  BY <1>8, <2>1, <3>1, <3>2 DEF ProcWidth
  <2>4. CASE pc'[p] \in {"down", "backfill", "count"}
    BY <1>9, <2>1, <2>4
  <2> QED  BY <1>3, <1>14, <2>2, <2>3, <2>4 DEF EnsureEmbedder, Leave, Goto
<1>15. CASE Backfill(p)
  <2>1. /\ pc[p] = "backfill" /\ width' = width /\ backend' = backend /\ pc'[p] = "count"
    BY <1>3, <1>15 DEF Backfill, Goto
  <2>2. meta # None /\ meta.revision = None
    BY <1>6, <2>1 DEF ProcSpace, Matches
  <2>3. meta = [model |-> meta.model, dim |-> meta.dim, revision |-> meta.revision]
    BY <2>2 DEF TypeInv, Running
  <2>4. meta' = [model |-> meta.model, dim |-> meta.dim, revision |-> backend[p].revision]
    BY <1>15, <2>2, <2>3 DEF Backfill
  <2>5. meta'.dim = meta.dim /\ meta' # None
    <3>1. TypeInv'
      BY TypeStep
    <3>2. meta' = backend[p]
      BY <1>6, <2>1, <2>4, BackendShape DEF ProcSpace, Matches, TypeInv
    <3> QED  BY <1>7, <2>1, <2>4, <3>2
  <2>6. After
    BY <1>5, <2>1, <2>2, <2>5 DEF Agrees
  <2> QED  BY <2>1, <2>6 DEF ProcWidth
<1>16. ASSUME NEW s, NEW t, NEW next \in {"clear chunk", "define memory"}, ClearVectors(p, s, t, next)
       PROVE  Goal
  <2>1. /\ meta' = meta /\ width' = width /\ backend' = backend /\ pc' = pc
        /\ pc[p] \in {"reset", "adopt"} /\ stage'[p] = next
    BY <1>3, <1>16 DEF ClearVectors, Resetting
  <2> QED  BY <1>6, <1>8, <2>1 DEF ProcWidth
<1>17. ASSUME NEW s, NEW t,
              \/ s = "define memory" /\ t = "memory"
              \/ s \in {"define chunk", "define chunk after error"} /\ t = "chunk",
              Redefine(p, s, t)
       PROVE  Goal
  <2>1. /\ meta' = meta /\ backend' = backend /\ vec' = vec /\ pc[p] \in {"reset", "adopt"}
        /\ stage[p] = s
    BY <1>17 DEF Redefine, Resetting
  <2>2. s # "define chunk after error"
    BY <1>6, <2>1 DEF ProcWidth
  <2>3. ~\E r \in rows \cap RowsOf(t) : vec[r] # None /\ vec[r].dim # backend[p].dim
    BY <1>6, <1>17, <2>1 DEF ProcSpace, AllClear, RowsOf
  <2>4. width' = [width EXCEPT ![t] = backend[p].dim]
    BY <1>17, <2>3 DEF Redefine
  <2>5. backend[p].dim > 0 /\ backend[p] \in setup.configured
    BY <1>7, <2>1 DEF TypeInv, Running
  <2>6. OneWidth(setup) => After
    <3>1. OneWidth(setup) => \A b \in setup.configured : b.dim > 0 => b.dim = backend[p].dim
      BY <2>5 DEF OneWidth
    <3>2. \A u \in Table : width'[u] = IF u = t THEN backend[p].dim ELSE width[u]
      BY <1>3, <2>4
    <3> QED  BY <1>5, <2>1, <3>1, <3>2 DEF Agrees
  <2>7. CASE s = "define memory"
    <3>1. "define chunk" # None
      BY VectorAssumption DEF Statements
    <3>2. pc' = pc /\ stage'[p] = "define chunk"
      BY <1>3, <1>17, <2>3, <2>7, <3>1 DEF Redefine, AfterRedefine
    <3>3. width'["memory"] = backend[p].dim
      BY <1>3, <1>17, <2>4, <2>7 DEF Table
    <3> QED  BY <1>6, <2>1, <2>6, <3>2, <3>3 DEF ProcWidth
  <2>8. CASE s = "define chunk"
    <3>1. Returns(p)
      BY <1>17, <2>3, <2>8 DEF Redefine, AfterRedefine
    <3>2. pc'[p] \in {"set", "record"}
      BY <1>3, <2>1, <3>1 DEF Returns, Goto
    <3>3. \A u \in Table : width'[u] = backend[p].dim
      BY <1>3, <1>6, <1>17, <2>1, <2>4, <2>8 DEF Table, ProcWidth
    <3> QED  BY <2>1, <2>6, <3>2, <3>3 DEF ProcWidth
  <2> QED  BY <1>17, <2>2, <2>7, <2>8
<1>18. CASE ResetVectors(p)
  <2> HIDE DEF Goal
  <2> QED  BY <1>16, <1>17, <1>18 DEF ResetVectors
<1>19. CASE SetEmbedder(p) \/ RecordEmbedder(p)
  <2>1. /\ pc[p] \in {"set", "record"} /\ width' = width /\ backend' = backend
        /\ pc'[p] \in {"count", "reread"} /\ meta' = backend[p]
    BY <1>3, <1>6, <1>19 DEF SetEmbedder, RecordEmbedder, Goto, ProcSpace
  <2>2. After
    BY <1>6, <1>7, <2>1 DEF ProcWidth
  <2> QED  BY <2>1, <2>2 DEF ProcWidth
<1>20. CASE Reread(p) \/ CountPending(p)
  <2>1. /\ meta' = meta /\ width' = width /\ pc[p] \in {"reread", "count"}
        /\ pc'[p] \in {"down", "count", "serving"}
    BY <1>3, <1>20 DEF Reread, CountPending, Leave, Goto, store
  <2> QED  BY <1>9, <2>1
<1>21. CASE ReadBatch(p) \/ WriteBatch(p) \/ Recount(p) \/ WriteRow(p) \/ DeleteRow(p)
  <2>1. meta' = meta /\ width' = width /\ pc[p] = "serving" /\ pc' = pc
    BY <1>21 DEF ReadBatch, WriteBatch, Recount, WriteRow, DeleteRow, store
  <2> QED  BY <1>9, <2>1
<1> HIDE DEF Goal
<1> QED  BY <1>10, <1>11, <1>12, <1>13, <1>14, <1>15, <1>18, <1>19, <1>20, <1>21 DEF Acts, Step

(***************************************************************************)
(* Where the crash of the `interrupted` run cannot happen, it does not: on *)
(* an embedded engine whose processes are not killed, or whose models all  *)
(* have one width, however often they are killed, a process that serves    *)
(* the recorded space finds both HNSW indexes at its width whenever no     *)
(* move is under way (startup::resolve, repo::reindex::reset_vectors).     *)
(***************************************************************************)
THEOREM IndexesFit ==
    ASSUME \A s \in Setups : Recoverable(s)
    PROVE  Spec => []ServingFits
<1> DEFINE Inv == TypeInv /\ Alone /\ SpaceInv /\ WidthInv
<1>1. Init => Inv
  BY TypeInit, SpaceInit, WidthInit DEF Init, Alone
<1>2. Inv /\ [Next]_vars => Inv'
  BY TypeStep, AloneStep, SpaceStep, WidthStep
<1>3. Inv => ServingFits
  <2> SUFFICES ASSUME Inv, NEW p \in Proc, Serves(p), Matches(meta, backend[p]), Moving = {}
               PROVE  \A t \in Table : width[t] = backend[p].dim
    BY DEF ServingFits
  <2>1. Whole
    BY DEF Moving, Whole
  <2>2. Recoverable(setup) /\ backend[p] \in setup.configured /\ backend[p].dim > 0
    BY DEF TypeInv, Running, Serves
  <2> QED  BY <2>1, <2>2 DEF WidthInv, Agrees, Matches
<1> HIDE DEF Inv
<1> QED  BY <1>1, <1>2, <1>3, PTL DEF Spec

(***************************************************************************)
(* The embedding engines                                                   *)
(***************************************************************************)
Steps == {"idle", "send", "wait", "answered", "error"}
Calls == [step : Steps, work : Seq(Texts), left : Seq(Texts), vectors : Seq(Texts), tries : Nat]
Jobs == [of : Caller, texts : Seq(Texts), group : Seq(Texts), tokens : Nat, vectors : Seq(Texts)]

\* The call r waits for the job j: what it has, what the job has made, what is
\* in the group, what the job still holds and what was not sent yet are the
\* passages, in their order.
Owed(j, r) ==
    /\ r.step = "wait"
    /\ r.vectors \o (j.vectors \o (j.group \o (j.texts \o r.left))) = r.work

\* A call that waits for nothing has its vectors for what it sent.
Kept(r) ==
    /\ r.step = "send" => r.vectors \o r.left = r.work
    /\ r.step = "answered" => r.vectors = r.work

Shape ==
    /\ callers \in [Caller -> Calls]
    /\ inbox \in Seq(Jobs)
    /\ job = NoJob \/ job \in Jobs
    /\ thread = "decode" => job # NoJob

\* A caller has one job at a time, in the channel or in hand.
Jobwise ==
    /\ \A i \in DOMAIN inbox : Owed(inbox[i], callers[inbox[i].of])
    /\ job # NoJob => Owed(job, callers[job.of])
    /\ \A i, k \in DOMAIN inbox : inbox[i].of = inbox[k].of => i = k
    /\ job # NoJob => \A i \in DOMAIN inbox : inbox[i].of # job.of

\* group_tokens is the sum of the group's tokens, and fits the batch.
Summed(group, tokens) ==
    /\ Len(group) <= MaxSequences
    /\ \E sum \in [0..Len(group) -> 0..BatchTokens] :
         /\ sum[0] = 0 /\ sum[Len(group)] = tokens
         /\ \A i \in 1..Len(group) : sum[i] = sum[i - 1] + Tokens(group[i])

EmbedInv ==
    /\ Shape
    /\ \A c \in Caller : Kept(callers[c])
    /\ Jobwise
    /\ \A i \in DOMAIN inbox : inbox[i].group = << >> /\ inbox[i].tokens = 0
    /\ Summed(job.group, job.tokens)

-----------------------------------------------------------------------------
(* Texts and sequences of them *)

\* The passages a caller brings are texts.
LEMMA WorkIsTexts == \A work \in Work : work \in Seq(Texts)
<1> SUFFICES ASSUME NEW work \in Work PROVE work \in Seq(Texts)
  OBVIOUS
<1>1. work \in Seq(ToSet(work)) /\ ToSet(work) \subseteq Texts
  BY EmbedAssumption DEF Texts
<1> QED  BY <1>1, SeqMonotonic

\* What the model reads of a text fits a batch.
LEMMA TokensFit ==
    ASSUME NEW text \in Texts
    PROVE  Tokens(text) \in 0..BatchTokens
BY EmbedAssumption DEF Tokens, Smaller

\* Concatenation of texts.
LEMMA Joined ==
    ASSUME NEW s \in Seq(Texts), NEW t \in Seq(Texts)
    PROVE  /\ s \o t \in Seq(Texts) /\ Len(s \o t) = Len(s) + Len(t)
           /\ \A i \in 1..(Len(s) + Len(t)) :
                (s \o t)[i] = IF i <= Len(s) THEN s[i] ELSE t[i - Len(s)]
BY ConcatProperties

\* It does not matter how it is bracketed.
LEMMA Rebracket == \A s, t, u \in Seq(Texts) : (s \o t) \o u = s \o (t \o u)
BY ConcatAssociative

\* The first slice, and the rest.
LEMMA Slice ==
    ASSUME NEW s \in Seq(Texts), s # << >>
    PROVE  LET n == Smaller(Len(s), SliceLen)
               slice == FirstOf(s, SliceLen)
           IN  /\ slice \in Seq(Texts) /\ Len(slice) = n /\ n \in 1..Len(s)
               /\ SubSeq(s, Len(slice) + 1, Len(s)) \in Seq(Texts)
               /\ slice \o SubSeq(s, Len(slice) + 1, Len(s)) = s
<1> DEFINE n == Smaller(Len(s), SliceLen)
           slice == FirstOf(s, SliceLen)
           rest == SubSeq(s, n + 1, Len(s))
<1>1. Len(s) \in Nat \ {0} /\ n \in 1..Len(s)
  BY EmbedAssumption, EmptySeq DEF Smaller
<1>2. \A i \in 1..Len(s) : s[i] \in Texts
  BY ElementOfSeq
<1>3. /\ slice \in Seq(Texts) /\ Len(slice) = n /\ \A i \in 1..n : slice[i] = s[i]
  <2> HIDE DEF n
  <2>1. slice = SubSeq(s, 1, n)
    BY DEF FirstOf, n
  <2>2. \A i \in 1..n : s[i] \in Texts
    BY <1>1, <1>2
  <2> QED  BY <1>1, <2>1, <2>2, SubSeqProperties
<1>4. /\ rest \in Seq(Texts) /\ Len(rest) = Len(s) - n /\ \A i \in 1..Len(rest) : rest[i] = s[n + i]
  <2> HIDE DEF n
  <2>1. \A i \in (n + 1)..Len(s) : s[i] \in Texts
    BY <1>1, <1>2
  <2>2. n + 1 \in Int /\ Len(s) \in Int
    BY <1>1
  <2>3. /\ rest \in Seq(Texts) /\ Len(rest) = IF n + 1 <= Len(s) THEN Len(s) - (n + 1) + 1 ELSE 0
        /\ \A i \in 1..(Len(s) - (n + 1) + 1) : rest[i] = s[n + 1 + i - 1]
    BY <2>1, <2>2, SubSeqProperties
  <2> QED  BY <1>1, <2>3
<1> HIDE DEF n, slice, rest
<1>5. slice \o rest = s
  <2> DEFINE both == slice \o rest
  <2>1. /\ both \in Seq(Texts) /\ Len(both) = Len(slice) + Len(rest)
        /\ \A i \in 1..(Len(slice) + Len(rest)) :
             both[i] = IF i <= Len(slice) THEN slice[i] ELSE rest[i - Len(slice)]
    BY <1>3, <1>4, Joined
  <2> HIDE DEF both
  <2>2. Len(both) = Len(s)
    BY <1>1, <1>3, <1>4, <2>1
  <2>3. \A i \in 1..Len(s) : both[i] = s[i]
    BY <1>1, <1>3, <1>4, <2>1, <2>2
  <2>4. both = s
    BY <2>1, <2>2, <2>3, SeqEqual
  <2> QED  BY <2>4 DEF both
<1> QED  BY <1>1, <1>3, <1>4, <1>5 DEF n, slice, rest

\* Sending a slice keeps what is owed.
LEMMA Sent ==
    ASSUME NEW v \in Seq(Texts), NEW t \in Seq(Texts), NEW l \in Seq(Texts)
    PROVE  v \o (<< >> \o (<< >> \o (t \o l))) = v \o (t \o l)
<1>1. t \o l \in Seq(Texts)
  BY ConcatProperties
<1> QED  BY <1>1, ConcatEmptySeq

\* Decoding a group keeps what is owed.
LEMMA Flushed ==
    \A v, g, rest \in Seq(Texts) : (v \o g) \o (<< >> \o rest) = v \o (g \o rest)
<1> SUFFICES ASSUME NEW v \in Seq(Texts), NEW g \in Seq(Texts), NEW rest \in Seq(Texts)
             PROVE  (v \o g) \o (<< >> \o rest) = v \o (g \o rest)
  OBVIOUS
<1>1. (v \o g) \o rest = v \o (g \o rest)
  BY Rebracket
<1>2. << >> \o rest = rest
  BY ConcatEmptySeq
<1> QED  BY <1>1, <1>2

\* Moving a text into the group keeps what is owed.
LEMMA Grown ==
    \A g, t, l \in Seq(Texts) : t # << >> => Append(g, Head(t)) \o (Tail(t) \o l) = g \o (t \o l)
<1> SUFFICES ASSUME NEW g \in Seq(Texts), NEW t \in Seq(Texts), NEW l \in Seq(Texts), t # << >>
             PROVE  Append(g, Head(t)) \o (Tail(t) \o l) = g \o (t \o l)
  OBVIOUS
<1> DEFINE h == <<Head(t)>>
           u == Tail(t)
           rest == u \o l
<1>1. Head(t) \in Texts /\ u \in Seq(Texts) /\ h \in Seq(Texts)
  BY HeadTailProperties
<1>2. h \o u = t
  <2>1. /\ h \o Tail(t) \in Seq(Texts) /\ Len(h \o Tail(t)) = Len(t)
        /\ \A i \in 1..Len(t) : (h \o Tail(t))[i] = t[i]
    BY <1>1, HeadTailProperties, ConcatProperties
  <2> QED  BY <2>1, SeqEqual
<1>3. Append(g, Head(t)) = g \o h
  BY <1>1, AppendIsConcat
<1> HIDE DEF h, u
<1>4. (h \o u) \o l = h \o rest
  BY <1>1, Rebracket
<1>5. rest \in Seq(Texts)
  BY <1>1, Joined
<1> HIDE DEF rest
<1>6. (g \o h) \o rest = g \o (h \o rest)
  BY <1>1, <1>5, Rebracket
<1> QED  BY <1>2, <1>3, <1>4, <1>6 DEF rest, u

\* The vectors of a slice, sorted by index, are the slice, whatever order the
\* endpoint answered in.
LEMMA InOrder ==
    ASSUME NEW slice \in Seq(Texts), NEW order \in Bijection(DOMAIN slice, DOMAIN slice)
    PROVE  ByIndex([i \in DOMAIN slice |-> [index |-> order[i], text |-> slice[order[i]]]]) = slice
<1> DEFINE data == [i \in DOMAIN slice |-> [index |-> order[i], text |-> slice[order[i]]]]
<1>1. /\ order \in [DOMAIN slice -> DOMAIN slice]
      /\ \A k \in DOMAIN slice : \E i \in DOMAIN slice : order[i] = k
  BY Zenon DEF Bijection, Surjection, Injection
<1>2. DOMAIN data = DOMAIN slice
  OBVIOUS
<1>3. ASSUME NEW k \in DOMAIN slice
      PROVE  (CHOOSE datum \in ToSet(data) : datum.index = k).text = slice[k]
  <2>1. PICK i \in DOMAIN slice : order[i] = k
    BY <1>1, <1>3
  <2>2. data[i] \in ToSet(data) /\ data[i].index = k
    BY <1>1, <2>1 DEF ToSet
  <2>3. ASSUME NEW datum \in ToSet(data), datum.index = k PROVE datum.text = slice[k]
    <3>1. PICK m \in DOMAIN slice : datum = [index |-> order[m], text |-> slice[order[m]]]
      BY <1>2, <2>3 DEF ToSet
    <3> QED  BY <2>3, <3>1
  <2> HIDE DEF data
  <2> QED  BY <2>2, <2>3
<1>4. ByIndex(data) = [k \in DOMAIN slice |-> slice[k]]
  <2> HIDE DEF data
  <2> QED  BY <1>2, <1>3 DEF ByIndex
<1>5. slice = [k \in DOMAIN slice |-> slice[k]]
  OBVIOUS
<1> QED  BY <1>4, <1>5

-----------------------------------------------------------------------------
(* What the parts of a step do *)

\* A call in a new step.
LEMMA Stepped ==
    ASSUME NEW r \in Calls, NEW st \in Steps
    PROVE  LET q == [r EXCEPT !.step = st]
           IN  /\ q \in Calls /\ q.step = st
               /\ q.work = r.work /\ q.left = r.left /\ q.vectors = r.vectors
BY DEF Calls

\* A request that failed.
LEMMA TriedCall ==
    ASSUME NEW r \in Calls, NEW st \in Steps
    PROVE  LET q == [r EXCEPT !.tries = @ + 1, !.step = st]
           IN  /\ q \in Calls /\ q.step = st
               /\ q.work = r.work /\ q.left = r.left /\ q.vectors = r.vectors
<1> DEFINE p == [r EXCEPT !.tries = @ + 1]
           q == [p EXCEPT !.step = st]
<1>1. /\ p \in Calls
      /\ p.work = r.work /\ p.left = r.left /\ p.vectors = r.vectors
  <2>1. r.tries + 1 \in Nat
    BY DEF Calls
  <2> QED  BY <2>1 DEF Calls
<1> HIDE DEF p
<1>2. /\ q \in Calls /\ q.step = st
      /\ q.work = p.work /\ q.left = p.left /\ q.vectors = p.vectors
  BY <1>1, Stepped
<1>3. q = [r EXCEPT !.tries = @ + 1, !.step = st]
  BY DEF p
<1> QED  BY <1>1, <1>2, <1>3

\* A call that begins.
LEMMA AskedCall ==
    ASSUME NEW work \in Seq(Texts)
    PROVE  LET q == [Quiet EXCEPT !.step = "send", !.work = work, !.left = work]
           IN  /\ q \in Calls /\ q.step = "send"
               /\ q.work = work /\ q.left = work /\ q.vectors = << >>
BY EmptySeq DEF Calls, Quiet, Steps

\* Every job is a caller's.
LEMMA OwnedJobs ==
    ASSUME Shape
    PROVE  /\ \A i \in DOMAIN inbox : inbox[i] \in Jobs /\ inbox[i].of \in Caller
           /\ job # NoJob => job \in Jobs /\ job.of \in Caller
<1>1. inbox \in Seq(Jobs) /\ (job # NoJob => job \in Jobs)
  BY DEF Shape
<1>2. \A i \in DOMAIN inbox : inbox[i] \in Jobs
  BY <1>1, ElementOfSeq, LenProperties
<1>3. \A j \in Jobs : j.of \in Caller
  BY DEF Jobs
<1> QED  BY <1>1, <1>2, <1>3

\* A caller that waits for nothing goes on.
LEMMA CallerMoves ==
    ASSUME EmbedInv, NEW c \in Caller, callers[c].step # "wait",
           NEW r \in Calls, Kept(r), callers' = [callers EXCEPT ![c] = r],
           UNCHANGED <<inbox, job, thread>>
    PROVE  EmbedInv'
<1>1. callers' \in [Caller -> Calls] /\ callers'[c] = r
      /\ \A d \in Caller \ {c} : callers'[d] = callers[d]
  BY DEF EmbedInv, Shape
<1>2. \A d \in Caller : Kept(callers'[d])
  BY <1>1 DEF EmbedInv
<1>3. /\ \A i \in DOMAIN inbox : inbox[i].of # c /\ inbox[i].of \in Caller
      /\ job # NoJob => job.of # c /\ job.of \in Caller
  BY OwnedJobs DEF EmbedInv, Jobwise, Owed
<1>4. Jobwise'
  BY <1>1, <1>3 DEF EmbedInv, Jobwise
<1> QED  BY <1>1, <1>2, <1>4 DEF EmbedInv, Shape

\* NoJob is nobody's.
LEMMA NobodysJob == \A j \in Jobs : j # NoJob
BY EmbedAssumption DEF Jobs, NoJob

\* An empty group fits.
LEMMA SummedEmpty == Summed(<< >>, 0)
<1> DEFINE sum == [i \in 0..0 |-> 0]
<1>1. sum \in [0..0 -> 0..BatchTokens] /\ sum[0] = 0
  BY EmbedAssumption
<1> HIDE DEF sum
<1>2. Len(<< >>) = 0 /\ 0 <= MaxSequences
  BY EmbedAssumption
<1> QED  BY <1>1, <1>2 DEF Summed

\* A text that fits can be put in the group.
LEMMA SummedGrows ==
    ASSUME NEW g \in Seq(Texts), NEW n, Summed(g, n), NEW text \in Texts,
           n + Tokens(text) <= BatchTokens, Len(g) # MaxSequences
    PROVE  Summed(Append(g, text), n + Tokens(text))
<1> DEFINE k == Len(g)
           t == Tokens(text)
<1>1. PICK sum \in [0..k -> 0..BatchTokens] :
         /\ sum[0] = 0 /\ sum[k] = n
         /\ \A i \in 1..k : sum[i] = sum[i - 1] + Tokens(g[i])
  BY DEF Summed
<1>2. k \in Nat /\ k + 1 <= MaxSequences /\ t \in 0..BatchTokens /\ n \in 0..BatchTokens
  <2>1. k \in Nat
    BY LenProperties
  <2>2. k + 1 <= MaxSequences
    BY <2>1, EmbedAssumption DEF Summed
  <2>3. n \in 0..BatchTokens
    BY <1>1, <2>1
  <2> QED  BY <2>1, <2>2, <2>3, TokensFit
<1>3. /\ Len(Append(g, text)) = k + 1 /\ Append(g, text)[k + 1] = text
      /\ \A i \in 1..k : Append(g, text)[i] = g[i]
  BY AppendProperties
<1> HIDE DEF k, t
<1> DEFINE more == [i \in 0..(k + 1) |-> IF i = k + 1 THEN n + t ELSE sum[i]]
<1>4. more \in [0..(k + 1) -> 0..BatchTokens]
  BY <1>2 DEF t
<1>5. more[0] = 0 /\ more[k + 1] = n + t
  BY <1>1, <1>2
<1>6. ASSUME NEW i \in 1..(k + 1) PROVE more[i] = more[i - 1] + Tokens(Append(g, text)[i])
  <2>1. CASE i = k + 1
    <3>1. more[i] = n + t /\ more[i - 1] = n
      BY <1>1, <1>2, <2>1
    <3> QED  BY <1>3, <2>1, <3>1 DEF t
  <2>2. CASE i # k + 1
    <3>1. i \in 1..k /\ more[i] = sum[i] /\ more[i - 1] = sum[i - 1]
      BY <1>2, <2>2
    <3> QED  BY <1>1, <1>3, <3>1
  <2> QED  BY <2>1, <2>2
<1> HIDE DEF more
<1> QED  BY <1>2, <1>3, <1>4, <1>5, <1>6 DEF Summed, t

\* The job in hand goes on.
LEMMA JobMoves ==
    ASSUME EmbedInv, job # NoJob, job' \in Jobs, job'.of = job.of,
           Owed(job', callers[job.of]), Summed(job'.group, job'.tokens),
           UNCHANGED <<callers, inbox>>
    PROVE  EmbedInv'
<1>1. job' # NoJob
  BY NobodysJob
<1>2. Jobwise'
  BY <1>1 DEF EmbedInv, Jobwise
<1> QED  BY <1>1, <1>2 DEF EmbedInv, Shape

\* The job in hand is answered, with its vectors or an error.
LEMMA JobEnds ==
    ASSUME EmbedInv, job # NoJob, NEW r \in Calls, Kept(r),
           callers' = [callers EXCEPT ![job.of] = r], job' = NoJob, thread' # "decode",
           UNCHANGED inbox
    PROVE  EmbedInv'
<1>1. job \in Jobs /\ job.of \in Caller
  BY DEF EmbedInv, Shape, Jobs
<1>2. callers' \in [Caller -> Calls] /\ callers'[job.of] = r
      /\ \A d \in Caller \ {job.of} : callers'[d] = callers[d]
  BY <1>1 DEF EmbedInv, Shape
<1>3. \A d \in Caller : Kept(callers'[d])
  BY <1>2 DEF EmbedInv
<1>4. \A i \in DOMAIN inbox : inbox[i].of # job.of /\ inbox[i].of \in Caller
  BY OwnedJobs DEF EmbedInv, Jobwise
<1>5. Jobwise'
  BY <1>2, <1>4 DEF EmbedInv, Jobwise
<1>6. Summed(job'.group, job'.tokens)
  BY SummedEmpty DEF NoJob
<1> QED  BY <1>2, <1>3, <1>5, <1>6 DEF EmbedInv, Shape

-----------------------------------------------------------------------------
(* The steps *)

\* Nothing is asked of the thread at first.
LEMMA EmbedStart == EmbedInit => EmbedInv
<1> SUFFICES ASSUME EmbedInit PROVE EmbedInv
  OBVIOUS
<1>1. Quiet \in Calls /\ Kept(Quiet)
  BY EmptySeq DEF Quiet, Calls, Kept, Steps
<1>2. Shape
  BY <1>1, EmptySeq DEF EmbedInit, Shape
<1>3. Jobwise
  BY DEF EmbedInit, Jobwise
<1>4. Summed(job.group, job.tokens)
  BY SummedEmpty DEF EmbedInit, NoJob
<1> QED  BY <1>1, <1>2, <1>3, <1>4 DEF EmbedInit, EmbedInv

\* What a caller does.
LEMMA CallerStep ==
    ASSUME EmbedInv, NEW c \in Caller,
           Ask(c) \/ SendSlice(c) \/ Return(c) \/ Request(c) \/ RequestFails(c)
    PROVE  EmbedInv'
<1> DEFINE r == callers[c]
<1>1. r \in Calls /\ Kept(r) /\ r.left \in Seq(Texts) /\ r.vectors \in Seq(Texts)
      /\ callers \in [Caller -> Calls]
  BY DEF EmbedInv, Shape, Calls
<1>2. CASE Ask(c)
  <2>1. PICK work \in Work :
           callers' = [callers EXCEPT ![c] = [Quiet EXCEPT !.step = "send", !.work = work, !.left = work]]
    BY <1>2 DEF Ask
  <2> DEFINE q == [Quiet EXCEPT !.step = "send", !.work = work, !.left = work]
  <2>2. work \in Seq(Texts)
    BY WorkIsTexts
  <2>3. /\ q \in Calls /\ q.step = "send" /\ q.work = work /\ q.left = work /\ q.vectors = << >>
    BY <2>2, AskedCall
  <2> HIDE DEF q
  <2>4. Kept(q)
    BY <2>2, <2>3, ConcatEmptySeq DEF Kept
  <2>5. callers' = [callers EXCEPT ![c] = q]
    BY <2>1 DEF q
  <2> QED  BY <1>2, <2>3, <2>4, <2>5, CallerMoves DEF Ask
<1>3. CASE Return(c)
  <2>1. Quiet \in Calls /\ Kept(Quiet)
    BY EmptySeq DEF Quiet, Calls, Kept, Steps
  <2> QED  BY <1>3, <2>1, CallerMoves DEF Return
<1>4. CASE RequestFails(c)
  <2>1. PICK st \in {"send", "error"} :
           callers' = [callers EXCEPT ![c].tries = @ + 1, ![c].step = st]
    BY <1>4 DEF RequestFails
  <2> DEFINE q == [r EXCEPT !.tries = @ + 1, !.step = st]
  <2>2. callers' = [callers EXCEPT ![c] = q]
    BY <1>1, <2>1
  <2>3. st \in Steps
    BY DEF Steps
  <2>4. /\ q \in Calls /\ q.step = st
        /\ q.work = r.work /\ q.left = r.left /\ q.vectors = r.vectors
    BY <1>1, <2>3, TriedCall
  <2> HIDE DEF q
  <2>5. Kept(q) /\ r.step # "wait"
    BY <1>1, <1>4, <2>4 DEF Kept, RequestFails
  <2> QED  BY <1>4, <2>2, <2>4, <2>5, CallerMoves DEF RequestFails
<1>5. CASE SendSlice(c) /\ (r.left = << >> \/ thread = "exited")
  <2>1. PICK st \in {"answered", "error"} :
           /\ callers' = [callers EXCEPT ![c].step = st] /\ (st = "answered" => r.left = << >>)
    BY <1>5 DEF SendSlice
  <2> DEFINE q == [r EXCEPT !.step = st]
  <2>2. callers' = [callers EXCEPT ![c] = q]
    BY <1>1, <2>1
  <2>3. st \in Steps
    BY DEF Steps
  <2>4. /\ q \in Calls /\ q.step = st
        /\ q.work = r.work /\ q.left = r.left /\ q.vectors = r.vectors
    BY <1>1, <2>3, Stepped
  <2> HIDE DEF q
  <2>5. r.step = "send" /\ UNCHANGED <<inbox, job, thread>>
    BY <1>5 DEF SendSlice
  <2>6. Kept(q)
    BY <1>1, <2>1, <2>4, <2>5, ConcatEmptySeq DEF Kept
  <2> QED  BY <2>2, <2>4, <2>5, <2>6, CallerMoves
<1>6. CASE SendSlice(c) /\ r.left # << >> /\ thread # "exited"
  <2> DEFINE slice == FirstOf(r.left, SliceLen)
             rest == SubSeq(r.left, Len(slice) + 1, Len(r.left))
             j == [NoJob EXCEPT !.of = c, !.texts = slice]
             q == [r EXCEPT !.step = "wait", !.left = rest]
  <2>1. /\ slice \in Seq(Texts) /\ rest \in Seq(Texts) /\ slice \o rest = r.left
    BY <1>1, <1>6, Slice
  <2>2. /\ inbox' = Append(inbox, j) /\ callers' = [callers EXCEPT ![c] = q]
        /\ r.step = "send" /\ job' = job /\ thread' = thread
    BY <1>1, <1>6 DEF SendSlice
  <2> HIDE DEF slice, rest
  <2>3. j \in Jobs /\ j.of = c /\ j.texts = slice /\ j.group = << >> /\ j.vectors = << >> /\ j.tokens = 0
    BY <2>1, EmptySeq DEF NoJob, Jobs
  <2>4. /\ q \in Calls /\ q.step = "wait"
        /\ q.work = r.work /\ q.left = rest /\ q.vectors = r.vectors
    <3> HIDE DEF r
    <3>1. "wait" \in Steps
      BY DEF Steps
    <3> QED  BY <1>1, <2>1, <3>1 DEF Calls
  <2> HIDE DEF q, j
  <2>5. Owed(j, q)
    <3> DEFINE v == r.vectors
    <3>1. v \in Seq(Texts) /\ v \o (slice \o rest) = r.work
      BY <1>1, <2>1, <2>2 DEF Kept
    <3>2. q.vectors = v
      BY <2>4
    <3> HIDE DEF v, r
    <3>3. v \o (<< >> \o (<< >> \o (slice \o rest))) = r.work
      BY <2>1, <3>1, Sent
    <3> QED  BY <2>3, <2>4, <3>2, <3>3 DEF Owed
  <2>6. Kept(q)
    BY <2>4 DEF Kept
  <2>7. callers' \in [Caller -> Calls] /\ callers'[c] = q
        /\ \A d \in Caller \ {c} : callers'[d] = callers[d]
    BY <1>1, <2>2, <2>4
  <2>8. /\ inbox' \in Seq(Jobs) /\ DOMAIN inbox' = 1..(Len(inbox) + 1)
        /\ \A i \in DOMAIN inbox : inbox'[i] = inbox[i]
        /\ inbox'[Len(inbox) + 1] = j /\ DOMAIN inbox = 1..Len(inbox) /\ Len(inbox) \in Nat
    BY <2>2, <2>3, AppendProperties, LenProperties DEF EmbedInv, Shape
  <2>9. /\ \A i \in DOMAIN inbox : inbox[i].of # c /\ inbox[i].of \in Caller
        /\ job # NoJob => job.of # c /\ job.of \in Caller
    <3>1. r.step # "wait"
      BY <2>2
    <3> QED  BY <3>1, OwnedJobs DEF EmbedInv, Jobwise, Owed
  <2>10. \A i \in DOMAIN inbox' : i \in DOMAIN inbox \/ i = Len(inbox) + 1
    BY <2>8
  <2>11. Jobwise'
    <3>1. \A i \in DOMAIN inbox' : Owed(inbox'[i], callers'[inbox'[i].of])
      BY <2>3, <2>5, <2>7, <2>8, <2>9, <2>10 DEF EmbedInv, Jobwise
    <3>2. job' # NoJob => Owed(job', callers'[job'.of])
      BY <2>2, <2>7, <2>9 DEF EmbedInv, Jobwise
    <3>3. \A i, k \in DOMAIN inbox' : inbox'[i].of = inbox'[k].of => i = k
      BY <2>3, <2>8, <2>9, <2>10 DEF EmbedInv, Jobwise
    <3>4. job' # NoJob => \A i \in DOMAIN inbox' : inbox'[i].of # job'.of
      BY <2>2, <2>3, <2>8, <2>9, <2>10 DEF EmbedInv, Jobwise
    <3> QED  BY <3>1, <3>2, <3>3, <3>4 DEF Jobwise
  <2>12. Shape'
    BY <2>2, <2>7, <2>8 DEF EmbedInv, Shape
  <2>13. \A d \in Caller : Kept(callers'[d])
    BY <2>6, <2>7 DEF EmbedInv
  <2>14. \A i \in DOMAIN inbox' : inbox'[i].group = << >> /\ inbox'[i].tokens = 0
    BY <2>3, <2>8, <2>10 DEF EmbedInv
  <2> QED  BY <2>2, <2>11, <2>12, <2>13, <2>14 DEF EmbedInv
<1>7. CASE Request(c) /\ r.left = << >>
  <2> DEFINE q == [r EXCEPT !.step = "answered"]
  <2>1. callers' = [callers EXCEPT ![c] = q] /\ r.step = "send" /\ UNCHANGED <<inbox, job, thread>>
    BY <1>1, <1>7 DEF Request
  <2>2. /\ q \in Calls /\ q.step = "answered"
        /\ q.work = r.work /\ q.left = r.left /\ q.vectors = r.vectors
    BY <1>1, Stepped DEF Steps
  <2> HIDE DEF q
  <2>3. Kept(q)
    BY <1>1, <1>7, <2>1, <2>2, ConcatEmptySeq DEF Kept
  <2> QED  BY <2>1, <2>2, <2>3, CallerMoves
<1>8. CASE Request(c) /\ r.left # << >>
  <2> DEFINE slice == FirstOf(r.left, SliceLen)
             rest == SubSeq(r.left, Len(slice) + 1, Len(r.left))
             v == r.vectors \o slice
             q == [r EXCEPT !.left = rest, !.tries = 0, !.vectors = v]
  <2>1. /\ slice \in Seq(Texts) /\ rest \in Seq(Texts) /\ slice \o rest = r.left
    BY <1>1, <1>8, Slice
  <2>2. PICK order \in Bijection(DOMAIN slice, DOMAIN slice) :
           callers' = [callers EXCEPT ![c].left = rest, ![c].tries = 0,
              ![c].vectors = @ \o ByIndex([i \in DOMAIN slice |-> [index |-> order[i],
                                                                text |-> slice[order[i]]]])]
    BY <1>1, <1>8 DEF Request
  <2> HIDE DEF slice, rest
  <2>3. callers' = [callers EXCEPT ![c] = q] /\ r.step = "send" /\ UNCHANGED <<inbox, job, thread>>
    BY <1>1, <1>8, <2>1, <2>2, InOrder DEF Request
  <2>4. v \in Seq(Texts)
    BY <1>1, <2>1, Joined
  <2>5. v \o rest = r.vectors \o r.left
    <3> DEFINE w == r.vectors
    <3>1. w \in Seq(Texts)
      BY <1>1
    <3> HIDE DEF w
    <3>2. (w \o slice) \o rest = w \o (slice \o rest)
      BY <2>1, <3>1, Rebracket
    <3> QED  BY <2>1, <3>2 DEF w
  <2> HIDE DEF v
  <2>6. /\ q \in Calls /\ q.step = r.step
        /\ q.work = r.work /\ q.left = rest /\ q.vectors = v
    <3> HIDE DEF r
    <3> QED  BY <1>1, <2>1, <2>4 DEF Calls
  <2> HIDE DEF q
  <2>7. Kept(q)
    BY <1>1, <2>3, <2>5, <2>6 DEF Kept
  <2> QED  BY <2>3, <2>6, <2>7, CallerMoves
<1> QED  BY <1>2, <1>3, <1>4, <1>5, <1>6, <1>7, <1>8

\* What the thread does.
LEMMA WorkerStep ==
    ASSUME EmbedInv,
           Load \/ ReloadFails \/ TakeJob \/ Unload \/ Decode \/ DecodeFails \/ ThreadDies
    PROVE  EmbedInv'
<1>1. CASE Load \/ Unload
  <2>1. UNCHANGED <<callers, inbox, job>> /\ (thread' = "decode" => job # NoJob)
    BY <1>1 DEF Load, Unload
  <2> QED  BY <2>1 DEF EmbedInv, Shape, Jobwise
<1>2. CASE ReloadFails \/ DecodeFails
  <2> DEFINE q == [callers[job.of] EXCEPT !.step = "error"]
  <2>1. /\ job # NoJob /\ callers' = [callers EXCEPT ![job.of].step = "error"]
        /\ job' = NoJob /\ thread' # "decode" /\ UNCHANGED inbox
    BY <1>2 DEF ReloadFails, DecodeFails, ReplyError, EmbedInv, Shape
  <2>2. job.of \in Caller /\ callers[job.of] \in Calls
    BY <2>1, OwnedJobs DEF EmbedInv, Shape
  <2>3. callers' = [callers EXCEPT ![job.of] = q]
    BY <2>1, <2>2 DEF EmbedInv, Shape
  <2>4. "error" \in Steps
    BY DEF Steps
  <2>5. q \in Calls /\ q.step = "error"
    BY <2>2, <2>4, Stepped
  <2> HIDE DEF q
  <2>6. Kept(q)
    BY <2>5 DEF Kept
  <2> QED  BY <2>1, <2>3, <2>5, <2>6, JobEnds
<1>3. CASE TakeJob
  <2>1. /\ inbox # << >> /\ inbox \in Seq(Jobs) /\ job' = inbox[1] /\ inbox' = Tail(inbox)
        /\ callers' = callers
    BY <1>3 DEF TakeJob, EmbedInv, Shape
  <2>2. /\ inbox' \in Seq(Jobs) /\ 1 \in DOMAIN inbox
        /\ \A i \in DOMAIN inbox' : i + 1 \in DOMAIN inbox /\ i + 1 # 1 /\ inbox'[i] = inbox[i + 1]
        /\ \A i \in DOMAIN inbox' : i \in Nat
    <3>1. /\ Tail(inbox) \in Seq(Jobs) /\ Len(Tail(inbox)) = Len(inbox) - 1
          /\ \A i \in 1..Len(Tail(inbox)) : Tail(inbox)[i] = inbox[i + 1]
      BY <2>1, HeadTailProperties
    <3>2. Len(inbox) \in Nat \ {0} /\ DOMAIN inbox = 1..Len(inbox)
          /\ DOMAIN inbox' = 1..Len(inbox')
      BY <2>1, <3>1, LenProperties, EmptySeq
    <3> QED  BY <2>1, <3>1, <3>2
  <2>3. job' \in Jobs /\ job' # NoJob /\ job' = inbox[1]
    BY <2>1, <2>2, OwnedJobs, NobodysJob DEF EmbedInv
  <2>4. \A i \in DOMAIN inbox' : inbox[i + 1].of # inbox[1].of
    BY <2>2 DEF EmbedInv, Jobwise
  <2>5. Jobwise'
    <3>1. \A i \in DOMAIN inbox' : Owed(inbox'[i], callers'[inbox'[i].of])
      BY <2>1, <2>2 DEF EmbedInv, Jobwise
    <3>2. Owed(job', callers'[job'.of])
      BY <2>1, <2>2, <2>3 DEF EmbedInv, Jobwise
    <3>3. \A i, k \in DOMAIN inbox' : inbox'[i].of = inbox'[k].of => i = k
      <4> SUFFICES ASSUME NEW i \in DOMAIN inbox', NEW k \in DOMAIN inbox', inbox'[i].of = inbox'[k].of
                   PROVE  i = k
        OBVIOUS
      <4>1. i + 1 = k + 1
        BY <2>2 DEF EmbedInv, Jobwise
      <4> QED  BY <2>2, <4>1
    <3>4. \A i \in DOMAIN inbox' : inbox'[i].of # job'.of
      BY <2>2, <2>3, <2>4
    <3> QED  BY <3>1, <3>2, <3>3, <3>4 DEF Jobwise
  <2>6. Summed(job'.group, job'.tokens)
    BY <2>2, <2>3, SummedEmpty DEF EmbedInv
  <2>7. \A i \in DOMAIN inbox' : inbox'[i].group = << >> /\ inbox'[i].tokens = 0
    BY <2>2 DEF EmbedInv
  <2> QED  BY <2>1, <2>2, <2>3, <2>5, <2>6, <2>7 DEF EmbedInv, Shape
<1>4. CASE Decode
  <2> DEFINE c == job.of
             r == callers[c]
             g == job.group
             t == job.texts
             v == job.vectors
             n == job.tokens
             l == r.left
             w == r.vectors
  <2>1. job # NoJob /\ job \in Jobs /\ c \in Caller /\ r \in Calls
    BY <1>4, OwnedJobs DEF Decode, EmbedInv, Shape
  <2>2. /\ g \in Seq(Texts) /\ t \in Seq(Texts) /\ v \in Seq(Texts) /\ n \in Nat
        /\ l \in Seq(Texts) /\ w \in Seq(Texts)
    BY <2>1 DEF Jobs, Calls
  <2>3. r.step = "wait" /\ w \o (v \o (g \o (t \o l))) = r.work /\ Summed(g, n)
    BY <2>1 DEF EmbedInv, Jobwise, Owed
  <2>4. CASE t # << >> /\ g # << >> /\ Full(Head(t))
    <3> DEFINE u == v \o g
               k == [job EXCEPT !.vectors = u, !.group = << >>, !.tokens = 0]
    <3>1. job' = k /\ UNCHANGED <<callers, inbox>>
      BY <1>4, <2>1, <2>4 DEF Decode
    <3>2. u \in Seq(Texts)
      BY <2>2, Joined
    <3>3. w \o (u \o (<< >> \o (t \o l))) = r.work
      <4> DEFINE rest == t \o l
      <4>1. rest \in Seq(Texts)
        BY <2>2, Joined
      <4> HIDE DEF rest, w, g, v, t, l, n, c, r, u
      <4>2. (v \o g) \o (<< >> \o rest) = v \o (g \o rest)
        BY <2>2, <4>1, Flushed
      <4> QED  BY <2>3, <4>2 DEF rest, u
    <3> HIDE DEF u
    <3>4. /\ k \in Jobs /\ k.of = c /\ k.texts = t /\ k.group = << >> /\ k.tokens = 0 /\ k.vectors = u
      BY <2>1, <3>2, EmptySeq DEF Jobs
    <3> HIDE DEF k
    <3>5. Owed(k, r)
      BY <2>3, <3>3, <3>4 DEF Owed
    <3> QED  BY <2>1, <3>1, <3>4, <3>5, SummedEmpty, JobMoves
  <2>5. CASE t # << >> /\ ~(g # << >> /\ Full(Head(t)))
    <3> DEFINE x == Head(t)
               h == Append(g, x)
               u == Tail(t)
               m == n + Tokens(x)
               k == [job EXCEPT !.group = h, !.texts = u, !.tokens = m]
    <3>1. job' = k /\ UNCHANGED <<callers, inbox>>
      BY <1>4, <2>1, <2>5 DEF Decode, Filled
    <3>2. x \in Texts /\ u \in Seq(Texts) /\ h \in Seq(Texts)
      BY <2>2, <2>5, HeadTailProperties, AppendProperties
    <3>3. Tokens(x) \in 0..BatchTokens
      BY <3>2, TokensFit
    <3>4. m \in Nat
      BY <2>2, <3>3
    <3>5. w \o (v \o (h \o (u \o l))) = r.work
      <4> HIDE DEF w, g, v, t, l, n, c, r, x, h, u, m
      <4>1. Append(g, Head(t)) \o (Tail(t) \o l) = g \o (t \o l)
        BY <2>2, <2>5, Grown
      <4> QED  BY <2>3, <4>1 DEF h, u, x
    <3>6. Summed(h, m)
      <4>1. CASE g = << >>
        <5>1. Summed(<< >>, 0) /\ Len(<< >>) # MaxSequences
          BY SummedEmpty, EmbedAssumption
        <5>2. n = 0
          BY <2>2, <2>3, <4>1 DEF Summed
        <5>3. 0 + Tokens(x) <= BatchTokens
          BY <3>3, EmbedAssumption
        <5>4. Summed(Append(<< >>, x), 0 + Tokens(x))
          BY <3>2, <5>1, <5>3, EmptySeq, SummedGrows
        <5> QED  BY <4>1, <5>2, <5>4
      <4>2. CASE g # << >>
        <5>1. n + Tokens(x) <= BatchTokens /\ Len(g) # MaxSequences
          BY <2>2, <2>5, <3>3, <4>2, EmbedAssumption DEF Full
        <5> HIDE DEF x, g, n
        <5> QED  BY <2>2, <2>3, <3>2, <5>1, SummedGrows
      <4> QED  BY <4>1, <4>2
    <3> HIDE DEF x, h, u, m
    <3>7. /\ k \in Jobs /\ k.of = c /\ k.texts = u /\ k.group = h /\ k.tokens = m /\ k.vectors = v
      BY <2>1, <3>2, <3>4 DEF Jobs
    <3> HIDE DEF k
    <3>8. Owed(k, r)
      BY <2>3, <3>5, <3>7 DEF Owed
    <3> QED  BY <2>1, <3>1, <3>6, <3>7, <3>8, JobMoves
  <2>6. CASE t = << >>
    <3> DEFINE u == w \o (v \o g)
               q == [r EXCEPT !.step = "send", !.vectors = u]
    <3>1. callers' = [callers EXCEPT ![c] = q] /\ job' = NoJob /\ thread' # "decode" /\ UNCHANGED inbox
      BY <1>4, <2>1, <2>6 DEF Decode, Reply, EmbedInv, Shape
    <3>2. u \in Seq(Texts)
      <4>1. v \o g \in Seq(Texts)
        BY <2>2, Joined
      <4> QED  BY <2>2, <4>1, Joined
    <3>3. u \o l = r.work
      <4> HIDE DEF w, g, v, l, t, n, c, r, u
      <4> DEFINE both == v \o g
      <4>1. both \in Seq(Texts) /\ both \o l = v \o (g \o l)
        BY <2>2, Joined, Rebracket
      <4>2. << >> \o l = l
        BY <2>2, ConcatEmptySeq
      <4> HIDE DEF both
      <4>3. (w \o both) \o l = w \o (both \o l)
        BY <2>2, <4>1, Rebracket
      <4> QED  BY <2>3, <2>6, <4>1, <4>2, <4>3 DEF u, both
    <3> HIDE DEF u
    <3>4. "send" \in Steps
      BY DEF Steps
    <3>5. /\ q \in Calls /\ q.step = "send"
          /\ q.work = r.work /\ q.left = r.left /\ q.vectors = u
      <4> HIDE DEF r
      <4> QED  BY <2>1, <3>2, <3>4 DEF Calls
    <3> HIDE DEF q
    <3>6. Kept(q)
      BY <3>3, <3>5 DEF Kept
    <3> QED  BY <2>1, <3>1, <3>5, <3>6, JobEnds
  <2> QED  BY <2>4, <2>5, <2>6
<1>5. CASE ThreadDies
  <2>1. /\ callers' = [c \in Caller |-> IF callers[c].step = "wait"
                                         THEN [callers[c] EXCEPT !.step = "error"] ELSE callers[c]]
        /\ inbox' = << >> /\ job' = NoJob /\ thread' = "exited"
    BY <1>5 DEF ThreadDies
  <2>2. ASSUME NEW c \in Caller PROVE callers'[c] \in Calls /\ Kept(callers'[c])
    <3> DEFINE q == [callers[c] EXCEPT !.step = "error"]
    <3>1. callers[c] \in Calls /\ Kept(callers[c]) /\ "error" \in Steps
      BY DEF EmbedInv, Shape, Steps
    <3>2. q \in Calls /\ q.step = "error"
      BY <3>1, Stepped
    <3>3. callers'[c] = q \/ callers'[c] = callers[c]
      BY <2>1
    <3> HIDE DEF q
    <3>4. Kept(q)
      BY <3>2 DEF Kept
    <3> QED  BY <3>1, <3>2, <3>3, <3>4
  <2>3. callers' \in [Caller -> Calls]
    BY <2>1, <2>2
  <2>4. Shape' /\ Jobwise'
    BY <2>1, <2>3, EmptySeq DEF Shape, Jobwise
  <2>5. Summed(job'.group, job'.tokens)
    BY <2>1, SummedEmpty DEF NoJob
  <2> QED  BY <2>1, <2>2, <2>4, <2>5 DEF EmbedInv
<1> QED  BY <1>1, <1>2, <1>3, <1>4, <1>5

\* What the invariant says of the answers, of the jobs and of the batches.
LEMMA EmbedInvSuffices == EmbedInv => VectorsInOrder
<1> SUFFICES ASSUME EmbedInv PROVE VectorsInOrder
  OBVIOUS
<1>1. \A c \in Caller : callers[c].step = "answered" => callers[c].vectors = callers[c].work
  BY DEF EmbedInv, Kept
<1>2. /\ \A i \in DOMAIN inbox : callers[inbox[i].of].step = "wait"
      /\ job # NoJob => callers[job.of].step = "wait"
  BY DEF EmbedInv, Jobwise, Owed
<1>3. FitsBatch(job.group)
  <2>1. Summed(job.group, job.tokens)
    BY DEF EmbedInv
  <2> QED  BY <2>1 DEF Summed, FitsBatch
<1> QED  BY <1>1, <1>2, <1>3 DEF VectorsInOrder

\* "Embed documents for storage, in input order" (lib.rs): for any number of
\* callers and faults, any texts, slices and limits, an answered call has its
\* own vectors in its own order, no group overflows the batch it is copied
\* into, and every job has a caller that waits.
THEOREM VectorsComeInOrder == EmbedSpec => []VectorsInOrder
<1>1. EmbedInit => EmbedInv
  BY EmbedStart
<1>2. EmbedInv /\ [EmbedNext]_embedVars => EmbedInv'
  <2> SUFFICES ASSUME EmbedInv, [EmbedNext]_embedVars PROVE EmbedInv'
    OBVIOUS
  <2>1. CASE UNCHANGED embedVars
    BY <2>1 DEF embedVars, EmbedInv, Shape, Jobwise
  <2>2. CASE EmbedNext
    BY <2>2, CallerStep, WorkerStep DEF EmbedNext
  <2> QED  BY <2>1, <2>2
<1>3. EmbedInv => VectorsInOrder
  BY EmbedInvSuffices
<1> QED  BY <1>1, <1>2, <1>3, PTL DEF EmbedSpec

=============================================================================
