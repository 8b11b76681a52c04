----------------------------- MODULE VectorSpace -----------------------------
(***************************************************************************)
(* The vector space of a store: which model its vectors were built with,   *)
(* and how a store moves to another model (crates/agmem-server, startup.rs *)
(* and reindex.rs; crates/agmem-store, migrate.rs and repo/reindex.rs).    *)
(*                                                                         *)
(* A process that opens the store settles the space first: it records its  *)
(* backend in `meta`, finds it recorded already, or moves the store, which *)
(* clears every vector, redefines both HNSW indexes at the new width and   *)
(* rewrites `meta`, one statement at a time and no transaction around      *)
(* them.  The rows left without a vector are embedded again in the         *)
(* background (drain) or by `agmem reindex`.  A process can crash between  *)
(* any two statements.  On an embedded engine the data-dir lock admits one *)
(* process at a time; on a shared server (ws://) nothing does.             *)
(***************************************************************************)
EXTENDS Common, FiniteSetsExt

CONSTANTS
    Proc,          \* agmem processes
    Backend,       \* embedding backends: [model, dim, revision]
    Stored,        \* the spaces a store can be found in, None for a fresh one
    Row,           \* ids of the rows that carry vectors
    Memory,        \* those of table `memory`; the others are episode_chunk rows
    BakedDim,      \* EMBEDDING_DIM, the width the v1 schema defines
    BatchSize,     \* BATCH and DRAIN_BATCH (128 and 16 in the code)
    DrainGiveUp,   \* DRAIN_GIVE_UP (5 in the code)
    Setups         \* the installations, see Setup

Table == {"memory", "chunk"}

\* The statements of reset_vectors, in their order; the last one is the second
\* DEFINE of a script whose first one failed.
Statements == {"clear memory", "clear chunk", "define memory", "define chunk",
               "define chunk after error"}
TableOf(r) == IF r \in Memory THEN "memory" ELSE "chunk"

\* An installation: whether the engine is a shared server, the backends
\* processes are started with, what is run ("reindex" for `agmem reindex`),
\* whether a call of the backend can fail, and the bounds on crashes and starts.
Setup == [remote : BOOLEAN, configured : SUBSET Backend,
          tools : SUBSET {"serve", "reindex"}, fails : BOOLEAN,
          crashes : Nat, starts : Nat]

\* A dimensionless backend (`--embedder none`) has dim 0; a store holds
\* finitely many rows.
ASSUME VectorAssumption ==
    /\ \A b \in Backend :
          b.dim \in Nat /\ b = [model |-> b.model, dim |-> b.dim, revision |-> b.revision]
    /\ IsFiniteSet(Row)
    /\ \A b \in Stored \ {None} : b.dim > 0
    /\ Setups \subseteq Setup /\ Stored \subseteq Backend \cup {None}
    /\ Memory \subseteq Row
    /\ BakedDim \in Nat \ {0} /\ BatchSize \in Nat \ {0} /\ DrainGiveUp \in Nat \ {0}
    /\ None \notin Backend /\ None \notin Proc /\ None \notin Statements

VARIABLES
    setup,      \* the installation, chosen once
    rows,       \* the rows that exist
    vec,        \* the backend that built a row's vector, or None
    width,      \* the width each table's HNSW index is defined with
    meta,       \* the space meta:main records, or None
    lock,       \* the holder of the data-dir lock, or None
    pc,         \* where each process stands
    tool,       \* which of setup.tools the process runs
    backend,    \* the backend the process is configured with
    stage,      \* the statement of reset_vectors that runs next
    pending,    \* VectorState.pending, or the loop's `remaining`
    batch,      \* the rows embed_batch has read
    failures,   \* the drain's consecutive failures
    drain,      \* where the embed loop stands
    crashes, starts

store == <<setup, rows, vec, width, meta>>
loop == <<pending, batch, failures, drain>>
vars == <<setup, rows, vec, width, meta, lock, pc, tool, backend, stage, pending, batch,
          failures, drain, crashes, starts>>

PCs == {"down", "resolve", "ensure", "reset", "set", "adopt", "record", "reread",
        "backfill", "count", "serving"}

Init ==
    /\ setup \in Setups
    /\ meta \in Stored
    /\ rows \in IF meta = None THEN {{}} ELSE SUBSET Row
    /\ vec = [r \in Row |-> IF r \in rows THEN meta ELSE None]
    /\ width = [t \in Table |-> IF meta = None THEN BakedDim ELSE meta.dim]
    /\ lock = None
    /\ pc = [p \in Proc |-> "down"]
    /\ tool = [p \in Proc |-> "serve"]
    /\ backend = [p \in Proc |-> None]
    /\ stage = [p \in Proc |-> None]
    /\ pending = [p \in Proc |-> 0]
    /\ batch = [p \in Proc |-> {}]
    /\ failures = [p \in Proc |-> 0]
    /\ drain = [p \in Proc |-> "off"]
    /\ crashes = 0 /\ starts = 0

-----------------------------------------------------------------------------
(* Reading the store *)

\* WHERE embedding IS NONE, over both tables.
Pending == {r \in rows : vec[r] = None}

\* A space is recorded, and StoredEmbedder::matches: a revision counts only
\* when both sides have one.
Matches(stored, b) ==
    /\ stored # None
    /\ stored.model = b.model /\ stored.dim = b.dim
    /\ stored.revision # None /\ b.revision # None => stored.revision = b.revision

\* The engine's HNSW check: a vector must have the index's width.
Fits(b, r) == b.dim = width[TableOf(r)]

-----------------------------------------------------------------------------
(* Opening: startup::open_locked and startup::resolve *)

\* The process is gone, and with it its lock and whatever it held in memory.
Leave(p) ==
    /\ pc' = [pc EXCEPT ![p] = "down"]
    /\ lock' = IF lock = p THEN None ELSE lock
    /\ stage' = [stage EXCEPT ![p] = None]
    /\ pending' = [pending EXCEPT ![p] = 0]
    /\ batch' = [batch EXCEPT ![p] = {}]
    /\ failures' = [failures EXCEPT ![p] = 0]
    /\ drain' = [drain EXCEPT ![p] = "off"]

\* lock::acquire, unless the engine is remote.  `agmem reindex` refuses a
\* dimensionless backend before it touches anything.
Start(p) ==
    /\ pc[p] = "down"
    /\ starts < setup.starts
    /\ starts' = starts + 1
    /\ setup.remote \/ lock = None
    /\ lock' = IF setup.remote THEN lock ELSE p
    /\ \E b \in setup.configured, t \in setup.tools :
          /\ t = "reindex" => b.dim > 0
          /\ backend' = [backend EXCEPT ![p] = b]
          /\ tool' = [tool EXCEPT ![p] = t]
    /\ pc' = [pc EXCEPT ![p] = "resolve"]
    /\ UNCHANGED <<store, stage, loop, crashes>>

Goto(p, where) == pc' = [pc EXCEPT ![p] = where]

\* Mutant: the new space is recorded before the old vectors are cleared.
ResolveRecordsFirst(p) ==
    /\ pc[p] = "resolve"
    /\ LET b == backend[p]
           moves == ~Matches(meta, b) /\ (tool[p] = "serve" => meta # None)
       IN  \/ /\ b.dim = 0
              /\ Goto(p, "serving") /\ UNCHANGED <<stage, meta>>
           \/ /\ b.dim > 0 /\ moves
              /\ Goto(p, "reset")
              /\ meta' = b
              /\ stage' = [stage EXCEPT ![p] = "clear memory"]
           \/ /\ b.dim > 0 /\ ~moves
              /\ Goto(p, IF tool[p] = "reindex" THEN "count" ELSE "ensure")
              /\ UNCHANGED <<stage, meta>>
    /\ UNCHANGED <<setup, rows, vec, width, lock, tool, backend, loop, crashes, starts>>

\* resolve reads the recorded space and decides; execute decides likewise,
\* but moves a store that has no space recorded too.
Resolve(p) ==
    /\ pc[p] = "resolve"
    /\ LET b == backend[p]
           moves == ~Matches(meta, b) /\ (tool[p] = "serve" => meta # None)
       IN  \/ /\ b.dim = 0
              /\ Goto(p, "serving") /\ UNCHANGED stage
           \/ /\ b.dim > 0 /\ moves
              /\ Goto(p, "reset")
              /\ stage' = [stage EXCEPT ![p] = "clear memory"]
           \/ /\ b.dim > 0 /\ ~moves
              /\ Goto(p, IF tool[p] = "reindex" THEN "count" ELSE "ensure")
              /\ UNCHANGED stage
    /\ UNCHANGED <<store, lock, tool, backend, loop, crashes, starts>>

\* ensure_embedder's own read: only a store with no space recorded, and only
\* at another width than the schema's, has its indexes redefined.
EnsureEmbedder(p) ==
    /\ pc[p] = "ensure"
    /\ LET b == backend[p]
       IN  \/ /\ meta = None /\ b.dim # BakedDim
              /\ Goto(p, "adopt")
              /\ stage' = [stage EXCEPT ![p] = "clear memory"]
              /\ UNCHANGED <<lock, loop>>
           \/ /\ meta = None /\ b.dim = BakedDim
              /\ Goto(p, "record") /\ UNCHANGED <<lock, stage, loop>>
           \/ /\ meta # None /\ ~Matches(meta, b)
              /\ Leave(p)
           \/ /\ Matches(meta, b)
              /\ Goto(p, IF meta.revision = None /\ b.revision # None
                         THEN "backfill" ELSE "count")
              /\ UNCHANGED <<lock, stage, loop>>
    /\ UNCHANGED <<store, tool, backend, crashes, starts>>

\* UPDATE meta:main SET embedder_revision WHERE embedder_revision IS NONE
Backfill(p) ==
    /\ pc[p] = "backfill"
    /\ meta' = IF meta # None /\ meta.revision = None
               THEN [meta EXCEPT !.revision = backend[p].revision] ELSE meta
    /\ Goto(p, "count")
    /\ UNCHANGED <<setup, rows, vec, width, lock, tool, backend, stage, loop, crashes, starts>>

RowsOf(t) == {r \in Row : TableOf(r) = t}

\* reset_vectors runs for a move ("reset") and for a first run ("adopt").
Resetting(p, s) == pc[p] \in {"reset", "adopt"} /\ stage[p] = s

\* Mutant: an index is redefined while its rows keep their vectors.
ClearVectorsNot(p, s, t, next) ==
    /\ Resetting(p, s)
    /\ stage' = [stage EXCEPT ![p] = next]
    /\ UNCHANGED <<store, lock, pc, tool, backend, loop, crashes, starts>>

\* UPDATE ... SET embedding = NONE
ClearVectors(p, s, t, next) ==
    /\ Resetting(p, s)
    /\ vec' = [r \in Row |-> IF r \in RowsOf(t) THEN None ELSE vec[r]]
    /\ stage' = [stage EXCEPT ![p] = next]
    /\ UNCHANGED <<setup, rows, width, meta, lock, pc, tool, backend, loop, crashes, starts>>

\* The statement of the script that runs after `s`; an error of one does not
\* stop the next, and the whole script's answer is checked at the end.
AfterRedefine(s, clash) ==
    CASE s = "define memory" -> IF clash THEN "define chunk after error" ELSE "define chunk"
      [] s # "define memory" -> None

\* reset_vectors returns: the caller goes on to record its space.
Returns(p) == Goto(p, IF pc[p] = "reset" THEN "set" ELSE "record")

\* DEFINE INDEX OVERWRITE ... DIMENSION: the rebuild fails over a vector of
\* another width and the old definition survives.  A script with an error in
\* it fails the open.
Redefine(p, s, t) ==
    /\ Resetting(p, s)
    /\ LET clash == \E r \in rows \cap RowsOf(t) :
                        vec[r] # None /\ vec[r].dim # backend[p].dim
           next == AfterRedefine(s, clash)
           failed == clash \/ s = "define chunk after error"
       IN  /\ width' = IF clash THEN width ELSE [width EXCEPT ![t] = backend[p].dim]
           /\ \/ next = None /\ failed /\ Leave(p)
              \/ /\ ~(next = None /\ failed)
                 /\ stage' = [stage EXCEPT ![p] = next]
                 /\ IF next = None THEN Returns(p) ELSE UNCHANGED pc
                 /\ UNCHANGED <<lock, loop>>
    /\ UNCHANGED <<setup, rows, vec, meta, tool, backend, crashes, starts>>

ResetVectors(p) ==
    \/ ClearVectors(p, "clear memory", "memory", "clear chunk")
    \/ ClearVectors(p, "clear chunk", "chunk", "define memory")
    \/ Redefine(p, "define memory", "memory")
    \/ Redefine(p, "define chunk", "chunk")
    \/ Redefine(p, "define chunk after error", "chunk")

\* set_embedder: UPSERT, whatever was there.
SetEmbedder(p) ==
    /\ pc[p] = "set"
    /\ meta' = backend[p]
    /\ Goto(p, "count")
    /\ UNCHANGED <<setup, rows, vec, width, lock, tool, backend, stage, loop, crashes, starts>>

\* Mutant: the write has lost its WHERE clause.
RecordEmbedderUnguarded(p) ==
    /\ pc[p] = "record"
    /\ meta' = backend[p]
    /\ Goto(p, "reread")
    /\ UNCHANGED <<setup, rows, vec, width, lock, tool, backend, stage, loop, crashes, starts>>

\* ensure_embedder's guarded write: only over an absent space (issue #72).
RecordEmbedder(p) ==
    /\ pc[p] = "record"
    /\ meta' = IF meta = None THEN backend[p] ELSE meta
    /\ Goto(p, "reread")
    /\ UNCHANGED <<setup, rows, vec, width, lock, tool, backend, stage, loop, crashes, starts>>

\* The re-read that tells a loser it lost.
Reread(p) ==
    /\ pc[p] = "reread"
    /\ \/ Matches(meta, backend[p]) /\ Goto(p, "count") /\ UNCHANGED <<lock, stage, loop>>
       \/ ~Matches(meta, backend[p]) /\ Leave(p)
    /\ UNCHANGED <<store, tool, backend, crashes, starts>>

\* Mutant: the count is not taken, so nothing is left to drain.
CountPendingNot(p) ==
    /\ pc[p] = "count"
    /\ Goto(p, "serving")
    /\ UNCHANGED <<store, lock, tool, backend, stage, loop, crashes, starts>>

\* pending_count, and the drain (or the reindex loop) starts if it is not 0.
CountPending(p) ==
    /\ pc[p] = "count"
    /\ pending' = [pending EXCEPT ![p] = Cardinality(Pending)]
    /\ drain' = [drain EXCEPT ![p] = IF Pending = {} THEN "off" ELSE "read"]
    /\ Goto(p, "serving")
    /\ UNCHANGED <<store, lock, tool, backend, stage, batch, failures, crashes, starts>>

-----------------------------------------------------------------------------
(* The embed loop: reindex::drain in a serving process, reindex::execute in *)
(* `agmem reindex`, both over embed_batch.                                  *)

\* The first `BatchSize` pending rows, `memory` before `episode_chunk`.
NextBatch(S) ==
    /\ S \subseteq Pending
    /\ Cardinality(S) = Min({BatchSize, Cardinality(Pending)})
    /\ (\E r \in S : r \notin Memory) => Pending \cap Memory \subseteq S

\* Mutant: the drain retries for ever.
DrainFailedForever(p) ==
    /\ drain' = [drain EXCEPT ![p] = IF tool[p] = "reindex" THEN "gave up" ELSE "read"]
    /\ UNCHANGED <<pending, failures>>

\* Mutant: one failure more before giving up.
DrainFailedLate(p) ==
    /\ failures' = [failures EXCEPT ![p] = @ + 1]
    /\ drain' = [drain EXCEPT ![p] =
           IF failures[p] >= DrainGiveUp \/ tool[p] = "reindex"
           THEN "gave up" ELSE "read"]
    /\ UNCHANGED pending

\* A batch that failed: retried until DRAIN_GIVE_UP in a row; `agmem reindex`
\* returns the error at once.
DrainFailed(p) ==
    /\ failures' = [failures EXCEPT ![p] = @ + 1]
    /\ drain' = [drain EXCEPT ![p] =
           IF failures[p] + 1 >= DrainGiveUp \/ tool[p] = "reindex"
           THEN "gave up" ELSE "read"]
    /\ UNCHANGED pending

\* What a batch that left `left` rows pending means for the loop: progress,
\* the end, or a batch that changed nothing.
Settle(p, left) ==
    \/ /\ left < pending[p] \/ left = 0
       /\ pending' = [pending EXCEPT ![p] = left]
       /\ failures' = [failures EXCEPT ![p] = 0]
       /\ drain' = [drain EXCEPT ![p] = IF left = 0 THEN "off" ELSE "read"]
    \/ /\ left >= pending[p] /\ left # 0
       /\ DrainFailed(p)

ReadBatch(p) ==
    /\ pc[p] = "serving" /\ drain[p] = "read"
    /\ \/ /\ Pending = {}
          /\ Settle(p, 0) /\ UNCHANGED batch
       \/ /\ Pending # {}
          /\ \E S \in SUBSET Pending :
                NextBatch(S) /\ batch' = [batch EXCEPT ![p] = S]
          /\ drain' = [drain EXCEPT ![p] = "write"]
          /\ UNCHANGED <<pending, failures>>
    /\ UNCHANGED <<store, lock, pc, tool, backend, stage, crashes, starts>>

\* embed_passages, then WRITE_VECTORS: one statement over the rows still
\* there, which the index can refuse.
WriteBatch(p) ==
    /\ pc[p] = "serving" /\ drain[p] = "write"
    /\ LET there == batch[p] \cap rows
           fit == \A r \in there : Fits(backend[p], r)
       IN  \/ /\ setup.fails \/ ~fit
              /\ DrainFailed(p) /\ UNCHANGED vec
           \/ /\ fit
              /\ vec' = [r \in Row |-> IF r \in there THEN backend[p] ELSE vec[r]]
              /\ drain' = [drain EXCEPT ![p] = "recount"]
              /\ UNCHANGED <<pending, failures>>
    /\ batch' = [batch EXCEPT ![p] = {}]
    /\ UNCHANGED <<setup, rows, width, meta, lock, pc, tool, backend, stage, crashes, starts>>

Recount(p) ==
    /\ pc[p] = "serving" /\ drain[p] = "recount"
    /\ Settle(p, Cardinality(Pending))
    /\ UNCHANGED <<store, lock, pc, tool, backend, stage, batch, crashes, starts>>

-----------------------------------------------------------------------------
(* Serving *)

\* A row is written with its vector, or without one by a dimensionless
\* backend.  A vector the index refuses fails the write.
WriteRow(p) ==
    /\ pc[p] = "serving" /\ tool[p] = "serve"
    /\ \E r \in Row \ rows :
          /\ backend[p].dim = 0 \/ Fits(backend[p], r)
          /\ rows' = rows \cup {r}
          /\ vec' = [vec EXCEPT ![r] = IF backend[p].dim = 0 THEN None ELSE backend[p]]
    /\ UNCHANGED <<setup, width, meta, lock, pc, tool, backend, stage, loop, crashes, starts>>

\* A purge deletes a row, and its vector with it.
DeleteRow(p) ==
    /\ pc[p] = "serving" /\ tool[p] = "serve"
    /\ \E r \in rows : rows' = rows \ {r} /\ vec' = [vec EXCEPT ![r] = None]
    /\ UNCHANGED <<setup, width, meta, lock, pc, tool, backend, stage, loop, crashes, starts>>

\* The daemon shuts down, or the reindex is done or has given up.
Exit(p) ==
    /\ pc[p] = "serving"
    /\ tool[p] = "reindex" => drain[p] \in {"off", "gave up"}
    /\ Leave(p)
    /\ UNCHANGED <<store, tool, backend, crashes, starts>>

Crash(p) ==
    /\ pc[p] # "down"
    /\ crashes < setup.crashes
    /\ crashes' = crashes + 1
    /\ Leave(p)
    /\ UNCHANGED <<store, tool, backend, starts>>

\* What a process does by itself once started.
Step(p) ==
    \/ Resolve(p) \/ EnsureEmbedder(p) \/ Backfill(p) \/ ResetVectors(p)
    \/ SetEmbedder(p) \/ RecordEmbedder(p) \/ Reread(p) \/ CountPending(p)
    \/ ReadBatch(p) \/ WriteBatch(p) \/ Recount(p)

Next ==
    \E p \in Proc : Start(p) \/ Step(p) \/ WriteRow(p) \/ DeleteRow(p) \/ Exit(p) \/ Crash(p)

Spec == Init /\ [][Next]_vars

\* The runtime polls the open and the drain until they return.
FairSpec == Spec /\ \A p \in Proc : WF_vars(Step(p))

-----------------------------------------------------------------------------
(* Properties *)

\* Every variable has its shape; the drain's failures stay within DRAIN_GIVE_UP.
TypeOK ==
    /\ rows \subseteq Row
    /\ vec \in [Row -> Backend \cup {None}]
    /\ width \in [Table -> {b.dim : b \in Backend} \cup {BakedDim}]
    /\ meta = None \/ meta.dim \in {b.dim : b \in Backend} \ {0}
    /\ lock \in Proc \cup {None}
    /\ pc \in [Proc -> PCs]
    /\ tool \in [Proc -> {"serve", "reindex"}]
    /\ backend \in [Proc -> Backend \cup {None}]
    /\ stage \in [Proc -> Statements \cup {None}]
    /\ pending \in [Proc -> 0..Cardinality(Row)]
    /\ batch \in [Proc -> SUBSET Row]
    /\ failures \in [Proc -> 0..DrainGiveUp]
    /\ drain \in [Proc -> {"off", "read", "write", "recount", "gave up"}]
    /\ crashes \in 0..setup.crashes /\ starts \in 0..setup.starts

Serves(p) == pc[p] = "serving" /\ backend[p].dim > 0

\* When a vector's revision can be told from the record for good.  A reindex of
\* a store that never recorded a revision embeds at its own and leaves the
\* record without one (execute has no backfill), so a later release with
\* another pin takes those vectors for its own: the revisions are told when
\* nothing reindexes, when every space has a revision, or when the releases
\* agree on the revision of a model.
AllPinned(s) == \A b \in s.configured \cup (Stored \ {None}) : b.dim > 0 => b.revision # None
OnePin(s) ==
    \A b, c \in s.configured :
        /\ b.model = c.model /\ b.dim = c.dim
        /\ b.revision # None /\ c.revision # None
        => b.revision = c.revision
RevisionsTold(s) == "reindex" \notin s.tools \/ AllPinned(s) \/ OnePin(s)

\* One store, one geometry: on an embedded engine every vector was built by
\* the model `meta` records, through moves, crashes in the middle of one and
\* resumed drains; and at a revision that matches the recorded one, where the
\* revisions are told.
OneSpace ==
    ~setup.remote => \A r \in rows : vec[r] # None =>
        /\ meta # None /\ meta.model = vec[r].model /\ meta.dim = vec[r].dim
        /\ RevisionsTold(setup) => Matches(meta, vec[r])

\* The processes between the first statement of a move and the last.
Moving == {p \in Proc : pc[p] \in {"reset", "set", "adopt", "record", "reread"}}

\* A process that serves the recorded space can write into it: with no move
\* under way both indexes have its backend's width, so the engine refuses
\* neither a remember nor the drain.
ServingFits ==
    \A p \in Proc : Serves(p) /\ Matches(meta, backend[p]) /\ Moving = {} =>
        \A t \in Table : width[t] = backend[p].dim

\* A space once recorded is replaced only by a process that has cleared the
\* vectors and redefined the indexes for its own: two first runs racing on a
\* shared server never overwrite each other's record, and a backfill only adds
\* the missing revision (issue #72).
RecordStands ==
    [][meta # None /\ meta' # meta =>
          \/ \E p \in Proc : pc[p] = "set" /\ meta' = backend[p]
          \/ Matches(meta, meta')]_vars

\* The "still being re-embedded" notice is never down while a row is out of
\* the vector arm's reach; on a shared server another process may clear
\* vectors behind a count.
NoticeHonest == ~setup.remote => \A p \in Proc : Serves(p) /\ pending[p] = 0 => Pending = {}

\* The loop over pending rows ends: with every row embedded, or, when the
\* backend keeps failing, given up.
DrainEnds ==
    \A p \in Proc : Serves(p) ~>
        (~Serves(p) \/ Pending = {} \/ drain[p] = "gave up")
=============================================================================
