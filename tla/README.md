# A TLA+ model of agmem

agmem is a memory server for coding agents: it stores *claims* (rows of table
`memory`) and *episodes* (the texts and documents claims were distilled from)
in SurrealDB and serves them over MCP with the tools `remember`, `reflect`,
`recall`, `context`, `inspect`, `consolidate` and `forget`. One process owns an
embedded store at a time: a daemon that many sessions attach to, or a session
of its own. A store on a `ws://` server has no such owner.

This directory holds TLA+ modules that model the parts of it where order and
failure matter, configurations that check them with TLC, and proofs that TLAPS
checks. Paths below are relative to the repository's root.

## The system

| Component | State | Operations | Why it is hard |
|---|---|---|---|
| Store write path, `crates/agmem-store/src/repo/write.rs`, `queries/write.rs`, migrations v1 and v5 | tables `memory`, `episode`, their unique indexes | `insert_batch` (two reads, then one optimistic transaction, retried on a lost race), `forget` soft and purge, `prune_expired`, `reinforce` | sessions interleave between the reads and the transaction; what was read is stale when it is used; the only guards inside the transaction are a duplicate lookup, a row count and the index |
| `remember`, `reflect`, `crates/agmem-server/src/tools/` | none | resolve citations, near-duplicate gate, embed, `insert_batch`, report what was closed | the report must be what the store did |
| `forget`, `tools/forget.rs` | one confirmation slot per session | by id: find targets, document cascade, chain expansion, close or delete; by query: dry run, then confirm | each phase is a round trip; chains and citations change in between |
| Vector space, `crates/agmem-server/src/startup.rs`, `reindex.rs`, `crates/agmem-store/src/migrate.rs`, `repo/reindex.rs` | `meta:main`, the vectors, two HNSW index widths, the drain's counters | settle the space at open, move a store to another model, background drain, `agmem reindex` | several statements and no transaction, a crash between any two; on a shared server other processes at every point |
| Schema migrations, `migrate.rs`, `migrations/` | `meta.schema_version`, the schema, the rows of earlier versions | `ensure`: nine batches of statements, a version bump after each | no transaction around a batch, a kill anywhere; old and new releases side by side on a shared server |
| Daemon, client, lock, `crates/agmem-server/src/daemon/`, `lock.rs` | data-dir lock, spawn lock, socket path, per-connection handshake | attach, spawn, serve, retire for a newer release, idle exit | many processes racing over a lock file and a socket path, with timeouts and crashes |
| `recall`, `tools/recall.rs`, `hop.rs`, `occupancy.rs`, `abstain.rs` | none (it reinforces) | hop, rank, two caps, reserved slot, cut, count | six passes re-order one page; a later one can undo an earlier one's promise |
| `context`, `tools/context.rs` | none | four sections, filled into a budget up to three times | order of sections against the room held for one of them |
| `inspect`, `tools/inspect.rs` | none | up to six queries for one reference, a text read window by window | the store moves between the queries |
| `consolidate`, `tools/consolidate.rs` | none | all pairs, a union-find, groups cut to what an answer carries | an array whose paths every walk shortens |
| Editor hooks, `hook.rs` | one log file per editor session | five hooks, each a process | read, then append, then prune, without a lock |
| `agmem-core`: scoring, dedup, chunking, model | none | pure functions | boundaries |
| `agmem-embed` | a thread that owns the model, or an HTTP client | embed passages, unload when idle, reload | one channel, many callers, failures at each step |
| CLI, configuration, doctor, gc, resources, prompts | files | parsing, printing | sequential |

The tools run in the daemon's tasks and call the store; there is no mutex
around a store write, so two sessions' calls interleave at every round trip.
The engine's optimistic transactions and unique indexes are what the store
relies on. The daemon opens the store through `startup::open_locked`, which
settles the vector space before any session is served and spawns the drain.

What makes each part correct: the write path must keep one live row per content
and space, must never rewrite a close, must report exactly what it closed, and
its links must stay acyclic and inside a space; `forget` must leave nothing
that refers to what it deleted; the vector space must never mix models, and
must always be writable by the process that serves it; a daemon must be the
only owner of its store, and every client must end attached or with an error;
a migration that was cut short must be safe to run again; an answer must account
for what the caller sent and say when it left something out; a query may forget
only what was shown; every embedding call must return, in order.

## Modules

### `MemoryStore.tla`: the write path

One store, any number of sessions. `mem` and `ep` are the committed tables.
Everything else is the progress of one call per session: `pc` is the round trip
it is at, `batch` or `wipe` its request, `closed` and `targets` what its reads
returned, `snap` and `work` the table its transaction began from and the table
as the transaction has it (`esnap`, `ework` for episodes), `out` the rows
reported so far, `attempts` the retry counter.

| Actions | Code |
|---|---|
| `Remember`, `ResolveCitations` | the entry of `remember` and `reflect`; `reflect`'s lookup of citations in the caller's space and in `user` |
| `EnsureExist`, `ReadClosed` | the two reads of `insert_batch_once` outside the transaction |
| `Begin`, `Duplicate`, `Create`, `Commit` | the transaction: BEGIN and the episode lookup, one statement per entry, COMMIT |
| `LoseRace`, `Throw`, `ReturnError` | the retry arm of `insert_batch`, the THROW on a row count that falls short, the error to the caller |
| `FindTargets`, `CascadeDocuments`, `ExpandChains`, `ForgetSoft`, `ForgetPurge` | the phases of `forget` by id |
| `PruneExpired`, `Reinforce` | the expiry sweep, `recall`'s access counter |

The engine is external. It is modelled from what the code relies on: a
transaction reads its snapshot and its own writes; a commit fails when a row it
writes, or an index entry it claims, was taken meanwhile; and, with
`ReadsValidated`, when a row set it looked up has changed. The code does not say
whether the engine validates reads. Properties that hold either way are checked
and proved without it; two of them (`SupersessionAcyclic`, `ReportedRowsHold`)
need it and are checked with it: without it two sessions that merge two claims
in opposite directions can close each in favour of the other. The run `liveness`
starts where they can: two claims are stored, and either session may send any
content that replaces any claim.

A clock with one or two instants makes closes share a date far more often than
nanoseconds do. That only adds collisions in the unique index, which the code
handles as lost races, so the behaviours of a fine clock are among those
checked.

Abstracted: text is a content hash; `cites` joins `source.ref` and
`derived_from`; a single SurrealQL statement, and the reads one phase of a call
makes, are one step; decay is a choice of which `fast` rows have expired.

### `ClaimLedger.tla`: what the write path promises

A claim is recorded once, is live until one event closes it, keeps that closure
while it is stored, and is gone for good once erased; each commit is a write, a
forget, an expiry or a purge, never a mixture. `MemoryStore!LedgerSpec` is this
specification under a refinement mapping from `mem`.

### `VectorSpace.tla`: moving a store between models

Processes that serve or reindex one store. `rows` and `vec` are the rows and
the backend each vector came from, `width` the width of each HNSW index, `meta`
the recorded space, `lock` the data-dir lock. Per process: `pc`, `stage` (the
next statement of `reset_vectors`), and the state of its embed loop.

| Actions | Code |
|---|---|
| `Start`, `Resolve` | `startup::open`, `resolve`; `reindex::run`, `execute` |
| `EnsureEmbedder`, `Backfill`, `RecordEmbedder`, `Reread` | the four statements of `ensure_embedder` |
| `ResetVectors` (`ClearVectors` and `Redefine`, per table), `SetEmbedder` | `reset_vectors` and `set_embedder`; a statement that fails does not stop the next, the script's error is seen at its end |
| `CountPending`, `ReadBatch`, `WriteBatch`, `Recount` | `pending_count`, `embed_batch`, and the loop around it in `drain` and `execute` |
| `WriteRow`, `DeleteRow` | what the tools do to the rows meanwhile |
| `Exit`, `Crash` | the end of a process, its lock released with it |

A dimensionless backend has width 0, an absent revision is `None`, as in the
code. A backend is its model, width and revision; embedding is a call that may
fail. An installation, `setup`, is chosen at the start: on a data dir or a shared
server, which backends and tools are configured, whether embedding may fail, how
many crashes and starts.

### `SchemaMigration.tla`: `ensure` and its nine batches

`schema` is what is defined (fields, the type of `supersedes`, the unique
indexes), `version` the number in `meta`, `memory` the rows, of any age.
`OpenStore`, `ReadVersion`, `Statement` (one per statement of the batch in hand),
`BatchFails` and `BumpVersion` are `ensure`: a batch is sent whole, so the
statements after one that fails still run before its error ends the startup; `Create` and `CloseRow` are what served
processes do to rows; `Quit` and `Kill` end a process anywhere. Two rules of the
engine, from the comments in `migrations/`, are what make a migration hard: a
definition applies to writes and not to rows on disk, and an UPDATE coerces
every field of the row it writes. Statements that define fields no property
tells apart are one kind.

### `AgmemDaemon.tla`: one owner, many sessions

Sessions (`Client`), the daemons they start, and a process that opens the store
without one (`Solo`: `--no-daemon`, `agmem reindex`). Shared between them are
three locks, `slock` (the spawn lock), `dlock` (the data-dir lock) and `elock`
(the engine's own), and `sock`, the daemon whose socket the path names, which
may be dead. `conn` is the daemon's end of each session's connection: in the
kernel's queue, accepted, or how its task goes on after the ack.

| Actions | Code |
|---|---|
| `Begin`, `Connect`, `ReadAck`, `WaitForRetirement` | `attach` and its two `attach_once` |
| `QueueToSpawn`, `CheckStale`, `ClearStale`, `ProbeLock`, `ProbeDone`, `Spawn`, `WaitUntilReady` | `start_one`: the spawn lock, the second connect, the stale socket (found, then removed), `wait_for_store_lock` and the lock its probe takes for a moment, the start and its one repeat |
| `HangUp`, `Deadline`, `Abort` | the end of `pump`; a deadline that passes; a session that is killed |
| `Acquire`, `Open`, `Bind` | a daemon coming up in `serve` |
| `Accept`, `Answer`, `Join` | its accept loop: a connection, a handshake's verdict, a session's end, and with it the first step of a retirement |
| `DrainOver`, `Idle`, `Unlink`, `EngineCloses`, `Release`, `ReleaseLate`, `Exit` | how it goes: drain, idle timer, `wait_for_store_release` |
| `SoloOpens`, `SoloExits`, `Crash` | the others |

`Verdict` is `Handshake::accept`: releases are compared before anything else,
and what must agree between one release's sessions is the one field `serves`.
`Bind` removes what the path still names and binds in one step: no other daemon
touches the path then, and a session that clears a stale socket at that moment
does to it what the daemon is about to do, or finds it gone and fails, as it can
in `ClearStale`.
A daemon id is used again once it is dead and nothing refers to it. Time is
choice, with three exceptions the code's constants justify: a daemon does not
idle out under the session that started it (that one polls every 50 ms, the
timer counts seconds), a session does not tire of a retiring daemon before that
has unlinked its socket, and the number of deadlines that pass is bounded
(`MaxGiveUps`) like crashes (`MaxMishaps`).

### `EmbedHost.tla`: the model's thread

Callers send one job per slice down a channel and wait; `thread` loads, serves,
sleeps after an idle spell and loads again (`Load`, `TakeJob`, `Decode`,
`Unload`), or fails (`ReloadFails`, `DecodeFails`, `ThreadDies`). `Request` and
`RequestFails` are the HTTP endpoint instead, whose answer may list the vectors
in any order: the code puts item i where its index says. A vector is the text it
embeds.

### The tools and the hooks

One module each, and each with the part of the store it reads.

| Module | Code | State and actions |
|---|---|---|
| `RememberGate` | `tools/remember.rs`, `tools/reflect.rs` | a call per session: `Send` or `Reflect`, `Embed`, `Gate`/`ReflectGate` (`nearest_live` and the two bands), `Insert`/`ReflectInsert` (the transaction, one step here), report. A content is a point on a line and similarity falls with distance; a row carries what its gate had seen |
| `ForgetConfirm` | `tools/forget.rs` by query | the slot, the calls of one session at once: `DryRun`, `Confirm`, `ReadTargets`, `ExpandChain` (a purge walks from each row it found in a round trip of its own, and one with a link to a row that is gone refuses the call), `Check`, `Arm`, `Act`, beside other sessions' writes, corrections and purges |
| `RecallPage` | `tools/recall.rs`, `hop.rs`, `occupancy.rs`, `abstain.rs`, `scoring.rs` rank | one action per pass of `run`; rows (`PoolRow`) carry integers for scores, and are sorted stably where the code does (`StableOrder`) |
| `ContextBlock` | `tools/context.rs` | `ReadSections`, then `FillWhole`, `FillRolledUp`, `FillTrimmed`; an entry is its id, its length and what it covers. A fill goes down the sections and their entries by recursive functions (`FillSection`, `Total`) |
| `Consolidate` | `tools/consolidate.rs`, `dedup.rs` | `Pair` compares, `HalveLeft` and `HalveRight` are the steps of `find` that shorten a path on the way to a root, `Join` links the roots, `NextPair` and `ReportGroups` go on |
| `Inspect` | `tools/inspect.rs`, `repo/read.rs` | one action per query, `Put` (a document with its slices), `PurgeClaim` and `PurgeText` between them, which take whole chains; `ReadOn` sends `next_offset` back. A claim carries the ids its links lead to (`chain`), and a walk from it fails when one is gone (`Unbroken`); a text carries its date, and one stored at `GraceStart` or later is in the grace of `orphan_documents` |
| `HookLog` | `hook.rs` | a process per hook; each read of the log, open, write, prune and remove are steps of their own; a file is an inode, so a line written to a removed one is lost |

`Common.tla` has the few helpers they share (`Picked`: the entries of a sequence
at a set of places, in order).

## What the runs check

The `MC` modules hold the instances, the `.cfg` files
the bounds. In every passing run the bound is the smallest that still has the
case the run is about.

| Run | Instance | Shows |
|---|---|---|
| `race` | two sessions, three claims, two contents, corrections against soft forgets, purges and the sweep; reads not validated | `TypeOK`, `OneLivePerContent` (here the index alone carries it), `CloseNeverRewritten`, `ReportMatchesCloses`, the refinement `LedgerSpec` |
| `serial` | one session, batches and merges of two, two spaces, texts, documents, insights, cascades | `LinksStayInSpace`, `NoLiveClaimCitesPurgedDocument`, and `ReportMatchesCloses` for batches whose entries duplicate and close each other, or fail after others were written |
| `liveness` | two sessions, two claims stored, then any batch of one claim that replaces at most one, and a forget whose date collides; four ids; reads validated | `CallsFinish`, `SupersessionAcyclic`, `ReportedRowsHold` |
| `open` | schema: stores of versions 1, 2, 4 and 9, two processes of any of these releases, two rows, one kill, data dir or server; vectors: five backends after each other with a crash, served by any of them, or served and reindexed by all but the one without a revision; or two processes on a server | `ServedRowsUpdate`, `RerunIsSafe`; `OneSpace`, `NoticeHonest`, `RecordStands` |
| `ends` | one target model or none, three crashes; two callers, slices of three, groups of two, two faults | `ServingFits` through resumed moves, `DrainEnds`; `VectorsInOrder`, `EmbedReturns` |
| `attach` | two sessions of two releases, two daemon ids, one mishap, one session that gives up | `Reachable`, `OneDaemon` (one at a time, and only the lock's holder has the store open), `NoStartWasted`, `SessionsKept`, `Settles` |
| `answers` | one tool per behaviour, see below | the properties of the tools and the hooks |

The properties of `answers`: `PageShared` (a page is full, of different rows, and
no source floods it by more than the places the verbatim cap freed, unless what
is left off is no better), `AnswerHonest` (what the hop fetched survives
the cut, counts are true), `BlockHonest` (a block fits its budget, and is
complete when it does not say otherwise), `ReserveHonoured` (lessons get the room
held for them), `GroupsAreComponents` (the union-find against reachability, after
every pair), `SteadyIsFound` (what was there all along, every link of its chain
included, is found), `PagesTile` (windows put the text
together), `CitationViewsAgree` (three queries, one answer, orphans past their
grace), `EachActWasShown`
(what a query forgets, and no more, was in a preview of its own),
`EveryClaimAnswered` and `NearDuplicatesExcused` (the report, and exactly which
near duplicates two sessions can still get past the gate), `NudgedOnce` and
`CompactionListsRecalled` (the log, with the races that excuse a repeat named).

`MCStartup`, `MCEmbedding` and `MCTools` put modules that share no state side by
side: `scene` says which one a behaviour is about, and the others rest. Inputs in
`MCTools` are whole families, not samples: every mix of four kinds of source over
five rows and over the middle five of seven,
every mix of three scores, in the order the store fuses them, and
three similarities over four, every graph of close pairs on five rows, every
choice of kinds for four claims, two of them short or long. The numbers in the code (a budget of thousands of characters, a page of
ten) are scaled down to where each limit is crossed in both directions: a budget
below the minimum, one that cuts and one that does not; a cap of two in a page of
four.

To stay small, a behaviour of `serial` goes one of three ways (`OneWay`): it
stores texts, it lets the clock move, or it reinforces one claim. Texts carry no
validity, and no guard of the model reads the access counter, so
these do not interact. From there on its batches are of one claim that replaces
at most one other, in the first space (`Plain`); pairs, merges and the second
space's batches come before that.

Two sessions are enough for a race over one row: every guard in the code
compares one call's reads with the committed table, whoever wrote it. Three
claims are enough for a chain with a middle, a merge, and a duplicate that is
its own target. `liveness` has four, two of them stored: two sessions merge them
in opposite directions, and a loop of two links, or of more through a duplicate,
is a statement away (with `ConflictOnWrites`, a commit that validates only
writes, TLC finds one). In `race` and `liveness` a batch is one claim; the batches
whose entries meet each other are `serial`'s. `MaxChain` covers the longest chain the ids allow, as 64 does in
the code for any chain it can hold. Two processes and three starts cover a move,
a move back and a third opener; three rows cover both tables and a batch
boundary at `BatchSize` 1. Two sessions of two releases give every
meeting of a starting, a serving and a retiring daemon with a session that
queues, starts or leaves; two daemon ids are what those sessions can have alive
at once. Runs end when ids, starts or the clock run out, so
deadlock is not checked.

Fairness is weak fairness of a session's `CallStep` and of a process's `Step`:
the tokio runtime polls every spawned task, and no step waits for a lock held by
another. In `AgmemDaemon` it is weak fairness of `ClientStep`, of `DaemonStep`
and of `SoloExits`: processes run and their poll loops turn; a store opened
alone is closed some day. In `EmbedHost` it is weak fairness of the thread's work
and of each caller's blocking task; nothing makes a caller call, an idle spell
pass or a fault happen. Nothing is assumed of clients, crashes, sweeps, idle
timers or new calls, and no deadline has to pass. In
`liveness`, `ReserveIds` keeps a call from starving for fresh ids, which the
code never runs out of. In `answers`, the claims of `Inspect` include two whose
links differ, so that a purge from one end leaves the other broken, and a
document on either side of `GraceStart`.

### Where the code and its comments part

Each run expects TLC to violate a property that states the quoted line.

| Run | The code |
|---|---|
| `purge_chain` | `forget.rs:527` purges what `history_chain` reaches; a claim merged into an existing duplicate is not reached (`docs/design.md:1089`, "takes the whole supersession chain"). What it leaves has a link to a row that is gone, and `history_chain` (`repo/read.rs:633`) then answers every `inspect` and every `forget` by id of it with an internal error |
| `document_spaces` | `queries/read.rs:608` looks for citers in the document's space, `reflect` lets a project cite the `user` space |
| `interrupted` | `startup.rs:157`: a move killed before `set_embedder`, the store opened with the old model: an index keeps the new width and refuses every vector (`startup.rs:140`) |
| `lessons` | `context.rs:477` marks an entry as seen before `:485` looks whether it fits: a lesson the query also found is refused among the relevant claims, where room is held for lessons, and skipped among the lessons (`context.rs:444`, "can no longer starve a section that has something to say") |
| `flood` | `recall.rs:652`: the verbatim cap runs after the source quotas and fills the places it frees from whatever ranks next, so a source at its quota can take the page while claims from elsewhere are left off it (`docs/design.md:950`, `occupancy.rs:24`, which names one exception, the row the hop promotes) |

Other counterexamples the modules give, which have no run of their own. A claim
committed between `cascade_documents`' read (`forget.rs:489`) and the purge is
left citing a purged document. A caller that dates its own claims
(`remember.rs:475`) can close one text twice under one date, and a lone writer
then gives up on a write race, which `v5_live_dedup.surql:26` says needs two
writers. `insert_batch` retries twice (`repo/write.rs:242`) where its comment
says once (`:231`). A first run at another width that dies before it records its
space leaves the indexes at that width for a next run that assumes the default
(`migrate.rs:170`); of two first runs on a shared server the one that loses has
already redefined the indexes at its own width (`migrate.rs:171`, against `:120`).
On a shared server a process already serving goes on writing
vectors of its own model after another has moved the store (`startup.rs:157`). A session that gives up on
a daemon it started, which then comes up after all, leaves the next session two
ways to go wrong, and this is why three of `AgmemDaemon`'s properties are about
runs in which nobody gives up: `wait_for_store_lock` (`client.rs:235`) never
looks at the socket again and fails after 15 seconds saying that no daemon is
answering, when one is; and a daemon that binds between `start_one`'s second
connect and its `remove_file` (`client.rs:281`) loses its socket and holds the
store unseen until its idle timer ends it. A connection still in the listen
queue when a daemon retires reads the end of the stream, not the "retiring"
that `serve.rs:152` promises to every handshake in flight, and a session of a
newer release is told that two builds are fighting (`client.rs:79`) when an
older one starts a daemon in the gap its own retirement opened. A `limit` of 0
gives a window whose `next_offset` is its own offset, so a reader that follows it
stands still (`inspect.rs:823`); `answers` sends one, its reader gives up, and
`PagesTile` asks for progress only of the other limits. `agmem reindex` of a store
that recorded no revision (`reindex.rs:174`) takes it for its own space and embeds
the pending rows at its own pin without recording it, unlike a process that
serves, which backfills the record (`migrate.rs:148`); a later release with
another pin then records its own over them. `OneSpace` excepts these
installations, and only from the revision (`RevisionsTold`). Of two equally wide
gaps `abstain.rs:148` says it takes the earliest, and `max_by` keeps the last; no
answer depends on it, because a gap that dominates the spread is the only one.
A pool smaller than a page (`pool` below `max_k`, `config.rs:101`, `:110`: 64 and
50 by default, nothing relates them) makes a listing of `pool` rows that says it
was not truncated; `AnswerHonest` is checked and proved for pools that hold a page.
On a shared server a slow first startup can define `mem_hash` again after a
faster one has removed it, and an older release can write texts without a date
behind the backfill of v4; `ServedRowsUpdate` excuses both.

## What is proved

The proofs are for any sets of sessions, processes, ids, backends and rows and
any bounds, from the assumptions on the constants that the modules state, which
TLC evaluates in every run. Each specification has one inductive invariant; what
the runs check follows from it.

### `MemoryStoreProofs.tla`: the write path

From `StoreAssumption` (the bounds are naturals, the requests are requests,
`None` is none of the values). `ReportedRowsAreThere` and `HistoryAcyclic` suppose
`ReadsValidated` in their statement; the others hold for both kinds of engine.

- `TypeCorrect`: `Spec => []TypeOK`. The type is inductive together with
  `TargetsMatch` (between the reads and the commit there is one target set per
  entry), without which the statements would index past `targets`.
- `ClosesNeverRewritten`: `Spec => CloseNeverRewritten`. The committed table is
  guarded by `invalid_at IS NONE`, but a commit installs rows computed from an
  old snapshot. The strengthening `WritesOnlyOpenRows` says that a transaction's
  table differs from its snapshot only in rows that were unused or live there;
  the commit's row conflict check then says they still are.
- `OneLiveRow`: `Spec => []OneLivePerContent`, through the unique index: every
  committed table satisfies `UniqueMemories`, a soft forget and a sweep check it,
  a purge and a reinforcement cannot break it.
- `LinksInOneSpace`: `Spec => []LinksStayInSpace`. A batch checks its targets'
  space in its first read and links them several steps later, with no space
  clause in the UPDATE. `LinkInv` carries the check to the commit: rows only age
  (`RowsAge`: unused, stored in a fixed space, purged), so what was read holds of
  every later snapshot (`TargetsHeld`, `SnapshotsAge`), hence of the working
  table (`WorkLinksInSpace`), hence of the merge.
- `ReportIsExact`: `Spec => ReportMatchesCloses`. The report is drawn up from
  reads made before the transaction. `ReportInv` adds to `LinkInv` an account of
  a transaction under way, statement by statement (`Accounts`: each row it
  closed so far is a target of an entry it has reported, in favour of the row
  reported for it), and that a target dropped as closed by the first read stays
  closed (`FilteredStayClosed`).
- `ReportedRowsAreThere`: with `ReadsValidated`, `Spec => ReportedRowsHold`. A
  duplicate is a row the transaction did not write, so only a validated lookup
  keeps it from being purged before the commit.
- `StoreImplementsLedger`: `Spec => LedgerSpec`, the refinement of `ClaimLedger`:
  the initial tables map to an empty ledger and every step to one `Step` of it or
  a stutter.
- `HistoryAcyclic`: with `ReadsValidated`, `Spec => []SupersessionAcyclic`. The
  invariant `NoLoops` says that in no table, committed or of a transaction, is
  there a set of rows that following `superseded_by` never leaves: a statement
  closes live rows, and a live row has no successor. That the history walk, a
  recursive function of its depth, stays in such a set goes by the least depth
  at which it would not (`WFMin`, the one induction principle of the library
  that is first-order).

- `DocumentsOutliveCitations`: `Spec => []NoLiveClaimCitesPurgedDocument` under two
  conditions the theorem names, both true of the run `serial` and both needed:
  `OneSession` (with two, an insight can land between the purge's look for citers
  and its delete, `forget.rs:489`) and `CitedAtHome` (no batch of another space
  cites a text while documents are put in `user`; without it there is the run
  `document_spaces`). `CitationInv` says that whatever a claim cites was put, that
  a transaction under way cites what its call resolved, and that the targets of
  a purge still include every live citer.

The proofs rest on two case analyses, stated once: `TxnStep` (what a step can do
to a transaction) and `MemStep` (the five things a step can do to the committed
memories).

### `StartupProofs.tla`: what happens when a store is opened

**Moves between models.** From `VectorAssumption` (backends are records with a
width, the rows are finitely many). `Alone` says that on a data dir the lock's holder is the only
process that is not down, so a step answers for its own process.

- `VectorTypes`: `Spec => []TypeOK`.
- `RecordsStand`: `Spec => RecordStands`, on a data dir and on a server.
- `StoreHoldsOneSpace`: `Spec => []OneSpace`. `SpaceInv` says of each process what
  the rest of its script relies on: between the first `clear` and the record a
  table already cleared stays empty, a process that embeds matches the record,
  and a vector's revision is one the record stands for *for good* (`Told`), also
  after a backfill. The attempt to prove an earlier form of `OneSpace` failed for
  a reason in the code, see `reindex.rs:174` below; it now says for which
  installations revisions are told apart.
- `NoticeStaysHonest`: `Spec => []NoticeHonest`; the count a process holds is 0 only
  if no row is pending, because only it writes rows.
- `IndexesFit`: `Spec => []ServingFits` if every installation is `Recoverable`: on a
  data dir, and either without crashes or with one width among the configured
  models. The run `interrupted` shows what happens to the others. `WidthInv` says
  that record and indexes agree, or that whoever opens the store next will see
  that they do not and move it.

**Migrations.** From `MigrateAssumption` (releases are versions that exist).

- `MigrationsRerun`: `MigrateSpec => []RerunIsSafe`.
- `ServedStoreIsCurrent`: `MigrateSpec => []ServedRowsUpdate`.

`MigrateInv` says what a schema and rows can be together at all (`Sound`: which
shapes a row may have given what is defined), and for each version and each
statement of the batch in hand what has been done to every row (`BatchInv`; more
on a data dir, `OwnInv`). It is needed because a definition does not touch the
rows: what an UPDATE will coerce depends on the whole way a store has come.

**The model's thread.** From `EmbedAssumption` (passages are sequences of texts, a
text has a length, slices and groups are not empty, a text is truncated to what a
batch holds).

- `VectorsComeInOrder`: `EmbedSpec => []VectorsInOrder`. A call's texts pass through
  slices, a channel, groups within a slice and a possible unload or failure
  between any two. `EmbedInv`: what a caller has and what it has yet to send make
  up its work (`Kept`); a caller has at most one job, in the channel or in hand,
  which is the slice it waits for, decoded up to a place (`Jobwise`); and the
  tokens of the group being filled are the sum of its texts' (`Summed`).

### `AgmemDaemonProofs.tla`: one owner

From `DaemonAssumption` (clients, daemons and the lone process are distinct).

- `ListenerReachable`: `Spec => []Reachable`.
- `OneDaemonAtATime`: `Spec => []OneDaemon`.
- `StartsComeUp`: `Spec => NoStartWasted`.
- `ServedSessionsKept`: `Spec => SessionsKept`.

`DaemonInv`: each lock is held by whom its holder's state says (`LocksHeld`), a
session from its queueing to the end of `start_one` has the spawn lock
(`GuardHeld`), and, while nobody has given up, every daemon coming up belongs to
the session that has it, none is up while that one clears a stale socket, and the
path names the one that listens (`StartsGuarded`). `StartsComeUp` needs one part
more, `LockFree`: between the probe of the data-dir lock and the start nobody
else can take it.

### `WriteToolsProofs.tla`: `forget` by query, `remember` and `reflect`

- `ActsWereShown`: `ForgetSpec => []EachActWasShown`. The property asks for an
  injection from acts to previews; `ForgetInv` builds it as it goes: every
  preview is held by at most one of the slot, a call about to act, and an act.
  The rows a purge adds along its chains are compared with the preview like the
  others.

From `GateAssumption` (what is sent and stored has the shape of claims, stored
rows have passed no gate, `Near` is a distance):

- `ClaimsAreAnswered`: `GateSpec => []EveryClaimAnswered`.
- `NearDuplicatesAreExcused`: `GateSpec => []NearDuplicatesExcused`.

`GateInv` says of the table that a pair of near duplicates is excused (`Excused`),
and of a call between its probe and its transaction that a claim that passed the
gate is near no row the gate could see (`Passed`): rows only age and are only
added, so what was probed stays true of the table as it was. A transaction writes
claim by claim; `Accounted` says what it has come to, and the theorem about the
whole batch follows from its steps by the least place at which it would fail.

### `SessionProofs.tla`: the hooks and `context`

From `HookAssumption` (an absent log is no log, the cap is a count):

- `NudgesGivenOnce`: `HookSpec => []NudgedOnce`. `HookInv`: of a key that nothing
  excuses, at most one hook is asking, the file it has open is the log, and a key
  that was given is in the log and asked for by nobody.
- `CompactionsListRecalled`: `HookSpec => []CompactionListsRecalled`. `Owed`: the ids a
  compaction must list are still in the log, because the log only grows and a
  prune takes them off the debt. That collecting ids from the lines misses none
  and repeats none goes by the least counterexample (`RecalledAll`).

From `ContextAssumption` (lengths and budgets are counts, an id occurs once in a
ranking):

- `BlocksAreHonest`: `ContextSpec => []BlockHonest`.
- `ReservesAreHonoured`: `ContextSpec => []ReserveHonoured`.

A block is filled section by section. `Filled` is what each section adds, whatever
was on the block before: it stays within the room it was given, and every entry
is seen unless something was dropped; `SectionCost` and `SectionFits` bound what a
section takes and say when it loses nothing. The reserve follows: Profile and
Relevant leave the lessons' room alone, so a lesson is missing only if it was
refused before as seen, and as ids are unique only Relevant can have refused it.

### `ReadToolsProofs.tla`: `inspect` and `consolidate`

From `InspectAssumption` (ids are unique per table, a slice is in the space of its
text, offsets and limits are counts):

- `SteadyReferencesFound`: `InspectSpec => []SteadyIsFound`. `Ahead`: as long as the
  named rows have been there all the while, one of them is in a space or table
  the call has yet to look into. `SteadyChain`: as long as none of their links has
  been purged, no walk the call has yet to do meets one that is gone. A claim
  with a broken chain is not steady: its every walk fails, see `purge_chain`.
- `PagesTileTexts`: `InspectSpec => []PagesTile`, for texts of any length.
- `CitationsAgree`: `InspectSpec => []CitationViewsAgree`. The listing counts
  (claim, document) pairs, the others count claims; a bijection between the two
  shows the numbers equal. An orphan is an uncited document that is past its
  grace: a young one nobody cites yet is no orphan.

From `ConsolidateAssumption` (a scan has a number of rows):

- `ClustersAreComponents`: `ConsolidateSpec => []GroupsAreComponents`. No path is
  followed in the proof. `Whole(S)` says that no row's parent crosses the border of
  a set `S`; the invariant is that a set is whole exactly when no close pair found so
  far crosses it, which halving a path keeps and a join re-establishes. Parents
  descend (`Descends`), so a root is the least row of its component.

### `RecallProofs.tla`: a page of `recall`

From `RecallAssumption` (a row is returned once, only claims are linked, a listing
holds claims its filters select; `HopVotes` are not negative).

- `PagesAreShared`: `RecallSpec => []PageShared`.
- `AnswersAreHonest`: `PoolHoldsAPage => (RecallSpec => []AnswerHonest)`. The
  hypothesis says that a listing shorter than a page is the whole selection. It is
  a hypothesis and no assumption of the module because no code enforces it, see
  the pool and the page above; TLC evaluates it for the instance of `answers`.

`RecallInv` follows the rows from pass to pass as one set of different rows in a
changing order. The source pass leaves the quotas kept (`QuotasKept`). The
verbatim pass moves some slices down, each letting one row up, which gives
`SharedOut`, the quotas up to the number moved: an attempt to prove them kept
exactly failed, and TLC then showed why (the run `flood`). The hop's promotion
replaces the last row (`PageTaken`), and the cut keeps one row of the hop
(`AnswerInv`). That a stable sort is a permutation is shown by counting the places
before each place.

### `CommonProofs.tla`: the lemmas about sequences and counts

What `Picked` and `FirstOf` return and preserve, how many elements an image or a
part of a finite set has, that a finite set of numbers has extremes. Two lemmas
stand in for induction over data, which is out of reach: `LeastIndex` (a set of
places where something fails has a first one, if it has any; proved by `WFMin`, the
induction principle of the library that takes no operator) and `Iterated` (a
function that goes on step by step exists for any number of steps, so that a
recursive definition is one).

### Only model-checked

- Liveness, which is out of this prover's reach: `CallsFinish`, `Settles`,
  `DrainEnds`, `EmbedReturns`.
- The type invariants of the compositions, `StartupTypeOK` (`VectorSpace`'s half of
  it is `VectorTypes`) and `ToolsTypeOK`: the invariants above carry the types that
  their proofs need, and no more.

Every other property of a passing run is the subject of a theorem.

## Not modelled

- What a search returns. Full-text and vector search are the engine's; `RecallPage`
  starts from the rows, `RememberGate` from an exact nearest-neighbour draw.
- Floating point. Scores and similarities are small integers, decay is a choice or
  a number a row carries.
- Chunking: a pure function over characters and UTF-8 boundaries, for which a
  model would repeat the code.
- Entities, tags and `ensure_space` in the write path, and the store function
  `supersede`, which nothing calls. Two first writers of a space on a shared
  server can collide in `ensure_space`, and one call fails unretried.
- The single-query parts of `inspect` (the summary of a store, listings) and of
  `consolidate` (stale, churning and over-full lists).
- The MCP dispatch, resources, prompts, configuration, diagnostics, downloads of
  models, accelerator probing: parsing, printing and I/O.
- The plugin, script and vendored directories.

## Plan

1. An abstract single-owner specification that `AgmemDaemon` implements, its
   refinement from `DaemonInv`, and a
   composition of `MemoryStore` with `ForgetConfirm`, in which the rows a query
   selects change by the write path's own steps. (With a third session
   `AgmemDaemon` has 7.4 million states, in which its safety properties hold.)
2. `inspect`'s listings beside writers, if they come to take more than one query.
