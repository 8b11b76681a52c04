----------------------------- MODULE MemoryStore -----------------------------
(***************************************************************************)
(* The write path of agmem's store (crates/agmem-store, repo/write.rs and  *)
(* queries/write.rs) with the forget verb that drives it                   *)
(* (crates/agmem-server, tools/forget.rs).                                 *)
(*                                                                         *)
(* Sessions share one database.  A `remember` or `reflect` call is         *)
(* repo::insert_batch: two reads outside the transaction (do the           *)
(* `supersedes` targets exist, which of them are closed already), then one *)
(* optimistic transaction of one statement per memory, retried when it     *)
(* loses a write race.  A `forget` call resolves its targets with reads    *)
(* and then closes or deletes them in a second round trip.  Every step of  *)
(* a call interleaves with the steps of the other sessions.                *)
(***************************************************************************)
EXTENDS Integers, Sequences, FiniteSets

CONSTANTS
    Session,         \* the sessions one daemon (or one shared server) serves
    MemId,           \* the ulid()s memory rows can be minted with
    EpId,            \* the ulid()s episode rows can be minted with
    Space,           \* the space names
    UserSpace,       \* the `user` space, searched from every project
    Hash,            \* blake3 hashes of normalised content
    None,            \* SurrealQL's NONE
    Batches,         \* the insert_batch requests the sessions can send
    Wipes,           \* the forget requests the sessions can send
    MaxTime,         \* bound on the clock
    MaxUses,         \* bound on access_count
    MaxChain,        \* depth of a history walk (64 in the code)
    MaxBatch,        \* bound: the most memories in one batch
    ReserveIds,      \* whether a batch waits for enough ids (see IdsRemain)
    ReadsValidated   \* whether the engine's commit also validates reads

Time == 0..MaxTime
DecayClass == {"fast", "kept"}     \* `fast`, and the classes no sweep closes
Reason == {"superseded", "forgotten", "expired"}

(***************************************************************************)
(* Rows.  `status` stands for the row's presence in its table: an id not   *)
(* minted yet, a stored row, or one a purge deleted (a ulid() is never     *)
(* minted twice, so a deleted id stays deleted; a deleted episode keeps    *)
(* its fields for the readers that loaded it before).  `cites` joins the   *)
(* two columns a claim cites an episode from, source.ref and derived_from. *)
(***************************************************************************)
MemoryRow ==
    [status: {"unused", "stored", "purged"},
     space: Space \cup {None}, content_hash: Hash \cup {None},
     decay_class: DecayClass, valid_from: Time,
     invalid_at: Time \cup {None}, invalid_reason: Reason \cup {None},
     superseded_by: MemId \cup {None}, supersedes: SUBSET MemId,
     cites: SUBSET EpId, access_count: 0..MaxUses]

EpisodeRow ==
    [status: {"unused", "stored", "purged"},
     space: Space \cup {None}, content_hash: Hash \cup {None},
     document: BOOLEAN]

NoMemory ==
    [status |-> "unused", space |-> None, content_hash |-> None,
     decay_class |-> "kept", valid_from |-> 0, invalid_at |-> None,
     invalid_reason |-> None, superseded_by |-> None, supersedes |-> {},
     cites |-> {}, access_count |-> 0]

NoEpisode ==
    [status |-> "unused", space |-> None, content_hash |-> None,
     document |-> FALSE]

DeletedMemory == [NoMemory EXCEPT !.status = "purged"]
DeletedEpisode(r) == [r EXCEPT !.status = "purged"]

MemoryTable == [MemId -> MemoryRow]
EpisodeTable == [EpId -> EpisodeRow]
NoMemories == [m \in MemId |-> NoMemory]
NoEpisodes == [e \in EpId |-> NoEpisode]

(***************************************************************************)
(* Requests.  An entry's valid_from is the caller's stamp or None (now).   *)
(***************************************************************************)
Entry ==
    [content_hash: Hash, decay_class: DecayClass,
     valid_from: Time \cup {None}, supersedes: SUBSET MemId,
     derived_from: SUBSET EpId]

EpisodeInput == [content_hash: Hash, document: BOOLEAN]

Batch ==
    [space: Space, episode: EpisodeInput \cup {None}, memories: Seq(Entry)]

Wipe ==
    [spaces: SUBSET Space, memories: SUBSET MemId, episodes: SUBSET EpId,
     purge: BOOLEAN, cascade: BOOLEAN]

Written == [id: MemId, created: BOOLEAN]

PCs == {"idle", "cite", "exist", "closed", "begin", "statement",
        "cascade", "expand", "forget", "failed"}
Whys == {"unknown", "thrown", "race", "missing", "cited", "broken chain"}

ASSUME StoreAssumption ==
    /\ MaxTime \in Nat /\ MaxUses \in Nat /\ MaxChain \in Nat /\ MaxBatch \in Nat
    /\ ReadsValidated \in BOOLEAN /\ ReserveIds \in BOOLEAN
    /\ UserSpace \in Space
    /\ Batches \subseteq Batch
    /\ Wipes \subseteq Wipe
    /\ \A b \in Batches : Len(b.memories) <= MaxBatch
    /\ None \notin Space \cup Hash \cup MemId \cup EpId
    /\ None \notin Time /\ None \notin Reason /\ None \notin Whys

VARIABLES
    now,        \* time::now()
    mem,        \* table `memory`
    ep,         \* table `episode`
    pc,         \* where each session's call stands
    batch,      \* the batch of the session's insert_batch call
    attempts,   \* insert_batch's retry counter
    closed,     \* targets the closed_memories read reported
    targets,    \* per entry, `supersedes` minus the already-closed ones
    stamp,      \* the Timestamp::now() bound into the rows of this attempt
    snap,       \* the memory table the session's transaction began from
    work,       \* the memory table as its transaction has it
    esnap,      \* likewise for episodes
    ework,
    source,     \* $ep_res.id, or None
    out,        \* the rows the statements have reported so far
    wipe,       \* the resolved forget request
    why         \* why the call failed

tables == <<mem, ep>>
txn == <<stamp, snap, work, esnap, ework, source, out>>
vars == <<now, mem, ep, pc, batch, attempts, closed, targets, stamp, snap,
          work, esnap, ework, source, out, wipe, why>>

NoBatch == [space |-> None, episode |-> None, memories |-> << >>]
NoWipe == [spaces |-> {}, memories |-> {}, episodes |-> {},
           purge |-> FALSE, cascade |-> FALSE]

-----------------------------------------------------------------------------
(* What the queries select. *)

Stored(t, m) == t[m].status = "stored"

\* `invalid_at IS NONE`
Live(t, m) == Stored(t, m) /\ t[m].invalid_at = None

\* Mutant (issue #61): a closed row still counts as holding its content.
LiveHoldersAnyRow(t, sp, h) ==
    {m \in MemId : Stored(t, m) /\ t[m].space = sp /\ t[m].content_hash = h}

\* SELECT ... WHERE space AND content_hash AND invalid_at IS NONE
LiveHolders(t, sp, h) ==
    {m \in MemId : Live(t, m) /\ t[m].space = sp /\ t[m].content_hash = h}

\* dedup_key: 'live' while open, the close time after.
DedupKey(r) == <<r.space, r.content_hash, r.invalid_at>>

\* Mutant: the index is over invalid_at itself, and skips rows where it is NONE.
UniqueMemoriesSkipNone(t) ==
    \A m, n \in MemId :
        /\ Stored(t, m) /\ Stored(t, n) /\ ~Live(t, m) /\ ~Live(t, n)
        /\ DedupKey(t[m]) = DedupKey(t[n])
        => m = n

\* DEFINE INDEX mem_hash_live ... UNIQUE
UniqueMemories(t) ==
    \A m, n \in MemId :
        Stored(t, m) /\ Stored(t, n) /\ DedupKey(t[m]) = DedupKey(t[n]) => m = n

\* DEFINE INDEX episode_hash ... UNIQUE
UniqueEpisodes(t) ==
    \A d, e \in EpId :
        /\ t[d].status = "stored" /\ t[e].status = "stored"
        /\ t[d].space = t[e].space /\ t[d].content_hash = t[e].content_hash
        => d = e

\* Mutant (issue #62): the UPDATE has lost its `invalid_at IS NONE`.
OpenRowsUnguarded(t, ids) == {m \in ids : Stored(t, m)}

\* The rows of `ids` an UPDATE ... WHERE invalid_at IS NONE touches.
OpenRows(t, ids) == {m \in ids : Live(t, m)}

\* UPDATE $ids SET invalid_at, invalid_reason, superseded_by
Close(t, ids, at, reason, by) ==
    [m \in MemId |->
        IF m \in OpenRows(t, ids)
        THEN [t[m] EXCEPT !.invalid_at = at, !.invalid_reason = reason,
                          !.superseded_by = by]
        ELSE t[m]]

\* One level further along `supersedes` (back) or `superseded_by` (on).
Earlier(t, S) == UNION {t[m].supersedes : m \in S}
Later(t, S) == {t[m].superseded_by : m \in S} \ {None}

\* What {..MAX_CHAIN+collect} gathers walking back, and walking on.
Ancestors(t, m) ==
    LET reach[d \in 0..MaxChain] ==
            IF d = 0 THEN {m} ELSE reach[d - 1] \cup Earlier(t, reach[d - 1])
    IN  reach[MaxChain]

Successors(t, m) ==
    LET reach[d \in 0..MaxChain] ==
            IF d = 0 THEN {m} ELSE reach[d - 1] \cup Later(t, reach[d - 1])
    IN  reach[MaxChain]

\* repo::history_chain: every link the walk names.
HistoryChain(t, m) == {n \in MemId : n \in Ancestors(t, m) \cup Successors(t, m)}

\* A walk that names a link it cannot return is an error.
ChainWhole(t, m) == \A n \in HistoryChain(t, m) : Stored(t, n)

\* SELECT ... WHERE space AND invalid_at IS NONE
\*     AND (source.ref = $target OR derived_from CONTAINS $target)
DocumentCiters(t, e, sp) ==
    {m \in MemId : Live(t, m) /\ t[m].space = sp /\ e \in t[m].cites}

-----------------------------------------------------------------------------
(* insert_batch *)

Asked(b) == UNION {b.memories[i].supersedes : i \in DOMAIN b.memories}
Cited(b) == UNION {b.memories[i].derived_from : i \in DOMAIN b.memories}

Init ==
    /\ now = 0
    /\ mem = NoMemories
    /\ ep = NoEpisodes
    /\ pc = [s \in Session |-> "idle"]
    /\ batch = [s \in Session |-> NoBatch]
    /\ attempts = [s \in Session |-> 0]
    /\ closed = [s \in Session |-> {}]
    /\ targets = [s \in Session |-> << >>]
    /\ stamp = [s \in Session |-> 0]
    /\ snap = [s \in Session |-> NoMemories]
    /\ work = [s \in Session |-> NoMemories]
    /\ esnap = [s \in Session |-> NoEpisodes]
    /\ ework = [s \in Session |-> NoEpisodes]
    /\ source = [s \in Session |-> None]
    /\ out = [s \in Session |-> << >>]
    /\ wipe = [s \in Session |-> NoWipe]
    /\ why = [s \in Session |-> None]

\* The sessions whose call is an insert_batch under way.
Writing == {s \in Session : batch[s] # NoBatch}

\* Ids are bounded in the model.  With ReserveIds a batch is taken only while
\* the ids left cover it and every batch under way, so that running out of
\* ids never holds up a call; without, behaviours that run out are cut short.
IdsRemain ==
    /\ Cardinality({m \in MemId : mem[m].status = "unused"})
           >= MaxBatch * (Cardinality(Writing) + 1)
    /\ (\E b \in Batches : b.episode # None) =>
           Cardinality({e \in EpId : ep[e].status = "unused"}) > Cardinality(Writing)

Remember(s) ==
    /\ pc[s] = "idle"
    /\ ReserveIds => IdsRemain
    /\ \E b \in Batches :
          /\ batch' = [batch EXCEPT ![s] = b]
          /\ pc' = [pc EXCEPT ![s] = IF Cited(b) = {} THEN "exist" ELSE "cite"]
    /\ UNCHANGED <<now, tables, attempts, closed, targets, txn, wipe, why>>

Fail(s, reason) ==
    /\ pc' = [pc EXCEPT ![s] = "failed"]
    /\ why' = [why EXCEPT ![s] = reason]

\* The call is over and the session can take the next one.
Finish(s) ==
    /\ pc' = [pc EXCEPT ![s] = "idle"]
    /\ batch' = [batch EXCEPT ![s] = NoBatch]
    /\ attempts' = [attempts EXCEPT ![s] = 0]

\* reflect's resolve: every citation is looked up in the space or in `user`.
ResolveCitations(s) ==
    /\ pc[s] = "cite"
    /\ IF \A e \in Cited(batch[s]) :
              ep[e].status = "stored" /\ ep[e].space \in {batch[s].space, UserSpace}
       THEN pc' = [pc EXCEPT ![s] = "exist"] /\ UNCHANGED why
       ELSE Fail(s, "unknown")
    /\ UNCHANGED <<now, tables, batch, attempts, closed, targets, txn, wipe>>

\* Mutant: the lookup forgets that an id counts only inside its space.
EnsureExistAnySpace(s) ==
    /\ pc[s] = "exist"
    /\ IF \A m \in Asked(batch[s]) : Stored(mem, m)
       THEN pc' = [pc EXCEPT ![s] = "closed"] /\ UNCHANGED why
       ELSE Fail(s, "unknown")
    /\ UNCHANGED <<now, tables, batch, attempts, closed, targets, txn, wipe>>

\* ensure_memories_exist
EnsureExist(s) ==
    /\ pc[s] = "exist"
    /\ IF \A m \in Asked(batch[s]) :
              Stored(mem, m) /\ mem[m].space = batch[s].space
       THEN pc' = [pc EXCEPT ![s] = "closed"] /\ UNCHANGED why
       ELSE Fail(s, "unknown")
    /\ UNCHANGED <<now, tables, batch, attempts, closed, targets, txn, wipe>>

\* closed_memories, and the retain() that drops what it reports.
ReadClosed(s) ==
    /\ pc[s] = "closed"
    /\ LET shut == {m \in Asked(batch[s]) :
                        /\ Stored(mem, m) /\ mem[m].space = batch[s].space
                        /\ mem[m].invalid_at # None}
       IN  /\ closed' = [closed EXCEPT ![s] = shut]
           /\ targets' = [targets EXCEPT ![s] =
                  [i \in DOMAIN batch[s].memories |->
                      batch[s].memories[i].supersedes \ shut]]
    /\ pc' = [pc EXCEPT ![s] = "begin"]
    /\ UNCHANGED <<now, tables, batch, attempts, txn, wipe, why>>

\* A ulid() is not in use anywhere, committed or not.
FreshMemory(m) ==
    mem[m].status = "unused" /\ \A t \in Session : work[t][m].status = "unused"
FreshEpisode(e) ==
    ep[e].status = "unused" /\ \A t \in Session : ework[t][e].status = "unused"

EpisodeHolders(t, sp, h) ==
    {e \in EpId : t[e].status = "stored" /\ t[e].space = sp /\ t[e].content_hash = h}

\* BEGIN, then $ep_dup / $ep_res.
Begin(s) ==
    /\ pc[s] = "begin"
    /\ stamp' = [stamp EXCEPT ![s] = now]
    /\ snap' = [snap EXCEPT ![s] = mem]
    /\ work' = [work EXCEPT ![s] = mem]
    /\ esnap' = [esnap EXCEPT ![s] = ep]
    /\ out' = [out EXCEPT ![s] = << >>]
    /\ LET b == batch[s]
           dup == IF b.episode = None THEN {}
                  ELSE EpisodeHolders(ep, b.space, b.episode.content_hash)
       IN  \/ /\ b.episode = None
              /\ source' = [source EXCEPT ![s] = None]
              /\ ework' = [ework EXCEPT ![s] = ep]
           \/ /\ b.episode # None
              /\ \E e \in dup : source' = [source EXCEPT ![s] = e]
              /\ ework' = [ework EXCEPT ![s] = ep]
           \/ /\ b.episode # None
              /\ dup = {}
              /\ \E e \in EpId :
                    /\ FreshEpisode(e)
                    /\ source' = [source EXCEPT ![s] = e]
                    /\ ework' = [ework EXCEPT ![s] = [ep EXCEPT ![e] =
                           [status |-> "stored", space |-> b.space,
                            content_hash |-> b.episode.content_hash,
                            document |-> b.episode.document]]]
    /\ pc' = [pc EXCEPT ![s] = "statement"]
    /\ UNCHANGED <<now, tables, batch, attempts, closed, targets, wipe, why>>

\* Committed or rolled back, the attempt's locals are gone.
EndAttempt(s) ==
    /\ stamp' = [stamp EXCEPT ![s] = 0]
    /\ snap' = [snap EXCEPT ![s] = NoMemories]
    /\ work' = [work EXCEPT ![s] = NoMemories]
    /\ esnap' = [esnap EXCEPT ![s] = NoEpisodes]
    /\ ework' = [ework EXCEPT ![s] = NoEpisodes]
    /\ source' = [source EXCEPT ![s] = None]
    /\ out' = [out EXCEPT ![s] = << >>]
    /\ closed' = [closed EXCEPT ![s] = {}]
    /\ targets' = [targets EXCEPT ![s] = << >>]

\* `attempts < 2` in insert_batch's retry arm.
MaxRetries == 2

\* Mutant: one retry too many.
LoseRaceOffByOne(s) ==
    /\ EndAttempt(s)
    /\ IF attempts[s] <= MaxRetries
       THEN /\ attempts' = [attempts EXCEPT ![s] = @ + 1]
            /\ pc' = [pc EXCEPT ![s] = "exist"]
            /\ UNCHANGED why
       ELSE Fail(s, "race") /\ UNCHANGED attempts
    /\ UNCHANGED <<now, tables, batch, wipe>>

\* Mutant: the retry arm does not count its attempts.
LoseRaceUncounted(s) ==
    /\ EndAttempt(s)
    /\ IF attempts[s] < MaxRetries
       THEN pc' = [pc EXCEPT ![s] = "exist"] /\ UNCHANGED why
       ELSE Fail(s, "race")
    /\ UNCHANGED <<now, tables, batch, attempts, wipe>>

\* An error is_write_race recognises: run the batch again, or give up.
LoseRace(s) ==
    /\ EndAttempt(s)
    /\ IF attempts[s] < MaxRetries
       THEN /\ attempts' = [attempts EXCEPT ![s] = @ + 1]
            /\ pc' = [pc EXCEPT ![s] = "exist"]
            /\ UNCHANGED why
       ELSE Fail(s, "race") /\ UNCHANGED attempts
    /\ UNCHANGED <<now, tables, batch, wipe>>

\* THROW: the shortfall is an error the caller sees, and is not retried.
Throw(s) ==
    /\ EndAttempt(s)
    /\ Fail(s, "thrown")
    /\ UNCHANGED <<now, tables, batch, attempts, wipe>>

ValidFrom(s, e) == IF e.valid_from = None THEN stamp[s] ELSE e.valid_from

\* Mutant: the row count of the UPDATE is not checked.
LandUncounted(s, old, table, by, created) ==
    \/ /\ ~UniqueMemories(table)
       /\ LoseRace(s)
    \/ /\ UniqueMemories(table)
       /\ work' = [work EXCEPT ![s] = table]
       /\ out' = [out EXCEPT ![s] = Append(@, [id |-> by, created |-> created])]
       /\ UNCHANGED <<now, tables, pc, batch, attempts, closed, targets, stamp,
                      snap, esnap, ework, source, wipe, why>>

\* The tail of a statement: the unique index sees each row the UPDATE
\* closes, then its row count is checked, then its outcome is reported.
Land(s, old, table, by, created) ==
    \/ /\ ~UniqueMemories(table)
       /\ LoseRace(s)
    \/ /\ UniqueMemories(table)
       /\ OpenRows(work[s], old) # old
       /\ Throw(s)
    \/ /\ UniqueMemories(table)
       /\ OpenRows(work[s], old) = old
       /\ work' = [work EXCEPT ![s] = table]
       /\ out' = [out EXCEPT ![s] = Append(@, [id |-> by, created |-> created])]
       /\ UNCHANGED <<now, tables, pc, batch, attempts, closed, targets, stamp,
                      snap, esnap, ework, source, wipe, why>>

\* The duplicate branch of statement $res: the claim is live already, so the
\* targets close in its favour, minus itself.
Duplicate(s) ==
    /\ pc[s] = "statement"
    /\ Len(out[s]) < Len(batch[s].memories)
    /\ LET i == Len(out[s]) + 1
           e == batch[s].memories[i]
       IN  \E dup \in LiveHolders(work[s], batch[s].space, e.content_hash) :
              LET keep == targets[s][i] \ {dup}
              IN  Land(s, keep,
                       Close(work[s], keep, ValidFrom(s, e), "superseded", dup),
                       dup, FALSE)

\* The row a CREATE writes for entry e.
NewRow(s, e, old) ==
    [status |-> "stored", space |-> batch[s].space,
     content_hash |-> e.content_hash, decay_class |-> e.decay_class,
     valid_from |-> ValidFrom(s, e), invalid_at |-> None,
     invalid_reason |-> None, superseded_by |-> None, supersedes |-> old,
     cites |-> e.derived_from \cup ({source[s]} \ {None}), access_count |-> 0]

\* The other branch: CREATE, then close the targets in favour of the new row.
Create(s) ==
    /\ pc[s] = "statement"
    /\ Len(out[s]) < Len(batch[s].memories)
    /\ LET i == Len(out[s]) + 1
           e == batch[s].memories[i]
           old == targets[s][i]
       IN  /\ LiveHolders(work[s], batch[s].space, e.content_hash) = {}
           /\ \E new \in MemId :
                 /\ FreshMemory(new)
                 /\ Land(s, old,
                         Close([work[s] EXCEPT ![new] = NewRow(s, e, old)], old,
                               ValidFrom(s, e), "superseded", new),
                         new, TRUE)

\* The rows the transaction writes, over the rows committed meanwhile.
MergedMemories(s) ==
    [m \in MemId |-> IF work[s][m] # snap[s][m] THEN work[s][m] ELSE mem[m]]
MergedEpisodes(s) ==
    [e \in EpId |-> IF ework[s][e] # esnap[s][e] THEN ework[s][e] ELSE ep[e]]

\* Mutant: the commit of an engine that is taken to validate reads does not.
ConflictOnWrites(s) ==
    \/ \E m \in MemId : work[s][m] # snap[s][m] /\ mem[m] # snap[s][m]
    \/ \E e \in EpId : ework[s][e] # esnap[s][e] /\ ep[e] # esnap[s][e]
    \/ ~UniqueMemories(MergedMemories(s)) \/ ~UniqueEpisodes(MergedEpisodes(s))

\* Optimistic concurrency: somebody committed a row this transaction writes,
\* or an index entry it claims, or (only where the engine validates reads)
\* changed what one of its lookups saw.
Conflict(s) ==
    \/ \E m \in MemId : work[s][m] # snap[s][m] /\ mem[m] # snap[s][m]
    \/ \E e \in EpId : ework[s][e] # esnap[s][e] /\ ep[e] # esnap[s][e]
    \/ ~UniqueMemories(MergedMemories(s))
    \/ ~UniqueEpisodes(MergedEpisodes(s))
    \/ /\ ReadsValidated
       /\ \/ \E i \in DOMAIN batch[s].memories :
                LET h == batch[s].memories[i].content_hash
                IN  LiveHolders(mem, batch[s].space, h)
                        # LiveHolders(snap[s], batch[s].space, h)
          \/ source[s] # None /\ ep[source[s]] # esnap[s][source[s]]

Commit(s) ==
    /\ pc[s] = "statement"
    /\ Len(out[s]) = Len(batch[s].memories)
    /\ \/ Conflict(s) /\ LoseRace(s)
       \/ /\ ~Conflict(s)
          /\ mem' = MergedMemories(s)
          /\ ep' = MergedEpisodes(s)
          /\ EndAttempt(s)
          /\ Finish(s)
          /\ UNCHANGED <<now, wipe, why>>

\* BatchOutcome.superseded: what the caller is told this batch closed.
Superseded(s) ==
    UNION {IF out[s][i].created THEN targets[s][i]
           ELSE targets[s][i] \ {out[s][i].id} : i \in DOMAIN out[s]}

\* An error goes back to the caller, and the session is free again.
ReturnError(s) ==
    /\ pc[s] = "failed"
    /\ Finish(s)
    /\ why' = [why EXCEPT ![s] = None]
    /\ UNCHANGED <<now, tables, closed, targets, txn, wipe>>

-----------------------------------------------------------------------------
(* forget *)

\* by_ids: every row the request names is looked up in the searched spaces,
\* a memory by the walk of its history.  Closing text is refused up front, and
\* so is a cascade without a purge; neither is a request of the model.
FindTargets(s) ==
    /\ pc[s] = "idle"
    /\ \E w \in Wipes :
         LET found ==
                 /\ \A m \in w.memories : Stored(mem, m) /\ mem[m].space \in w.spaces
                 /\ \A e \in w.episodes :
                        ep[e].status = "stored" /\ ep[e].space \in w.spaces
             whole == \A m \in w.memories : ChainWhole(mem, m)
         IN  /\ w.episodes # {} \/ w.cascade => w.purge
             /\ \/ ~found /\ Fail(s, "missing") /\ UNCHANGED wipe
                \/ found /\ ~whole /\ Fail(s, "broken chain") /\ UNCHANGED wipe
                \/ /\ found /\ whole
                   /\ wipe' = [wipe EXCEPT ![s] = w]
                   /\ pc' = [pc EXCEPT ![s] = IF w.purge THEN "cascade" ELSE "forget"]
                   /\ UNCHANGED why
    /\ UNCHANGED <<now, tables, batch, attempts, closed, targets, txn>>

\* The claims cascade_documents finds citing the documents to be purged.
CitersFound(s) ==
    UNION {DocumentCiters(mem, e, ep[e].space) :
              e \in {d \in wipe[s].episodes : ep[d].document}}

\* A forget ends with an error before anything is written.
Refuse(s, reason) == Fail(s, reason) /\ wipe' = [wipe EXCEPT ![s] = NoWipe]

\* Mutant: a purge without cascade no longer looks for citers.
CascadeDocumentsUnchecked(s) ==
    /\ pc[s] = "cascade"
    /\ wipe' = IF wipe[s].cascade
               THEN [wipe EXCEPT ![s].memories = @ \cup CitersFound(s)] ELSE wipe
    /\ pc' = [pc EXCEPT ![s] = "expand"]
    /\ UNCHANGED <<now, tables, batch, attempts, closed, targets, txn, why>>

\* cascade_documents: a cited document is refused, or pulls its citers in.
CascadeDocuments(s) ==
    /\ pc[s] = "cascade"
    /\ \/ /\ ~wipe[s].cascade /\ ~(CitersFound(s) \subseteq wipe[s].memories)
          /\ Refuse(s, "cited")
       \/ /\ wipe[s].cascade \/ CitersFound(s) \subseteq wipe[s].memories
          /\ wipe' = [wipe EXCEPT ![s].memories = @ \cup CitersFound(s)]
          /\ pc' = [pc EXCEPT ![s] = "expand"]
          /\ UNCHANGED why
    /\ UNCHANGED <<now, tables, batch, attempts, closed, targets, txn>>

\* expand_chains: every memory is replaced by the whole chain it is in.
ExpandChains(s) ==
    /\ pc[s] = "expand"
    /\ LET named == wipe[s].memories
       IN  \/ /\ \E m \in named : ~Stored(mem, m)
              /\ Refuse(s, "missing")
           \/ /\ \A m \in named : Stored(mem, m)
              /\ \E m \in named : ~ChainWhole(mem, m)
              /\ Refuse(s, "broken chain")
           \/ /\ \A m \in named : Stored(mem, m) /\ ChainWhole(mem, m)
              /\ wipe' = [wipe EXCEPT ![s].memories =
                             UNION {HistoryChain(mem, m) : m \in named}]
              /\ pc' = [pc EXCEPT ![s] = "forget"]
              /\ UNCHANGED why
    /\ UNCHANGED <<now, tables, batch, attempts, closed, targets, txn>>

\* FORGET_SOFT
ForgetSoft(s) ==
    /\ pc[s] = "forget"
    /\ ~wipe[s].purge
    /\ LET hit == {m \in wipe[s].memories :
                       Stored(mem, m) /\ mem[m].space \in wipe[s].spaces}
           table == Close(mem, hit, now, "forgotten", None)
       IN  \/ /\ ~UniqueMemories(table)
              /\ Fail(s, "race") /\ UNCHANGED mem
           \/ /\ UniqueMemories(table)
              /\ mem' = table
              /\ pc' = [pc EXCEPT ![s] = "idle"] /\ UNCHANGED why
    /\ wipe' = [wipe EXCEPT ![s] = NoWipe]
    /\ UNCHANGED <<now, ep, batch, attempts, closed, targets, txn>>

\* forget_purge
ForgetPurge(s) ==
    /\ pc[s] = "forget"
    /\ wipe[s].purge
    /\ mem' = [m \in MemId |->
                 IF m \in wipe[s].memories /\ Stored(mem, m) /\ mem[m].space \in wipe[s].spaces
                 THEN DeletedMemory ELSE mem[m]]
    /\ ep' = [e \in EpId |->
                IF e \in wipe[s].episodes /\ ep[e].status = "stored"
                                          /\ ep[e].space \in wipe[s].spaces
                THEN DeletedEpisode(ep[e]) ELSE ep[e]]
    /\ pc' = [pc EXCEPT ![s] = "idle"]
    /\ wipe' = [wipe EXCEPT ![s] = NoWipe]
    /\ UNCHANGED <<now, batch, attempts, closed, targets, txn, why>>

-----------------------------------------------------------------------------
(* What runs beside the calls. *)

\* prune_expired: which `fast` rows have decayed past the horizon is left open.
PruneExpired ==
    /\ \E gone \in SUBSET {m \in MemId : Live(mem, m) /\ mem[m].decay_class = "fast"} :
         /\ gone # {}
         /\ LET table == Close(mem, gone, now, "expired", None)
            IN  UniqueMemories(table) /\ mem' = table
    /\ UNCHANGED <<now, ep, pc, batch, attempts, closed, targets, txn, wipe, why>>

\* REINFORCE, fired by recall: no liveness guard, and it too is a row write
\* that a transaction in flight can conflict with.
Reinforce ==
    /\ \E m \in MemId :
         /\ Stored(mem, m) /\ mem[m].access_count < MaxUses
         /\ mem' = [mem EXCEPT ![m].access_count = @ + 1]
    /\ UNCHANGED <<now, ep, pc, batch, attempts, closed, targets, txn, wipe, why>>

Tick ==
    /\ now < MaxTime
    /\ now' = now + 1
    /\ UNCHANGED <<tables, pc, batch, attempts, closed, targets, txn, wipe, why>>

\* The steps of a call once it has begun.
CallStep(s) ==
    \/ ResolveCitations(s) \/ EnsureExist(s) \/ ReadClosed(s) \/ Begin(s)
    \/ Duplicate(s) \/ Create(s) \/ Commit(s)
    \/ CascadeDocuments(s) \/ ExpandChains(s)
    \/ ForgetSoft(s) \/ ForgetPurge(s) \/ ReturnError(s)

Next ==
    \/ \E s \in Session : Remember(s) \/ FindTargets(s) \/ CallStep(s)
    \/ PruneExpired \/ Reinforce \/ Tick

Spec == Init /\ [][Next]_vars

\* The daemon's runtime polls every session's task, so a call that can move does.
Fairness == \A s \in Session : WF_vars(CallStep(s))

FairSpec == Spec /\ Fairness

-----------------------------------------------------------------------------
(* Properties *)

\* Every variable has the shape the store gives it.
TypeOK ==
    /\ now \in Time
    /\ mem \in MemoryTable
    /\ ep \in EpisodeTable
    /\ pc \in [Session -> PCs]
    /\ batch \in [Session -> Batch \cup {NoBatch}]
    /\ attempts \in [Session -> 0..MaxRetries]
    /\ closed \in [Session -> SUBSET MemId]
    /\ targets \in [Session -> Seq(SUBSET MemId)]
    /\ stamp \in [Session -> Time]
    /\ snap \in [Session -> MemoryTable]
    /\ work \in [Session -> MemoryTable]
    /\ esnap \in [Session -> EpisodeTable]
    /\ ework \in [Session -> EpisodeTable]
    /\ source \in [Session -> EpId \cup {None}]
    /\ out \in [Session -> Seq(Written)]
    /\ wipe \in [Session -> Wipe]
    /\ why \in [Session -> Whys \cup {None}]

\* One live row per (space, content): what the duplicate gate inside the
\* transaction and the mem_hash_live index promise together, however the
\* sessions' transactions interleave.
OneLivePerContent ==
    \A m, n \in MemId :
        /\ Live(mem, m) /\ Live(mem, n)
        /\ mem[m].space = mem[n].space /\ mem[m].content_hash = mem[n].content_hash
        => m = n

\* Issue #62: no supersede, forget or prune rewrites another close.  A closed
\* row that is still stored keeps its date, its reason and its successor.
ClosesStand ==
    \A m \in MemId :
        Stored(mem, m) /\ mem[m].invalid_at # None /\ Stored(mem', m) =>
            /\ mem'[m].invalid_at = mem[m].invalid_at
            /\ mem'[m].invalid_reason = mem[m].invalid_reason
            /\ mem'[m].superseded_by = mem[m].superseded_by

CloseNeverRewritten == [][ClosesStand]_vars

\* An id is a capability inside its space: though the UPDATE of a batch has
\* no space clause, no supersession link ever crosses from one space into
\* another, and none names a row that was never written or the row itself.
LinkInSpace(t, m, n) ==
    /\ n # m
    /\ t[n].status # "unused"
    /\ Stored(t, n) => t[n].space = t[m].space

Links(r) == r.supersedes \cup ({r.superseded_by} \ {None})

LinksInSpace(t) ==
    \A m \in MemId : Stored(t, m) => \A n \in Links(t[m]) : LinkInSpace(t, m, n)

LinksStayInSpace == LinksInSpace(mem)

\* Following superseded_by never comes back, though two sessions may merge the
\* same claims in opposite directions at once, each into the one it finds live:
\* the history walk's depth bound is there for a hand-edited store, not for one
\* the write path produced.
SupersessionAcyclic ==
    \A m \in MemId :
        mem[m].superseded_by # None =>
            m \notin Successors(mem, mem[m].superseded_by)

Committed(s) == pc[s] = "statement" /\ pc'[s] = "idle"

\* A batch that lands closed exactly the rows it reports in `superseded`,
\* each in favour of the row it reports for that entry, and leaves no target it
\* was given live but the row that already holds the content: no close is
\* dropped silently and none happens unreported.
ReportMatchesCloses ==
    [][\A s \in Session : Committed(s) =>
          /\ {m \in MemId : Live(mem, m) /\ ~Live(mem', m)} = Superseded(s)
          /\ \A i \in DOMAIN out[s] : \A m \in targets[s][i] \ {out[s][i].id} :
                mem'[m].superseded_by = out[s][i].id
          /\ \A m \in Asked(batch[s]) :
                Live(mem', m) => \E i \in DOMAIN out[s] : out[s][i].id = m]_vars

\* When a batch lands, the row reported for each entry, created or duplicate,
\* holds that entry's content in that space, and is live unless the same
\* batch reports having closed it.
ReportedRowsHold ==
    [][\A s \in Session : Committed(s) =>
          \A i \in DOMAIN out[s] :
              LET r == mem'[out[s][i].id]
              IN  /\ r.status = "stored"
                  /\ r.space = batch[s].space
                  /\ r.content_hash = batch[s].memories[i].content_hash
                  /\ r.invalid_at = None \/ out[s][i].id \in Superseded(s)]_vars

\* Every call ends: the retry loop is bounded and no step waits for another
\* session.
CallsFinish == \A s \in Session : pc[s] # "idle" ~> pc[s] = "idle"

\* "A purge takes the whole supersession chain" (docs/design.md 5.4): no
\* stored row is left linked to a deleted one.
PurgeTakesWholeChain ==
    \A m \in MemId : Stored(mem, m) => \A n \in Links(mem[m]) : Stored(mem, n)

\* "A purge is refused while any live memory cites it" (docs/design.md 5.4):
\* no live claim cites a document that was purged.
NoLiveClaimCitesPurgedDocument ==
    \A m \in MemId : Live(mem, m) =>
        \A e \in mem[m].cites : ep[e].document => ep[e].status = "stored"

\* The abstract ledger the committed table implements.
Ledger ==
    INSTANCE ClaimLedger WITH ledger <-
        [m \in MemId |->
            [state |-> CASE mem[m].status = "unused" -> "absent"
                         [] mem[m].status = "purged" -> "gone"
                         [] Live(mem, m) -> "live"
                         [] OTHER -> "closed",
             space |-> mem[m].space, content |-> mem[m].content_hash,
             at |-> mem[m].invalid_at, reason |-> mem[m].invalid_reason,
             by |-> mem[m].superseded_by]]

\* The write path implements the ledger: every commit is one of its steps.
LedgerSpec == Ledger!Spec
=============================================================================
