-------------------------- MODULE MemoryStoreProofs ---------------------------
(***************************************************************************)
(* What MemoryStore promises for every value of its constants: any number  *)
(* of sessions, ids, spaces and batches, on an engine that validates reads *)
(* at commit and on one that does not.  First the table and the rows of the*)
(* transactions under way, then what a batch tells its caller, what it     *)
(* commits and the history the commits add up to: the two report           *)
(* properties, the refinement of ClaimLedger, the acyclic history and, for *)
(* one session, the citations of documents.                                *)
(***************************************************************************)
EXTENDS MemoryStore, WellFoundedInduction, TLAPS

-----------------------------------------------------------------------------
(* Types *)

\* The filtered targets of a batch line up with its entries.
TargetsMatch ==
    \A s \in Session : pc[s] \in {"begin", "statement"} =>
        DOMAIN targets[s] = DOMAIN batch[s].memories

TypeInv == TypeOK /\ TargetsMatch

\* The empty tables, the empty requests and the rows a purge leaves are typed.
LEMMA EmptyTypes ==
    /\ NoMemory \in MemoryRow /\ NoMemories \in MemoryTable
    /\ NoEpisode \in EpisodeRow /\ NoEpisodes \in EpisodeTable
    /\ DeletedMemory \in MemoryRow
    /\ NoWipe \in Wipe
  <1>1. 0 \in Time /\ 0 \in 0..MaxUses
    BY StoreAssumption DEF Time
  <1>2. NoMemory \in MemoryRow /\ DeletedMemory \in MemoryRow
    BY <1>1 DEF NoMemory, DeletedMemory, MemoryRow, DecayClass
  <1>3. NoEpisode \in EpisodeRow
    BY DEF NoEpisode, EpisodeRow
  <1>. QED
    BY <1>2, <1>3 DEF NoMemories, NoEpisodes, MemoryTable, EpisodeTable, NoWipe, Wipe

\* A close keeps a memory table a memory table.
LEMMA CloseType ==
    ASSUME NEW t \in MemoryTable, NEW ids, NEW at \in Time,
           NEW reason \in Reason, NEW by \in MemId \cup {None}
    PROVE  Close(t, ids, at, reason, by) \in MemoryTable
  <1>1. ASSUME NEW r \in MemoryRow
        PROVE  [r EXCEPT !.invalid_at = at, !.invalid_reason = reason,
                         !.superseded_by = by] \in MemoryRow
    BY <1>1 DEF MemoryRow
  <1>2. \A m \in MemId : t[m] \in MemoryRow
    BY DEF MemoryTable
  <1>. QED
    BY <1>1, <1>2 DEF Close, MemoryTable

\* The transaction's locals are typed again once an attempt ends.
LEMMA EndAttemptType ==
    ASSUME TypeInv, NEW s \in Session, EndAttempt(s)
    PROVE  /\ stamp' \in [Session -> Time]
           /\ snap' \in [Session -> MemoryTable]
           /\ work' \in [Session -> MemoryTable]
           /\ esnap' \in [Session -> EpisodeTable]
           /\ ework' \in [Session -> EpisodeTable]
           /\ source' \in [Session -> EpId \cup {None}]
           /\ out' \in [Session -> Seq(Written)]
           /\ closed' \in [Session -> SUBSET MemId]
           /\ targets' \in [Session -> Seq(SUBSET MemId)]
           /\ targets' = [targets EXCEPT ![s] = << >>]
  <1>1. 0 \in Time
    BY StoreAssumption DEF Time
  <1>. QED
    BY <1>1, EmptyTypes DEF EndAttempt, TypeInv, TypeOK

\* An error moves only pc and why.
LEMMA FailType ==
    ASSUME TypeInv, NEW s \in Session, NEW reason \in Whys, Fail(s, reason)
    PROVE  /\ pc' \in [Session -> PCs]
           /\ why' \in [Session -> Whys \cup {None}]
           /\ pc' = [pc EXCEPT ![s] = "failed"]
  BY DEF Fail, TypeInv, TypeOK, PCs

\* A session that is not between its reads and its commit owes no match.
LEMMA MatchKept ==
    ASSUME TypeInv, NEW s \in Session, NEW at \in PCs \ {"begin", "statement"},
           pc' = [pc EXCEPT ![s] = at],
           \A r \in Session \ {s} : targets'[r] = targets[r] /\ batch'[r] = batch[r]
    PROVE  TargetsMatch'
  <1>1. pc \in [Session -> PCs]
    BY DEF TypeInv, TypeOK
  <1>. QED
    BY <1>1 DEF TypeInv, TargetsMatch

\* Losing a write race and throwing leave every variable typed.
LEMMA LoseRaceType ==
    ASSUME TypeInv, NEW s \in Session, LoseRace(s)
    PROVE  TypeInv'
  <1>1. EndAttempt(s) /\ UNCHANGED <<now, mem, ep, batch, wipe>>
    BY DEF LoseRace, tables
  <1>2. attempts \in [Session -> 0..2] /\ pc \in [Session -> PCs]
    BY DEF TypeInv, TypeOK, MaxRetries
  <1>3. targets \in [Session -> Seq(SUBSET MemId)]
    BY DEF TypeInv, TypeOK
  <1>4. \A r \in Session \ {s} : targets'[r] = targets[r] /\ batch'[r] = batch[r]
    BY <1>1, <1>3, EndAttemptType
  <1>5. CASE attempts[s] < MaxRetries
    <2>1. /\ attempts' = [attempts EXCEPT ![s] = @ + 1]
          /\ pc' = [pc EXCEPT ![s] = "exist"]
          /\ UNCHANGED why
      BY <1>5 DEF LoseRace
    <2>2. attempts' \in [Session -> 0..MaxRetries]
      BY <1>2, <1>5, <2>1 DEF MaxRetries
    <2>3. pc' \in [Session -> PCs]
      BY <1>2, <2>1 DEF PCs
    <2>4. TypeOK'
      BY <1>1, <2>1, <2>2, <2>3, EndAttemptType DEF TypeInv, TypeOK
    <2>5. TargetsMatch'
      BY <1>4, <2>1, MatchKept DEF PCs
    <2>. QED BY <2>4, <2>5 DEF TypeInv
  <1>6. CASE ~(attempts[s] < MaxRetries)
    <2>1. Fail(s, "race") /\ UNCHANGED attempts
      BY <1>6 DEF LoseRace
    <2>2. TypeOK'
      BY <1>1, <2>1, FailType, EndAttemptType DEF TypeInv, TypeOK, Whys
    <2>3. TargetsMatch'
      BY <1>4, <2>1, MatchKept DEF PCs, Fail
    <2>. QED BY <2>2, <2>3 DEF TypeInv
  <1>. QED BY <1>5, <1>6

\* A THROW is an error like any other: the attempt is gone and pc says failed.
LEMMA ThrowType ==
    ASSUME TypeInv, NEW s \in Session, Throw(s)
    PROVE  TypeInv'
  <1>1. Fail(s, "thrown") /\ EndAttempt(s) /\ UNCHANGED <<now, mem, ep, batch, attempts, wipe>>
    BY DEF Throw, tables
  <1>2. TypeOK'
    BY <1>1, FailType, EndAttemptType DEF TypeInv, TypeOK, Whys
  <1>3. targets \in [Session -> Seq(SUBSET MemId)]
    BY DEF TypeInv, TypeOK
  <1>4. \A r \in Session \ {s} : targets'[r] = targets[r] /\ batch'[r] = batch[r]
    BY <1>1, <1>3, EndAttemptType
  <1>5. TargetsMatch'
    BY <1>1, <1>4, MatchKept DEF PCs, Fail
  <1>. QED BY <1>2, <1>5 DEF TypeInv

\* So does the tail of a statement, whichever way it goes.
LEMMA LandType ==
    ASSUME TypeInv, NEW s \in Session, NEW old, NEW table \in MemoryTable,
           NEW by \in MemId, NEW created \in BOOLEAN,
           Land(s, old, table, by, created)
    PROVE  TypeInv'
  <1>1. CASE LoseRace(s)
    BY <1>1, LoseRaceType
  <1>2. CASE Throw(s)
    BY <1>2, ThrowType
  <1>3. CASE /\ work' = [work EXCEPT ![s] = table]
             /\ out' = [out EXCEPT ![s] = Append(@, [id |-> by, created |-> created])]
             /\ UNCHANGED <<now, tables, pc, batch, attempts, closed, targets, stamp,
                            snap, esnap, ework, source, wipe, why>>
    <2>1. [id |-> by, created |-> created] \in Written
      BY DEF Written
    <2>2. work' \in [Session -> MemoryTable] /\ out' \in [Session -> Seq(Written)]
      BY <1>3, <2>1 DEF TypeInv, TypeOK
    <2>3. TypeOK'
      BY <1>3, <2>2 DEF TypeInv, TypeOK, tables
    <2>4. TargetsMatch'
      BY <1>3 DEF TypeInv, TargetsMatch
    <2>. QED BY <2>3, <2>4 DEF TypeInv
  <1>. QED
    BY <1>1, <1>2, <1>3 DEF Land

\* The entry a statement is about, its targets and its date.
LEMMA EntryType ==
    ASSUME TypeInv, NEW s \in Session, pc[s] = "statement",
           Len(out[s]) < Len(batch[s].memories)
    PROVE  LET i == Len(out[s]) + 1
           IN  /\ i \in DOMAIN batch[s].memories
               /\ batch[s].memories[i] \in Entry
               /\ targets[s][i] \in SUBSET MemId
               /\ ValidFrom(s, batch[s].memories[i]) \in Time
  <1>. DEFINE i == Len(out[s]) + 1
  <1>1. batch[s].memories \in Seq(Entry)
    BY DEF TypeInv, TypeOK, Batch, NoBatch
  <1>2. out[s] \in Seq(Written) /\ targets[s] \in Seq(SUBSET MemId) /\ stamp[s] \in Time
    BY DEF TypeInv, TypeOK
  <1>3. i \in DOMAIN batch[s].memories
    BY <1>1, <1>2
  <1>4. batch[s].memories[i] \in Entry
    BY <1>1, <1>3
  <1>5. i \in DOMAIN targets[s]
    BY <1>3 DEF TypeInv, TargetsMatch
  <1>6. targets[s][i] \in SUBSET MemId
    BY <1>2, <1>5
  <1>7. ValidFrom(s, batch[s].memories[i]) \in Time
    BY <1>2, <1>4 DEF ValidFrom, Entry
  <1>. QED BY <1>3, <1>4, <1>6, <1>7

\* The row a CREATE writes is a row of the table.
LEMMA NewRowType ==
    ASSUME TypeInv, NEW s \in Session, pc[s] = "statement",
           Len(out[s]) < Len(batch[s].memories)
    PROVE  LET i == Len(out[s]) + 1
           IN  NewRow(s, batch[s].memories[i], targets[s][i]) \in MemoryRow
  <1>. DEFINE i == Len(out[s]) + 1
              e == batch[s].memories[i]
              old == targets[s][i]
  <1>1. e \in Entry /\ old \in SUBSET MemId /\ ValidFrom(s, e) \in Time
    BY EntryType
  <1>2. batch[s].space \in Space \cup {None}
    BY DEF TypeInv, TypeOK, Batch, NoBatch
  <1>3. e.derived_from \cup ({source[s]} \ {None}) \in SUBSET EpId
    BY <1>1 DEF TypeInv, TypeOK, Entry
  <1>4. 0 \in 0..MaxUses
    BY StoreAssumption
  <1>. HIDE DEF i, e, old
  <1>5. NewRow(s, e, old) \in MemoryRow
    BY <1>1, <1>2, <1>3, <1>4 DEF NewRow, MemoryRow, Entry
  <1>. QED BY <1>5 DEF i, e, old

\* Every step keeps every variable in its type.
LEMMA TypeStep ==
    ASSUME TypeInv, [Next]_vars
    PROVE  TypeInv'
  <1>. USE DEF TypeInv
  <1>a. \A r \in Session : /\ batch[r] \in Batch \cup {NoBatch}
                           /\ targets[r] \in Seq(SUBSET MemId)
                           /\ pc[r] \in PCs /\ wipe[r] \in Wipe
    BY DEF TypeOK
  <1>b. /\ pc \in [Session -> PCs]
        /\ batch \in [Session -> Batch \cup {NoBatch}]
        /\ wipe \in [Session -> Wipe]
        /\ mem \in MemoryTable /\ ep \in EpisodeTable /\ now \in Time
    BY DEF TypeOK
  <1>1. ASSUME NEW s \in Session, Remember(s) PROVE TypeInv'
    <2>1. PICK b \in Batches :
             /\ batch' = [batch EXCEPT ![s] = b]
             /\ pc' = [pc EXCEPT ![s] = IF Cited(b) = {} THEN "exist" ELSE "cite"]
      BY <1>1 DEF Remember
    <2>2. b \in Batch
      BY StoreAssumption
    <2>3. batch' \in [Session -> Batch \cup {NoBatch}] /\ pc' \in [Session -> PCs]
      BY <1>b, <2>1, <2>2 DEF PCs
    <2>4. TypeOK'
      BY <1>1, <2>3 DEF Remember, TypeOK, tables, txn
    <2>5. \A r \in Session \ {s} : targets'[r] = targets[r] /\ batch'[r] = batch[r]
      BY <1>1, <1>b, <2>1 DEF Remember
    <2>6. TargetsMatch'
      BY <2>1, <2>5, MatchKept DEF PCs
    <2>. QED BY <2>4, <2>6
  <1>2. ASSUME NEW s \in Session, ResolveCitations(s) PROVE TypeInv'
    <2>1. \/ pc' = [pc EXCEPT ![s] = "exist"] /\ UNCHANGED why
          \/ Fail(s, "unknown")
      BY <1>2 DEF ResolveCitations
    <2>2. pc' \in [Session -> PCs] /\ why' \in [Session -> Whys \cup {None}]
      BY <2>1, FailType DEF TypeOK, PCs, Whys
    <2>3. TypeOK'
      BY <1>2, <2>2 DEF ResolveCitations, TypeOK, tables, txn
    <2>4. TargetsMatch'
      BY <1>2, <2>1, MatchKept DEF PCs, Fail, ResolveCitations
    <2>. QED BY <2>3, <2>4
  <1>3. ASSUME NEW s \in Session, EnsureExist(s) PROVE TypeInv'
    <2>1. \/ pc' = [pc EXCEPT ![s] = "closed"] /\ UNCHANGED why
          \/ Fail(s, "unknown")
      BY <1>3 DEF EnsureExist
    <2>2. pc' \in [Session -> PCs] /\ why' \in [Session -> Whys \cup {None}]
      BY <2>1, FailType DEF TypeOK, PCs, Whys
    <2>3. TypeOK'
      BY <1>3, <2>2 DEF EnsureExist, TypeOK, tables, txn
    <2>4. TargetsMatch'
      BY <1>3, <2>1, MatchKept DEF PCs, Fail, EnsureExist
    <2>. QED BY <2>3, <2>4
  <1>4. ASSUME NEW s \in Session, ReadClosed(s) PROVE TypeInv'
    <2>. DEFINE shut == {m \in Asked(batch[s]) :
                          /\ Stored(mem, m) /\ mem[m].space = batch[s].space
                          /\ mem[m].invalid_at # None}
                kept == [i \in DOMAIN batch[s].memories |->
                            batch[s].memories[i].supersedes \ shut]
    <2>1. /\ closed' = [closed EXCEPT ![s] = shut]
          /\ targets' = [targets EXCEPT ![s] = kept]
          /\ pc' = [pc EXCEPT ![s] = "begin"]
          /\ UNCHANGED <<now, mem, ep, batch, attempts, txn, wipe, why>>
      BY <1>4 DEF ReadClosed, tables
    <2>2. batch[s].memories \in Seq(Entry)
      <3>1. CASE batch[s] \in Batch
        BY <3>1 DEF Batch
      <3>2. CASE batch[s] = NoBatch
        BY <3>2 DEF NoBatch
      <3>. QED BY <1>a, <3>1, <3>2
    <2>3. ASSUME NEW i \in DOMAIN batch[s].memories
          PROVE  batch[s].memories[i].supersedes \subseteq MemId
      <3>1. batch[s].memories[i] \in Entry
        BY <2>2
      <3>. QED BY <3>1 DEF Entry
    <2>4. shut \subseteq MemId
      BY <2>3 DEF Asked
    <2>5. kept \in Seq(SUBSET MemId) /\ DOMAIN kept = DOMAIN batch[s].memories
      BY <2>2, <2>3
    <2>6. /\ closed' \in [Session -> SUBSET MemId]
          /\ targets' \in [Session -> Seq(SUBSET MemId)]
          /\ pc' \in [Session -> PCs]
      BY <2>1, <2>4, <2>5 DEF TypeOK, PCs
    <2>7. TypeOK'
      BY <2>1, <2>6 DEF TypeOK, txn
    <2>8. TargetsMatch'
      BY <1>b, <2>1, <2>5 DEF TargetsMatch, TypeOK
    <2>. QED BY <2>7, <2>8
  <1>5. ASSUME NEW s \in Session, Begin(s) PROVE TypeInv'
    <2>1. /\ pc[s] = "begin" /\ pc' = [pc EXCEPT ![s] = "statement"]
          /\ stamp' = [stamp EXCEPT ![s] = now]
          /\ snap' = [snap EXCEPT ![s] = mem] /\ work' = [work EXCEPT ![s] = mem]
          /\ esnap' = [esnap EXCEPT ![s] = ep]
          /\ out' = [out EXCEPT ![s] = << >>]
          /\ UNCHANGED <<now, mem, ep, batch, attempts, closed, targets, wipe, why>>
      BY <1>5 DEF Begin, tables
    <2>2. /\ source' \in [Session -> EpId \cup {None}]
          /\ ework' \in [Session -> EpisodeTable]
      <3>. DEFINE b == batch[s]
                  row == [status |-> "stored", space |-> b.space,
                          content_hash |-> b.episode.content_hash,
                          document |-> b.episode.document]
      <3>1. \/ /\ source' = [source EXCEPT ![s] = None]
               /\ ework' = [ework EXCEPT ![s] = ep]
            \/ \E e \in EpId : /\ source' = [source EXCEPT ![s] = e]
                               /\ ework' = [ework EXCEPT ![s] = ep]
            \/ /\ b.episode # None
               /\ \E e \in EpId :
                     /\ source' = [source EXCEPT ![s] = e]
                     /\ ework' = [ework EXCEPT ![s] = [ep EXCEPT ![e] = row]]
        BY <1>5 DEF Begin, EpisodeHolders
      <3>2. b.episode # None => row \in EpisodeRow
        BY <1>a DEF Batch, NoBatch, EpisodeInput, EpisodeRow
      <3>3. \A e \in EpId : b.episode # None => [ep EXCEPT ![e] = row] \in EpisodeTable
        BY <1>b, <3>2 DEF EpisodeTable
      <3>4. source \in [Session -> EpId \cup {None}] /\ ework \in [Session -> EpisodeTable]
        BY DEF TypeOK
      <3>. QED BY <1>b, <3>1, <3>3, <3>4
    <2>3. /\ stamp' \in [Session -> Time] /\ snap' \in [Session -> MemoryTable]
          /\ work' \in [Session -> MemoryTable] /\ esnap' \in [Session -> EpisodeTable]
          /\ out' \in [Session -> Seq(Written)] /\ pc' \in [Session -> PCs]
      BY <2>1 DEF TypeOK, PCs
    <2>4. TypeOK'
      BY <2>1, <2>2, <2>3 DEF TypeOK
    <2>5. TargetsMatch'
      BY <1>b, <2>1 DEF TargetsMatch
    <2>. QED BY <2>4, <2>5
  <1>6. ASSUME NEW s \in Session, Duplicate(s) PROVE TypeInv'
    <2>. DEFINE i == Len(out[s]) + 1
                e == batch[s].memories[i]
    <2>1. PICK dup \in LiveHolders(work[s], batch[s].space, e.content_hash) :
             LET keep == targets[s][i] \ {dup}
             IN  Land(s, keep, Close(work[s], keep, ValidFrom(s, e), "superseded", dup),
                      dup, FALSE)
      BY <1>6 DEF Duplicate
    <2>2. dup \in MemId
      BY DEF LiveHolders
    <2>3. ValidFrom(s, e) \in Time
      BY <1>6, EntryType DEF Duplicate
    <2>4. work[s] \in MemoryTable
      BY DEF TypeOK
    <2>5. Close(work[s], targets[s][i] \ {dup}, ValidFrom(s, e), "superseded", dup)
             \in MemoryTable
      BY <2>2, <2>3, <2>4, CloseType DEF Reason
    <2>. QED BY <2>1, <2>2, <2>5, LandType
  <1>7. ASSUME NEW s \in Session, Create(s) PROVE TypeInv'
    <2>. DEFINE i == Len(out[s]) + 1
                e == batch[s].memories[i]
                old == targets[s][i]
    <2>1. PICK new \in MemId :
             Land(s, old, Close([work[s] EXCEPT ![new] = NewRow(s, e, old)], old,
                                ValidFrom(s, e), "superseded", new), new, TRUE)
      BY <1>7 DEF Create
    <2>2. e \in Entry /\ old \in SUBSET MemId /\ ValidFrom(s, e) \in Time
      BY <1>7, EntryType DEF Create
    <2>3. NewRow(s, e, old) \in MemoryRow
      BY <1>7, NewRowType DEF Create, TypeInv
    <2>4. [work[s] EXCEPT ![new] = NewRow(s, e, old)] \in MemoryTable
      BY <2>3 DEF TypeOK, MemoryTable
    <2>5. Close([work[s] EXCEPT ![new] = NewRow(s, e, old)], old,
                ValidFrom(s, e), "superseded", new) \in MemoryTable
      BY <2>2, <2>4, CloseType DEF Reason
    <2>. QED BY <2>1, <2>5, LandType
  <1>8. ASSUME NEW s \in Session, Commit(s) PROVE TypeInv'
    <2>1. CASE LoseRace(s)
      BY <2>1, LoseRaceType
    <2>2. CASE /\ mem' = MergedMemories(s) /\ ep' = MergedEpisodes(s)
               /\ EndAttempt(s) /\ Finish(s) /\ UNCHANGED <<now, wipe, why>>
      <3>1. mem' \in MemoryTable
        BY <2>2 DEF MergedMemories, TypeOK, MemoryTable
      <3>2. ep' \in EpisodeTable
        BY <2>2 DEF MergedEpisodes, TypeOK, EpisodeTable
      <3>3. /\ pc' = [pc EXCEPT ![s] = "idle"]
            /\ batch' = [batch EXCEPT ![s] = NoBatch]
            /\ attempts' = [attempts EXCEPT ![s] = 0]
        BY <2>2 DEF Finish
      <3>4. /\ pc' \in [Session -> PCs] /\ batch' \in [Session -> Batch \cup {NoBatch}]
            /\ attempts' \in [Session -> 0..MaxRetries]
        BY <3>3 DEF TypeOK, PCs, MaxRetries
      <3>5. TypeOK'
        BY <2>2, <3>1, <3>2, <3>4, EndAttemptType DEF TypeOK
      <3>6. \A r \in Session \ {s} : targets'[r] = targets[r] /\ batch'[r] = batch[r]
        BY <1>b, <2>2, <3>3, EndAttemptType DEF TypeOK
      <3>7. TargetsMatch'
        BY <3>3, <3>6, MatchKept DEF PCs
      <3>. QED BY <3>5, <3>7
    <2>. QED BY <1>8, <2>1, <2>2 DEF Commit
  <1>9. ASSUME NEW s \in Session, ReturnError(s) PROVE TypeInv'
    <2>1. /\ pc' = [pc EXCEPT ![s] = "idle"]
          /\ batch' = [batch EXCEPT ![s] = NoBatch]
          /\ attempts' = [attempts EXCEPT ![s] = 0]
          /\ why' = [why EXCEPT ![s] = None]
          /\ UNCHANGED <<now, mem, ep, closed, targets, txn, wipe>>
      BY <1>9 DEF ReturnError, Finish, tables
    <2>2. /\ pc' \in [Session -> PCs] /\ batch' \in [Session -> Batch \cup {NoBatch}]
          /\ attempts' \in [Session -> 0..MaxRetries]
          /\ why' \in [Session -> Whys \cup {None}]
      BY <2>1 DEF TypeOK, PCs, MaxRetries
    <2>3. TypeOK'
      BY <2>1, <2>2 DEF TypeOK, txn
    <2>4. \A r \in Session \ {s} : targets'[r] = targets[r] /\ batch'[r] = batch[r]
      BY <1>b, <2>1
    <2>5. TargetsMatch'
      BY <2>1, <2>4, MatchKept DEF PCs
    <2>. QED BY <2>3, <2>5
  <1>10. ASSUME NEW s \in Session, FindTargets(s) PROVE TypeInv'
    <2>1. PICK w \in Wipes :
             \/ Fail(s, "missing") /\ UNCHANGED wipe
             \/ Fail(s, "broken chain") /\ UNCHANGED wipe
             \/ /\ wipe' = [wipe EXCEPT ![s] = w]
                /\ pc' = [pc EXCEPT ![s] = IF w.purge THEN "cascade" ELSE "forget"]
                /\ UNCHANGED why
      BY <1>10 DEF FindTargets
    <2>2. w \in Wipe
      BY StoreAssumption
    <2>3. /\ pc' \in [Session -> PCs] /\ wipe' \in [Session -> Wipe]
          /\ why' \in [Session -> Whys \cup {None}]
      <3>1. CASE (Fail(s, "missing") \/ Fail(s, "broken chain")) /\ UNCHANGED wipe
        BY <1>b, <3>1, FailType DEF Whys
      <3>2. CASE /\ wipe' = [wipe EXCEPT ![s] = w]
                 /\ pc' = [pc EXCEPT ![s] = IF w.purge THEN "cascade" ELSE "forget"]
                 /\ UNCHANGED why
        BY <1>b, <2>2, <3>2 DEF TypeOK, PCs
      <3>. QED BY <2>1, <3>1, <3>2
    <2>4. TypeOK'
      BY <1>10, <2>3 DEF FindTargets, TypeOK, tables, txn
    <2>5. TargetsMatch'
      BY <1>10, <2>1, MatchKept DEF PCs, Fail, FindTargets
    <2>. QED BY <2>4, <2>5
  <1>11. ASSUME NEW s \in Session, CascadeDocuments(s) PROVE TypeInv'
    <2>1. \/ Fail(s, "cited") /\ wipe' = [wipe EXCEPT ![s] = NoWipe]
          \/ /\ wipe' = [wipe EXCEPT ![s].memories = @ \cup CitersFound(s)]
             /\ pc' = [pc EXCEPT ![s] = "expand"]
             /\ UNCHANGED why
      BY <1>11 DEF CascadeDocuments, Refuse
    <2>2. CitersFound(s) \subseteq MemId
      BY DEF CitersFound, DocumentCiters
    <2>3. [wipe[s] EXCEPT !.memories = @ \cup CitersFound(s)] \in Wipe
      BY <1>a, <2>2 DEF Wipe
    <2>4. wipe' \in [Session -> Wipe]
      BY <1>b, <2>1, <2>3, EmptyTypes
    <2>5. pc' \in [Session -> PCs] /\ why' \in [Session -> Whys \cup {None}]
      BY <2>1, FailType DEF TypeOK, PCs, Whys
    <2>6. TypeOK'
      BY <1>11, <2>4, <2>5 DEF CascadeDocuments, TypeOK, tables, txn
    <2>7. TargetsMatch'
      BY <1>11, <2>1, MatchKept DEF PCs, Fail, CascadeDocuments
    <2>. QED BY <2>6, <2>7
  <1>12. ASSUME NEW s \in Session, ExpandChains(s) PROVE TypeInv'
    <2>. DEFINE all == UNION {HistoryChain(mem, m) : m \in wipe[s].memories}
    <2>1. \/ Fail(s, "missing") /\ wipe' = [wipe EXCEPT ![s] = NoWipe]
          \/ Fail(s, "broken chain") /\ wipe' = [wipe EXCEPT ![s] = NoWipe]
          \/ /\ wipe' = [wipe EXCEPT ![s].memories = all]
             /\ pc' = [pc EXCEPT ![s] = "forget"]
             /\ UNCHANGED why
      BY <1>12 DEF ExpandChains, Refuse
    <2>2. all \subseteq MemId
      BY DEF HistoryChain
    <2>3. [wipe[s] EXCEPT !.memories = all] \in Wipe
      BY <1>a, <2>2 DEF Wipe
    <2>4. wipe' \in [Session -> Wipe]
      BY <1>b, <2>1, <2>3, EmptyTypes
    <2>5. pc' \in [Session -> PCs] /\ why' \in [Session -> Whys \cup {None}]
      BY <2>1, FailType DEF TypeOK, PCs, Whys
    <2>6. TypeOK'
      BY <1>12, <2>4, <2>5 DEF ExpandChains, TypeOK, tables, txn
    <2>7. TargetsMatch'
      BY <1>12, <2>1, MatchKept DEF PCs, Fail, ExpandChains
    <2>. QED BY <2>6, <2>7
  <1>13. ASSUME NEW s \in Session, ForgetSoft(s) PROVE TypeInv'
    <2>1. PICK hit \in SUBSET MemId :
             \/ Fail(s, "race") /\ UNCHANGED mem
             \/ /\ mem' = Close(mem, hit, now, "forgotten", None)
                /\ pc' = [pc EXCEPT ![s] = "idle"] /\ UNCHANGED why
      <3>1. {m \in wipe[s].memories : Stored(mem, m) /\ mem[m].space \in wipe[s].spaces}
                \in SUBSET MemId
        BY <1>a DEF Wipe
      <3>. QED BY <1>13, <3>1 DEF ForgetSoft
    <2>2. mem' \in MemoryTable
      <3>1. Close(mem, hit, now, "forgotten", None) \in MemoryTable
        BY <1>b, CloseType DEF Reason
      <3>. QED BY <1>b, <2>1, <3>1
    <2>3. wipe' \in [Session -> Wipe]
      BY <1>13, <1>b, EmptyTypes DEF ForgetSoft
    <2>4. pc' \in [Session -> PCs] /\ why' \in [Session -> Whys \cup {None}]
      BY <2>1, FailType DEF TypeOK, PCs, Whys
    <2>5. TypeOK'
      BY <1>13, <2>2, <2>3, <2>4 DEF ForgetSoft, TypeOK, txn
    <2>6. TargetsMatch'
      BY <1>13, <2>1, MatchKept DEF PCs, Fail, ForgetSoft
    <2>. QED BY <2>5, <2>6
  <1>14. ASSUME NEW s \in Session, ForgetPurge(s) PROVE TypeInv'
    <2>1. mem' \in MemoryTable
      BY <1>14, <1>b, EmptyTypes DEF ForgetPurge, MemoryTable
    <2>2. \A r \in EpisodeRow : DeletedEpisode(r) \in EpisodeRow
      BY DEF DeletedEpisode, EpisodeRow
    <2>3. ep' \in EpisodeTable
      BY <1>14, <1>b, <2>2 DEF ForgetPurge, EpisodeTable
    <2>4. wipe' \in [Session -> Wipe] /\ pc' \in [Session -> PCs]
      BY <1>14, <1>b, EmptyTypes DEF ForgetPurge, PCs
    <2>5. TypeOK'
      BY <1>14, <2>1, <2>3, <2>4 DEF ForgetPurge, TypeOK, txn
    <2>6. TargetsMatch'
      BY <1>14, MatchKept DEF PCs, ForgetPurge
    <2>. QED BY <2>5, <2>6
  <1>15. ASSUME PruneExpired PROVE TypeInv'
    <2>1. PICK gone : mem' = Close(mem, gone, now, "expired", None)
      BY <1>15 DEF PruneExpired
    <2>2. mem' \in MemoryTable
      BY <1>b, <2>1, CloseType DEF Reason
    <2>. QED BY <1>15, <2>2 DEF PruneExpired, TypeOK, TargetsMatch, txn
  <1>16. ASSUME Reinforce PROVE TypeInv'
    <2>1. PICK m \in MemId : /\ mem[m].access_count < MaxUses
                             /\ mem' = [mem EXCEPT ![m].access_count = @ + 1]
      BY <1>16 DEF Reinforce
    <2>2. mem[m] \in MemoryRow
      BY <1>b DEF MemoryTable
    <2>3. mem[m].access_count + 1 \in 0..MaxUses
      BY <2>1, <2>2, StoreAssumption DEF MemoryRow
    <2>4. [mem[m] EXCEPT !.access_count = @ + 1] \in MemoryRow
      BY <2>2, <2>3 DEF MemoryRow
    <2>5. mem' \in MemoryTable
      BY <1>b, <2>1, <2>4 DEF MemoryTable
    <2>. QED BY <1>16, <2>5 DEF Reinforce, TypeOK, TargetsMatch, txn
  <1>17. ASSUME Tick PROVE TypeInv'
    <2>1. now' \in Time
      BY <1>17, <1>b, StoreAssumption DEF Tick, Time
    <2>. QED BY <1>17, <2>1 DEF Tick, TypeOK, TargetsMatch, tables, txn
  <1>18. CASE UNCHANGED vars
    BY <1>18 DEF vars, TypeOK, TargetsMatch
  <1>. QED
    BY <1>1, <1>2, <1>3, <1>4, <1>5, <1>6, <1>7, <1>8, <1>9, <1>10, <1>11, <1>12,
       <1>13, <1>14, <1>15, <1>16, <1>17, <1>18 DEF Next, CallStep

\* The empty store is typed.
LEMMA InitType == Init => TypeInv
  <1>. SUFFICES ASSUME Init PROVE TypeInv
    OBVIOUS
  <1>1. 0 \in Time /\ 0 \in 0..MaxRetries
    BY StoreAssumption DEF Time, MaxRetries
  <1>2. TypeOK
    BY <1>1, EmptyTypes DEF Init, TypeOK, PCs
  <1>3. TargetsMatch
    BY DEF Init, TargetsMatch
  <1>. QED BY <1>2, <1>3 DEF TypeInv

\* Every variable keeps the shape the store gives it, for every number of
\* sessions, ids, batches and retries (repo/write.rs, tools/forget.rs).
THEOREM TypeCorrect == Spec => []TypeOK
  <1>1. Init => TypeInv
    BY InitType
  <1>2. TypeInv /\ [Next]_vars => TypeInv'
    BY TypeStep
  <1>3. TypeInv => TypeOK
    BY DEF TypeInv
  <1>. QED BY <1>1, <1>2, <1>3, PTL DEF Spec

-----------------------------------------------------------------------------
(***************************************************************************)
(* What a transaction under way may have done.  A commit overwrites the    *)
(* committed row with the transaction's own, so whether it can rewrite a   *)
(* close is a question about the row as the snapshot had it: a row the     *)
(* transaction changed was unminted or live there, and without a conflict  *)
(* the committed row is still the snapshot's.                              *)
(***************************************************************************)
WritesOnlyOpenRows ==
    \A s \in Session : \A m \in MemId :
        /\ work[s][m] # snap[s][m] =>
               snap[s][m].status = "unused" \/ Live(snap[s], m)
        /\ work[s][m].status = "unused" => snap[s][m].status = "unused"

\* What Close does to a row.
LEMMA CloseRow ==
    ASSUME NEW t \in MemoryTable, NEW ids, NEW at, NEW reason, NEW by, NEW m \in MemId
    PROVE  LET r == Close(t, ids, at, reason, by)[m]
           IN  /\ r.status = t[m].status /\ r.space = t[m].space
               /\ r.content_hash = t[m].content_hash /\ r.supersedes = t[m].supersedes
               /\ ~(m \in ids /\ Live(t, m)) => r = t[m]
               /\ m \in ids /\ Live(t, m) =>
                     r.invalid_at = at /\ r.invalid_reason = reason /\ r.superseded_by = by
  <1>1. t[m] \in MemoryRow
    BY DEF MemoryTable
  <1>2. m \in OpenRows(t, ids) <=> m \in ids /\ Live(t, m)
    BY DEF OpenRows
  <1>. QED BY <1>1, <1>2 DEF Close, MemoryRow

\* A statement that lands turns the working table into one of these; every
\* other step leaves the transaction alone, ends it or begins it.
LEMMA TxnStep ==
    ASSUME TypeInv, [Next]_vars, NEW s \in Session
    PROVE  \/ work'[s] = work[s] /\ snap'[s] = snap[s]
           \/ work'[s] = NoMemories /\ snap'[s] = NoMemories
           \/ work'[s] = mem /\ snap'[s] = mem
           \/ /\ snap'[s] = snap[s]
              /\ \/ \E keep, at, by :
                       work'[s] = Close(work[s], keep, at, "superseded", by)
                 \/ \E row, old, at : \E new \in MemId :
                       /\ FreshMemory(new) /\ row.status = "stored"
                       /\ work'[s] = Close([work[s] EXCEPT ![new] = row], old,
                                           at, "superseded", new)
  <1>. DEFINE Kept == work'[s] = work[s] /\ snap'[s] = snap[s]
              Ended == work'[s] = NoMemories /\ snap'[s] = NoMemories
  <1>1. work \in [Session -> MemoryTable] /\ snap \in [Session -> MemoryTable]
    BY DEF TypeInv, TypeOK
  <1>2. ASSUME NEW r \in Session, EndAttempt(r) PROVE Kept \/ Ended
    BY <1>1, <1>2 DEF EndAttempt
  <1>3. ASSUME NEW r \in Session, NEW old, NEW table, NEW by, NEW created,
               Land(r, old, table, by, created)
        PROVE  Kept \/ Ended \/ (s = r /\ snap'[s] = snap[s] /\ work'[s] = table)
    BY <1>1, <1>2, <1>3 DEF Land, LoseRace, Throw
  <1>4. ASSUME NEW r \in Session, Begin(r)
        PROVE  Kept \/ (work'[s] = mem /\ snap'[s] = mem)
    BY <1>1, <1>4 DEF Begin
  <1>5. ASSUME NEW r \in Session, Duplicate(r)
        PROVE  \/ Kept \/ Ended
               \/ /\ snap'[s] = snap[s]
                  /\ \E keep, at, by : work'[s] = Close(work[s], keep, at, "superseded", by)
    BY <1>3, <1>5 DEF Duplicate
  <1>6. ASSUME NEW r \in Session, Create(r)
        PROVE  \/ Kept \/ Ended
               \/ /\ snap'[s] = snap[s]
                  /\ \E row, old, at : \E new \in MemId :
                       /\ FreshMemory(new) /\ row.status = "stored"
                       /\ work'[s] = Close([work[s] EXCEPT ![new] = row], old,
                                           at, "superseded", new)
    <2>. DEFINE e == batch[r].memories[Len(out[r]) + 1]
                old == targets[r][Len(out[r]) + 1]
    <2>1. PICK new \in MemId :
             /\ FreshMemory(new)
             /\ Land(r, old, Close([work[r] EXCEPT ![new] = NewRow(r, e, old)], old,
                                   ValidFrom(r, e), "superseded", new), new, TRUE)
      BY <1>6 DEF Create
    <2>2. NewRow(r, e, old).status = "stored"
      BY DEF NewRow
    <2>. HIDE DEF e, old
    <2>. QED BY <1>3, <2>1, <2>2
  <1>7. ASSUME NEW r \in Session, Commit(r) PROVE Kept \/ Ended
    BY <1>2, <1>7 DEF Commit, LoseRace
  <1>8. ASSUME UNCHANGED txn PROVE Kept
    BY <1>8 DEF txn
  <1>9. ASSUME NEW r \in Session,
               \/ Remember(r) \/ FindTargets(r) \/ ResolveCitations(r) \/ EnsureExist(r)
               \/ ReadClosed(r) \/ CascadeDocuments(r) \/ ExpandChains(r)
               \/ ForgetSoft(r) \/ ForgetPurge(r) \/ ReturnError(r)
        PROVE  UNCHANGED txn
    BY <1>9 DEF Remember, FindTargets, ResolveCitations, EnsureExist, ReadClosed,
                CascadeDocuments, ExpandChains, ForgetSoft, ForgetPurge, ReturnError
  <1>10. ASSUME PruneExpired \/ Reinforce \/ Tick \/ UNCHANGED vars PROVE UNCHANGED txn
    BY <1>10 DEF PruneExpired, Reinforce, Tick, vars, txn
  <1>. HIDE DEF Kept, Ended
  <1>11. CASE \E r \in Session : Begin(r)
    BY <1>4, <1>11 DEF Kept
  <1>12. CASE \E r \in Session : Duplicate(r)
    BY <1>5, <1>12 DEF Kept, Ended
  <1>13. CASE \E r \in Session : Create(r)
    BY <1>6, <1>13 DEF Kept, Ended
  <1>14. CASE \E r \in Session : Commit(r)
    BY <1>7, <1>14 DEF Kept, Ended
  <1>15. CASE UNCHANGED txn
    BY <1>8, <1>15 DEF Kept
  <1>. QED
    BY <1>9, <1>10, <1>11, <1>12, <1>13, <1>14, <1>15 DEF Next, CallStep

\* The five things a step can do to the committed memories.
LEMMA MemStep ==
    ASSUME TypeInv, [Next]_vars
    PROVE  \/ mem' = mem
           \/ \E s \in Session : ~Conflict(s) /\ mem' = MergedMemories(s)
           \/ \E ids, at, reason : /\ UniqueMemories(mem')
                                   /\ mem' = Close(mem, ids, at, reason, None)
           \/ \E ids : mem' = [m \in MemId |->
                                IF m \in ids /\ Stored(mem, m) THEN DeletedMemory ELSE mem[m]]
           \/ \E m \in MemId : /\ Stored(mem, m)
                               /\ mem' = [mem EXCEPT ![m].access_count = @ + 1]
  <1>1. ASSUME NEW s \in Session, LoseRace(s) \/ Throw(s) PROVE mem' = mem
    BY <1>1 DEF LoseRace, Throw, tables
  <1>2. ASSUME NEW s \in Session, NEW old, NEW table, NEW by, NEW created,
               Land(s, old, table, by, created)
        PROVE  mem' = mem
    BY <1>1, <1>2 DEF Land, tables
  <1>3. ASSUME NEW s \in Session, Duplicate(s) \/ Create(s) PROVE mem' = mem
    BY <1>2, <1>3 DEF Duplicate, Create
  <1>4. ASSUME NEW s \in Session, Commit(s)
        PROVE  mem' = mem \/ (~Conflict(s) /\ mem' = MergedMemories(s))
    BY <1>1, <1>4 DEF Commit
  <1>5. ASSUME NEW s \in Session,
               \/ Remember(s) \/ FindTargets(s) \/ ResolveCitations(s) \/ EnsureExist(s)
               \/ ReadClosed(s) \/ Begin(s) \/ CascadeDocuments(s) \/ ExpandChains(s)
               \/ ReturnError(s)
        PROVE  mem' = mem
    BY <1>5 DEF Remember, FindTargets, ResolveCitations, EnsureExist, ReadClosed, Begin,
                CascadeDocuments, ExpandChains, ReturnError, tables
  <1>6. ASSUME NEW s \in Session, ForgetSoft(s)
        PROVE  \/ mem' = mem
               \/ \E ids : UniqueMemories(mem') /\ mem' = Close(mem, ids, now, "forgotten", None)
    BY <1>6 DEF ForgetSoft
  <1>7. ASSUME NEW s \in Session, ForgetPurge(s)
        PROVE  \E ids : mem' = [m \in MemId |->
                              IF m \in ids /\ Stored(mem, m) THEN DeletedMemory ELSE mem[m]]
    <2>. DEFINE ids == {m \in wipe[s].memories : mem[m].space \in wipe[s].spaces}
    <2>1. mem' = [m \in MemId |->
                    IF m \in ids /\ Stored(mem, m) THEN DeletedMemory ELSE mem[m]]
      BY <1>7 DEF ForgetPurge
    <2>. QED BY <2>1
  <1>8. ASSUME PruneExpired
        PROVE  \E ids : UniqueMemories(mem') /\ mem' = Close(mem, ids, now, "expired", None)
    BY <1>8 DEF PruneExpired
  <1>9. ASSUME Reinforce
        PROVE  \E m \in MemId : /\ Stored(mem, m)
                                /\ mem' = [mem EXCEPT ![m].access_count = @ + 1]
    BY <1>9 DEF Reinforce
  <1>10. ASSUME Tick \/ UNCHANGED vars PROVE mem' = mem
    BY <1>10 DEF Tick, vars, tables
  <1>11. CASE \E s \in Session : ForgetSoft(s)
    BY <1>6, <1>11
  <1>12. CASE \E s \in Session : ForgetPurge(s)
    BY <1>7, <1>12
  <1>13. CASE PruneExpired
    BY <1>8, <1>13
  <1>14. CASE \E s \in Session : Commit(s)
    BY <1>4, <1>14
  <1>15. CASE mem' = mem
    BY <1>15
  <1>16. CASE Reinforce
    BY <1>9, <1>16
  <1>. QED
    BY <1>3, <1>5, <1>10, <1>11, <1>12, <1>13, <1>14, <1>15, <1>16 DEF Next, CallStep

\* The invariant behind the closes is inductive.
LEMMA WritesStep ==
    ASSUME TypeInv, WritesOnlyOpenRows, [Next]_vars
    PROVE  WritesOnlyOpenRows'
  <1>. SUFFICES ASSUME NEW s \in Session, NEW m \in MemId
                PROVE  /\ work'[s][m] # snap'[s][m] =>
                              snap'[s][m].status = "unused" \/ Live(snap'[s], m)
                       /\ work'[s][m].status = "unused" => snap'[s][m].status = "unused"
    BY DEF WritesOnlyOpenRows
  <1>1. work[s] \in MemoryTable
    BY DEF TypeInv, TypeOK
  <1>2. /\ work[s][m] # snap[s][m] => snap[s][m].status = "unused" \/ Live(snap[s], m)
        /\ work[s][m].status = "unused" => snap[s][m].status = "unused"
    BY DEF WritesOnlyOpenRows
  <1>3. CASE work'[s] = work[s] /\ snap'[s] = snap[s]
    BY <1>2, <1>3 DEF Live, Stored
  <1>4. CASE work'[s] = snap'[s]
    BY <1>4
  <1>5. ASSUME snap'[s] = snap[s],
               NEW keep, NEW at, NEW by,
               work'[s] = Close(work[s], keep, at, "superseded", by)
        PROVE  /\ work'[s][m] # snap'[s][m] =>
                      snap'[s][m].status = "unused" \/ Live(snap'[s], m)
               /\ work'[s][m].status = "unused" => snap'[s][m].status = "unused"
    BY <1>1, <1>2, <1>5, CloseRow DEF Live, Stored
  <1>6. ASSUME snap'[s] = snap[s],
               NEW row, NEW old, NEW at, NEW new \in MemId,
               FreshMemory(new), row.status = "stored",
               work'[s] = Close([work[s] EXCEPT ![new] = row], old, at, "superseded", new)
        PROVE  /\ work'[s][m] # snap'[s][m] =>
                      snap'[s][m].status = "unused" \/ Live(snap'[s], m)
               /\ work'[s][m].status = "unused" => snap'[s][m].status = "unused"
    <2>. DEFINE t == [work[s] EXCEPT ![new] = row]
    <2>1. work[s][new].status = "unused"
      BY <1>6 DEF FreshMemory
    <2>2. CASE m = new
      <3>1. snap'[s][m].status = "unused"
        BY <1>2, <1>6, <2>1, <2>2
      <3>. QED BY <3>1
    <2>3. CASE m # new
      <3>1. t[m] = work[s][m]
        BY <1>1, <2>3 DEF MemoryTable
      <3>2. work'[s][m] = IF m \in OpenRows(t, old)
                          THEN [t[m] EXCEPT !.invalid_at = at, !.invalid_reason = "superseded",
                                            !.superseded_by = new]
                          ELSE t[m]
        BY <1>6 DEF Close
      <3>3. work[s][m] \in MemoryRow
        BY <1>1 DEF MemoryTable
      <3>4. m \in OpenRows(t, old) => Live(work[s], m)
        BY <3>1 DEF OpenRows, Live, Stored
      <3>5. work'[s][m].status = work[s][m].status
        BY <3>1, <3>2, <3>3 DEF MemoryRow
      <3>6. work'[s][m] # work[s][m] => Live(work[s], m)
        BY <3>1, <3>2, <3>4
      <3>. QED BY <1>2, <1>6, <3>5, <3>6 DEF Live, Stored
    <2>. QED BY <2>2, <2>3
  <1>7. CASE /\ snap'[s] = snap[s]
             /\ \E keep, at, by : work'[s] = Close(work[s], keep, at, "superseded", by)
    BY <1>5, <1>7
  <1>8. CASE /\ snap'[s] = snap[s]
             /\ \E row, old, at : \E new \in MemId :
                   /\ FreshMemory(new) /\ row.status = "stored"
                   /\ work'[s] = Close([work[s] EXCEPT ![new] = row], old,
                                       at, "superseded", new)
    BY <1>6, <1>8
  <1>9. \/ work'[s] = work[s] /\ snap'[s] = snap[s]
        \/ work'[s] = snap'[s]
        \/ /\ snap'[s] = snap[s]
           /\ \E keep, at, by : work'[s] = Close(work[s], keep, at, "superseded", by)
        \/ /\ snap'[s] = snap[s]
           /\ \E row, old, at : \E new \in MemId :
                   /\ FreshMemory(new) /\ row.status = "stored"
                   /\ work'[s] = Close([work[s] EXCEPT ![new] = row], old,
                                       at, "superseded", new)
    BY TxnStep, Zenon
  <1>. QED BY <1>3, <1>4, <1>7, <1>8, <1>9

\* Issue #62 for any number of writers: no supersede, forget or prune ever
\* rewrites another close, whichever of the two conflict rules the engine has.
THEOREM ClosesNeverRewritten == Spec => CloseNeverRewritten
  <1>1. Init => TypeInv /\ WritesOnlyOpenRows
    <2>1. Init => TypeInv
      BY InitType
    <2>2. Init => WritesOnlyOpenRows
      BY DEF Init, WritesOnlyOpenRows
    <2>. QED BY <2>1, <2>2
  <1>2. TypeInv /\ WritesOnlyOpenRows /\ [Next]_vars
            => TypeInv' /\ WritesOnlyOpenRows'
    BY TypeStep, WritesStep
  <1>3. TypeInv /\ WritesOnlyOpenRows /\ [Next]_vars => [ClosesStand]_vars
    <2>. SUFFICES ASSUME TypeInv, WritesOnlyOpenRows, [Next]_vars,
                         NEW m \in MemId, Stored(mem, m), mem[m].invalid_at # None,
                         Stored(mem', m)
                  PROVE  /\ mem'[m].invalid_at = mem[m].invalid_at
                         /\ mem'[m].invalid_reason = mem[m].invalid_reason
                         /\ mem'[m].superseded_by = mem[m].superseded_by
      BY DEF ClosesStand
    <2>1. mem \in MemoryTable /\ mem[m] \in MemoryRow
      BY DEF TypeInv, TypeOK, MemoryTable
    <2>2. CASE mem' = mem
      BY <2>2
    <2>3. ASSUME NEW s \in Session, ~Conflict(s), mem' = MergedMemories(s)
          PROVE  mem'[m] = mem[m]
      <3>1. CASE work[s][m] # snap[s][m]
        <4>1. mem[m] = snap[s][m]
          BY <2>3, <3>1 DEF Conflict
        <4>2. snap[s][m].status = "unused" \/ Live(snap[s], m)
          BY <3>1 DEF WritesOnlyOpenRows
        <4>. QED BY <4>1, <4>2 DEF Stored, Live
      <3>2. CASE work[s][m] = snap[s][m]
        BY <2>3, <3>2 DEF MergedMemories
      <3>. QED BY <3>1, <3>2
    <2>4. ASSUME NEW ids, NEW at, NEW reason, mem' = Close(mem, ids, at, reason, None)
          PROVE  mem'[m] = mem[m]
      BY <2>1, <2>4, CloseRow DEF Live
    <2>5. ASSUME NEW ids, mem' = [n \in MemId |->
                            IF n \in ids /\ Stored(mem, n) THEN DeletedMemory ELSE mem[n]]
          PROVE  mem'[m] = mem[m]
      BY <2>5 DEF Stored, DeletedMemory, NoMemory
    <2>6. ASSUME NEW n \in MemId, mem' = [mem EXCEPT ![n].access_count = @ + 1]
          PROVE  /\ mem'[m].invalid_at = mem[m].invalid_at
                 /\ mem'[m].invalid_reason = mem[m].invalid_reason
                 /\ mem'[m].superseded_by = mem[m].superseded_by
      BY <2>1, <2>6 DEF MemoryTable, MemoryRow
    <2>. QED BY <2>2, <2>3, <2>4, <2>5, <2>6, MemStep
  <1>. QED BY <1>1, <1>2, <1>3, PTL DEF Spec, CloseNeverRewritten

-----------------------------------------------------------------------------
(* One live row per content *)

\* The unique index holds after every step that held it before.
LEMMA UniqueStep ==
    ASSUME TypeInv, UniqueMemories(mem), [Next]_vars
    PROVE  UniqueMemories(mem')
  <1>1. mem \in MemoryTable
    BY DEF TypeInv, TypeOK
  <1>2. CASE mem' = mem
    BY <1>2
  <1>3. ASSUME NEW s \in Session, ~Conflict(s), mem' = MergedMemories(s)
        PROVE  UniqueMemories(mem')
    BY <1>3 DEF Conflict
  <1>4. ASSUME NEW ids, mem' = [m \in MemId |->
                   IF m \in ids /\ Stored(mem, m) THEN DeletedMemory ELSE mem[m]]
        PROVE  UniqueMemories(mem')
    <2>1. \A m \in MemId : Stored(mem', m) => mem'[m] = mem[m]
      BY <1>4 DEF Stored, DeletedMemory, NoMemory
    <2>. QED BY <2>1 DEF UniqueMemories, Stored
  <1>5. ASSUME NEW n \in MemId, mem' = [mem EXCEPT ![n].access_count = @ + 1]
        PROVE  UniqueMemories(mem')
    <2>1. \A m \in MemId : /\ mem'[m].status = mem[m].status
                           /\ mem'[m].space = mem[m].space
                           /\ mem'[m].content_hash = mem[m].content_hash
                           /\ mem'[m].invalid_at = mem[m].invalid_at
      BY <1>1, <1>5 DEF MemoryTable, MemoryRow
    <2>. QED BY <2>1 DEF UniqueMemories, Stored, DedupKey
  <1>. QED BY <1>2, <1>3, <1>4, <1>5, MemStep

\* However many sessions write the same claim at once, and whether or not the
\* engine validates what their duplicate lookups read, one live row holds it.
THEOREM OneLiveRow == Spec => []OneLivePerContent
  <1>1. Init => TypeInv /\ UniqueMemories(mem)
    <2>1. Init => UniqueMemories(mem)
      BY DEF Init, UniqueMemories, NoMemories, NoMemory, Stored
    <2>. QED BY <2>1, InitType
  <1>2. TypeInv /\ UniqueMemories(mem) /\ [Next]_vars => TypeInv' /\ UniqueMemories(mem)'
    BY TypeStep, UniqueStep
  <1>3. UniqueMemories(mem) => OneLivePerContent
    BY DEF UniqueMemories, OneLivePerContent, Live, DedupKey
  <1>. QED BY <1>1, <1>2, <1>3, PTL DEF Spec

-----------------------------------------------------------------------------
(***************************************************************************)
(* Links stay in their space.  The space of a target is checked once, two  *)
(* round trips before the UPDATE that closes it, and that UPDATE has no    *)
(* space clause; what carries the check over is that a row only ages: once *)
(* minted it is never unminted, never moves to another space and never     *)
(* comes back from a purge.                                                *)
(***************************************************************************)
RowsAge(t, u) ==
    \A m \in MemId : t[m].status # "unused" =>
        /\ u[m].status # "unused"
        /\ Stored(u, m) => Stored(t, m) /\ u[m].space = t[m].space

\* Every target the batch names was stored in its space, and may since be gone.
HeldIn(t, b) ==
    \A n \in Asked(b) : /\ t[n].status # "unused"
                        /\ Stored(t, n) => t[n].space = b.space

Checked == {"closed", "begin", "statement"}

SnapshotsAge == \A s \in Session : RowsAge(snap[s], work[s]) /\ RowsAge(snap[s], mem)

TargetsHeld ==
    \A s \in Session :
        /\ pc[s] \in Checked => HeldIn(mem, batch[s])
        /\ pc[s] = "statement" => HeldIn(snap[s], batch[s])
        /\ pc[s] \in {"begin", "statement"} =>
               \A i \in DOMAIN targets[s] : targets[s][i] \subseteq Asked(batch[s])

WorkLinksInSpace == \A s \in Session : LinksInSpace(work[s])

LinkInv ==
    /\ TypeInv /\ WritesOnlyOpenRows
    /\ SnapshotsAge /\ TargetsHeld /\ WorkLinksInSpace /\ LinksStayInSpace

\* Nothing is stored in the empty table, so everything holds of it.
LEMMA EmptyTable ==
    /\ LinksInSpace(NoMemories)
    /\ \A t : RowsAge(NoMemories, t)
  <1>1. \A m \in MemId : NoMemories[m].status = "unused"
    BY DEF NoMemories, NoMemory
  <1>2. LinksInSpace(NoMemories)
    BY <1>1 DEF LinksInSpace, Stored
  <1>3. ASSUME NEW t PROVE RowsAge(NoMemories, t)
    BY <1>1 DEF RowsAge
  <1>. QED BY <1>2, <1>3

\* Ageing composes.
LEMMA AgeTrans ==
    ASSUME NEW t, NEW u, NEW v, RowsAge(t, u), RowsAge(u, v)
    PROVE  RowsAge(t, v)
  BY DEF RowsAge, Stored

\* A row that ages keeps the batch's check valid.
LEMMA HeldAges ==
    ASSUME NEW t, NEW u, NEW b, Asked(b) \subseteq MemId, HeldIn(t, b), RowsAge(t, u)
    PROVE  HeldIn(u, b)
  BY DEF HeldIn, RowsAge

\* Closing rows of a space in favour of a live row of that space.
LEMMA CloseLinks ==
    ASSUME NEW t \in MemoryTable, LinksInSpace(t), NEW sp, NEW by \in MemId,
           Live(t, by), t[by].space = sp, NEW keep, by \notin keep,
           \A n \in keep : Stored(t, n) => t[n].space = sp, NEW at, NEW reason
    PROVE  LinksInSpace(Close(t, keep, at, reason, by))
  <1>. DEFINE u == Close(t, keep, at, reason, by)
  <1>1. ASSUME NEW m \in MemId
        PROVE  /\ u[m].status = t[m].status /\ u[m].space = t[m].space
               /\ u[m].supersedes = t[m].supersedes
               /\ ~(m \in keep /\ Live(t, m)) => u[m] = t[m]
               /\ m \in keep /\ Live(t, m) => u[m].superseded_by = by
    BY CloseRow
  <1>2. ASSUME NEW m \in MemId, Stored(u, m), NEW n \in Links(u[m])
        PROVE  LinkInSpace(u, m, n)
    <2>1. Stored(t, m) /\ t[m] \in MemoryRow
      BY <1>1, <1>2 DEF Stored, MemoryTable
    <2>2. CASE n \in Links(t[m])
      <3>1. n \in MemId
        BY <2>1, <2>2 DEF Links, MemoryRow
      <3>2. LinkInSpace(t, m, n)
        BY <2>1, <2>2 DEF LinksInSpace
      <3>. QED BY <1>1, <3>1, <3>2 DEF LinkInSpace, Stored
    <2>3. CASE n \notin Links(t[m])
      <3>1. m \in keep /\ Live(t, m) /\ n = by
        BY <1>1, <1>2, <2>3 DEF Links
      <3>. QED BY <1>1, <2>1, <3>1 DEF LinkInSpace, Stored, Live
    <2>. QED BY <2>2, <2>3
  <1>. QED BY <1>2 DEF LinksInSpace

\* Adding a new row whose targets are live rows of its space.
LEMMA CreateLinks ==
    ASSUME NEW t \in MemoryTable, LinksInSpace(t), NEW new \in MemId,
           t[new].status = "unused", NEW row \in MemoryRow, row.superseded_by = None,
           \A n \in row.supersedes : Live(t, n) /\ t[n].space = row.space
    PROVE  LinksInSpace([t EXCEPT ![new] = row])
  <1>. DEFINE u == [t EXCEPT ![new] = row]
  <1>1. u[new] = row /\ \A m \in MemId \ {new} : u[m] = t[m]
    BY DEF MemoryTable
  <1>2. ASSUME NEW m \in MemId, Stored(u, m), NEW n \in Links(u[m])
        PROVE  LinkInSpace(u, m, n)
    <2>1. CASE m = new
      <3>1. n \in row.supersedes /\ n \in MemId
        BY <1>1, <1>2, <2>1 DEF Links, MemoryRow
      <3>2. n # new
        BY <3>1 DEF Live, Stored
      <3>. QED BY <1>1, <2>1, <3>1, <3>2 DEF LinkInSpace, Live, Stored
    <2>2. CASE m # new
      <3>1. Stored(t, m) /\ t[m] \in MemoryRow /\ n \in Links(t[m])
        BY <1>1, <1>2, <2>2 DEF Stored, MemoryTable
      <3>2. n \in MemId /\ LinkInSpace(t, m, n)
        BY <3>1 DEF Links, MemoryRow, LinksInSpace
      <3>3. n # new
        BY <3>2 DEF LinkInSpace
      <3>. QED BY <1>1, <2>2, <3>2, <3>3 DEF LinkInSpace, Stored
    <2>. QED BY <2>1, <2>2
  <1>. QED BY <1>2 DEF LinksInSpace

\* The transaction's own table ages the snapshot it began from.
LEMMA WorkAges ==
    ASSUME TypeInv, WritesOnlyOpenRows, SnapshotsAge, [Next]_vars, NEW s \in Session
    PROVE  RowsAge(snap'[s], work'[s])
  <1>1. work[s] \in MemoryTable /\ mem \in MemoryTable /\ RowsAge(snap[s], work[s])
    BY DEF TypeInv, TypeOK, SnapshotsAge
  <1>2. CASE work'[s] = work[s] /\ snap'[s] = snap[s]
    BY <1>1, <1>2 DEF RowsAge, Stored
  <1>3. CASE work'[s] = snap'[s]
    BY <1>3 DEF RowsAge, Stored
  <1>4. ASSUME snap'[s] = snap[s], NEW keep, NEW at, NEW by,
               work'[s] = Close(work[s], keep, at, "superseded", by)
        PROVE  RowsAge(snap'[s], work'[s])
    <2>1. \A m \in MemId : /\ work'[s][m].status = work[s][m].status
                           /\ work'[s][m].space = work[s][m].space
      BY <1>1, <1>4, CloseRow
    <2>. QED BY <1>1, <1>4, <2>1 DEF RowsAge, Stored
  <1>5. ASSUME snap'[s] = snap[s], NEW row, NEW old, NEW at, NEW new \in MemId,
               FreshMemory(new), row.status = "stored",
               work'[s] = Close([work[s] EXCEPT ![new] = row], old, at, "superseded", new)
        PROVE  RowsAge(snap'[s], work'[s])
    <2>. DEFINE t == [work[s] EXCEPT ![new] = row]
    <2>1. work[s][new].status = "unused" /\ snap[s][new].status = "unused"
      BY <1>5 DEF FreshMemory, WritesOnlyOpenRows
    <2>2. ASSUME NEW m \in MemId, m # new
          PROVE  /\ work'[s][m].status = work[s][m].status
                 /\ work'[s][m].space = work[s][m].space
      <3>1. t[m] = work[s][m] /\ work[s][m] \in MemoryRow
        BY <1>1, <2>2 DEF MemoryTable
      <3>2. work'[s][m] = IF m \in OpenRows(t, old)
                          THEN [t[m] EXCEPT !.invalid_at = at, !.invalid_reason = "superseded",
                                            !.superseded_by = new]
                          ELSE t[m]
        BY <1>5 DEF Close
      <3>. QED BY <3>1, <3>2 DEF MemoryRow
    <2>. QED BY <1>1, <1>5, <2>1, <2>2 DEF RowsAge, Stored
  <1>6. CASE /\ snap'[s] = snap[s]
             /\ \E keep, at, by : work'[s] = Close(work[s], keep, at, "superseded", by)
    BY <1>4, <1>6
  <1>7. CASE /\ snap'[s] = snap[s]
             /\ \E row, old, at : \E new \in MemId :
                   /\ FreshMemory(new) /\ row.status = "stored"
                   /\ work'[s] = Close([work[s] EXCEPT ![new] = row], old,
                                       at, "superseded", new)
    BY <1>5, <1>7
  <1>8. \/ work'[s] = work[s] /\ snap'[s] = snap[s]
        \/ work'[s] = snap'[s]
        \/ /\ snap'[s] = snap[s]
           /\ \E keep, at, by : work'[s] = Close(work[s], keep, at, "superseded", by)
        \/ /\ snap'[s] = snap[s]
           /\ \E row, old, at : \E new \in MemId :
                   /\ FreshMemory(new) /\ row.status = "stored"
                   /\ work'[s] = Close([work[s] EXCEPT ![new] = row], old,
                                       at, "superseded", new)
    BY TxnStep, Zenon
  <1>. QED BY <1>2, <1>3, <1>6, <1>7, <1>8

\* Every step ages the committed rows.
LEMMA MemAges ==
    ASSUME TypeInv, WritesOnlyOpenRows, SnapshotsAge, [Next]_vars
    PROVE  RowsAge(mem, mem')
  <1>1. mem \in MemoryTable
    BY DEF TypeInv, TypeOK
  <1>2. CASE mem' = mem
    BY <1>2 DEF RowsAge, Stored
  <1>3. ASSUME NEW s \in Session, ~Conflict(s), mem' = MergedMemories(s)
        PROVE  RowsAge(mem, mem')
    <2>1. ASSUME NEW m \in MemId, mem[m].status # "unused"
          PROVE  /\ mem'[m].status # "unused"
                 /\ mem'[m].status = "stored" =>
                       mem[m].status = "stored" /\ mem'[m].space = mem[m].space
      <3>1. CASE work[s][m] # snap[s][m]
        <4>1. mem[m] = snap[s][m] /\ mem'[m] = work[s][m]
          BY <1>3, <3>1 DEF Conflict, MergedMemories
        <4>. QED BY <2>1, <4>1 DEF SnapshotsAge, RowsAge, Stored
      <3>2. CASE work[s][m] = snap[s][m]
        BY <1>3, <2>1, <3>2 DEF MergedMemories
      <3>. QED BY <3>1, <3>2
    <2>. QED BY <2>1 DEF RowsAge, Stored
  <1>4. ASSUME NEW ids, NEW at, NEW reason, mem' = Close(mem, ids, at, reason, None)
        PROVE  RowsAge(mem, mem')
    BY <1>1, <1>4, CloseRow DEF RowsAge, Stored
  <1>5. ASSUME NEW ids, mem' = [m \in MemId |->
                   IF m \in ids /\ Stored(mem, m) THEN DeletedMemory ELSE mem[m]]
        PROVE  RowsAge(mem, mem')
    BY <1>5 DEF RowsAge, Stored, DeletedMemory, NoMemory
  <1>6. ASSUME NEW n \in MemId, mem' = [mem EXCEPT ![n].access_count = @ + 1]
        PROVE  RowsAge(mem, mem')
    <2>1. \A m \in MemId : mem'[m].status = mem[m].status /\ mem'[m].space = mem[m].space
      BY <1>1, <1>6 DEF MemoryTable, MemoryRow
    <2>. QED BY <2>1 DEF RowsAge, Stored
  <1>. QED BY <1>2, <1>3, <1>4, <1>5, <1>6, MemStep

\* Commits, forgets and sweeps only age what an open transaction began from.
LEMMA SnapshotsAgeStep ==
    ASSUME TypeInv, WritesOnlyOpenRows, SnapshotsAge, [Next]_vars
    PROVE  SnapshotsAge'
  <1>. SUFFICES ASSUME NEW s \in Session PROVE RowsAge(snap'[s], mem')
    BY WorkAges DEF SnapshotsAge
  <1>1. RowsAge(mem, mem')
    BY MemAges
  <1>2. snap'[s] = snap[s] \/ snap'[s] = NoMemories \/ snap'[s] = mem
    BY TxnStep, Zenon
  <1>3. CASE snap'[s] = snap[s]
    BY <1>1, <1>3, AgeTrans DEF SnapshotsAge
  <1>. QED BY <1>1, <1>2, <1>3, EmptyTable

\* The targets a typed batch names are ids.
LEMMA AskedType ==
    ASSUME NEW b \in Batch \cup {NoBatch}
    PROVE  Asked(b) \subseteq MemId
  <1>1. b.memories \in Seq(Entry)
    <2>1. CASE b \in Batch
      BY <2>1 DEF Batch
    <2>2. CASE b = NoBatch
      BY <2>2 DEF NoBatch
    <2>. QED BY <2>1, <2>2
  <1>2. ASSUME NEW i \in DOMAIN b.memories PROVE b.memories[i].supersedes \subseteq MemId
    <2>1. b.memories[i] \in Entry
      BY <1>1
    <2>. QED BY <2>1 DEF Entry
  <1>. QED BY <1>2 DEF Asked

\* How a session gets to, and stays at, the points where it owes its check.
LEMMA PcStep ==
    ASSUME TypeInv, [Next]_vars, NEW s \in Session
    PROVE  /\ pc'[s] \in Checked =>
                 /\ batch'[s] = batch[s]
                 /\ pc[s] \in Checked \/ (HeldIn(mem, batch[s]) /\ mem' = mem)
           /\ pc'[s] = "statement" =>
                 (pc[s] = "statement" /\ snap'[s] = snap[s]) \/ Begin(s)
           /\ pc'[s] \in {"begin", "statement"} =>
                 \/ ReadClosed(s)
                 \/ pc[s] \in {"begin", "statement"} /\ targets'[s] = targets[s]
  <1>. DEFINE A == /\ pc'[s] \in Checked =>
                        /\ batch'[s] = batch[s]
                        /\ pc[s] \in Checked \/ (HeldIn(mem, batch[s]) /\ mem' = mem)
              B == pc'[s] = "statement" =>
                        (pc[s] = "statement" /\ snap'[s] = snap[s]) \/ Begin(s)
              C == pc'[s] \in {"begin", "statement"} =>
                        \/ ReadClosed(s)
                        \/ pc[s] \in {"begin", "statement"} /\ targets'[s] = targets[s]
  <1>1. /\ pc \in [Session -> PCs] /\ batch \in [Session -> Batch \cup {NoBatch}]
        /\ targets \in [Session -> Seq(SUBSET MemId)] /\ snap \in [Session -> MemoryTable]
    BY DEF TypeInv, TypeOK
  <1>2. ASSUME pc'[s] = pc[s], batch'[s] = batch[s], targets'[s] = targets[s],
               snap'[s] = snap[s]
        PROVE  A /\ B /\ C
    BY <1>2
  <1>3. ASSUME pc'[s] \notin Checked PROVE A /\ B /\ C
    BY <1>3 DEF Checked
  <1>4. ASSUME NEW r \in Session, LoseRace(r) \/ Throw(r) PROVE A /\ B /\ C
    <2>1. /\ targets' = [targets EXCEPT ![r] = << >>] /\ batch' = batch
          /\ snap' = [snap EXCEPT ![r] = NoMemories]
          /\ \/ pc' = [pc EXCEPT ![r] = "exist"]
             \/ pc' = [pc EXCEPT ![r] = "failed"]
      BY <1>4 DEF LoseRace, Throw, EndAttempt, Fail
    <2>2. CASE r = s
      <3>1. pc'[s] \notin Checked
        BY <1>1, <2>1, <2>2 DEF Checked
      <3>. QED BY <1>3, <3>1
    <2>3. CASE r # s
      BY <1>1, <1>2, <2>1, <2>3
    <2>. QED BY <2>2, <2>3
  <1>5. ASSUME NEW r \in Session, NEW old, NEW table, NEW by, NEW created,
               Land(r, old, table, by, created)
        PROVE  A /\ B /\ C
    <2>1. \/ LoseRace(r) \/ Throw(r)
          \/ pc' = pc /\ batch' = batch /\ targets' = targets /\ snap' = snap
      BY <1>5 DEF Land
    <2>. QED BY <1>2, <1>4, <2>1
  <1>6. ASSUME NEW r \in Session, Duplicate(r) \/ Create(r) PROVE A /\ B /\ C
    <2>. HIDE DEF A, B, C
    <2>. QED BY <1>5, <1>6 DEF Duplicate, Create
  <1>7. ASSUME NEW r \in Session, r # s,
               \/ Remember(r) \/ FindTargets(r) \/ ResolveCitations(r) \/ EnsureExist(r)
               \/ ReadClosed(r) \/ Begin(r) \/ CascadeDocuments(r) \/ ExpandChains(r)
               \/ ForgetSoft(r) \/ ForgetPurge(r) \/ ReturnError(r)
        PROVE  /\ pc'[s] = pc[s] /\ batch'[s] = batch[s] /\ targets'[s] = targets[s]
               /\ snap'[s] = snap[s]
    BY <1>1, <1>7 DEF Remember, FindTargets, ResolveCitations, EnsureExist, ReadClosed,
              Begin, CascadeDocuments, ExpandChains, ForgetSoft, ForgetPurge, ReturnError,
              Finish, Fail, Refuse, txn
  <1>8. ASSUME \/ Remember(s) \/ FindTargets(s) \/ ResolveCitations(s)
               \/ CascadeDocuments(s) \/ ExpandChains(s)
               \/ ForgetSoft(s) \/ ForgetPurge(s) \/ ReturnError(s)
        PROVE  pc'[s] \notin Checked
    BY <1>1, <1>8 DEF Remember, FindTargets, ResolveCitations, CascadeDocuments,
              ExpandChains, ForgetSoft, ForgetPurge, ReturnError, Finish, Fail, Refuse, Checked
  <1>9. ASSUME EnsureExist(s) PROVE A /\ B /\ C
    <2>1. \/ /\ pc' = [pc EXCEPT ![s] = "closed"] /\ HeldIn(mem, batch[s])
          \/ pc' = [pc EXCEPT ![s] = "failed"]
      BY <1>9 DEF EnsureExist, HeldIn, Stored, Fail
    <2>2. batch' = batch /\ mem' = mem
      BY <1>9 DEF EnsureExist, tables
    <2>. QED BY <1>1, <2>1, <2>2 DEF Checked
  <1>10. ASSUME ReadClosed(s) PROVE A /\ B /\ C
    BY <1>1, <1>10 DEF ReadClosed, Checked
  <1>11. ASSUME Begin(s) PROVE A /\ B /\ C
    BY <1>1, <1>11 DEF Begin, Checked
  <1>12. ASSUME NEW r \in Session, Commit(r) PROVE A /\ B /\ C
    <2>1. CASE LoseRace(r)
      BY <1>4, <2>1
    <2>2. CASE EndAttempt(r) /\ Finish(r)
      <3>1. /\ pc' = [pc EXCEPT ![r] = "idle"] /\ batch' = [batch EXCEPT ![r] = NoBatch]
            /\ targets' = [targets EXCEPT ![r] = << >>]
            /\ snap' = [snap EXCEPT ![r] = NoMemories]
        BY <2>2 DEF EndAttempt, Finish
      <3>2. CASE r = s
        <4>1. pc'[s] \notin Checked
          BY <1>1, <3>1, <3>2 DEF Checked
        <4>. QED BY <1>3, <4>1
      <3>3. CASE r # s
        BY <1>1, <1>2, <3>1, <3>3
      <3>. QED BY <3>2, <3>3
    <2>. QED BY <1>12, <2>1, <2>2 DEF Commit
  <1>13. ASSUME PruneExpired \/ Reinforce \/ Tick \/ UNCHANGED vars PROVE A /\ B /\ C
    BY <1>2, <1>13 DEF PruneExpired, Reinforce, Tick, vars, txn
  <1>14. ASSUME NEW r \in Session,
               \/ Remember(r) \/ FindTargets(r) \/ ResolveCitations(r)
               \/ CascadeDocuments(r) \/ ExpandChains(r)
               \/ ForgetSoft(r) \/ ForgetPurge(r) \/ ReturnError(r)
         PROVE A /\ B /\ C
    <2>. HIDE DEF A, B, C
    <2>. QED BY <1>2, <1>3, <1>7, <1>8, <1>14
  <1>15. ASSUME NEW r \in Session, EnsureExist(r) \/ ReadClosed(r) \/ Begin(r)
         PROVE A /\ B /\ C
    <2>. HIDE DEF A, B, C
    <2>. QED BY <1>2, <1>7, <1>9, <1>10, <1>11, <1>15
  <1>16. A /\ B /\ C
    <2>. HIDE DEF A, B, C
    <2>. QED
      BY <1>6, <1>12, <1>13, <1>14, <1>15 DEF Next, CallStep
  <1>. QED BY <1>16

\* The check a batch made of its targets outlives the other sessions' steps.
LEMMA TargetsHeldStep ==
    ASSUME TypeInv, WritesOnlyOpenRows, SnapshotsAge, TargetsHeld, [Next]_vars
    PROVE  TargetsHeld'
  <1>. SUFFICES ASSUME NEW s \in Session
                PROVE  /\ pc'[s] \in Checked => HeldIn(mem', batch'[s])
                       /\ pc'[s] = "statement" => HeldIn(snap'[s], batch'[s])
                       /\ pc'[s] \in {"begin", "statement"} =>
                             \A i \in DOMAIN targets'[s] :
                                 targets'[s][i] \subseteq Asked(batch'[s])
    BY DEF TargetsHeld, HeldIn, Asked, Stored
  <1>1. Asked(batch[s]) \subseteq MemId
    BY AskedType DEF TypeInv, TypeOK
  <1>2. RowsAge(mem, mem')
    BY MemAges
  <1>3. pc'[s] \in Checked => batch'[s] = batch[s] /\ HeldIn(mem, batch[s])
    BY PcStep DEF TargetsHeld
  <1>4. ASSUME pc'[s] \in Checked PROVE HeldIn(mem', batch'[s])
    BY <1>1, <1>2, <1>3, <1>4, HeldAges
  <1>5. ASSUME pc'[s] = "statement" PROVE HeldIn(snap'[s], batch'[s])
    <2>1. batch'[s] = batch[s] /\ HeldIn(mem, batch[s])
      BY <1>3, <1>5 DEF Checked
    <2>2. CASE pc[s] = "statement" /\ snap'[s] = snap[s]
      BY <2>1, <2>2 DEF TargetsHeld
    <2>3. CASE Begin(s)
      <3>1. snap'[s] = mem
        BY <2>3 DEF Begin, TypeInv, TypeOK
      <3>. QED BY <2>1, <3>1
    <2>. QED BY <1>5, <2>2, <2>3, PcStep
  <1>6. ASSUME pc'[s] \in {"begin", "statement"}, NEW i \in DOMAIN targets'[s]
        PROVE  targets'[s][i] \subseteq Asked(batch'[s])
    <2>1. batch'[s] = batch[s]
      BY <1>3, <1>6 DEF Checked
    <2>2. CASE ReadClosed(s)
      <3>1. PICK shut : targets'[s] = [j \in DOMAIN batch[s].memories |->
                                          batch[s].memories[j].supersedes \ shut]
        BY <2>2 DEF ReadClosed, TypeInv, TypeOK
      <3>2. i \in DOMAIN batch[s].memories /\ targets'[s][i] \subseteq batch[s].memories[i].supersedes
        BY <1>6, <3>1
      <3>. QED BY <2>1, <3>2 DEF Asked
    <2>3. CASE pc[s] \in {"begin", "statement"} /\ targets'[s] = targets[s]
      BY <1>6, <2>1, <2>3 DEF TargetsHeld
    <2>. QED BY <1>6, <2>2, <2>3, PcStep
  <1>. QED BY <1>4, <1>5, <1>6

\* The rows a statement is to close are of the batch's space, if still there.
LEMMA TargetsInSpace ==
    ASSUME TypeInv, SnapshotsAge, TargetsHeld, NEW s \in Session, pc[s] = "statement",
           Len(out[s]) < Len(batch[s].memories), NEW n \in targets[s][Len(out[s]) + 1]
    PROVE  n \in MemId /\ (Stored(work[s], n) => work[s][n].space = batch[s].space)
  <1>. DEFINE i == Len(out[s]) + 1
  <1>1. targets[s][i] \in SUBSET MemId /\ i \in DOMAIN batch[s].memories
    BY EntryType
  <1>2. i \in DOMAIN targets[s]
    BY <1>1 DEF TypeInv, TargetsMatch
  <1>3. n \in Asked(batch[s])
    BY <1>2 DEF TargetsHeld
  <1>4. Asked(batch[s]) \subseteq MemId
    BY AskedType DEF TypeInv, TypeOK
  <1>5. HeldIn(work[s], batch[s])
    BY <1>4, HeldAges DEF TargetsHeld, SnapshotsAge
  <1>. QED BY <1>3, <1>4, <1>5 DEF HeldIn

\* A statement leaves only links inside the space in its transaction's table.
LEMMA WorkLinksStep ==
    ASSUME TypeInv, WritesOnlyOpenRows, SnapshotsAge, TargetsHeld, WorkLinksInSpace,
           LinksStayInSpace, [Next]_vars
    PROVE  WorkLinksInSpace'
  <1>1. work \in [Session -> MemoryTable]
    BY DEF TypeInv, TypeOK
  <1>2. ASSUME \A s \in Session : \/ work'[s] = work[s] \/ work'[s] = NoMemories
                                  \/ work'[s] = mem
        PROVE  WorkLinksInSpace'
    <2>1. ASSUME NEW s \in Session PROVE LinksInSpace(work'[s])
      BY <1>2, EmptyTable DEF WorkLinksInSpace, LinksStayInSpace
    <2>. QED BY <2>1 DEF WorkLinksInSpace, LinksInSpace, LinkInSpace, Links, Stored
  <1>3. ASSUME NEW r \in Session, NEW old, NEW table, NEW by, NEW created,
               Land(r, old, table, by, created),
               OpenRows(work[r], old) = old => LinksInSpace(table)
        PROVE  WorkLinksInSpace'
    <2>1. CASE LoseRace(r) \/ Throw(r)
      <3>1. work' = [work EXCEPT ![r] = NoMemories]
        BY <2>1 DEF LoseRace, Throw, EndAttempt
      <3>. QED BY <1>1, <1>2, <3>1
    <2>2. CASE OpenRows(work[r], old) = old /\ work' = [work EXCEPT ![r] = table]
      <3>1. ASSUME NEW s \in Session PROVE LinksInSpace(work'[s])
        BY <1>1, <1>3, <2>2 DEF WorkLinksInSpace
      <3>. QED BY <3>1 DEF WorkLinksInSpace, LinksInSpace, LinkInSpace, Links, Stored
    <2>. QED BY <1>3, <2>1, <2>2 DEF Land
  <1>4. ASSUME NEW s \in Session, Duplicate(s) PROVE WorkLinksInSpace'
    <2>. DEFINE i == Len(out[s]) + 1
                e == batch[s].memories[i]
    <2>1. pc[s] = "statement" /\ Len(out[s]) < Len(batch[s].memories)
      BY <1>4 DEF Duplicate
    <2>2. PICK dup \in LiveHolders(work[s], batch[s].space, e.content_hash) :
             Land(s, targets[s][i] \ {dup},
                  Close(work[s], targets[s][i] \ {dup}, ValidFrom(s, e), "superseded", dup),
                  dup, FALSE)
      BY <1>4 DEF Duplicate
    <2>3. dup \in MemId /\ Live(work[s], dup) /\ work[s][dup].space = batch[s].space
      BY <2>2 DEF LiveHolders
    <2>4. \A n \in targets[s][i] \ {dup} : Stored(work[s], n) => work[s][n].space = batch[s].space
      BY <2>1, TargetsInSpace
    <2>5. work[s] \in MemoryTable /\ LinksInSpace(work[s]) /\ dup \notin targets[s][i] \ {dup}
      BY <1>1 DEF WorkLinksInSpace
    <2>6. LinksInSpace(Close(work[s], targets[s][i] \ {dup}, ValidFrom(s, e), "superseded", dup))
      <3>. HIDE DEF i, e
      <3>. QED BY <2>3, <2>4, <2>5, CloseLinks
    <2>. HIDE DEF i, e
    <2>. QED BY <1>3, <2>2, <2>6
  <1>5. ASSUME NEW s \in Session, Create(s) PROVE WorkLinksInSpace'
    <2>. DEFINE i == Len(out[s]) + 1
                e == batch[s].memories[i]
                old == targets[s][i]
                row == NewRow(s, e, old)
    <2>1. pc[s] = "statement" /\ Len(out[s]) < Len(batch[s].memories)
      BY <1>5 DEF Create
    <2>2. PICK new \in MemId :
             /\ FreshMemory(new)
             /\ Land(s, old, Close([work[s] EXCEPT ![new] = row], old,
                                   ValidFrom(s, e), "superseded", new), new, TRUE)
      BY <1>5 DEF Create
    <2>3. row \in MemoryRow
      BY <2>1, NewRowType
    <2>4. /\ row.superseded_by = None /\ row.invalid_at = None /\ row.status = "stored"
          /\ row.space = batch[s].space /\ row.supersedes = old
      BY DEF NewRow
    <2>5. \A n \in old : n \in MemId /\ (Stored(work[s], n) => work[s][n].space = batch[s].space)
      BY <2>1, TargetsInSpace
    <2>6. work[s] \in MemoryTable /\ LinksInSpace(work[s]) /\ work[s][new].status = "unused"
      BY <1>1, <2>2 DEF WorkLinksInSpace, FreshMemory
    <2>. HIDE DEF i, e, old, row
    <2>. DEFINE t == [work[s] EXCEPT ![new] = row]
    <2>7. ASSUME OpenRows(work[s], old) = old
          PROVE  LinksInSpace(Close(t, old, ValidFrom(s, e), "superseded", new))
      <3>1. \A n \in old : Live(work[s], n) /\ work[s][n].space = batch[s].space
        BY <2>5, <2>7 DEF OpenRows, Live
      <3>2. LinksInSpace(t)
        BY <2>3, <2>4, <2>6, <3>1, CreateLinks
      <3>3. t \in MemoryTable /\ t[new] = row /\ new \notin old
        BY <2>3, <2>6, <3>1 DEF MemoryTable, Live, Stored
      <3>4. Live(t, new) /\ t[new].space = batch[s].space
        BY <2>4, <3>3 DEF Live, Stored
      <3>5. \A n \in old : Stored(t, n) => t[n].space = batch[s].space
        BY <2>5, <2>6, <3>1, <3>3 DEF MemoryTable
      <3>. HIDE DEF t
      <3>. QED BY <3>2, <3>3, <3>4, <3>5, CloseLinks
    <2>. QED BY <1>3, <2>2, <2>7
  <1>6. ASSUME NEW r \in Session,
               \/ Remember(r) \/ FindTargets(r) \/ ResolveCitations(r) \/ EnsureExist(r)
               \/ ReadClosed(r) \/ CascadeDocuments(r) \/ ExpandChains(r)
               \/ ForgetSoft(r) \/ ForgetPurge(r) \/ ReturnError(r)
        PROVE  work' = work
    BY <1>6 DEF Remember, FindTargets, ResolveCitations, EnsureExist, ReadClosed,
                CascadeDocuments, ExpandChains, ForgetSoft, ForgetPurge, ReturnError, txn
  <1>7. ASSUME PruneExpired \/ Reinforce \/ Tick \/ UNCHANGED vars PROVE work' = work
    BY <1>7 DEF PruneExpired, Reinforce, Tick, vars, txn
  <1>8. ASSUME NEW r \in Session, Begin(r) \/ Commit(r)
        PROVE  \A s \in Session : \/ work'[s] = work[s] \/ work'[s] = NoMemories
                                  \/ work'[s] = mem
    BY <1>1, <1>8 DEF Begin, Commit, LoseRace, EndAttempt
  <1>. QED BY <1>2, <1>4, <1>5, <1>6, <1>7, <1>8 DEF Next, CallStep

\* A row whose links are no more than they were keeps them inside its space.
LEMMA LinksAge ==
    ASSUME NEW t \in MemoryTable, NEW u, LinksInSpace(t), RowsAge(t, u),
           NEW m \in MemId, Stored(t, m), Stored(u, m), NEW n \in Links(t[m])
    PROVE  LinkInSpace(u, m, n)
  <1>1. n \in MemId /\ LinkInSpace(t, m, n)
    BY DEF LinksInSpace, Links, MemoryTable, MemoryRow
  <1>. QED BY <1>1 DEF LinkInSpace, RowsAge, Stored

\* Commits, forgets, sweeps and reinforcement keep the committed links in space.
LEMMA LinksStep ==
    ASSUME TypeInv, WritesOnlyOpenRows, SnapshotsAge, TargetsHeld, WorkLinksInSpace,
           LinksStayInSpace, [Next]_vars
    PROVE  LinksStayInSpace'
  <1>1. mem \in MemoryTable /\ LinksInSpace(mem)
    BY DEF TypeInv, TypeOK, LinksStayInSpace
  <1>2. RowsAge(mem, mem')
    BY MemAges
  <1>3. ASSUME NEW m \in MemId, Stored(mem, m), Stored(mem', m), Links(mem'[m]) \subseteq Links(mem[m]),
               NEW n \in Links(mem'[m])
        PROVE  LinkInSpace(mem', m, n)
    BY <1>1, <1>2, <1>3, LinksAge
  <1>4. ASSUME \A m \in MemId : Stored(mem', m) =>
                   Stored(mem, m) /\ Links(mem'[m]) \subseteq Links(mem[m])
        PROVE  LinksInSpace(mem')
    BY <1>3, <1>4 DEF LinksInSpace
  <1>5. ASSUME mem' = mem PROVE LinksInSpace(mem')
    BY <1>1, <1>5
  <1>6. ASSUME NEW s \in Session, ~Conflict(s), mem' = MergedMemories(s)
        PROVE  LinksInSpace(mem')
    <2>1. /\ work[s] \in MemoryTable /\ LinksInSpace(work[s])
          /\ RowsAge(snap[s], work[s]) /\ RowsAge(snap[s], mem)
      BY DEF TypeInv, TypeOK, WorkLinksInSpace, SnapshotsAge
    <2>2. ASSUME NEW m \in MemId
          PROVE  \/ work[s][m] # snap[s][m] /\ mem'[m] = work[s][m] /\ mem[m] = snap[s][m]
                 \/ work[s][m] = snap[s][m] /\ mem'[m] = mem[m]
      BY <1>6 DEF MergedMemories, Conflict
    <2>3. ASSUME NEW m \in MemId, Stored(mem', m), NEW n \in Links(mem'[m])
          PROVE  LinkInSpace(mem', m, n)
      <3>1. CASE mem'[m] = mem[m]
        BY <1>3, <2>3, <3>1 DEF Stored
      <3>2. CASE mem'[m] = work[s][m]
        <4>1. Stored(work[s], m) /\ n \in Links(work[s][m])
          BY <2>3, <3>2 DEF Stored
        <4>2. n \in MemId /\ LinkInSpace(work[s], m, n)
          BY <2>1, <4>1 DEF LinksInSpace, Links, MemoryTable, MemoryRow
        <4>3. CASE mem'[n] = work[s][n]
          BY <3>2, <4>2, <4>3 DEF LinkInSpace, Stored
        <4>4. CASE work[s][n] = snap[s][n] /\ mem'[n] = mem[n]
          BY <2>1, <3>2, <4>2, <4>4 DEF LinkInSpace, Stored, RowsAge
        <4>. QED BY <2>2, <4>2, <4>3, <4>4
      <3>. QED BY <2>2, <3>1, <3>2
    <2>. QED BY <2>3 DEF LinksInSpace
  <1>7. ASSUME NEW ids, NEW at, NEW reason, mem' = Close(mem, ids, at, reason, None)
        PROVE  LinksInSpace(mem')
    <2>1. ASSUME NEW m \in MemId, Stored(mem', m)
          PROVE  Stored(mem, m) /\ Links(mem'[m]) \subseteq Links(mem[m])
      <3>1. /\ mem'[m].status = mem[m].status /\ mem'[m].supersedes = mem[m].supersedes
            /\ mem'[m] = mem[m] \/ mem'[m].superseded_by = None
        BY <1>1, <1>7, CloseRow
      <3>. QED BY <2>1, <3>1 DEF Stored, Links
    <2>. QED BY <1>4, <2>1
  <1>8. ASSUME NEW ids, mem' = [m \in MemId |->
                   IF m \in ids /\ Stored(mem, m) THEN DeletedMemory ELSE mem[m]]
        PROVE  LinksInSpace(mem')
    <2>1. ASSUME NEW m \in MemId, Stored(mem', m) PROVE mem'[m] = mem[m]
      BY <1>8, <2>1 DEF Stored, DeletedMemory, NoMemory
    <2>. QED BY <1>4, <2>1 DEF Stored
  <1>9. ASSUME NEW k \in MemId, mem' = [mem EXCEPT ![k].access_count = @ + 1]
        PROVE  LinksInSpace(mem')
    <2>1. ASSUME NEW m \in MemId
          PROVE  /\ mem'[m].status = mem[m].status /\ mem'[m].supersedes = mem[m].supersedes
                 /\ mem'[m].superseded_by = mem[m].superseded_by
      BY <1>1, <1>9 DEF MemoryTable, MemoryRow
    <2>. QED BY <1>4, <2>1 DEF Stored, Links
  <1>10. LinksInSpace(mem')
    BY <1>5, <1>6, <1>7, <1>8, <1>9, MemStep
  <1>. QED BY <1>10 DEF LinksStayInSpace, LinksInSpace, LinkInSpace, Links, Stored

\* Whatever the sessions' batches name and however they interleave, no supersession link ever
\* crosses a space or names a row that was never written, although the check
\* of a target's space (repo/mod.rs) and the UPDATE that trusts it
\* (queries/write.rs) are several round trips apart.
THEOREM LinksInOneSpace == Spec => []LinksStayInSpace
  <1>1. Init => LinkInv
    <2>1. ASSUME Init PROVE SnapshotsAge /\ WorkLinksInSpace /\ LinksStayInSpace
      BY <2>1, EmptyTable DEF Init, SnapshotsAge, WorkLinksInSpace, LinksStayInSpace
    <2>2. Init => TargetsHeld
      BY DEF Init, TargetsHeld, Checked
    <2>3. Init => WritesOnlyOpenRows
      BY DEF Init, WritesOnlyOpenRows
    <2>. QED BY <2>1, <2>2, <2>3, InitType DEF LinkInv
  <1>2. LinkInv /\ [Next]_vars => LinkInv'
    BY TypeStep, WritesStep, SnapshotsAgeStep, TargetsHeldStep, WorkLinksStep, LinksStep
       DEF LinkInv
  <1>3. LinkInv => LinksStayInSpace
    BY DEF LinkInv
  <1>. QED BY <1>1, <1>2, <1>3, PTL DEF Spec


-----------------------------------------------------------------------------
(***************************************************************************)
(* The account of a transaction under way: o is the table it began from, w *)
(* the table as its statements left it, b its batch, T the targets of each *)
(* entry and q what its statements reported so far.  A statement changes a *)
(* row in one of two ways, and the reports say which rows those are.       *)
(***************************************************************************)
Minted(o, w, m) ==
    /\ o[m].status = "unused" /\ Live(w, m)
    /\ w[m].invalid_reason = None /\ w[m].superseded_by = None
    /\ w[m].space \in Space /\ w[m].content_hash \in Hash

Retired(o, w, m) ==
    /\ Live(o, m) /\ Stored(w, m)
    /\ w[m].invalid_at # None /\ w[m].invalid_reason = "superseded"
    /\ w[m].space = o[m].space /\ w[m].content_hash = o[m].content_hash

\* What entry i of the batch replaces, as its report has it.
Replaces(T, q, i) == T[i] \ {q[i].id}

RowsAccounted(o, w) ==
    \A m \in MemId : w[m] # o[m] => Minted(o, w, m) \/ Retired(o, w, m)

ReportAccounted(o, w, b, T, q, i) ==
    /\ q[i].id \in MemId
    /\ Stored(w, q[i].id) /\ w[q[i].id].space = b.space
    /\ w[q[i].id].content_hash = b.memories[i].content_hash
    /\ o[q[i].id].status = "unused" \/ Live(o, q[i].id)
    /\ q[i].created => q[i].id \notin T[i]
    /\ \A m \in Replaces(T, q, i) : Retired(o, w, m) /\ w[m].superseded_by = q[i].id

ClosesReported(o, w, T, q) ==
    \A m \in MemId : Retired(o, w, m) => \E i \in DOMAIN q : m \in Replaces(T, q, i)

Account(o, w, b, T, q) ==
    /\ RowsAccounted(o, w)
    /\ Len(q) <= Len(b.memories)
    /\ \A i \in DOMAIN q : ReportAccounted(o, w, b, T, q, i)
    /\ ClosesReported(o, w, T, q)

Accounts ==
    \A s \in Session : pc[s] = "statement" =>
        Account(snap[s], work[s], batch[s], targets[s], out[s])

\* A transaction that has run no statement has nothing to account for.
LEMMA AccountOpens ==
    ASSUME NEW t \in MemoryTable, NEW b, b.memories \in Seq(Entry), NEW T
    PROVE  Account(t, t, b, T, << >>)
  <1>1. RowsAccounted(t, t)
    BY DEF RowsAccounted
  <1>2. ClosesReported(t, t, T, << >>)
    BY DEF ClosesReported, Retired, Live, Stored
  <1>3. Len(<< >>) <= Len(b.memories) /\ DOMAIN << >> = {}
    OBVIOUS
  <1>. QED BY <1>1, <1>2, <1>3 DEF Account

(***************************************************************************)
(* One more statement: it may mint a row and closes the rows of `old`, all *)
(* of them open, in favour of `by`.                                        *)
(***************************************************************************)
LEMMA AccountGrows ==
    ASSUME NEW o \in MemoryTable, NEW w \in MemoryTable, NEW v \in MemoryTable,
           NEW b, b.memories \in Seq(Entry), NEW T, NEW q \in Seq(Written),
           Account(o, w, b, T, q), Len(q) < Len(b.memories),
           NEW at \in Time, NEW by \in MemId, NEW created \in BOOLEAN,
           T \in Seq(SUBSET MemId), Len(T) = Len(b.memories),
           \A m \in T[Len(q) + 1] : o[m].status # "unused",
           \A m \in MemId \ {by} : v[m] = w[m],
           v[by] = w[by] \/ Minted(o, v, by),
           created <=> v[by] # w[by],
           created => w[by].status = "unused",
           Live(v, by), v[by].space = b.space,
           v[by].content_hash = b.memories[Len(q) + 1].content_hash,
           \A m \in T[Len(q) + 1] \ {by} : Live(w, m)
    PROVE  Account(o, Close(v, T[Len(q) + 1] \ {by}, at, "superseded", by), b, T,
                   Append(q, [id |-> by, created |-> created]))
  <1>. DEFINE n == Len(q) + 1
              old == T[n] \ {by}
              u == Close(v, old, at, "superseded", by)
              p == Append(q, [id |-> by, created |-> created])
  <1>1. /\ p \in Seq(Written) /\ Len(p) = n /\ n \in Nat /\ n <= Len(b.memories)
        /\ p[n] = [id |-> by, created |-> created]
        /\ \A i \in DOMAIN q : p[i] = q[i]
        /\ DOMAIN p = DOMAIN q \cup {n} /\ n \notin DOMAIN q
    BY DEF Written
  <1>0. /\ old \subseteq MemId
        /\ \A i \in DOMAIN q : i \in DOMAIN T /\ T[i] \subseteq MemId
    <2>1. n \in 1..Len(T) /\ \A i \in DOMAIN q : i \in 1..Len(T)
      OBVIOUS
    <2>2. \A i \in 1..Len(T) : i \in DOMAIN T /\ T[i] \in SUBSET MemId
      OBVIOUS
    <2>. QED BY <2>1, <2>2
  <1>2. ASSUME NEW m \in MemId
        PROVE  /\ u[m].status = v[m].status /\ u[m].space = v[m].space
               /\ u[m].content_hash = v[m].content_hash
               /\ ~(m \in old /\ Live(v, m)) => u[m] = v[m]
               /\ m \in old /\ Live(v, m) =>
                     /\ u[m].invalid_at = at /\ u[m].invalid_reason = "superseded"
                     /\ u[m].superseded_by = by
    BY CloseRow
  <1>3. at # None
    BY StoreAssumption
  <1>. HIDE DEF u, p
  <1>4. ASSUME NEW m \in old
        PROVE  /\ m \in MemId /\ m # by /\ v[m] = w[m] /\ w[m] = o[m]
               /\ Retired(o, u, m) /\ u[m].superseded_by = by
    <2>1. m \in MemId /\ m # by /\ v[m] = w[m] /\ Live(w, m) /\ o[m].status # "unused"
      BY <1>0, <1>4
    <2>2. w[m] = o[m]
      BY <2>1 DEF Account, RowsAccounted, Minted, Retired, Live
    <2>3. Live(v, m) /\ Live(o, m)
      BY <2>1, <2>2 DEF Live, Stored
    <2>4. /\ u[m].status = o[m].status /\ u[m].space = o[m].space
          /\ u[m].content_hash = o[m].content_hash
          /\ u[m].invalid_at = at /\ u[m].invalid_reason = "superseded"
          /\ u[m].superseded_by = by
      BY <1>2, <1>4, <2>1, <2>2, <2>3
    <2>5. Retired(o, u, m)
      BY <1>3, <2>3, <2>4 DEF Retired, Live, Stored
    <2>. QED BY <2>1, <2>2, <2>4, <2>5
  <1>5. u[by] = v[by]
    BY <1>2
  <1>6. \A m \in MemId : m \notin old /\ m # by => u[m] = w[m]
    BY <1>2
  <1>7. created => ~Retired(o, w, by) /\ o[by].status = "unused"
    BY DEF Retired, Minted, Stored
  <1>. HIDE DEF n, old
  <1>8. RowsAccounted(o, u)
    <2>1. ASSUME NEW m \in MemId, u[m] # o[m] PROVE Minted(o, u, m) \/ Retired(o, u, m)
      <3>1. CASE m \in old
        BY <1>4, <3>1
      <3>2. CASE m = by
        <4>1. CASE v[by] = w[by]
          BY <1>5, <2>1, <3>2, <4>1
             DEF Account, RowsAccounted, Minted, Retired, Live, Stored
        <4>2. CASE Minted(o, v, by)
          BY <1>5, <3>2, <4>2 DEF Minted, Live, Stored
        <4>. QED BY <4>1, <4>2
      <3>3. CASE m \notin old /\ m # by
        BY <1>6, <2>1, <3>3 DEF Account, RowsAccounted, Minted, Retired, Live, Stored
      <3>. QED BY <3>1, <3>2, <3>3
    <2>. QED BY <2>1 DEF RowsAccounted
  <1>9. ASSUME NEW i \in DOMAIN q PROVE ReportAccounted(o, u, b, T, p, i)
    <2>1. ReportAccounted(o, w, b, T, q, i) /\ p[i] = q[i]
      BY <1>1, <1>9 DEF Account
    <2>2. q[i].id \in MemId /\ Stored(w, q[i].id)
      BY <2>1 DEF ReportAccounted
    <2>3. /\ u[q[i].id].status = w[q[i].id].status /\ u[q[i].id].space = w[q[i].id].space
          /\ u[q[i].id].content_hash = w[q[i].id].content_hash
      <3>1. CASE q[i].id \in old
        BY <1>2, <1>4, <2>2, <3>1
      <3>2. CASE q[i].id = by
        <4>1. v[by] = w[by]
          BY <2>2, <3>2 DEF Stored
        <4>. QED BY <1>5, <3>2, <4>1
      <3>3. CASE q[i].id \notin old /\ q[i].id # by
        BY <1>6, <2>2, <3>3
      <3>. QED BY <3>1, <3>2, <3>3
    <2>4. ASSUME NEW m \in Replaces(T, q, i)
          PROVE  Retired(o, u, m) /\ u[m].superseded_by = q[i].id
      <3>1. Retired(o, w, m) /\ w[m].superseded_by = q[i].id
        BY <2>1, <2>4 DEF ReportAccounted
      <3>2. m \in MemId
        BY <1>0, <2>4 DEF Replaces
      <3>3. ~Live(w, m) /\ o[m].status # "unused"
        BY <3>1 DEF Retired, Live, Stored
      <3>4. m \notin old
        BY <1>4, <3>3 DEF Retired, Live, Stored
      <3>5. u[m] = w[m]
        <4>1. CASE m = by
          BY <1>5, <3>3, <4>1 DEF Live, Stored, Minted
        <4>. QED BY <1>6, <3>2, <3>4, <4>1
      <3>. QED BY <3>1, <3>5 DEF Retired, Live, Stored
    <2>. QED BY <2>1, <2>2, <2>3, <2>4 DEF ReportAccounted, Replaces, Stored
  <1>10. ReportAccounted(o, u, b, T, p, n)
    <2>1. p[n].id = by /\ p[n].created = created
      BY <1>1
    <2>2. o[by].status = "unused" \/ Live(o, by)
      BY DEF Account, RowsAccounted, Minted, Retired, Live, Stored
    <2>3. created => by \notin T[n]
      BY <1>7 DEF n
    <2>4. ASSUME NEW m \in Replaces(T, p, n)
          PROVE  Retired(o, u, m) /\ u[m].superseded_by = by
      BY <1>4, <2>1, <2>4 DEF Replaces, old
    <2>5. Stored(u, by) /\ u[by].space = b.space
          /\ u[by].content_hash = b.memories[n].content_hash
      BY <1>5 DEF Live, Stored, n
    <2>. QED BY <2>1, <2>2, <2>3, <2>4, <2>5 DEF ReportAccounted
  <1>11. ClosesReported(o, u, T, p)
    <2>1. ASSUME NEW m \in MemId, Retired(o, u, m)
          PROVE  \E i \in DOMAIN p : m \in Replaces(T, p, i)
      <3>1. CASE m \in old
        BY <1>1, <3>1 DEF Replaces, old
      <3>2. CASE m = by
        BY <1>5, <2>1, <3>2 DEF Retired, Live
      <3>3. CASE m \notin old /\ m # by
        <4>1. Retired(o, w, m)
          BY <1>6, <2>1, <3>3 DEF Retired, Live, Stored
        <4>2. PICK i \in DOMAIN q : m \in Replaces(T, q, i)
          BY <4>1 DEF Account, ClosesReported
        <4>. QED BY <1>1, <4>2 DEF Replaces
      <3>. QED BY <3>1, <3>2, <3>3
    <2>. QED BY <2>1 DEF ClosesReported
  <1>12. Account(o, u, b, T, p)
    BY <1>1, <1>8, <1>9, <1>10, <1>11 DEF Account
  <1>. QED BY <1>12 DEF u, p, n, old

\* The statement of entry Len(out)+1 lands: it closed `old` in the table v.
Landed(s, old, v, by, created) ==
    LET e == batch[s].memories[Len(out[s]) + 1]
    IN  /\ Len(out[s]) < Len(batch[s].memories)
        /\ OpenRows(work[s], old) = old
        /\ work'[s] = Close(v, old, ValidFrom(s, e), "superseded", by)
        /\ out'[s] = Append(out[s], [id |-> by, created |-> created])

DuplicateLands(s) ==
    LET i == Len(out[s]) + 1
        e == batch[s].memories[i]
    IN  \E dup \in LiveHolders(work[s], batch[s].space, e.content_hash) :
            Landed(s, targets[s][i] \ {dup}, work[s], dup, FALSE)

CreateLands(s) ==
    LET i == Len(out[s]) + 1
        e == batch[s].memories[i]
        old == targets[s][i]
    IN  \E new \in MemId :
            /\ FreshMemory(new)
            /\ Landed(s, old, [work[s] EXCEPT ![new] = NewRow(s, e, old)], new, TRUE)

\* How a transaction's table and report change while it stays open.
LEMMA WorkStep ==
    ASSUME TypeInv, [Next]_vars, NEW s \in Session, pc'[s] = "statement", ~Begin(s)
    PROVE  \/ work'[s] = work[s] /\ out'[s] = out[s]
           \/ DuplicateLands(s)
           \/ CreateLands(s)
  <1>. DEFINE Kept == work'[s] = work[s] /\ out'[s] = out[s]
  <1>1. /\ pc \in [Session -> PCs] /\ work \in [Session -> MemoryTable]
        /\ out \in [Session -> Seq(Written)]
    BY DEF TypeInv, TypeOK
  <1>2. ASSUME NEW r \in Session, EndAttempt(r), pc'[r] # "statement" PROVE Kept
    <2>1. r # s
      BY <1>2
    <2>. QED BY <1>1, <1>2, <2>1 DEF EndAttempt
  <1>3. ASSUME NEW r \in Session, LoseRace(r) \/ Throw(r) PROVE Kept
    <2>1. EndAttempt(r) /\ pc'[r] # "statement"
      BY <1>1, <1>3 DEF LoseRace, Throw, Fail
    <2>. QED BY <1>2, <2>1
  <1>4. ASSUME NEW r \in Session, NEW old, NEW table, NEW by, NEW created,
               Land(r, old, table, by, created)
        PROVE  \/ Kept
               \/ /\ r = s /\ OpenRows(work[s], old) = old /\ work'[s] = table
                  /\ out'[s] = Append(out[s], [id |-> by, created |-> created])
    <2>1. CASE LoseRace(r) \/ Throw(r)
      BY <1>3, <2>1
    <2>2. CASE /\ OpenRows(work[r], old) = old /\ work' = [work EXCEPT ![r] = table]
               /\ out' = [out EXCEPT ![r] = Append(@, [id |-> by, created |-> created])]
      BY <1>1, <2>2
    <2>. QED BY <1>4, <2>1, <2>2 DEF Land
  <1>5. ASSUME NEW r \in Session, Duplicate(r) PROVE Kept \/ DuplicateLands(s)
    <2>. DEFINE i == Len(out[r]) + 1
                e == batch[r].memories[i]
    <2>1. PICK dup \in LiveHolders(work[r], batch[r].space, e.content_hash) :
             Land(r, targets[r][i] \ {dup},
                  Close(work[r], targets[r][i] \ {dup}, ValidFrom(r, e), "superseded", dup),
                  dup, FALSE)
      BY <1>5 DEF Duplicate
    <2>2. Len(out[r]) < Len(batch[r].memories)
      BY <1>5 DEF Duplicate
    <2>. DEFINE keep == targets[r][i] \ {dup}
                table == Close(work[r], keep, ValidFrom(r, e), "superseded", dup)
    <2>3. Land(r, keep, table, dup, FALSE)
      BY <2>1
    <2>4. \/ Kept
          \/ /\ r = s /\ OpenRows(work[s], keep) = keep /\ work'[s] = table
             /\ out'[s] = Append(out[s], [id |-> dup, created |-> FALSE])
      <3>. HIDE DEF keep, table
      <3>. QED BY <1>4, <2>3
    <2>5. ASSUME ~Kept PROVE DuplicateLands(s)
      <3>1. r = s
        BY <2>4, <2>5
      <3>2. Landed(s, keep, work[s], dup, FALSE)
        BY <2>2, <2>4, <2>5, <3>1 DEF Landed
      <3>. QED BY <2>1, <3>1, <3>2 DEF DuplicateLands
    <2>. QED BY <2>5
  <1>6. ASSUME NEW r \in Session, Create(r) PROVE Kept \/ CreateLands(s)
    <2>. DEFINE i == Len(out[r]) + 1
                e == batch[r].memories[i]
                old == targets[r][i]
    <2>1. PICK new \in MemId :
             /\ FreshMemory(new)
             /\ Land(r, old, Close([work[r] EXCEPT ![new] = NewRow(r, e, old)], old,
                                   ValidFrom(r, e), "superseded", new), new, TRUE)
      BY <1>6 DEF Create
    <2>2. Len(out[r]) < Len(batch[r].memories)
      BY <1>6 DEF Create
    <2>3. \/ Kept
          \/ /\ r = s /\ OpenRows(work[s], old) = old
             /\ work'[s] = Close([work[r] EXCEPT ![new] = NewRow(r, e, old)], old,
                                 ValidFrom(r, e), "superseded", new)
             /\ out'[s] = Append(out[s], [id |-> new, created |-> TRUE])
      <3>. DEFINE table == Close([work[r] EXCEPT ![new] = NewRow(r, e, old)], old,
                                 ValidFrom(r, e), "superseded", new)
      <3>1. Land(r, old, table, new, TRUE)
        BY <2>1
      <3>. HIDE DEF i, e, old, table
      <3>2. \/ Kept
            \/ /\ r = s /\ OpenRows(work[s], old) = old /\ work'[s] = table
               /\ out'[s] = Append(out[s], [id |-> new, created |-> TRUE])
        BY <1>4, <3>1
      <3>. QED BY <3>2 DEF table
    <2>4. ASSUME ~Kept PROVE CreateLands(s)
      <3>1. r = s
        BY <2>3, <2>4
      <3>2. Landed(s, old, [work[s] EXCEPT ![new] = NewRow(s, e, old)], new, TRUE)
        BY <2>2, <2>3, <2>4, <3>1 DEF Landed
      <3>. QED BY <2>1, <3>1, <3>2 DEF CreateLands
    <2>. QED BY <2>4
  <1>7. ASSUME NEW r \in Session, Commit(r) PROVE Kept
    <2>1. CASE LoseRace(r)
      BY <1>3, <2>1
    <2>2. CASE EndAttempt(r) /\ Finish(r)
      <3>1. pc'[r] # "statement"
        BY <1>1, <2>2 DEF Finish
      <3>. QED BY <1>2, <2>2, <3>1
    <2>. QED BY <1>7, <2>1, <2>2 DEF Commit
  <1>8. ASSUME NEW r \in Session, Begin(r) PROVE Kept
    <2>1. r # s
      BY <1>8
    <2>. QED BY <1>1, <1>8, <2>1 DEF Begin
  <1>9. ASSUME UNCHANGED txn PROVE Kept
    BY <1>9 DEF txn
  <1>10. ASSUME NEW r \in Session,
               \/ Remember(r) \/ FindTargets(r) \/ ResolveCitations(r) \/ EnsureExist(r)
               \/ ReadClosed(r) \/ CascadeDocuments(r) \/ ExpandChains(r)
               \/ ForgetSoft(r) \/ ForgetPurge(r) \/ ReturnError(r)
        PROVE  UNCHANGED txn
    BY <1>10 DEF Remember, FindTargets, ResolveCitations, EnsureExist, ReadClosed,
                CascadeDocuments, ExpandChains, ForgetSoft, ForgetPurge, ReturnError
  <1>11. ASSUME PruneExpired \/ Reinforce \/ Tick \/ UNCHANGED vars PROVE UNCHANGED txn
    BY <1>11 DEF PruneExpired, Reinforce, Tick, vars, txn
  <1>. HIDE DEF Kept
  <1>12. Kept \/ DuplicateLands(s) \/ CreateLands(s)
    BY <1>5, <1>6, <1>7, <1>8, <1>9, <1>10, <1>11 DEF Next, CallStep
  <1>. QED BY <1>12 DEF Kept

\* A session that stays inside its transaction keeps its snapshot, batch and targets.
LEMMA OpenStep ==
    ASSUME TypeInv, [Next]_vars, NEW s \in Session, pc'[s] = "statement", ~Begin(s)
    PROVE  /\ pc[s] = "statement" /\ snap'[s] = snap[s]
           /\ batch'[s] = batch[s] /\ targets'[s] = targets[s]
  <1>1. pc[s] = "statement" /\ snap'[s] = snap[s] /\ batch'[s] = batch[s]
    BY PcStep DEF Checked
  <1>2. ~ReadClosed(s)
    BY <1>1 DEF ReadClosed
  <1>. QED BY <1>1, <1>2, PcStep

\* A batch, or the absence of one, holds a sequence of entries.
LEMMA BatchType ==
    ASSUME NEW b \in Batch \cup {NoBatch}
    PROVE  b.memories \in Seq(Entry)
  <1>1. CASE b \in Batch
    BY <1>1 DEF Batch
  <1>2. CASE b = NoBatch
    BY <1>2 DEF NoBatch
  <1>. QED BY <1>1, <1>2

\* What a statement at pc "statement" knows of its batch and its targets.
LEMMA StatementFacts ==
    ASSUME LinkInv, NEW s \in Session, pc[s] = "statement"
    PROVE  /\ snap[s] \in MemoryTable /\ work[s] \in MemoryTable
           /\ batch[s].memories \in Seq(Entry) /\ out[s] \in Seq(Written)
           /\ targets[s] \in Seq(SUBSET MemId) /\ Len(targets[s]) = Len(batch[s].memories)
           /\ Len(out[s]) < Len(batch[s].memories) => batch[s].space \in Space
           /\ \A i \in DOMAIN targets[s] : \A m \in targets[s][i] :
                  m \in MemId /\ snap[s][m].status # "unused"
  <1>1. TypeOK /\ TargetsMatch
    BY DEF LinkInv, TypeInv
  <1>2. /\ snap[s] \in MemoryTable /\ work[s] \in MemoryTable
        /\ out[s] \in Seq(Written) /\ targets[s] \in Seq(SUBSET MemId)
        /\ batch[s] \in Batch \cup {NoBatch}
    BY <1>1 DEF TypeOK
  <1>3. batch[s].memories \in Seq(Entry)
    BY <1>2, BatchType
  <1>4. DOMAIN targets[s] = DOMAIN batch[s].memories
    BY <1>1 DEF TargetsMatch
  <1>5. Len(targets[s]) = Len(batch[s].memories)
    BY <1>2, <1>3, <1>4
  <1>6. Len(out[s]) < Len(batch[s].memories) => batch[s].space \in Space
    <2>1. CASE batch[s] \in Batch
      BY <2>1 DEF Batch
    <2>2. CASE batch[s] = NoBatch
      BY <1>2, <2>2 DEF NoBatch
    <2>. QED BY <1>2, <2>1, <2>2
  <1>7. ASSUME NEW i \in DOMAIN targets[s], NEW m \in targets[s][i]
        PROVE  m \in MemId /\ snap[s][m].status # "unused"
    <2>1. m \in Asked(batch[s]) /\ HeldIn(snap[s], batch[s])
      BY <1>7 DEF LinkInv, TargetsHeld
    <2>. QED BY <1>2, <2>1, AskedType DEF HeldIn
  <1>. QED BY <1>2, <1>3, <1>5, <1>6, <1>7

\* Every step keeps the account of every open transaction.
LEMMA AccountsStep ==
    ASSUME LinkInv, Accounts, [Next]_vars
    PROVE  Accounts'
  <1>. SUFFICES ASSUME NEW s \in Session, pc'[s] = "statement"
                PROVE  Account(snap'[s], work'[s], batch'[s], targets'[s], out'[s])
    BY DEF Accounts, Account, RowsAccounted, ReportAccounted, ClosesReported,
           Replaces, Minted, Retired, Live, Stored
  <1>1. TypeInv /\ WritesOnlyOpenRows
    BY DEF LinkInv
  <1>2. CASE Begin(s)
    <2>1. snap'[s] = mem /\ work'[s] = mem /\ batch'[s] = batch[s] /\ out'[s] = << >>
      BY <1>1, <1>2 DEF Begin, TypeInv, TypeOK
    <2>2. mem \in MemoryTable /\ batch[s].memories \in Seq(Entry)
      BY <1>1, BatchType DEF TypeInv, TypeOK
    <2>. QED BY <2>1, <2>2, AccountOpens
  <1>3. CASE ~Begin(s)
    <2>. DEFINE n == Len(out[s]) + 1
                e == batch[s].memories[n]
    <2>1. /\ pc[s] = "statement" /\ snap'[s] = snap[s]
          /\ batch'[s] = batch[s] /\ targets'[s] = targets[s]
      BY <1>1, <1>3, OpenStep
    <2>2. Account(snap[s], work[s], batch[s], targets[s], out[s])
      BY <2>1 DEF Accounts
    <2>3. CASE work'[s] = work[s] /\ out'[s] = out[s]
      BY <2>1, <2>2, <2>3
    <2>4. ASSUME Len(out[s]) < Len(batch[s].memories)
          PROVE  /\ ValidFrom(s, e) \in Time /\ e \in Entry
                 /\ \A m \in targets[s][n] : m \in MemId /\ snap[s][m].status # "unused"
      <3>1. n \in DOMAIN targets[s]
        BY <2>1, <2>4, StatementFacts
      <3>. QED BY <1>1, <2>1, <2>4, <3>1, StatementFacts, EntryType
    <2>5. CASE DuplicateLands(s)
      <3>1. PICK dup \in LiveHolders(work[s], batch[s].space, e.content_hash) :
               Landed(s, targets[s][n] \ {dup}, work[s], dup, FALSE)
        BY <2>5 DEF DuplicateLands
      <3>2. /\ dup \in MemId /\ Live(work[s], dup) /\ work[s][dup].space = batch[s].space
            /\ work[s][dup].content_hash = e.content_hash
        BY <3>1 DEF LiveHolders
      <3>3. /\ Len(out[s]) < Len(batch[s].memories)
            /\ \A m \in targets[s][n] \ {dup} : Live(work[s], m)
            /\ work'[s] = Close(work[s], targets[s][n] \ {dup}, ValidFrom(s, e), "superseded", dup)
            /\ out'[s] = Append(out[s], [id |-> dup, created |-> FALSE])
        BY <3>1 DEF Landed, OpenRows
      <3>. HIDE DEF e
      <3>4. Account(snap[s], Close(work[s], targets[s][n] \ {dup}, ValidFrom(s, e),
                                   "superseded", dup),
                    batch[s], targets[s], Append(out[s], [id |-> dup, created |-> FALSE]))
        BY <2>1, <2>2, <2>4, <3>2, <3>3, StatementFacts, AccountGrows DEF e
      <3>. QED BY <2>1, <3>3, <3>4
    <2>6. CASE CreateLands(s)
      <3>. DEFINE old == targets[s][n]
      <3>1. PICK new \in MemId :
               /\ FreshMemory(new)
               /\ Landed(s, old, [work[s] EXCEPT ![new] = NewRow(s, e, old)], new, TRUE)
        BY <2>6 DEF CreateLands
      <3>. DEFINE v == [work[s] EXCEPT ![new] = NewRow(s, e, old)]
      <3>2. work[s][new].status = "unused" /\ snap[s][new].status = "unused"
        BY <1>1, <3>1 DEF FreshMemory, WritesOnlyOpenRows
      <3>3. /\ Len(out[s]) < Len(batch[s].memories)
            /\ \A m \in old : Live(work[s], m)
            /\ work'[s] = Close(v, old, ValidFrom(s, e), "superseded", new)
            /\ out'[s] = Append(out[s], [id |-> new, created |-> TRUE])
        BY <3>1 DEF Landed, OpenRows
      <3>4. v \in MemoryTable /\ v[new] = NewRow(s, e, old) /\ \A m \in MemId \ {new} : v[m] = work[s][m]
        BY <1>1, <2>1, <3>3, StatementFacts, NewRowType DEF MemoryTable
      <3>5. old \ {new} = old
        BY <2>4, <3>2, <3>3
      <3>6. /\ v[new].status = "stored" /\ v[new].invalid_at = None
            /\ v[new].invalid_reason = None /\ v[new].superseded_by = None
            /\ v[new].space = batch[s].space /\ v[new].content_hash = e.content_hash
        BY <3>4 DEF NewRow
      <3>7. Minted(snap[s], v, new) /\ Live(v, new)
        BY <2>1, <2>4, <3>2, <3>3, <3>6, StatementFacts DEF Minted, Live, Stored, Entry
      <3>. HIDE DEF v, old, e
      <3>8. Account(snap[s], Close(v, old \ {new}, ValidFrom(s, e), "superseded", new),
                    batch[s], targets[s], Append(out[s], [id |-> new, created |-> TRUE]))
        <4>1. /\ snap[s] \in MemoryTable /\ work[s] \in MemoryTable
              /\ batch[s].memories \in Seq(Entry) /\ out[s] \in Seq(Written)
              /\ targets[s] \in Seq(SUBSET MemId) /\ Len(targets[s]) = Len(batch[s].memories)
          BY <2>1, StatementFacts
        <4>2. /\ ValidFrom(s, e) \in Time
              /\ \A m \in old : snap[s][m].status # "unused"
          BY <2>4, <3>3 DEF old
        <4>3. /\ v[new] # work[s][new] /\ \A m \in old \ {new} : Live(work[s], m)
          BY <3>2, <3>3, <3>6
        <4>. QED
          BY <2>2, <3>2, <3>3, <3>4, <3>6, <3>7, <4>1, <4>2, <4>3, AccountGrows DEF e, old
      <3>. QED BY <2>1, <3>3, <3>5, <3>8
    <2>. QED BY <1>1, <1>3, <2>3, <2>5, <2>6, WorkStep
  <1>. QED BY <1>2, <1>3

-----------------------------------------------------------------------------
(* What a batch that lands reports. *)

\* The targets the closed_memories read filtered out are closed or gone.
FilteredStayClosed ==
    \A s \in Session : pc[s] \in {"begin", "statement"} =>
        \A i \in DOMAIN batch[s].memories :
            \A m \in batch[s].memories[i].supersedes \ targets[s][i] :
                mem[m].status # "unused" /\ ~Live(mem, m)

\* A row that was closed or deleted never becomes live again.
LEMMA ClosedStays ==
    ASSUME TypeInv, WritesOnlyOpenRows, [Next]_vars,
           NEW m \in MemId, mem[m].status # "unused", ~Live(mem, m)
    PROVE  mem'[m].status # "unused" /\ ~Live(mem', m)
  <1>1. mem \in MemoryTable /\ mem[m] \in MemoryRow
    BY DEF TypeInv, TypeOK, MemoryTable
  <1>2. CASE mem'[m] = mem[m]
    BY <1>2 DEF Live, Stored
  <1>3. ASSUME NEW s \in Session, ~Conflict(s), mem' = MergedMemories(s)
        PROVE  mem'[m] = mem[m]
    <2>1. work[s][m] = snap[s][m]
      BY <1>3 DEF Conflict, WritesOnlyOpenRows, Live, Stored
    <2>. QED BY <1>3, <2>1 DEF MergedMemories
  <1>4. ASSUME NEW ids, NEW at, NEW reason, mem' = Close(mem, ids, at, reason, None)
        PROVE  mem'[m] = mem[m]
    BY <1>1, <1>4, CloseRow
  <1>5. ASSUME NEW ids, mem' = [n \in MemId |->
                   IF n \in ids /\ Stored(mem, n) THEN DeletedMemory ELSE mem[n]]
        PROVE  mem'[m].status # "unused" /\ ~Live(mem', m)
    BY <1>2, <1>5 DEF Live, Stored, DeletedMemory, NoMemory
  <1>6. ASSUME NEW n \in MemId, mem' = [mem EXCEPT ![n].access_count = @ + 1]
        PROVE  mem'[m].status # "unused" /\ ~Live(mem', m)
    <2>1. mem'[m].status = mem[m].status /\ mem'[m].invalid_at = mem[m].invalid_at
      BY <1>1, <1>6 DEF MemoryTable, MemoryRow
    <2>. QED BY <2>1 DEF Live, Stored
  <1>. QED BY <1>2, <1>3, <1>4, <1>5, <1>6, MemStep

\* So what a batch was told is closed is closed whenever it looks again.
LEMMA FilteredStep ==
    ASSUME LinkInv, FilteredStayClosed, [Next]_vars
    PROVE  FilteredStayClosed'
  <1>. SUFFICES ASSUME NEW s \in Session, pc'[s] \in {"begin", "statement"},
                       NEW i \in DOMAIN batch'[s].memories,
                       NEW m \in batch'[s].memories[i].supersedes \ targets'[s][i]
                PROVE  mem'[m].status # "unused" /\ ~Live(mem', m)
    BY DEF FilteredStayClosed, Live, Stored
  <1>1. TypeInv /\ WritesOnlyOpenRows
    BY DEF LinkInv
  <1>2. batch'[s] = batch[s]
    BY <1>1, PcStep DEF Checked
  <1>3. m \in MemId
    <2>1. m \in Asked(batch[s])
      BY <1>2 DEF Asked
    <2>. QED BY <1>1, <2>1, AskedType DEF TypeInv, TypeOK
  <1>4. CASE pc[s] \in {"begin", "statement"} /\ targets'[s] = targets[s]
    <2>1. mem[m].status # "unused" /\ ~Live(mem, m)
      BY <1>2, <1>4 DEF FilteredStayClosed
    <2>. QED BY <1>1, <1>3, <2>1, ClosedStays
  <1>5. CASE ReadClosed(s)
    <2>. DEFINE shut == {n \in Asked(batch[s]) :
                           /\ Stored(mem, n) /\ mem[n].space = batch[s].space
                           /\ mem[n].invalid_at # None}
    <2>1. mem' = mem /\ targets'[s] = [j \in DOMAIN batch[s].memories |->
                                          batch[s].memories[j].supersedes \ shut]
      BY <1>1, <1>5 DEF ReadClosed, TypeInv, TypeOK, tables
    <2>2. m \in shut
      <3>. HIDE DEF shut
      <3>. QED BY <1>2, <2>1
    <2>. QED BY <2>1, <2>2 DEF Live, Stored
  <1>. QED BY <1>1, <1>4, <1>5, PcStep

\* The only step that takes a session from its statements to idle is a commit
\* without a conflict.
LEMMA CommitStep ==
    ASSUME TypeInv, [Next]_vars, NEW s \in Session, Committed(s)
    PROVE  /\ Len(out[s]) = Len(batch[s].memories)
           /\ ~Conflict(s) /\ mem' = MergedMemories(s)
  <1>. DEFINE Done == /\ Len(out[s]) = Len(batch[s].memories)
                      /\ ~Conflict(s) /\ mem' = MergedMemories(s)
              Stays == pc'[s] # "idle"
  <1>1. pc \in [Session -> PCs] /\ pc[s] = "statement" /\ pc'[s] = "idle"
    BY DEF TypeInv, TypeOK, Committed
  <1>2. ASSUME NEW r \in Session, LoseRace(r) \/ Throw(r) PROVE Stays
    BY <1>1, <1>2 DEF LoseRace, Throw, Fail
  <1>3. ASSUME NEW r \in Session, NEW old, NEW table, NEW by, NEW created,
               Land(r, old, table, by, created)
        PROVE  Stays
    BY <1>1, <1>2, <1>3 DEF Land
  <1>4. ASSUME NEW r \in Session, Duplicate(r) \/ Create(r) PROVE Stays
    <2>. HIDE DEF Stays
    <2>. QED BY <1>3, <1>4 DEF Duplicate, Create
  <1>5. ASSUME NEW r \in Session, Commit(r) PROVE Stays \/ Done
    <2>1. CASE LoseRace(r)
      BY <1>2, <2>1
    <2>2. CASE ~Conflict(r) /\ mem' = MergedMemories(r) /\ Finish(r)
      <3>1. CASE r = s
        BY <1>5, <2>2, <3>1 DEF Commit
      <3>2. CASE r # s
        BY <1>1, <2>2, <3>2 DEF Finish
      <3>. QED BY <3>1, <3>2
    <2>. QED BY <1>5, <2>1, <2>2 DEF Commit
  <1>6. ASSUME NEW r \in Session,
               \/ Remember(r) \/ FindTargets(r) \/ ResolveCitations(r) \/ EnsureExist(r)
               \/ ReadClosed(r) \/ Begin(r) \/ CascadeDocuments(r) \/ ExpandChains(r)
               \/ ForgetSoft(r) \/ ForgetPurge(r) \/ ReturnError(r)
        PROVE  Stays
    BY <1>1, <1>6 DEF Remember, FindTargets, ResolveCitations, EnsureExist, ReadClosed,
              Begin, CascadeDocuments, ExpandChains, ForgetSoft, ForgetPurge, ReturnError,
              Finish, Fail, Refuse
  <1>7. ASSUME PruneExpired \/ Reinforce \/ Tick \/ UNCHANGED vars PROVE Stays
    BY <1>1, <1>7 DEF PruneExpired, Reinforce, Tick, vars
  <1>8. Stays \/ Done
    <2>. HIDE DEF Stays, Done
    <2>. QED BY <1>4, <1>5, <1>6, <1>7 DEF Next, CallStep
  <1>. QED BY <1>1, <1>8

\* A commit writes the rows its statements changed, over rows nobody touched.
LEMMA MergedRow ==
    ASSUME NEW s \in Session, ~Conflict(s), mem' = MergedMemories(s), NEW m \in MemId
    PROVE  \/ work[s][m] # snap[s][m] /\ mem[m] = snap[s][m] /\ mem'[m] = work[s][m]
           \/ work[s][m] = snap[s][m] /\ mem'[m] = mem[m]
  BY DEF MergedMemories, Conflict

ReportInv == LinkInv /\ Accounts /\ FilteredStayClosed

\* The report of a batch and the rows it closes, at the step that lands it.
LEMMA CommitReport ==
    ASSUME ReportInv, [Next]_vars, NEW s \in Session, Committed(s)
    PROVE  /\ {m \in MemId : Live(mem, m) /\ ~Live(mem', m)} = Superseded(s)
           /\ \A i \in DOMAIN out[s] : \A m \in targets[s][i] \ {out[s][i].id} :
                 mem'[m].superseded_by = out[s][i].id
           /\ \A m \in Asked(batch[s]) :
                 Live(mem', m) => \E i \in DOMAIN out[s] : out[s][i].id = m
  <1>. DEFINE o == snap[s]
              w == work[s]
              T == targets[s]
              q == out[s]
  <1>1. pc[s] = "statement" /\ TypeInv /\ WritesOnlyOpenRows
    BY DEF Committed, ReportInv, LinkInv
  <1>2. /\ Len(q) = Len(batch[s].memories)
        /\ ~Conflict(s) /\ mem' = MergedMemories(s)
    BY <1>1, CommitStep
  <1>3. Account(o, w, batch[s], T, q)
    BY <1>1 DEF ReportInv, Accounts
  <1>4. /\ DOMAIN q = DOMAIN T /\ DOMAIN q = DOMAIN batch[s].memories
        /\ \A i \in DOMAIN T : T[i] \subseteq MemId
    <2>1. /\ batch[s].memories \in Seq(Entry) /\ out[s] \in Seq(Written)
          /\ targets[s] \in Seq(SUBSET MemId) /\ Len(targets[s]) = Len(batch[s].memories)
      BY <1>1, StatementFacts DEF ReportInv
    <2>. QED BY <1>2, <2>1
  <1>5. ASSUME NEW m \in MemId
        PROVE  \/ w[m] # o[m] /\ mem[m] = o[m] /\ mem'[m] = w[m]
               \/ w[m] = o[m] /\ mem'[m] = mem[m]
    BY <1>2, <1>5, MergedRow
  <1>6. ASSUME NEW m \in MemId, Retired(o, w, m)
        PROVE  /\ Live(mem, m) /\ ~Live(mem', m)
               /\ mem'[m].superseded_by = w[m].superseded_by
    <2>1. w[m] # o[m]
      BY <1>6 DEF Retired, Live
    <2>. QED BY <1>5, <1>6, <2>1 DEF Retired, Live, Stored
  <1>7. ASSUME NEW i \in DOMAIN q, NEW m \in Replaces(T, q, i)
        PROVE  m \in MemId /\ Retired(o, w, m) /\ w[m].superseded_by = q[i].id
    BY <1>3, <1>4, <1>7 DEF Account, ReportAccounted, Replaces
  <1>8. ASSUME NEW i \in DOMAIN q
        PROVE  (IF q[i].created THEN T[i] ELSE T[i] \ {q[i].id}) = Replaces(T, q, i)
    BY <1>3, <1>8 DEF Account, ReportAccounted, Replaces
  <1>9. Superseded(s) = UNION {Replaces(T, q, i) : i \in DOMAIN q}
    BY <1>8 DEF Superseded
  <1>10. ASSUME NEW m \in MemId, Live(mem, m), ~Live(mem', m)
         PROVE  Retired(o, w, m)
    <2>1. w[m] # o[m] /\ mem[m] = o[m] /\ mem'[m] = w[m]
      BY <1>5, <1>10 DEF Live, Stored
    <2>. QED BY <1>3, <1>10, <2>1 DEF Account, RowsAccounted, Minted, Live, Stored
  <1>. HIDE DEF o, w, T, q
  <1>11. {m \in MemId : Live(mem, m) /\ ~Live(mem', m)} = Superseded(s)
    <2>1. ASSUME NEW m \in MemId, Live(mem, m), ~Live(mem', m) PROVE m \in Superseded(s)
      BY <1>3, <1>9, <1>10, <2>1 DEF Account, ClosesReported
    <2>2. ASSUME NEW m \in Superseded(s) PROVE m \in MemId /\ Live(mem, m) /\ ~Live(mem', m)
      BY <1>6, <1>7, <1>9, <2>2
    <2>. QED BY <2>1, <2>2
  <1>12. ASSUME NEW i \in DOMAIN q, NEW m \in T[i] \ {q[i].id}
         PROVE  mem'[m].superseded_by = q[i].id
    BY <1>6, <1>7, <1>12 DEF Replaces
  <1>13. ASSUME NEW m \in Asked(batch[s]), Live(mem', m)
         PROVE  \E i \in DOMAIN q : q[i].id = m
    <2>1. PICK i \in DOMAIN batch[s].memories : m \in batch[s].memories[i].supersedes
      BY <1>13 DEF Asked
    <2>2. m \in MemId
      BY <1>1, <1>13, AskedType DEF TypeInv, TypeOK
    <2>3. m \in T[i]
      <3>1. ASSUME m \notin T[i] PROVE FALSE
        <4>1. mem[m].status # "unused" /\ ~Live(mem, m)
          BY <1>1, <2>1, <3>1 DEF ReportInv, FilteredStayClosed, T
        <4>. QED BY <1>1, <1>13, <2>2, <4>1, ClosedStays
      <3>. QED BY <3>1
    <2>4. m \notin Replaces(T, q, i)
      BY <1>4, <1>6, <1>7, <1>13, <2>1, <2>2
    <2>. QED BY <1>4, <2>1, <2>3, <2>4 DEF Replaces
  <1>. QED BY <1>11, <1>12, <1>13 DEF T, q

\* The invariant the report rests on holds throughout.
LEMMA ReportInvariant == Spec => []ReportInv
  <1>1. Init => ReportInv
    <2>1. ASSUME Init PROVE SnapshotsAge /\ WorkLinksInSpace /\ LinksStayInSpace
      BY <2>1, EmptyTable DEF Init, SnapshotsAge, WorkLinksInSpace, LinksStayInSpace
    <2>2. Init => TargetsHeld /\ WritesOnlyOpenRows
      BY DEF Init, TargetsHeld, Checked, WritesOnlyOpenRows
    <2>3. Init => Accounts /\ FilteredStayClosed
      BY DEF Init, Accounts, FilteredStayClosed
    <2>. QED BY <2>1, <2>2, <2>3, InitType DEF ReportInv, LinkInv
  <1>2. ReportInv /\ [Next]_vars => ReportInv'
    <2>1. LinkInv /\ [Next]_vars => LinkInv'
      BY TypeStep, WritesStep, SnapshotsAgeStep, TargetsHeldStep, WorkLinksStep, LinksStep
         DEF LinkInv
    <2>. QED BY <2>1, AccountsStep, FilteredStep DEF ReportInv
  <1>. QED BY <1>1, <1>2, PTL DEF Spec

\* For every batch and every interleaving, on either kind of engine: the rows
\* a batch closes when it lands (repo::insert_batch) are exactly those its
\* BatchOutcome.superseded names, each in favour of the row reported for its
\* entry, and no target it was given is left live behind the caller's back.
THEOREM ReportIsExact == Spec => ReportMatchesCloses
  <1>. DEFINE Told ==
         \A s \in Session : Committed(s) =>
           /\ {m \in MemId : Live(mem, m) /\ ~Live(mem', m)} = Superseded(s)
           /\ \A i \in DOMAIN out[s] : \A m \in targets[s][i] \ {out[s][i].id} :
                 mem'[m].superseded_by = out[s][i].id
           /\ \A m \in Asked(batch[s]) :
                 Live(mem', m) => \E i \in DOMAIN out[s] : out[s][i].id = m
  <1>1. ReportInv /\ [Next]_vars => [Told]_vars
    BY CommitReport
  <1>. QED BY <1>1, ReportInvariant, PTL DEF Spec, ReportMatchesCloses

\* The row reported for an entry, at the step that lands the batch.
LEMMA CommitHolds ==
    ASSUME ReadsValidated, ReportInv, [Next]_vars, NEW s \in Session, Committed(s),
           NEW i \in DOMAIN out[s]
    PROVE  LET r == mem'[out[s][i].id]
           IN  /\ r.status = "stored"
               /\ r.space = batch[s].space
               /\ r.content_hash = batch[s].memories[i].content_hash
               /\ r.invalid_at = None \/ out[s][i].id \in Superseded(s)
  <1>. DEFINE o == snap[s]
              w == work[s]
              id == out[s][i].id
              h == batch[s].memories[i].content_hash
  <1>1. pc[s] = "statement" /\ TypeInv
    BY DEF Committed, ReportInv, LinkInv
  <1>2. /\ Len(out[s]) = Len(batch[s].memories)
        /\ ~Conflict(s) /\ mem' = MergedMemories(s)
    BY <1>1, CommitStep
  <1>3. /\ id \in MemId /\ Stored(w, id) /\ w[id].space = batch[s].space
        /\ w[id].content_hash = h
        /\ o[id].status = "unused" \/ Live(o, id)
    BY <1>1 DEF ReportInv, Accounts, Account, ReportAccounted
  <1>4. i \in DOMAIN batch[s].memories
    BY <1>1, <1>2, StatementFacts DEF ReportInv
  <1>5. CASE w[id] # o[id]
    <2>1. mem[id] = o[id] /\ mem'[id] = w[id]
      BY <1>2, <1>3, <1>5, MergedRow
    <2>2. Minted(o, w, id) \/ Retired(o, w, id)
      BY <1>1, <1>3, <1>5 DEF ReportInv, Accounts, Account, RowsAccounted
    <2>3. ASSUME Retired(o, w, id) PROVE id \in Superseded(s)
      <3>1. Live(mem, id) /\ ~Live(mem', id)
        BY <2>1, <2>3 DEF Retired, Live, Stored
      <3>. QED BY <1>3, <3>1, CommitReport
    <2>. HIDE DEF o, w, id, h
    <2>. QED BY <1>3, <2>1, <2>2, <2>3 DEF Minted, Live, Stored, id, h
  <1>6. CASE w[id] = o[id]
    <2>1. mem'[id] = mem[id]
      BY <1>2, <1>3, <1>6, MergedRow
    <2>2. id \in LiveHolders(o, batch[s].space, h)
      BY <1>3, <1>6 DEF LiveHolders, Stored
    <2>3. LiveHolders(mem, batch[s].space, h) = LiveHolders(o, batch[s].space, h)
      BY <1>2, <1>4 DEF Conflict
    <2>4. Live(mem, id) /\ mem[id].space = batch[s].space /\ mem[id].content_hash = h
      BY <2>2, <2>3 DEF LiveHolders
    <2>. QED BY <2>1, <2>4 DEF Live, Stored
  <1>. QED BY <1>5, <1>6

\* Where the engine validates reads at commit, the row a batch reports for an
\* entry, created or found as a duplicate, is there when the caller hears of
\* it: it holds the entry's content in the batch's space, and it is live
\* unless the same batch reports having closed it.
THEOREM ReportedRowsAreThere ==
    ASSUME ReadsValidated
    PROVE  Spec => ReportedRowsHold
  <1>. DEFINE Held ==
         \A s \in Session : Committed(s) =>
           \A i \in DOMAIN out[s] :
              LET r == mem'[out[s][i].id]
              IN  /\ r.status = "stored"
                  /\ r.space = batch[s].space
                  /\ r.content_hash = batch[s].memories[i].content_hash
                  /\ r.invalid_at = None \/ out[s][i].id \in Superseded(s)
  <1>1. ReportInv /\ [Next]_vars => [Held]_vars
    BY CommitHolds
  <1>. QED BY <1>1, ReportInvariant, PTL DEF Spec, ReportedRowsHold

-----------------------------------------------------------------------------
(***************************************************************************)
(* The refinement.  Each lemma reads one kind of row change as a change of *)
(* the ledger's claim; the commit of a batch is then a Write because its   *)
(* account says that every row it changed was minted or retired.           *)
(***************************************************************************)

\* A row whose claim did not change.
LEMMA LedgerSame ==
    ASSUME NEW m \in MemId,
           mem'[m].status = mem[m].status, mem'[m].space = mem[m].space,
           mem'[m].content_hash = mem[m].content_hash,
           mem'[m].invalid_at = mem[m].invalid_at,
           mem'[m].invalid_reason = mem[m].invalid_reason,
           mem'[m].superseded_by = mem[m].superseded_by
    PROVE  Ledger!Same(m)
  BY DEF Ledger!Same, Live, Stored

\* A row a batch created.
LEMMA LedgerRecorded ==
    ASSUME NEW m \in MemId, Minted(mem, mem', m)
    PROVE  Ledger!Recorded(m)
  BY DEF Ledger!Recorded, Minted, Live, Stored

\* A live row that was closed.
LEMMA LedgerClosed ==
    ASSUME NEW m \in MemId, NEW reason, Live(mem, m), Stored(mem', m),
           mem'[m].invalid_at # None, mem'[m].invalid_reason = reason,
           mem'[m].space = mem[m].space, mem'[m].content_hash = mem[m].content_hash
    PROVE  Ledger!ClosedAs(m, reason)
  BY DEF Ledger!ClosedAs, Live, Stored

\* A row closed by a forget or a sweep.
LEMMA LedgerDropped ==
    ASSUME NEW m \in MemId, NEW reason, Ledger!ClosedAs(m, reason),
           mem'[m].superseded_by = None
    PROVE  Ledger!Dropped(m, reason)
  BY DEF Ledger!Dropped

\* A row a purge deleted.
LEMMA LedgerErased ==
    ASSUME NEW m \in MemId, Stored(mem, m), mem'[m] = DeletedMemory
    PROVE  Ledger!Erased(m)
  BY DEF Ledger!Erased, Ledger!Gone, Ledger!Absent, DeletedMemory, NoMemory, Live, Stored

\* A row closed in favour of another.
LEMMA LedgerReplaced ==
    ASSUME mem' \in MemoryTable, LinksInSpace(mem'),
           NEW m \in MemId, Stored(mem', m), Ledger!ClosedAs(m, "superseded"),
           mem'[m].superseded_by # None
    PROVE  Ledger!Replaced(m)
  <1>. DEFINE n == mem'[m].superseded_by
  <1>1. n \in MemId /\ LinkInSpace(mem', m, n)
    BY DEF LinksInSpace, Links, MemoryTable, MemoryRow
  <1>2. n # m /\ mem'[n].status # "unused" /\ (Stored(mem', n) => mem'[n].space = mem'[m].space)
    BY <1>1 DEF LinkInSpace
  <1>3. mem'[n].status \in {"unused", "stored", "purged"}
    BY <1>1 DEF MemoryTable, MemoryRow
  <1>. QED BY <1>1, <1>2, <1>3 DEF Ledger!Replaced, Live, Stored

\* One live claim per content, read off the ledger.
LEMMA LedgerOneLive ==
    ASSUME UniqueMemories(mem')
    PROVE  Ledger!OneLive'
  BY DEF UniqueMemories, DedupKey, Ledger!OneLive, Live, Stored

\* The things a step can do to the committed memories, each with its reason.
LEMMA StoreStep ==
    ASSUME TypeInv, [Next]_vars
    PROVE  \/ mem' = mem
           \/ \E s \in Session : /\ pc[s] = "statement"
                                 /\ Len(out[s]) = Len(batch[s].memories)
                                 /\ ~Conflict(s) /\ mem' = MergedMemories(s)
           \/ \E ids : mem' = Close(mem, ids, now, "forgotten", None)
           \/ \E ids : mem' = Close(mem, ids, now, "expired", None)
           \/ \E ids : mem' = [m \in MemId |->
                                IF m \in ids /\ Stored(mem, m) THEN DeletedMemory ELSE mem[m]]
           \/ \E m \in MemId : mem' = [mem EXCEPT ![m].access_count = @ + 1]
  <1>1. ASSUME NEW s \in Session, LoseRace(s) \/ Throw(s) PROVE mem' = mem
    BY <1>1 DEF LoseRace, Throw, tables
  <1>2. ASSUME NEW s \in Session, NEW old, NEW table, NEW by, NEW created,
               Land(s, old, table, by, created)
        PROVE  mem' = mem
    BY <1>1, <1>2 DEF Land, tables
  <1>3. ASSUME NEW s \in Session, Duplicate(s) \/ Create(s) PROVE mem' = mem
    BY <1>2, <1>3 DEF Duplicate, Create
  <1>4. ASSUME NEW s \in Session, Commit(s)
        PROVE  \/ mem' = mem
               \/ /\ pc[s] = "statement" /\ Len(out[s]) = Len(batch[s].memories)
                  /\ ~Conflict(s) /\ mem' = MergedMemories(s)
    BY <1>1, <1>4 DEF Commit
  <1>5. ASSUME NEW s \in Session,
               \/ Remember(s) \/ FindTargets(s) \/ ResolveCitations(s) \/ EnsureExist(s)
               \/ ReadClosed(s) \/ Begin(s) \/ CascadeDocuments(s) \/ ExpandChains(s)
               \/ ReturnError(s)
        PROVE  mem' = mem
    BY <1>5 DEF Remember, FindTargets, ResolveCitations, EnsureExist, ReadClosed, Begin,
                CascadeDocuments, ExpandChains, ReturnError, tables
  <1>6. ASSUME NEW s \in Session, ForgetSoft(s)
        PROVE  mem' = mem \/ \E ids : mem' = Close(mem, ids, now, "forgotten", None)
    BY <1>6 DEF ForgetSoft
  <1>7. ASSUME NEW s \in Session, ForgetPurge(s)
        PROVE  \E ids : mem' = [m \in MemId |->
                              IF m \in ids /\ Stored(mem, m) THEN DeletedMemory ELSE mem[m]]
    <2>. DEFINE ids == {m \in wipe[s].memories : mem[m].space \in wipe[s].spaces}
    <2>1. mem' = [m \in MemId |->
                    IF m \in ids /\ Stored(mem, m) THEN DeletedMemory ELSE mem[m]]
      BY <1>7 DEF ForgetPurge
    <2>. QED BY <2>1
  <1>8. ASSUME PruneExpired
        PROVE  \E ids : mem' = Close(mem, ids, now, "expired", None)
    BY <1>8 DEF PruneExpired
  <1>9. ASSUME Reinforce
        PROVE  \E m \in MemId : mem' = [mem EXCEPT ![m].access_count = @ + 1]
    BY <1>9 DEF Reinforce
  <1>10. ASSUME Tick \/ UNCHANGED vars PROVE mem' = mem
    BY <1>10 DEF Tick, vars, tables
  <1>11. CASE \E s \in Session : ForgetSoft(s)
    BY <1>6, <1>11
  <1>12. CASE \E s \in Session : ForgetPurge(s)
    BY <1>7, <1>12
  <1>13. CASE PruneExpired
    BY <1>8, <1>13
  <1>14. CASE \E s \in Session : Commit(s)
    BY <1>4, <1>14
  <1>15. CASE mem' = mem
    BY <1>15
  <1>16. CASE Reinforce
    BY <1>9, <1>16
  <1>. QED
    BY <1>3, <1>5, <1>10, <1>11, <1>12, <1>13, <1>14, <1>15, <1>16 DEF Next, CallStep

\* Every step of the store is a step of the ledger.
LEMMA LedgerStep ==
    ASSUME ReportInv, [Next]_vars
    PROVE  Ledger!Step
  <1>1. TypeInv /\ mem \in MemoryTable /\ now \in Time
    BY DEF ReportInv, LinkInv, TypeInv, TypeOK
  <1>2. mem' \in MemoryTable /\ LinksInSpace(mem')
    <2>1. TypeInv'
      BY <1>1, TypeStep
    <2>2. LinksStayInSpace'
      BY LinksStep DEF ReportInv, LinkInv
    <2>. QED BY <2>1, <2>2 DEF TypeInv, TypeOK, LinksStayInSpace, LinksInSpace, LinkInSpace,
                               Links, Stored
  <1>3. now # None
    BY <1>1, StoreAssumption
  <1>4. ASSUME NEW m \in MemId, mem'[m] = mem[m] PROVE Ledger!Same(m)
    BY <1>4, LedgerSame
  <1>5. ASSUME NEW s \in Session, pc[s] = "statement", ~Conflict(s), mem' = MergedMemories(s)
        PROVE  Ledger!Write
    <2>. DEFINE o == snap[s]
                w == work[s]
    <2>1. Account(o, w, batch[s], targets[s], out[s])
      BY <1>5 DEF ReportInv, Accounts
    <2>2. ASSUME NEW m \in MemId
          PROVE  Ledger!Same(m) \/ Ledger!Recorded(m) \/ Ledger!Replaced(m)
      <3>1. CASE w[m] = o[m] /\ mem'[m] = mem[m]
        BY <1>4, <3>1
      <3>2. CASE w[m] # o[m] /\ mem[m] = o[m] /\ mem'[m] = w[m]
        <4>1. CASE Minted(o, w, m)
          <5>1. Minted(mem, mem', m)
            BY <3>2, <4>1 DEF Minted, Live, Stored
          <5>. QED BY <5>1, LedgerRecorded
        <4>2. CASE Retired(o, w, m)
          <5>1. PICK i \in DOMAIN out[s] : m \in Replaces(targets[s], out[s], i)
            BY <2>1, <4>2 DEF Account, ClosesReported
          <5>2. w[m].superseded_by = out[s][i].id /\ out[s][i].id \in MemId
            BY <2>1, <5>1 DEF Account, ReportAccounted
          <5>3. mem'[m].superseded_by # None
            BY <3>2, <5>2, StoreAssumption
          <5>4. /\ Live(mem, m) /\ Stored(mem', m) /\ mem'[m].invalid_at # None
                /\ mem'[m].invalid_reason = "superseded"
                /\ mem'[m].space = mem[m].space /\ mem'[m].content_hash = mem[m].content_hash
            BY <3>2, <4>2 DEF Retired, Live, Stored
          <5>5. Ledger!ClosedAs(m, "superseded")
            BY <5>4, LedgerClosed
          <5>. QED BY <1>2, <5>3, <5>4, <5>5, LedgerReplaced
        <4>. QED BY <2>1, <3>2, <4>1, <4>2 DEF Account, RowsAccounted
      <3>. QED BY <1>5, <3>1, <3>2, MergedRow
    <2>3. UniqueMemories(mem')
      BY <1>5 DEF Conflict
    <2>. QED BY <2>2, <2>3, LedgerOneLive DEF Ledger!Write
  <1>6. ASSUME NEW ids, NEW reason, mem' = Close(mem, ids, now, reason, None), NEW m \in MemId
        PROVE  Ledger!Same(m) \/ Ledger!Dropped(m, reason)
    <2>1. CASE ~(m \in ids /\ Live(mem, m))
      BY <1>1, <1>4, <1>6, <2>1, CloseRow
    <2>2. CASE m \in ids /\ Live(mem, m)
      <3>1. /\ mem'[m].status = mem[m].status /\ mem'[m].space = mem[m].space
            /\ mem'[m].content_hash = mem[m].content_hash /\ mem'[m].invalid_at = now
            /\ mem'[m].invalid_reason = reason /\ mem'[m].superseded_by = None
        BY <1>1, <1>6, <2>2, CloseRow
      <3>2. Ledger!ClosedAs(m, reason)
        BY <1>3, <2>2, <3>1, LedgerClosed DEF Live, Stored
      <3>. QED BY <3>1, <3>2, LedgerDropped
    <2>. QED BY <2>1, <2>2
  <1>7. ASSUME NEW ids, mem' = [m \in MemId |->
                   IF m \in ids /\ Stored(mem, m) THEN DeletedMemory ELSE mem[m]],
               NEW m \in MemId
        PROVE  Ledger!Same(m) \/ Ledger!Erased(m)
    BY <1>4, <1>7, LedgerErased
  <1>8. ASSUME NEW n \in MemId, mem' = [mem EXCEPT ![n].access_count = @ + 1], NEW m \in MemId
        PROVE  Ledger!Same(m)
    <2>1. /\ mem'[m].status = mem[m].status /\ mem'[m].space = mem[m].space
          /\ mem'[m].content_hash = mem[m].content_hash
          /\ mem'[m].invalid_at = mem[m].invalid_at
          /\ mem'[m].invalid_reason = mem[m].invalid_reason
          /\ mem'[m].superseded_by = mem[m].superseded_by
      BY <1>1, <1>8 DEF MemoryTable, MemoryRow
    <2>. QED BY <2>1, LedgerSame
  <1>9. CASE mem' = mem
    BY <1>4, <1>9 DEF Ledger!Step, Ledger!Forget
  <1>10. CASE \E s \in Session : /\ pc[s] = "statement"
                                 /\ Len(out[s]) = Len(batch[s].memories)
                                 /\ ~Conflict(s) /\ mem' = MergedMemories(s)
    BY <1>5, <1>10 DEF Ledger!Step
  <1>11. CASE \E ids : mem' = Close(mem, ids, now, "forgotten", None)
    BY <1>6, <1>11 DEF Ledger!Step, Ledger!Forget
  <1>12. CASE \E ids : mem' = Close(mem, ids, now, "expired", None)
    BY <1>6, <1>12 DEF Ledger!Step, Ledger!Expire
  <1>13. CASE \E ids : mem' = [m \in MemId |->
                          IF m \in ids /\ Stored(mem, m) THEN DeletedMemory ELSE mem[m]]
    BY <1>7, <1>13 DEF Ledger!Step, Ledger!Purge
  <1>14. CASE \E m \in MemId : mem' = [mem EXCEPT ![m].access_count = @ + 1]
    BY <1>8, <1>14 DEF Ledger!Step, Ledger!Forget
  <1>. QED BY <1>1, <1>9, <1>10, <1>11, <1>12, <1>13, <1>14, StoreStep, Zenon

\* The store implements the ledger for any number of writers, whichever of the
\* two conflict rules its engine has: every commit, forget, sweep and purge is
\* one step of ClaimLedger, and nothing else changes a claim.
THEOREM StoreImplementsLedger == Spec => LedgerSpec
  <1>1. Init => Ledger!Init
    BY DEF Init, NoMemories, NoMemory, Ledger!Init, Ledger!Absent, Live, Stored
  <1>2. ReportInv /\ [Next]_vars => Ledger!Step
    BY LedgerStep
  <1>. QED BY <1>1, <1>2, ReportInvariant, PTL DEF Spec, LedgerSpec, Ledger!Spec

-----------------------------------------------------------------------------
(***************************************************************************)
(* The history does not loop.  The history walk is a recursive function of *)
(* its depth; two facts about it are needed, and both go by the least      *)
(* number at which they could fail: that there is such a function, and     *)
(* that it stays inside any set closed under superseded_by.                *)
(***************************************************************************)


\* A set of naturals that is not empty has a least member.
LEMMA LeastNat ==
    ASSUME NEW T \in SUBSET Nat, T # {}
    PROVE  \E x \in T : \A y \in T : ~(y < x)
  <1>. DEFINE R == OpToRel(<, Nat)
  <1>1. IsWellFoundedOn(R, Nat)
    BY NatLessThanWellFounded
  <1>2. \E x \in T : \A y \in T : <<y, x>> \notin R
    <2>. HIDE DEF R
    <2>. QED BY <1>1, WFMin
  <1>. QED BY <1>2 DEF OpToRel

\* What holds at 0 and passes from each number to the next holds of them all:
\* Z is the set of numbers it holds of.
LEMMA NatSteps ==
    ASSUME NEW Z \in SUBSET Nat, 0 \in Z, \A n \in Z : n + 1 \in Z
    PROVE  Z = Nat
  <1>. SUFFICES ASSUME Z # Nat PROVE FALSE
    OBVIOUS
  <1>1. PICK x \in Nat \ Z : \A y \in Nat \ Z : ~(y < x)
    BY LeastNat
  <1>2. x # 0 /\ x - 1 \in Nat /\ x - 1 \in Z
    BY <1>1
  <1>. QED BY <1>1, <1>2

\* Nowhere does following superseded_by stay inside a set for ever.
NoLoop(t) ==
    \A S \in SUBSET MemId : S # {} => \E m \in S : t[m].superseded_by \notin S

\* A row that is not closed has no successor.
OpenUnlinked(t) ==
    \A m \in MemId : t[m].status = "unused" \/ Live(t, m) => t[m].superseded_by = None

\* Every successor of a member of T is in T.
Onward(t, T) == \A m \in T : t[m].superseded_by \in T \cup {None}

\* Walking on from a row, level by level.
WalksOn(t, n, reach) ==
    /\ Successors(t, n) = reach[MaxChain]
    /\ \A d \in 0..MaxChain :
          reach[d] = IF d = 0 THEN {n} ELSE reach[d - 1] \cup Later(t, reach[d - 1])

\* There is such a walk: it is built one level at a time.
LEMMA WalkExists ==
    ASSUME NEW t, NEW n
    PROVE  \E reach : WalksOn(t, n, reach)
  <1>. DEFINE F(f, k) == [d \in 0..k |-> IF d = 0 THEN {n} ELSE f[d - 1] \cup Later(t, f[d - 1])]
              Z == {k \in Nat : \E f : f = F(f, k)}
  <1>1. 0 \in Z
    <2>1. [d \in 0..0 |-> {n}] = F([d \in 0..0 |-> {n}], 0)
      OBVIOUS
    <2>. QED BY <2>1
  <1>2. ASSUME NEW k \in Z PROVE k + 1 \in Z
    <2>1. PICK f : f = F(f, k)
      BY <1>2
    <2>. DEFINE g == [d \in 0..(k + 1) |-> IF d <= k THEN f[d] ELSE f[k] \cup Later(t, f[k])]
    <2>2. ASSUME NEW d \in 0..(k + 1)
          PROVE  g[d] = IF d = 0 THEN {n} ELSE g[d - 1] \cup Later(t, g[d - 1])
      <3>1. CASE d = 0
        BY <1>2, <2>1, <3>1
      <3>2. CASE d # 0 /\ d <= k
        <4>1. d - 1 \in 0..k /\ d \in 0..k /\ g[d] = f[d] /\ g[d - 1] = f[d - 1]
          BY <1>2, <3>2
        <4>2. f[d] = f[d - 1] \cup Later(t, f[d - 1])
          BY <2>1, <3>2, <4>1
        <4>. QED BY <3>2, <4>1, <4>2
      <3>3. CASE d = k + 1
        <4>1. g[d] = f[k] \cup Later(t, f[k]) /\ g[d - 1] = f[k] /\ d # 0
          BY <1>2, <3>3
        <4>. QED BY <4>1
      <3>. QED BY <1>2, <3>1, <3>2, <3>3
    <2>3. g = F(g, k + 1)
      BY <2>2
    <2>4. k + 1 \in Nat /\ \E f1 : f1 = F(f1, k + 1)
      <3>. HIDE DEF g
      <3>. QED BY <1>2, <2>3
    <2>. QED BY <2>4
  <1>3. MaxChain \in Z
    <2>. HIDE DEF Z
    <2>1. Z \in SUBSET Nat
      BY DEF Z
    <2>. QED BY <1>1, <1>2, <2>1, NatSteps, StoreAssumption
  <1>. DEFINE reach == CHOOSE f : f = F(f, MaxChain)
  <1>4. reach = F(reach, MaxChain)
    BY <1>3, Zenon
  <1>5. Successors(t, n) = reach[MaxChain]
    BY Zenon DEF Successors
  <1>. HIDE DEF reach
  <1>6. \A d \in 0..MaxChain :
           reach[d] = IF d = 0 THEN {n} ELSE reach[d - 1] \cup Later(t, reach[d - 1])
    BY <1>4
  <1>. QED BY <1>5, <1>6 DEF WalksOn

\* The walk along superseded_by, to any depth, stays in such a set.
LEMMA WalkStays ==
    ASSUME NEW t, NEW n, NEW T, n \in T, Onward(t, T)
    PROVE  Successors(t, n) \subseteq T
  <1>1. PICK reach : WalksOn(t, n, reach)
    BY WalkExists
  <1>2. Successors(t, n) = reach[MaxChain]
    BY <1>1 DEF WalksOn
  <1>3. \A d \in 0..MaxChain :
           reach[d] = IF d = 0 THEN {n} ELSE reach[d - 1] \cup Later(t, reach[d - 1])
    BY <1>1 DEF WalksOn
  <1>. DEFINE Y == {d \in Nat : d \in 0..MaxChain => reach[d] \subseteq T}
  <1>4. 0 \in Y
    BY <1>3
  <1>5. ASSUME NEW d \in Y PROVE d + 1 \in Y
    <2>1. ASSUME d + 1 \in 0..MaxChain PROVE reach[d + 1] \subseteq T
      <3>1. d \in 0..MaxChain /\ reach[d] \subseteq T
        <4>1. d \in Nat /\ MaxChain \in Nat
          BY <1>5, StoreAssumption
        <4>2. d \in 0..MaxChain
          BY <2>1, <4>1
        <4>. QED BY <1>5, <4>2
      <3>2. reach[d + 1] = reach[d] \cup Later(t, reach[d])
        <4>1. d + 1 # 0 /\ (d + 1) - 1 = d
          BY <1>5
        <4>2. reach[d + 1] = reach[(d + 1) - 1] \cup Later(t, reach[(d + 1) - 1])
          BY <1>3, <2>1, <4>1
        <4>. QED BY <4>1, <4>2
      <3>3. Later(t, reach[d]) \subseteq T
        BY <3>1 DEF Later, Onward
      <3>. QED BY <3>1, <3>2, <3>3
    <2>. QED BY <1>5, <2>1
  <1>6. MaxChain \in Y
    <2>. HIDE DEF Y
    <2>1. Y \in SUBSET Nat
      BY DEF Y
    <2>. QED BY <1>4, <1>5, <2>1, NatSteps, StoreAssumption
  <1>. QED BY <1>2, <1>6, StoreAssumption

\* A table without loops has no row among its own successors.
LEMMA NoLoopWalk ==
    ASSUME NEW t \in MemoryTable, NoLoop(t), NEW m \in MemId, t[m].superseded_by # None
    PROVE  m \notin Successors(t, t[m].superseded_by)
  <1>. DEFINE n == t[m].superseded_by
              U == {x \in MemId : \A T \in SUBSET MemId : x \in T /\ Onward(t, T) => m \in T}
  <1>1. \A x \in MemId : t[x].superseded_by \in MemId \cup {None}
    BY DEF MemoryTable, MemoryRow
  <1>2. n \notin U
    <2>. SUFFICES ASSUME n \in U PROVE FALSE
      OBVIOUS
    <2>1. ASSUME NEW x \in U PROVE t[x].superseded_by \in U
      <3>. DEFINE y == t[x].superseded_by
      <3>1. CASE x = m
        BY <3>1
      <3>2. CASE x # m
        <4>1. y # None
          <5>1. ASSUME y = None PROVE FALSE
            <6>1. {x} \in SUBSET MemId /\ Onward(t, {x}) /\ m \notin {x}
              BY <2>1, <3>2, <5>1 DEF Onward
            <6>. QED BY <2>1, <6>1
          <5>. QED BY <5>1
        <4>2. y \in MemId
          BY <1>1, <2>1, <4>1
        <4>3. ASSUME NEW T \in SUBSET MemId, y \in T, Onward(t, T) PROVE m \in T
          <5>1. T \cup {x} \in SUBSET MemId /\ Onward(t, T \cup {x})
            BY <2>1, <4>3 DEF Onward
          <5>2. m \in T \cup {x}
            BY <2>1, <5>1
          <5>. QED BY <3>2, <5>2
        <4>. QED BY <4>2, <4>3
      <3>. QED BY <3>1, <3>2
    <2>2. m \in U
      OBVIOUS
    <2>. HIDE DEF U
    <2>. QED BY <2>1, <2>2 DEF NoLoop, U
  <1>3. n \in MemId
    BY <1>1
  <1>4. PICK T \in SUBSET MemId : n \in T /\ Onward(t, T) /\ m \notin T
    BY <1>2, <1>3
  <1>5. Successors(t, n) \subseteq T
    BY <1>4, WalkStays
  <1>. QED BY <1>4, <1>5

\* Losing links makes no loop.
LEMMA NoLoopLess ==
    ASSUME NEW t, NEW u, NoLoop(t),
           \A m \in MemId : u[m].superseded_by \in {t[m].superseded_by, None}
    PROVE  NoLoop(u)
  <1>. SUFFICES ASSUME NEW S \in SUBSET MemId, S # {}, \A m \in S : u[m].superseded_by \in S
                PROVE  FALSE
    BY DEF NoLoop
  <1>1. \A m \in S : t[m].superseded_by \in S
    BY StoreAssumption
  <1>. QED BY <1>1 DEF NoLoop

\* Neither does closing rows in favour of a live one.
LEMMA CloseMakesNoLoop ==
    ASSUME NEW t \in MemoryTable, NoLoop(t), OpenUnlinked(t),
           NEW by \in MemId, Live(t, by), NEW old, by \notin old, NEW at \in Time
    PROVE  LET u == Close(t, old, at, "superseded", by) IN NoLoop(u) /\ OpenUnlinked(u)
  <1>. DEFINE u == Close(t, old, at, "superseded", by)
  <1>1. ASSUME NEW m \in MemId
        PROVE  /\ u[m].status = t[m].status
               /\ ~(m \in old /\ Live(t, m)) => u[m] = t[m]
               /\ m \in old /\ Live(t, m) =>
                     u[m].invalid_at = at /\ u[m].superseded_by = by
    BY CloseRow
  <1>. HIDE DEF u
  <1>2. at # None
    BY StoreAssumption
  <1>3. OpenUnlinked(u)
    BY <1>1, <1>2 DEF OpenUnlinked, Live, Stored
  <1>4. NoLoop(u)
    <2>. SUFFICES ASSUME NEW S \in SUBSET MemId, S # {}, \A m \in S : u[m].superseded_by \in S
                  PROVE  FALSE
      BY DEF NoLoop
    <2>1. by \notin S
      <3>1. u[by].superseded_by = None
        BY <1>1 DEF OpenUnlinked
      <3>. QED BY <3>1, StoreAssumption
    <2>2. \A m \in S : t[m].superseded_by \in S
      BY <1>1, <2>1
    <2>. QED BY <2>2 DEF NoLoop
  <1>. QED BY <1>3, <1>4 DEF u

NoLoops ==
    /\ NoLoop(mem) /\ OpenUnlinked(mem)
    /\ \A s \in Session : pc[s] = "statement" => NoLoop(work[s]) /\ OpenUnlinked(work[s])

\* A statement makes no loop in its transaction's table.
LEMMA StatementMakesNoLoop ==
    ASSUME LinkInv, NoLoops, [Next]_vars, NEW s \in Session, pc'[s] = "statement"
    PROVE  NoLoop(work'[s]) /\ OpenUnlinked(work'[s])
  <1>1. TypeInv /\ WritesOnlyOpenRows
    BY DEF LinkInv
  <1>2. CASE Begin(s)
    <2>1. work'[s] = mem
      BY <1>1, <1>2 DEF Begin, TypeInv, TypeOK
    <2>. QED BY <2>1 DEF NoLoops
  <1>3. CASE ~Begin(s)
    <2>. DEFINE n == Len(out[s]) + 1
                e == batch[s].memories[n]
    <2>1. pc[s] = "statement" /\ work[s] \in MemoryTable
      BY <1>1, <1>3, OpenStep DEF TypeInv, TypeOK
    <2>2. NoLoop(work[s]) /\ OpenUnlinked(work[s])
      BY <2>1 DEF NoLoops
    <2>3. ASSUME Len(out[s]) < Len(batch[s].memories)
          PROVE  /\ ValidFrom(s, e) \in Time
                 /\ \A m \in targets[s][n] : m \in MemId /\ snap[s][m].status # "unused"
      <3>1. n \in DOMAIN targets[s]
        BY <2>1, <2>3, StatementFacts
      <3>. QED BY <1>1, <2>1, <2>3, <3>1, StatementFacts, EntryType
    <2>4. CASE work'[s] = work[s]
      BY <2>2, <2>4
    <2>5. CASE DuplicateLands(s)
      <3>1. PICK dup \in LiveHolders(work[s], batch[s].space, e.content_hash) :
               Landed(s, targets[s][n] \ {dup}, work[s], dup, FALSE)
        BY <2>5 DEF DuplicateLands
      <3>2. dup \in MemId /\ Live(work[s], dup)
        BY <3>1 DEF LiveHolders
      <3>. DEFINE keep == targets[s][n] \ {dup}
      <3>3. /\ Len(out[s]) < Len(batch[s].memories)
            /\ work'[s] = Close(work[s], keep, ValidFrom(s, e), "superseded", dup)
        BY <3>1 DEF Landed
      <3>4. dup \notin keep
        OBVIOUS
      <3>. HIDE DEF keep, e
      <3>. QED BY <2>1, <2>2, <2>3, <3>2, <3>3, <3>4, CloseMakesNoLoop
    <2>6. CASE CreateLands(s)
      <3>. DEFINE old == targets[s][n]
      <3>1. PICK new \in MemId :
               /\ FreshMemory(new)
               /\ Landed(s, old, [work[s] EXCEPT ![new] = NewRow(s, e, old)], new, TRUE)
        BY <2>6 DEF CreateLands
      <3>. DEFINE v == [work[s] EXCEPT ![new] = NewRow(s, e, old)]
      <3>2. snap[s][new].status = "unused"
        BY <1>1, <3>1 DEF FreshMemory, WritesOnlyOpenRows
      <3>3. /\ Len(out[s]) < Len(batch[s].memories)
            /\ work'[s] = Close(v, old, ValidFrom(s, e), "superseded", new)
        BY <3>1 DEF Landed
      <3>4. v \in MemoryTable /\ v[new] = NewRow(s, e, old) /\ \A m \in MemId \ {new} : v[m] = work[s][m]
        BY <1>1, <2>1, <3>3, NewRowType DEF MemoryTable
      <3>5. new \notin old
        BY <2>3, <3>2, <3>3
      <3>6. v[new].status = "stored" /\ v[new].invalid_at = None /\ v[new].superseded_by = None
        BY <3>4 DEF NewRow
      <3>. HIDE DEF v, old, e
      <3>7. NoLoop(v)
        BY <2>2, <3>4, <3>6, NoLoopLess
      <3>8. OpenUnlinked(v) /\ Live(v, new)
        BY <2>2, <3>4, <3>6 DEF OpenUnlinked, Live, Stored
      <3>. QED BY <2>3, <3>3, <3>4, <3>5, <3>7, <3>8, CloseMakesNoLoop
    <2>. QED BY <1>1, <1>3, <2>4, <2>5, <2>6, WorkStep
  <1>. QED BY <1>2, <1>3

\* Nor does the commit, where the engine validates reads: a loop through rows
\* it wrote would lie in its own table, because the row a batch found live to
\* close others in favour of is then still live.
LEMMA CommitMakesNoLoop ==
    ASSUME ReadsValidated, ReportInv, NoLoops,
           NEW s \in Session, pc[s] = "statement", Len(out[s]) = Len(batch[s].memories),
           ~Conflict(s), mem' = MergedMemories(s)
    PROVE  NoLoop(mem') /\ OpenUnlinked(mem')
  <1>. DEFINE o == snap[s]
              w == work[s]
              q == out[s]
              T == targets[s]
              W == {m \in MemId : w[m] # o[m]}
  <1>1. NoLoop(w) /\ OpenUnlinked(w) /\ NoLoop(mem) /\ OpenUnlinked(mem)
    BY DEF NoLoops
  <1>2. Account(o, w, batch[s], T, q)
    BY DEF ReportInv, Accounts
  <1>3. ASSUME NEW m \in MemId
        PROVE  \/ m \in W /\ mem[m] = o[m] /\ mem'[m] = w[m]
               \/ m \notin W /\ w[m] = o[m] /\ mem'[m] = mem[m]
    BY <1>3, MergedRow
  <1>4. DOMAIN q = DOMAIN batch[s].memories
    BY StatementFacts DEF ReportInv
  <1>5. OpenUnlinked(mem')
    BY <1>1, <1>3 DEF OpenUnlinked, Live, Stored
  <1>6. ASSUME NEW m \in W, w[m].superseded_by # None,
               w[m].superseded_by \notin W
        PROVE  w[m].superseded_by \in MemId /\ mem'[w[m].superseded_by].superseded_by = None
    <2>1. Retired(o, w, m)
      BY <1>2, <1>6 DEF Account, RowsAccounted, Minted
    <2>2. PICK i \in DOMAIN q : m \in Replaces(T, q, i)
      BY <1>2, <1>6, <2>1 DEF Account, ClosesReported
    <2>. DEFINE d == q[i].id
                h == batch[s].memories[i].content_hash
    <2>3. /\ d \in MemId /\ Stored(w, d) /\ w[d].space = batch[s].space
          /\ w[d].content_hash = h /\ (o[d].status = "unused" \/ Live(o, d))
          /\ w[m].superseded_by = d
      BY <1>2, <2>2 DEF Account, ReportAccounted
    <2>4. w[d] = o[d] /\ mem'[d] = mem[d]
      BY <1>3, <1>6, <2>3
    <2>5. d \in LiveHolders(o, batch[s].space, h)
      BY <2>3, <2>4 DEF LiveHolders, Stored
    <2>6. LiveHolders(mem, batch[s].space, h) = LiveHolders(o, batch[s].space, h)
      BY <1>4, <2>2 DEF Conflict
    <2>7. Live(mem, d)
      BY <2>5, <2>6 DEF LiveHolders
    <2>. QED BY <1>1, <2>3, <2>4, <2>7 DEF OpenUnlinked
  <1>. HIDE DEF o, w, q, T
  <1>7. NoLoop(mem')
    <2>. SUFFICES ASSUME NEW S \in SUBSET MemId, S # {}, \A m \in S : mem'[m].superseded_by \in S
                  PROVE  FALSE
      BY DEF NoLoop
    <2>1. None \notin S
      BY StoreAssumption
    <2>2. ASSUME NEW m \in S \cap W PROVE w[m].superseded_by \in S \cap W
      <3>1. w[m].superseded_by \in S /\ w[m].superseded_by # None
        BY <1>3, <2>1, <2>2
      <3>. QED BY <1>6, <2>1, <2>2, <3>1
    <2>3. S \cap W = {}
      <3>. HIDE DEF W
      <3>. QED BY <1>1, <2>2 DEF NoLoop
    <2>4. \A m \in S : mem[m].superseded_by \in S
      BY <1>3, <2>3
    <2>. QED BY <1>1, <2>4 DEF NoLoop
  <1>. QED BY <1>5, <1>7

\* No step makes a loop.
LEMMA NoLoopsStep ==
    ASSUME ReadsValidated, ReportInv, NoLoops, [Next]_vars
    PROVE  NoLoops'
  <1>1. TypeInv /\ mem \in MemoryTable /\ now \in Time
    BY DEF ReportInv, LinkInv, TypeInv, TypeOK
  <1>2. NoLoop(mem) /\ OpenUnlinked(mem)
    BY DEF NoLoops
  <1>3. ASSUME \A m \in MemId : /\ mem'[m].superseded_by \in {mem[m].superseded_by, None}
                                /\ mem'[m].status = "unused" => mem[m].status = "unused"
                                /\ Live(mem', m) => Live(mem, m)
        PROVE  NoLoop(mem') /\ OpenUnlinked(mem')
    <2>1. NoLoop(mem')
      BY <1>2, <1>3, NoLoopLess
    <2>2. OpenUnlinked(mem')
      BY <1>2, <1>3 DEF OpenUnlinked
    <2>. QED BY <2>1, <2>2
  <1>4. ASSUME NEW ids, NEW reason, mem' = Close(mem, ids, now, reason, None)
        PROVE  NoLoop(mem') /\ OpenUnlinked(mem')
    <2>1. now # None
      BY <1>1, StoreAssumption
    <2>2. ASSUME NEW m \in MemId
          PROVE  /\ mem'[m].superseded_by \in {mem[m].superseded_by, None}
                 /\ mem'[m].status = "unused" => mem[m].status = "unused"
                 /\ Live(mem', m) => Live(mem, m)
      BY <1>1, <1>4, <2>1, CloseRow DEF Live, Stored
    <2>. QED BY <1>3, <2>2
  <1>5. ASSUME NEW ids, mem' = [m \in MemId |->
                   IF m \in ids /\ Stored(mem, m) THEN DeletedMemory ELSE mem[m]]
        PROVE  NoLoop(mem') /\ OpenUnlinked(mem')
    <2>1. ASSUME NEW m \in MemId
          PROVE  /\ mem'[m].superseded_by \in {mem[m].superseded_by, None}
                 /\ mem'[m].status = "unused" => mem[m].status = "unused"
                 /\ Live(mem', m) => Live(mem, m)
      BY <1>5, <2>1 DEF Live, Stored, DeletedMemory, NoMemory
    <2>. QED BY <1>3, <2>1
  <1>6. ASSUME NEW n \in MemId, mem' = [mem EXCEPT ![n].access_count = @ + 1]
        PROVE  NoLoop(mem') /\ OpenUnlinked(mem')
    <2>1. ASSUME NEW m \in MemId
          PROVE  /\ mem'[m].superseded_by = mem[m].superseded_by
                 /\ mem'[m].status = mem[m].status
                 /\ mem'[m].invalid_at = mem[m].invalid_at
      BY <1>1, <1>6 DEF MemoryTable, MemoryRow
    <2>. QED BY <1>3, <2>1 DEF Live, Stored
  <1>7. NoLoop(mem') /\ OpenUnlinked(mem')
    <2>1. CASE \E ids : mem' = Close(mem, ids, now, "forgotten", None)
      BY <1>4, <2>1
    <2>2. CASE \E ids : mem' = Close(mem, ids, now, "expired", None)
      BY <1>4, <2>2
    <2>3. CASE \E ids : mem' = [m \in MemId |->
                          IF m \in ids /\ Stored(mem, m) THEN DeletedMemory ELSE mem[m]]
      BY <1>5, <2>3
    <2>4. CASE \E m \in MemId : mem' = [mem EXCEPT ![m].access_count = @ + 1]
      BY <1>6, <2>4
    <2>5. CASE mem' = mem
      BY <1>2, <2>5
    <2>6. CASE \E s \in Session : /\ pc[s] = "statement"
                                  /\ Len(out[s]) = Len(batch[s].memories)
                                  /\ ~Conflict(s) /\ mem' = MergedMemories(s)
      BY <2>6, CommitMakesNoLoop
    <2>. QED BY <1>1, <2>1, <2>2, <2>3, <2>4, <2>5, <2>6, StoreStep, Zenon
  <1>8. ASSUME NEW s \in Session, pc'[s] = "statement"
         PROVE  NoLoop(work'[s]) /\ OpenUnlinked(work'[s])
    BY <1>8, StatementMakesNoLoop DEF ReportInv
  <1>. QED BY <1>7, <1>8 DEF NoLoops, NoLoop, OpenUnlinked, Live, Stored

\* Where the engine validates reads at commit, the supersession history never
\* loops, however many writers close rows in each other's favour: the depth
\* bound of the history walk (MAX_CHAIN) is not needed for a store the write
\* path produced, whatever its value.
THEOREM HistoryAcyclic ==
    ASSUME ReadsValidated
    PROVE  Spec => []SupersessionAcyclic
  <1>1. Init => NoLoops
    <2>1. \A m \in MemId : NoMemories[m].superseded_by = None
      BY DEF NoMemories, NoMemory
    <2>2. NoLoop(NoMemories) /\ OpenUnlinked(NoMemories)
      BY <2>1, StoreAssumption DEF NoLoop, OpenUnlinked
    <2>. QED BY <2>2 DEF Init, NoLoops
  <1>2. ReportInv /\ NoLoops /\ [Next]_vars => NoLoops'
    BY NoLoopsStep
  <1>3. ReportInv /\ NoLoops => SupersessionAcyclic
    BY NoLoopWalk DEF NoLoops, SupersessionAcyclic, ReportInv, LinkInv, TypeInv, TypeOK
  <1>. QED BY <1>1, <1>2, <1>3, ReportInvariant, PTL DEF Spec

-----------------------------------------------------------------------------
(***************************************************************************)
(* Citations.  A purge looks for the live claims that cite its documents,  *)
(* and deletes in a later round trip.  While one session writes, nothing   *)
(* starts to cite in between: what a batch cites was resolved in the same  *)
(* call.  The claims it looks for are those of the document's own space,   *)
(* which are all of them when no other space cites it.                     *)
(***************************************************************************)

\* At most one session is served.
OneSession == \A r, s \in Session : r = s

\* No batch of another space cites a text while documents are put in `user`,
\* the one space whose texts the others may cite.
CitedAtHome ==
    \A b, d \in Batches :
        /\ Cited(b) # {} /\ d.episode # None /\ d.episode.document
        /\ d.space = UserSpace
        => b.space = UserSpace

\* The texts a live claim cites: minted, and the documents among them stored
\* in the claim's own space, the one a purge looks for citers in.
CitedSound(t, et) ==
    \A m \in MemId : Live(t, m) => \A e \in t[m].cites :
        /\ e \in EpId /\ et[e].status # "unused"
        /\ et[e].document => et[e].status = "stored" /\ et[e].space = t[m].space

\* Every document was put by a batch.
DocumentsPut(et) ==
    \A e \in EpId : et[e].document =>
        \E d \in Batches : d.episode # None /\ d.episode.document /\ d.space = et[e].space

\* What a batch cites was resolved, and is stored until the batch ends.
Resolved(b) ==
    \A e \in Cited(b) : ep[e].status = "stored" /\ ep[e].space \in {b.space, UserSpace}

Taken(s) ==
    /\ pc[s] \in {"cite", "exist", "closed", "begin", "statement"} => batch[s] \in Batches
    /\ pc[s] \in {"exist", "closed", "begin", "statement"} => Resolved(batch[s])

\* The episodes of a transaction are the committed ones and what it put.
Opened(s) ==
    pc[s] = "statement" =>
        /\ esnap[s] = ep
        /\ \A e \in EpId : ework[s][e] = ep[e] \/ ep[e].status = "unused"
        /\ DocumentsPut(ework[s]) /\ CitedSound(work[s], ework[s])
        /\ source[s] # None =>
             ework[s][source[s]].status = "stored" /\ ework[s][source[s]].space = batch[s].space

\* Between the look for citers and the purge, no claim starts to cite.
CitersTaken(s) ==
    pc[s] \in {"expand", "forget"} /\ wipe[s].purge =>
        \A m \in MemId : Live(mem, m) => \A e \in mem[m].cites :
            e \in wipe[s].episodes /\ ep[e].document => m \in wipe[s].memories

CitationInv ==
    /\ CitedSound(mem, ep) /\ DocumentsPut(ep)
    /\ \A s \in Session : Taken(s) /\ Opened(s) /\ CitersTaken(s)

\* The history walk of a row names the row.
LEMMA ChainNamesItself ==
    ASSUME NEW t, NEW m \in MemId
    PROVE  m \in HistoryChain(t, m)
  <1>1. PICK reach : WalksOn(t, m, reach)
    BY WalkExists
  <1>. DEFINE Y == {d \in Nat : d \in 0..MaxChain => m \in reach[d]}
  <1>2. \A d \in 0..MaxChain :
           reach[d] = IF d = 0 THEN {m} ELSE reach[d - 1] \cup Later(t, reach[d - 1])
    BY <1>1 DEF WalksOn
  <1>3. 0 \in Y
    BY <1>2
  <1>4. ASSUME NEW d \in Y PROVE d + 1 \in Y
    <2>1. ASSUME d + 1 \in 0..MaxChain PROVE m \in reach[d + 1]
      <3>1. d \in Nat /\ MaxChain \in Nat
        BY <1>4, StoreAssumption
      <3>2. d \in 0..MaxChain /\ d + 1 # 0 /\ (d + 1) - 1 = d
        BY <2>1, <3>1
      <3>3. reach[d + 1] = reach[d] \cup Later(t, reach[d])
        BY <1>2, <2>1, <3>2
      <3>. QED BY <1>4, <3>2, <3>3
    <2>. QED BY <1>4, <2>1
  <1>5. MaxChain \in Y
    <2>. HIDE DEF Y
    <2>1. Y \in SUBSET Nat
      BY DEF Y
    <2>. QED BY <1>3, <1>4, <2>1, NatSteps, StoreAssumption
  <1>6. m \in reach[MaxChain]
    BY <1>5, StoreAssumption
  <1>. QED BY <1>1, <1>6 DEF WalksOn, HistoryChain

-----------------------------------------------------------------------------
\* A table with no other live claims, citing and placed as before.
Narrows(t, t2) ==
    \A m \in MemId : Live(t2, m) =>
        Live(t, m) /\ t2[m].cites = t[m].cites /\ t2[m].space = t[m].space

\* Closing rows opens none.
LEMMA CloseNarrows ==
    ASSUME NEW t \in MemoryTable, NEW ids, NEW at, at # None, NEW reason, NEW by
    PROVE  Narrows(t, Close(t, ids, at, reason, by))
  <1>. SUFFICES ASSUME NEW m \in MemId, Live(Close(t, ids, at, reason, by), m)
                PROVE  LET r == Close(t, ids, at, reason, by)[m]
                       IN  Live(t, m) /\ r.cites = t[m].cites /\ r.space = t[m].space
    BY DEF Narrows
  <1>. DEFINE r == Close(t, ids, at, reason, by)[m]
  <1>1. t[m] \in MemoryRow
    BY DEF MemoryTable
  <1>2. m \in OpenRows(t, ids) =>
           r = [t[m] EXCEPT !.invalid_at = at, !.invalid_reason = reason, !.superseded_by = by]
    BY DEF Close
  <1>3. m \notin OpenRows(t, ids) => r = t[m]
    BY DEF Close
  <1>4. r.status = "stored" /\ r.invalid_at = None
    BY DEF Live, Stored
  <1>. HIDE DEF r
  <1>5. CASE m \in OpenRows(t, ids)
    <2>1. r.invalid_at = at
      BY <1>1, <1>2, <1>5 DEF MemoryRow
    <2>. QED BY <1>4, <2>1
  <1>6. CASE m \notin OpenRows(t, ids)
    BY <1>3, <1>4, <1>6 DEF Live, Stored, r
  <1>. QED BY <1>5, <1>6

\* Fewer live claims cite no more.
LEMMA NarrowSound ==
    ASSUME NEW t, NEW t2, NEW et, CitedSound(t, et), Narrows(t, t2)
    PROVE  CitedSound(t2, et)
BY DEF CitedSound, Narrows

\* Texts that are put leave the cited ones alone.
LEMMA PutSound ==
    ASSUME NEW t, NEW et, NEW et2, CitedSound(t, et),
           \A e \in EpId : et2[e] = et[e] \/ et[e].status = "unused"
    PROVE  CitedSound(t, et2)
BY DEF CitedSound

\* The steps beside the calls only close rows or count their uses.
LEMMA BesideCites ==
    ASSUME TypeInv, CitationInv, PruneExpired \/ Reinforce \/ Tick
    PROVE  CitationInv'
  <1>0. mem \in MemoryTable /\ now \in Time /\ now # None
    BY StoreAssumption DEF TypeInv, TypeOK
  <1>1. Narrows(mem, mem')
    <2>1. CASE PruneExpired
      <3>1. PICK gone : mem' = Close(mem, gone, now, "expired", None)
        BY <2>1 DEF PruneExpired
      <3>. QED BY <1>0, <3>1, CloseNarrows
    <2>2. CASE Reinforce
      <3>1. PICK x \in MemId : mem' = [mem EXCEPT ![x].access_count = @ + 1]
        BY <2>2 DEF Reinforce
      <3>2. ASSUME NEW m \in MemId
            PROVE  /\ mem'[m].status = mem[m].status /\ mem'[m].invalid_at = mem[m].invalid_at
                   /\ mem'[m].cites = mem[m].cites /\ mem'[m].space = mem[m].space
        <4>1. mem[m] \in MemoryRow /\ mem'[m] = IF m = x
                     THEN [mem[m] EXCEPT !.access_count = @ + 1] ELSE mem[m]
          BY <1>0, <3>1 DEF MemoryTable
        <4>. QED BY <4>1 DEF MemoryRow
      <3>. QED BY <3>2 DEF Narrows, Live, Stored
    <2>3. CASE Tick
      BY <2>3 DEF Tick, tables, Narrows, Live, Stored
    <2>. QED BY <2>1, <2>2, <2>3
  <1>2. UNCHANGED <<ep, pc, batch, work, esnap, ework, source, wipe>>
    BY DEF PruneExpired, Reinforce, Tick, tables, txn
  <1>3. CitedSound(mem', ep)
    BY <1>1, NarrowSound DEF CitationInv
  <1>4. ASSUME NEW s \in Session PROVE Taken(s)' /\ Opened(s)'
    <2>1. Taken(s) /\ Opened(s)
      BY DEF CitationInv
    <2>2. Taken(s)'
      BY <1>2, <2>1 DEF Taken, Resolved
    <2>3. Opened(s)'
      BY <1>2, <2>1 DEF Opened
    <2>. QED BY <2>2, <2>3
  <1>5. ASSUME NEW s \in Session PROVE CitersTaken(s)'
    <2>1. CitersTaken(s)
      BY DEF CitationInv
    <2>. QED BY <1>1, <1>2, <2>1 DEF CitersTaken, Narrows
  <1>. QED BY <1>2, <1>3, <1>4, <1>5 DEF CitationInv

\* A step of the session that leaves the tables alone.
LEMMA TablesStay ==
    ASSUME CitationInv, mem' = mem, ep' = ep,
           \A s \in Session : Taken(s)' /\ Opened(s)' /\ CitersTaken(s)'
    PROVE  CitationInv'
BY DEF CitationInv, CitedSound, DocumentsPut, Live, Stored

\* A call that goes on, or ends, before its transaction.
LEMMA QuietCites ==
    ASSUME TypeInv, CitationInv, OneSession, NEW s \in Session,
           \/ Remember(s) \/ ResolveCitations(s) \/ EnsureExist(s) \/ ReadClosed(s)
           \/ ReturnError(s) \/ FindTargets(s)
    PROVE  CitationInv'
  <1>1. /\ mem' = mem /\ ep' = ep /\ \A r \in Session : r = s
        /\ pc \in [Session -> PCs] /\ batch \in [Session -> Batch \cup {NoBatch}]
        /\ wipe \in [Session -> Wipe] /\ Taken(s)
    BY DEF Remember, ResolveCitations, EnsureExist, ReadClosed, ReturnError, FindTargets,
           tables, TypeInv, TypeOK, CitationInv, OneSession
  <1>2. ASSUME /\ pc'[s] \notin {"statement", "expand", "forget"}
               /\ Taken(s)'
        PROVE  CitationInv'
    <2>1. Opened(s)' /\ CitersTaken(s)'
      BY <1>2 DEF Opened, CitersTaken
    <2>. QED BY <1>1, <1>2, <2>1, TablesStay
  <1>3. CASE Remember(s)
    <2>1. PICK b \in Batches :
             /\ batch' = [batch EXCEPT ![s] = b]
             /\ pc' = [pc EXCEPT ![s] = IF Cited(b) = {} THEN "exist" ELSE "cite"]
      BY <1>3 DEF Remember
    <2>2. batch'[s] = b /\ pc'[s] = IF Cited(b) = {} THEN "exist" ELSE "cite"
      BY <1>1, <2>1
    <2>3. Taken(s)'
      BY <2>2 DEF Taken, Resolved
    <2>. QED BY <1>2, <2>2, <2>3
  <1>4. CASE ResolveCitations(s)
    <2>1. pc[s] = "cite" /\ batch' = batch
      BY <1>4 DEF ResolveCitations
    <2>2. \/ pc'[s] = "failed"
          \/ pc'[s] = "exist" /\ Resolved(batch[s])
      BY <1>1, <1>4 DEF ResolveCitations, Fail, Resolved
    <2>3. Taken(s)'
      BY <1>1, <2>1, <2>2 DEF Taken, Resolved
    <2>. QED BY <1>2, <2>2, <2>3
  <1>5. CASE EnsureExist(s) \/ ReadClosed(s)
    <2>1. /\ pc[s] \in {"exist", "closed"} /\ batch' = batch
          /\ pc'[s] \in {"closed", "begin", "failed"}
      BY <1>1, <1>5 DEF EnsureExist, ReadClosed, Fail
    <2>2. Taken(s)'
      BY <1>1, <2>1 DEF Taken, Resolved
    <2>. QED BY <1>2, <2>1, <2>2
  <1>6. CASE ReturnError(s)
    <2>1. pc'[s] = "idle"
      BY <1>1, <1>6 DEF ReturnError, Finish
    <2>. QED BY <1>2, <2>1 DEF Taken
  <1>7. CASE FindTargets(s)
    <2>1. \/ pc'[s] = "failed" \/ pc'[s] = "cascade"
          \/ pc'[s] = "forget" /\ ~wipe'[s].purge
      BY <1>1, <1>7 DEF FindTargets, Fail
    <2>2. Taken(s)' /\ Opened(s)' /\ CitersTaken(s)'
      BY <2>1 DEF Taken, Opened, CitersTaken
    <2>. QED BY <1>1, <2>2, TablesStay
  <1>. QED BY <1>3, <1>4, <1>5, <1>6, <1>7

\* The look for citers finds every live claim that cites one of the documents,
\* and the whole chains of what it found hold it.
LEMMA CitersAreFound ==
    ASSUME TypeInv, CitationInv, OneSession, NEW s \in Session,
           CascadeDocuments(s) \/ ExpandChains(s)
    PROVE  CitationInv'
  <1>1. /\ mem' = mem /\ ep' = ep /\ \A r \in Session : r = s
        /\ pc \in [Session -> PCs] /\ wipe \in [Session -> Wipe]
        /\ CitedSound(mem, ep) /\ CitersTaken(s)
    BY DEF CascadeDocuments, ExpandChains, tables, TypeInv, TypeOK, CitationInv, OneSession
  <1>2. pc'[s] \in {"failed", "expand", "forget"}
    BY <1>1 DEF CascadeDocuments, ExpandChains, Refuse, Fail
  <1>3. Taken(s)' /\ Opened(s)'
    BY <1>2 DEF Taken, Opened
  <1>4. CitersTaken(s)'
    <2>1. CASE pc'[s] = "failed"
      BY <2>1 DEF CitersTaken
    <2>2. CASE CascadeDocuments(s) /\ pc'[s] # "failed"
      <3>1. /\ wipe' = [wipe EXCEPT ![s].memories = @ \cup CitersFound(s)]
        BY <1>1, <2>2 DEF CascadeDocuments, Refuse, Fail
      <3>2. wipe[s] \in Wipe
        BY <1>1
      <3>3. /\ wipe'[s].memories = wipe[s].memories \cup CitersFound(s)
            /\ wipe'[s].episodes = wipe[s].episodes
        BY <1>1, <3>1, <3>2 DEF Wipe
      <3>4. ASSUME NEW m \in MemId, Live(mem, m), NEW e \in mem[m].cites,
                   e \in wipe[s].episodes, ep[e].document
            PROVE  m \in CitersFound(s)
        <4>1. ep[e].space = mem[m].space
          BY <1>1, <3>4 DEF CitedSound
        <4>. QED BY <3>4, <4>1 DEF CitersFound, DocumentCiters
      <3>. QED BY <1>1, <3>3, <3>4 DEF CitersTaken, Live, Stored
    <2>3. CASE ExpandChains(s) /\ pc'[s] # "failed"
      <3>1. /\ pc[s] = "expand"
            /\ wipe' = [wipe EXCEPT ![s].memories =
                           UNION {HistoryChain(mem, m) : m \in wipe[s].memories}]
        BY <1>1, <2>3 DEF ExpandChains, Refuse, Fail
      <3>2. wipe[s] \in Wipe
        BY <1>1
      <3>3. /\ wipe'[s].memories = UNION {HistoryChain(mem, m) : m \in wipe[s].memories}
            /\ wipe'[s].episodes = wipe[s].episodes /\ wipe'[s].purge = wipe[s].purge
        BY <1>1, <3>1, <3>2 DEF Wipe
      <3>4. \A m \in MemId : m \in wipe[s].memories => m \in wipe'[s].memories
        BY <3>3, ChainNamesItself
      <3>. QED BY <1>1, <3>1, <3>3, <3>4 DEF CitersTaken, Live, Stored
    <2>. QED BY <1>2, <2>1, <2>2, <2>3
  <1>. QED BY <1>1, <1>3, <1>4, TablesStay

\* A soft forget closes rows; a purge deletes no document a live claim cites
\* but with the claim.
LEMMA ForgetCites ==
    ASSUME TypeInv, CitationInv, OneSession, NEW s \in Session,
           ForgetSoft(s) \/ ForgetPurge(s)
    PROVE  CitationInv'
  <1>1. /\ \A r \in Session : r = s
        /\ pc \in [Session -> PCs] /\ mem \in MemoryTable /\ ep \in EpisodeTable
        /\ CitedSound(mem, ep) /\ CitersTaken(s) /\ DocumentsPut(ep)
        /\ now \in Time /\ now # None
    BY StoreAssumption DEF TypeInv, TypeOK, CitationInv, OneSession
  <1>2. pc'[s] \in {"failed", "idle"}
    BY <1>1 DEF ForgetSoft, ForgetPurge, Fail
  <1>3. \A r \in Session : Taken(r)' /\ Opened(r)' /\ CitersTaken(r)'
    BY <1>1, <1>2 DEF Taken, Opened, CitersTaken
  <1>4. CASE ForgetSoft(s)
    <2>1. ep' = ep /\ (mem' = mem \/ \E ids : mem' = Close(mem, ids, now, "forgotten", None))
      BY <1>4 DEF ForgetSoft
    <2>2. Narrows(mem, mem')
      <3>1. CASE mem' = mem
        BY <3>1 DEF Narrows, Live, Stored
      <3>2. CASE \E ids : mem' = Close(mem, ids, now, "forgotten", None)
        BY <1>1, <3>2, CloseNarrows
      <3>. QED BY <2>1, <3>1, <3>2
    <2>3. CitedSound(mem', ep')
      BY <1>1, <2>1, <2>2, NarrowSound
    <2>. QED BY <1>1, <1>3, <2>1, <2>3 DEF CitationInv, DocumentsPut
  <1>5. CASE ForgetPurge(s)
    <2>1. /\ pc[s] = "forget" /\ wipe[s].purge
          /\ \A m \in MemId : mem'[m] =
                IF m \in wipe[s].memories /\ Stored(mem, m) /\ mem[m].space \in wipe[s].spaces
                THEN DeletedMemory ELSE mem[m]
          /\ \A e \in EpId : ep'[e] =
                IF e \in wipe[s].episodes /\ ep[e].status = "stored"
                                          /\ ep[e].space \in wipe[s].spaces
                THEN DeletedEpisode(ep[e]) ELSE ep[e]
      BY <1>5 DEF ForgetPurge
    <2>2. ASSUME NEW e \in EpId
          PROVE  /\ ep'[e].document = ep[e].document /\ ep'[e].space = ep[e].space
                 /\ ep[e].status # "unused" => ep'[e].status # "unused"
                 /\ \/ ep'[e] = ep[e]
                    \/ e \in wipe[s].episodes /\ ep[e].space \in wipe[s].spaces
      <3>1. ep[e] \in EpisodeRow
        BY <1>1 DEF EpisodeTable
      <3>2. DeletedEpisode(ep[e]).document = ep[e].document
            /\ DeletedEpisode(ep[e]).space = ep[e].space
            /\ DeletedEpisode(ep[e]).status = "purged"
        BY <3>1 DEF DeletedEpisode, EpisodeRow
      <3>. QED BY <2>1, <3>2
    <2>3. DeletedMemory.status = "purged"
      BY DEF DeletedMemory, NoMemory
    <2>4. ASSUME NEW m \in MemId, Live(mem', m)
          PROVE  /\ Live(mem, m) /\ mem'[m] = mem[m]
                 /\ ~(m \in wipe[s].memories /\ mem[m].space \in wipe[s].spaces)
      BY <2>1, <2>3, <2>4 DEF Live, Stored
    <2>5. ASSUME NEW m \in MemId, Live(mem', m), NEW e \in mem'[m].cites
          PROVE  /\ e \in EpId /\ ep'[e].status # "unused"
                 /\ ep'[e].document => ep'[e].status = "stored" /\ ep'[e].space = mem'[m].space
      <3>1. Live(mem, m) /\ mem'[m] = mem[m] /\ e \in mem[m].cites
            /\ ~(m \in wipe[s].memories /\ mem[m].space \in wipe[s].spaces)
        BY <2>4, <2>5
      <3>2. /\ e \in EpId /\ ep[e].status # "unused"
            /\ ep[e].document => ep[e].status = "stored" /\ ep[e].space = mem[m].space
        BY <1>1, <3>1 DEF CitedSound
      <3>3. ep[e].document /\ e \in wipe[s].episodes => m \in wipe[s].memories
        BY <1>1, <2>1, <3>1 DEF CitersTaken
      <3>4. ep[e].document => ep'[e] = ep[e]
        BY <2>2, <3>1, <3>2, <3>3
      <3>. QED BY <2>2, <3>1, <3>2, <3>4
    <2>6. CitedSound(mem', ep')
      BY <2>5 DEF CitedSound
    <2>7. DocumentsPut(ep')
      BY <1>1, <2>2 DEF DocumentsPut
    <2>. QED BY <1>3, <2>6, <2>7 DEF CitationInv
  <1>. QED BY <1>4, <1>5

\* An attempt that loses a race starts over, or fails.
LEMMA AttemptEndCites ==
    ASSUME TypeInv, CitationInv, OneSession, NEW s \in Session,
           pc[s] = "statement", LoseRace(s) \/ Throw(s)
    PROVE  CitationInv'
  <1>1. /\ mem' = mem /\ ep' = ep /\ batch' = batch /\ \A r \in Session : r = s
        /\ pc \in [Session -> PCs] /\ Taken(s)
    BY DEF LoseRace, Throw, tables, TypeInv, TypeOK, CitationInv, OneSession
  <1>2. pc'[s] \in {"exist", "failed"}
    BY <1>1 DEF LoseRace, Throw, Fail
  <1>3. Taken(s)'
    BY <1>1, <1>2 DEF Taken, Resolved
  <1>4. Opened(s)' /\ CitersTaken(s)'
    BY <1>2 DEF Opened, CitersTaken
  <1>. QED BY <1>1, <1>3, <1>4, TablesStay

\* A transaction opens on the committed rows, and puts its text.
LEMMA BeginCites ==
    ASSUME TypeInv, CitationInv, OneSession, NEW s \in Session, Begin(s)
    PROVE  CitationInv'
  <1>1. /\ mem' = mem /\ ep' = ep /\ batch' = batch /\ \A r \in Session : r = s
        /\ pc \in [Session -> PCs] /\ work \in [Session -> MemoryTable]
        /\ esnap \in [Session -> EpisodeTable] /\ ework \in [Session -> EpisodeTable]
        /\ source \in [Session -> EpId \cup {None}]
        /\ ep \in EpisodeTable /\ pc[s] = "begin" /\ batch[s] \in Batches
        /\ Taken(s) /\ CitedSound(mem, ep) /\ DocumentsPut(ep)
    BY DEF Begin, tables, TypeInv, TypeOK, CitationInv, OneSession, Taken
  <1>2. pc'[s] = "statement" /\ esnap'[s] = ep /\ work'[s] = mem
    BY <1>1 DEF Begin
  <1>3. Taken(s)'
    BY <1>1, <1>2 DEF Taken, Resolved
  <1>4. CitersTaken(s)'
    BY <1>2 DEF CitersTaken
  <1>5. /\ \A e \in EpId : ework'[s][e] = ep[e] \/ ep[e].status = "unused"
        /\ DocumentsPut(ework'[s])
        /\ source'[s] # None =>
             ework'[s][source'[s]].status = "stored" /\ ework'[s][source'[s]].space = batch[s].space
    <2>. DEFINE b == batch[s]
    <2>1. CASE b.episode = None /\ source' = [source EXCEPT ![s] = None]
               /\ ework' = [ework EXCEPT ![s] = ep]
      BY <1>1, <2>1
    <2>2. CASE /\ \E e \in EpisodeHolders(ep, b.space, b.episode.content_hash) :
                     source' = [source EXCEPT ![s] = e]
               /\ ework' = [ework EXCEPT ![s] = ep]
      <3>1. PICK e \in EpId : /\ ep[e].status = "stored" /\ ep[e].space = b.space
                              /\ source' = [source EXCEPT ![s] = e]
        BY <2>2 DEF EpisodeHolders
      <3>2. source'[s] = e /\ ework'[s] = ep
        BY <1>1, <2>2, <3>1
      <3>. QED BY <1>1, <3>1, <3>2
    <2>3. CASE /\ b.episode # None
               /\ \E e \in EpId :
                    /\ FreshEpisode(e)
                    /\ source' = [source EXCEPT ![s] = e]
                    /\ ework' = [ework EXCEPT ![s] = [ep EXCEPT ![e] =
                           [status |-> "stored", space |-> b.space,
                            content_hash |-> b.episode.content_hash,
                            document |-> b.episode.document]]]
      <3>. DEFINE row == [status |-> "stored", space |-> b.space,
                          content_hash |-> b.episode.content_hash,
                          document |-> b.episode.document]
      <3>1. PICK e \in EpId : /\ FreshEpisode(e)
                              /\ source' = [source EXCEPT ![s] = e]
                              /\ ework' = [ework EXCEPT ![s] = [ep EXCEPT ![e] = row]]
        BY <2>3
      <3>2. row.status = "stored" /\ row.space = b.space /\ row.document = b.episode.document
        OBVIOUS
      <3>. HIDE DEF row
      <3>3. /\ source'[s] = e /\ ep[e].status = "unused"
            /\ \A d \in EpId : ework'[s][d] = IF d = e THEN row ELSE ep[d]
        BY <1>1, <3>1 DEF FreshEpisode, EpisodeTable
      <3>4. DocumentsPut(ework'[s])
        BY <1>1, <2>3, <3>2, <3>3 DEF DocumentsPut
      <3>. QED BY <3>2, <3>3, <3>4
    <2>. QED BY <2>1, <2>2, <2>3 DEF Begin
  <1>6. CitedSound(mem, ework'[s])
    BY <1>1, <1>5, PutSound
  <1>7. Opened(s)'
    BY <1>1, <1>2, <1>5, <1>6 DEF Opened
  <1>. QED BY <1>1, <1>3, <1>4, <1>7, TablesStay

\* A statement lands: what its table's live claims cite is stored.
LEMMA LandCites ==
    ASSUME TypeInv, CitationInv, OneSession, NEW s \in Session, pc[s] = "statement",
           NEW old, NEW table \in MemoryTable, NEW by, NEW created,
           Land(s, old, table, by, created), CitedSound(table, ework[s])
    PROVE  CitationInv'
  <1>1. CASE LoseRace(s) \/ Throw(s)
    BY <1>1, AttemptEndCites
  <1>2. CASE /\ work' = [work EXCEPT ![s] = table]
             /\ UNCHANGED <<now, tables, pc, batch, attempts, closed, targets, stamp,
                            snap, esnap, ework, source, wipe, why>>
    <2>1. /\ \A r \in Session : r = s
          /\ work'[s] = table /\ Taken(s) /\ Opened(s)
          /\ mem' = mem /\ ep' = ep
      BY <1>2 DEF tables, TypeInv, TypeOK, CitationInv, OneSession
    <2>2. Taken(s)'
      BY <1>2, <2>1 DEF Taken, Resolved
    <2>3. Opened(s)'
      BY <1>2, <2>1 DEF Opened
    <2>4. CitersTaken(s)'
      BY <1>2 DEF CitersTaken
    <2>. QED BY <2>1, <2>2, <2>3, <2>4, TablesStay
  <1>. QED BY <1>1, <1>2 DEF Land

\* A statement of the batch adds no citation that was not resolved.
LEMMA StatementCites ==
    ASSUME TypeInv, CitationInv, OneSession, CitedAtHome, NEW s \in Session,
           Duplicate(s) \/ Create(s)
    PROVE  CitationInv'
  <1>. DEFINE i == Len(out[s]) + 1
              e == batch[s].memories[i]
              at == ValidFrom(s, e)
  <1>1. /\ pc[s] = "statement" /\ Len(out[s]) < Len(batch[s].memories)
        /\ Taken(s) /\ Opened(s) /\ batch[s] \in Batches /\ batch[s] \in Batch
        /\ work[s] \in MemoryTable /\ ework[s] \in EpisodeTable
        /\ source[s] \in EpId \cup {None} /\ out[s] \in Seq(Written) /\ stamp[s] \in Time
        /\ targets[s] \in Seq(SUBSET MemId) /\ DocumentsPut(ep)
        /\ DOMAIN targets[s] = DOMAIN batch[s].memories
    BY StoreAssumption
    DEF Duplicate, Create, TypeInv, TypeOK, TargetsMatch, CitationInv, Taken
  <1>2. i \in DOMAIN batch[s].memories /\ e \in Entry /\ targets[s][i] \in SUBSET MemId
    <2>1. batch[s].memories \in Seq(Entry)
      BY <1>1 DEF Batch
    <2>. QED BY <1>1, <2>1
  <1>3. at \in Time /\ at # None
    BY <1>1, <1>2, StoreAssumption DEF ValidFrom, Entry
  <1>4. e.derived_from \subseteq Cited(batch[s]) /\ e.derived_from \subseteq EpId
    BY <1>2 DEF Cited, Entry
  <1>. HIDE DEF at, e, i
  <1>5. CASE Duplicate(s)
    <2>1. PICK dup \in MemId :
             LET keep == targets[s][i] \ {dup}
             IN  Land(s, keep, Close(work[s], keep, at, "superseded", dup), dup, FALSE)
      BY <1>5 DEF Duplicate, LiveHolders, at, e, i
    <2>. DEFINE keep == targets[s][i] \ {dup}
                table == Close(work[s], keep, at, "superseded", dup)
    <2>2. Narrows(work[s], table)
      BY <1>1, <1>3, CloseNarrows
    <2>3. table \in MemoryTable
      BY <1>1, <1>3, CloseType DEF Reason
    <2>4. CitedSound(table, ework[s])
      <3>. HIDE DEF table
      <3>1. CitedSound(work[s], ework[s])
        BY <1>1 DEF Opened
      <3>. QED BY <2>2, <3>1, NarrowSound
    <2>. QED BY <1>1, <2>1, <2>3, <2>4, LandCites
  <1>6. CASE Create(s)
    <2>. DEFINE old == targets[s][i]
                row == NewRow(s, e, old)
    <2>1. PICK new \in MemId :
             /\ FreshMemory(new)
             /\ Land(s, old, Close([work[s] EXCEPT ![new] = row], old, at, "superseded", new),
                     new, TRUE)
      BY <1>6 DEF Create, at, e, i
    <2>. DEFINE wide == [work[s] EXCEPT ![new] = row]
                table == Close(wide, old, at, "superseded", new)
    <2>2. /\ row \in MemoryRow /\ row.space = batch[s].space
          /\ row.cites = e.derived_from \cup ({source[s]} \ {None})
      <3>1. row.space = batch[s].space /\ row.cites = e.derived_from \cup ({source[s]} \ {None})
        BY DEF NewRow
      <3>2. row \in MemoryRow
        BY <1>1, <1>2, NewRowType DEF e, i
      <3>. QED BY <3>1, <3>2
    <2>. HIDE DEF row
    <2>3. wide \in MemoryTable
      BY <1>1, <2>2 DEF MemoryTable
    <2>4. CitedSound(wide, ework[s])
      <3>. SUFFICES ASSUME NEW m \in MemId, Live(wide, m), NEW c \in wide[m].cites
                    PROVE  /\ c \in EpId /\ ework[s][c].status # "unused"
                           /\ ework[s][c].document =>
                                 ework[s][c].status = "stored" /\ ework[s][c].space = wide[m].space
        BY DEF CitedSound
      <3>1. CASE m # new
        <4>1. wide[m] = work[s][m]
          BY <1>1, <3>1 DEF MemoryTable
        <4>. QED BY <1>1, <4>1 DEF Opened, CitedSound, Live, Stored
      <3>2. CASE m = new /\ c = source[s]
        <4>1. wide[m] = row /\ c # None
          <5>1. wide[m] = row
            BY <1>1, <3>2 DEF MemoryTable
          <5>2. c \in e.derived_from \/ c \in {source[s]} \ {None}
            BY <2>2, <5>1
          <5>3. None \notin EpId
            BY StoreAssumption
          <5>. QED BY <1>4, <5>1, <5>2, <5>3
        <4>. QED BY <1>1, <2>2, <3>2, <4>1 DEF Opened
      <3>3. CASE m = new /\ c # source[s]
        <4>1. wide[m] = row /\ c \in e.derived_from
          BY <1>1, <2>2, <3>3 DEF MemoryTable
        <4>2. c \in EpId /\ ep[c].status = "stored" /\ ep[c].space \in {batch[s].space, UserSpace}
              /\ Cited(batch[s]) # {}
          BY <1>1, <1>4, <4>1 DEF Taken, Resolved
        <4>3. ework[s][c] = ep[c]
          BY <1>1, <4>2 DEF Opened
        <4>4. ep[c].document => ep[c].space = batch[s].space
          <5>1. SUFFICES ASSUME ep[c].document, ep[c].space = UserSpace
                         PROVE  batch[s].space = UserSpace
            BY <4>2
          <5>2. PICK d \in Batches : d.episode # None /\ d.episode.document /\ d.space = ep[c].space
            BY <1>1, <4>2, <5>1 DEF DocumentsPut
          <5>. QED BY <1>1, <4>2, <5>1, <5>2 DEF CitedAtHome
        <4>. QED BY <2>2, <4>1, <4>2, <4>3, <4>4
      <3>. QED BY <3>1, <3>2, <3>3
    <2>5. Narrows(wide, table)
      <3>. HIDE DEF wide
      <3>. QED BY <1>3, <2>3, CloseNarrows
    <2>6. table \in MemoryTable
      <3>. HIDE DEF wide
      <3>. QED BY <1>3, <2>3, CloseType DEF Reason
    <2>7. CitedSound(table, ework[s])
      <3>. HIDE DEF table, wide
      <3>. QED BY <2>4, <2>5, NarrowSound
    <2>. QED BY <1>1, <2>1, <2>6, <2>7, LandCites
  <1>. QED BY <1>5, <1>6

\* A commit writes the transaction's rows, over rows that closed meanwhile.
LEMMA CommitCites ==
    ASSUME TypeInv, CitationInv, OneSession, NEW s \in Session, Commit(s)
    PROVE  CitationInv'
  <1>1. /\ pc[s] = "statement" /\ Opened(s) /\ \A r \in Session : r = s
        /\ CitedSound(mem, ep) /\ pc \in [Session -> PCs]
        /\ ework[s] \in EpisodeTable /\ ep \in EpisodeTable
    BY DEF Commit, CitationInv, OneSession, TypeInv, TypeOK
  <1>2. CASE LoseRace(s)
    BY <1>1, <1>2, AttemptEndCites
  <1>3. CASE mem' = MergedMemories(s) /\ ep' = MergedEpisodes(s) /\ Finish(s)
    <2>1. \A e \in EpId : ep'[e] = ework[s][e]
      BY <1>1, <1>3 DEF MergedEpisodes, Opened
    <2>2. \A m \in MemId : mem'[m] = work[s][m] \/ mem'[m] = mem[m]
      BY <1>3 DEF MergedMemories
    <2>3. CitedSound(mem, ework[s])
      BY <1>1, PutSound DEF Opened
    <2>4. CitedSound(mem', ep')
      BY <1>1, <2>1, <2>2, <2>3 DEF CitedSound, Opened, Live, Stored
    <2>5. DocumentsPut(ep')
      BY <1>1, <2>1 DEF DocumentsPut, Opened
    <2>6. pc'[s] = "idle"
      BY <1>1, <1>3 DEF Finish
    <2>7. \A r \in Session : Taken(r)' /\ Opened(r)' /\ CitersTaken(r)'
      BY <1>1, <2>6 DEF Taken, Opened, CitersTaken
    <2>. QED BY <2>4, <2>5, <2>7 DEF CitationInv
  <1>4. LoseRace(s) \/ (mem' = MergedMemories(s) /\ ep' = MergedEpisodes(s) /\ Finish(s))
    BY DEF Commit
  <1>. QED BY <1>2, <1>3, <1>4

\* Every step keeps the citations sound.
LEMMA CitationStep ==
    ASSUME OneSession, CitedAtHome, TypeInv, CitationInv, [Next]_vars
    PROVE  CitationInv'
  <1>1. ASSUME NEW s \in Session, Remember(s) \/ FindTargets(s) \/ CallStep(s)
        PROVE  CitationInv'
    BY <1>1, QuietCites, BeginCites, StatementCites, CommitCites, CitersAreFound, ForgetCites
    DEF CallStep
  <1>2. CASE UNCHANGED vars
    BY <1>2 DEF vars, tables, txn, CitationInv, CitedSound, DocumentsPut, Taken, Resolved,
                Opened, CitersTaken, Live, Stored
  <1>. QED BY <1>1, <1>2, BesideCites DEF Next

\* The empty store has no citation.
LEMMA CitationStart == Init => CitationInv
  <1>. SUFFICES ASSUME Init PROVE CitationInv
    OBVIOUS
  <1>1. /\ \A m \in MemId : ~Live(mem, m)
        /\ \A e \in EpId : ep[e].document = FALSE
        /\ \A s \in Session : pc[s] = "idle"
    BY DEF Init, NoMemories, NoMemory, NoEpisodes, NoEpisode, Live, Stored
  <1>. QED BY <1>1 DEF CitationInv, CitedSound, DocumentsPut, Taken, Opened, CitersTaken

(***************************************************************************)
(* "A purge is refused while any live memory cites it": where one session  *)
(* writes, and no batch of another space cites a text while documents are  *)
(* put in `user`, no live claim cites a document that was purged, for any  *)
(* number of ids, spaces and batches, whatever is pruned or reinforced     *)
(* between the steps of a call.  Both conditions are needed: the purge     *)
(* looks for citers in the document's space, and before it deletes.        *)
(***************************************************************************)
THEOREM DocumentsOutliveCitations ==
    ASSUME OneSession, CitedAtHome
    PROVE  Spec => []NoLiveClaimCitesPurgedDocument
  <1>1. Init => TypeInv /\ CitationInv
    BY InitType, CitationStart
  <1>2. TypeInv /\ CitationInv /\ [Next]_vars => TypeInv' /\ CitationInv'
    BY TypeStep, CitationStep
  <1>3. CitationInv => NoLiveClaimCitesPurgedDocument
    BY DEF CitationInv, CitedSound, NoLiveClaimCitesPurgedDocument
  <1>. QED BY <1>1, <1>2, <1>3, PTL DEF Spec
===============================================================================
