----------------------------- MODULE RememberGate -----------------------------
(***************************************************************************)
(* The `remember` and `reflect` calls around their transaction             *)
(* (crates/agmem-server, tools/remember.rs and tools/reflect.rs run):      *)
(* validate, embed, probe the near-duplicate gate, write what survived,    *)
(* and report every claim under the index the caller sent it at.           *)
(*                                                                         *)
(* Sessions interleave between the probe and the transaction.  The         *)
(* transaction is one step here; MemoryStore opens it up.  A claim's       *)
(* content is a point on a line, its similarity to another falls with the  *)
(* distance, and equal points are the same text.  A report is the notes it *)
(* carries, each about a row and the claim sent at an index; the order it  *)
(* lists them in is left out.                                              *)
(***************************************************************************)
EXTENDS Common, SequencesExt

CONSTANTS
    Session,
    Sends,        \* what a caller may remember: [space, memories, episode]
    Insights,     \* what a caller may reflect: [space, memory, cites, summary]
    UserSpace,    \* the space every call may also cite from
    InitialRows,  \* the tables a store may start with, a set of sequences of rows
    Near, Band,   \* distances: near duplicate, and worth correcting
    ProbeK,       \* NEAR_DUP_PROBE
    Neighbours,   \* NEIGHBOURS
    MaxSends      \* bound on calls

Claims == [content : Int, supersedes : SUBSET Nat, valid : BOOLEAN]
\* A row of memory, with what is remembered here of the gate it passed: the
\* length of the table it probed, and what it could not see of it.
RowsOf(spaces) == [content : Int, space : spaces, live : BOOLEAN, embedded : BOOLEAN,
                   probed : Nat, gated : BOOLEAN, unseen : SUBSET Nat]

\* Texts are points; nothing is known of the probes of the rows a store
\* starts with.
ASSUME GateAssumption ==
    /\ Near \in Nat
    /\ \A send \in Sends : send.memories \in Seq(Claims) /\ send.episode \in BOOLEAN
    /\ \A insight \in Insights :
         insight.memory \in Claims /\ insight.cites \in SUBSET Nat /\ insight.summary \in BOOLEAN
    /\ \A table \in InitialRows :
         /\ table \in Seq(RowsOf({table[id].space : id \in DOMAIN table}))
         /\ \A id \in DOMAIN table : table[id].probed = 0

VARIABLES
    rows,         \* memory, in the order it was written; an id is its position
    vectors,      \* the service's embedder makes vectors (dim > 0)
    remembering,  \* the call of each session
    sends         \* calls taken

gateVars == <<rows, vectors, remembering, sends>>

AtRest == [step |-> "idle", reflect |-> FALSE, space |-> UserSpace, memories |-> << >>,
           episode |-> FALSE, cites |-> {}, summary |-> FALSE, probed |-> 0, unseen |-> << >>,
           duplicates |-> {}, related |-> {}, created |-> {}]

Note(id, of) == [id |-> id, of |-> of]
Of(notes) == {note.of : note \in notes}

LiveIn(id, space) == rows[id].live /\ rows[id].space = space

Proceed(s, call) ==
    /\ remembering' = [remembering EXCEPT ![s] = call]
    /\ UNCHANGED <<rows, vectors, sends>>

-----------------------------------------------------------------------------
GateInit ==
    /\ rows \in InitialRows
    /\ vectors \in BOOLEAN
    /\ remembering = [s \in Session |-> AtRest]
    /\ sends = 0

\* MemoryInput::validated and EpisodeInput::validated: one bad input refuses
\* the call, and so does a call with nothing in it.
Valid(send) ==
    /\ send.memories # << >> \/ send.episode
    /\ \A i \in DOMAIN send.memories : send.memories[i].valid

Send(s) ==
    /\ remembering[s].step = "idle" /\ sends < MaxSends
    /\ \E send \in Sends :
         remembering' = [remembering EXCEPT ![s] =
             IF Valid(send) THEN [AtRest EXCEPT !.step = "embed", !.space = send.space,
                                      !.memories = send.memories, !.episode = send.episode]
             ELSE AtRest]
    /\ sends' = sends + 1
    /\ UNCHANGED <<rows, vectors>>

\* resolve: an insight cites something, and every citation is stored in the
\* space written to or in the user's.
Resolved(cites, space) ==
    /\ cites # {}
    /\ \A id \in cites : id \in DOMAIN rows /\ rows[id].space \in {space, UserSpace}

Reflect(s) ==
    /\ remembering[s].step = "idle" /\ sends < MaxSends
    /\ \E insight \in Insights :
         remembering' = [remembering EXCEPT ![s] =
             IF insight.memory.valid /\ Resolved(insight.cites, insight.space)
             THEN [AtRest EXCEPT !.step = "embed", !.reflect = TRUE, !.space = insight.space,
                                 !.memories = <<insight.memory>>, !.cites = insight.cites,
                                 !.summary = insight.summary]
             ELSE AtRest]
    /\ sends' = sends + 1
    /\ UNCHANGED <<rows, vectors>>

\* One pass of the embedder over the call; a failure ends it with nothing
\* written.
Embed(s) ==
    /\ remembering[s].step = "embed"
    /\ Proceed(s, [remembering[s] EXCEPT !.step = "probe"])

EmbedFails(s) ==
    /\ remembering[s].step = "embed" /\ vectors
    /\ Proceed(s, AtRest)

-----------------------------------------------------------------------------
\* Claims that carry supersedes skip the gate, and all do without vectors.
Gated(call) == {i \in DOMAIN call.memories : vectors /\ call.memories[i].supersedes = {}}

\* The k rows closest to x among ids, the older first of two as far.
Nearer(x, a, b) ==
    LET da == Distance(rows[a].content, x) db == Distance(rows[b].content, x)
    IN  da < db \/ (da = db /\ a < b)
Nearest(ids, x, k) == {id \in ids : Cardinality({other \in ids : Nearer(x, other, id)}) < k}

\* nearest_live: the ProbeK nearest of the whole table, narrowed to the live
\* ones of the space afterwards, the first Neighbours of those.
NearestLive(space, x) ==
    LET drawn == Nearest({id \in DOMAIN rows : rows[id].embedded}, x, ProbeK)
    IN  Nearest({id \in drawn : LiveIn(id, space)}, x, Neighbours)

\* Mutant: the threshold itself is let through.
IsNearDuplicateStrict(d) == d < Near

IsNearDuplicate(d) == d <= Near
IsCorrectionCandidate(d) == d > Near /\ d <= Band

\* How far the row of a note is from the claim it is about.
Apart(call, note) == Distance(rows[note.id].content, call.memories[note.of].content)
NearDuplicates(call, notes) == {note \in notes : IsNearDuplicate(Apart(call, note))}
Corrected(call, notes) == {note \in notes : IsCorrectionCandidate(Apart(call, note))}

\* What the gate could not see: the live rows that are not among those found.
Unseen(call, found) == [i \in DOMAIN call.memories |->
    {id \in DOMAIN rows : LiveIn(id, call.space) /\ Note(id, i) \notin found}]

Gate(s) ==
    /\ remembering[s].step = "probe" /\ ~remembering[s].reflect
    /\ LET call == remembering[s]
           found == {note \in {Note(id, i) : id \in DOMAIN rows, i \in Gated(call)} :
                       note.id \in NearestLive(call.space, call.memories[note.of].content)}
       IN  Proceed(s, [call EXCEPT !.step = "insert", !.probed = Len(rows),
                              !.duplicates = NearDuplicates(call, found),
                              !.related = Corrected(call, found),
                              !.unseen = Unseen(call, found)])

\* The gate of reflect: the first near duplicate is the answer and nothing is
\* written.  What a summary cites is what it stands in for, never a
\* restatement of it.
ReflectGate(s) ==
    /\ remembering[s].step = "probe" /\ remembering[s].reflect
    /\ LET call == remembering[s]
           x == call.memories[1].content
           evidence(id) == call.summary /\ id \in call.cites
           found == {Note(id, 1) : id \in {id \in NearestLive(call.space, x) :
                                              1 \in Gated(call) /\ ~evidence(id)}}
           near == NearDuplicates(call, found)
       IN  \/ /\ near = {}
              /\ Proceed(s, [call EXCEPT !.step = "insert", !.probed = Len(rows),
                                !.related = Corrected(call, found), !.unseen = Unseen(call, found)])
           \/ \E first \in near :
                /\ \A other \in near \ {first} : Nearer(x, first.id, other.id)
                /\ Proceed(s, [call EXCEPT !.step = "done", !.duplicates = {first}])

-----------------------------------------------------------------------------
\* The indices of what is written.
Kept(call) == DOMAIN call.memories \ Of(call.duplicates)

\* insert_batch for one claim: the row that holds its text already, or a new
\* one; either way what it supersedes is closed, and a row an earlier claim
\* of the batch closed is a shortfall that fails them all.
Written(acc, i, call) ==
    LET claim == call.memories[i]
        same == {id \in DOMAIN acc.rows : /\ acc.rows[id].live /\ acc.rows[id].space = call.space
                                          /\ acc.rows[id].content = claim.content}
        targets == {d \in claim.supersedes : rows[d].live}
        id == IF same = {} THEN Len(acc.rows) + 1 ELSE CHOOSE d \in same : TRUE
        table == IF same # {} THEN acc.rows
                 ELSE Append(acc.rows, [content |-> claim.content, space |-> call.space,
                                        live |-> TRUE, embedded |-> vectors,
                                        probed |-> call.probed, gated |-> claim.supersedes = {},
                                        unseen |-> call.unseen[i]])
    IN  [rows |-> [d \in DOMAIN table |->
                     IF d \in targets \ {id} THEN [table[d] EXCEPT !.live = FALSE] ELSE table[d]],
         thrown |-> acc.thrown \/ \E d \in targets \ {id} : ~acc.rows[d].live,
         kept |-> Append(acc.kept, i),
         out |-> Append(acc.out, [id |-> id, created |-> same = {}])]

\* The batch is what the gate kept, in the order it was sent; a claim's place
\* in it is not its index.
NothingWritten == [rows |-> rows, thrown |-> FALSE, kept |-> << >>, out |-> << >>]
Batch(call) ==
    LET after[i \in 0..Len(call.memories)] ==
            IF i = 0 THEN NothingWritten
            ELSE IF i \in Kept(call) THEN Written(after[i - 1], i, call) ELSE after[i - 1]
    IN  after[Len(call.memories)]

Places(end, created) == {k \in DOMAIN end.out : end.out[k].created = created}

\* Mutant: a duplicate the store found is reported at its place in the batch.
ReportedOfPosition(end) == {Note(end.out[k].id, k) : k \in Places(end, FALSE)}

\* What the store made, and what it found to be stored already, under the
\* index it was sent at.
Created(end) == {Note(end.out[k].id, end.kept[k]) : k \in Places(end, TRUE)}
Reported(end) == {Note(end.out[k].id, end.kept[k]) : k \in Places(end, FALSE)}

\* Ids that are not in the space fail the transaction.
Known(call) == \A i \in Kept(call) : \A d \in call.memories[i].supersedes :
                  d \in DOMAIN rows /\ rows[d].space = call.space

\* The transaction and the report.  Nothing is written when every claim was
\* blocked and there is no episode.
Insert(s) ==
    /\ remembering[s].step = "insert" /\ ~remembering[s].reflect
    /\ LET call == remembering[s]
           end == Batch(call)
           duplicates == call.duplicates \cup Reported(end)
       IN  IF Kept(call) = {} /\ ~call.episode
           THEN Proceed(s, [call EXCEPT !.step = "done", !.related = {}])
           ELSE IF ~Known(call) \/ end.thrown
           THEN Proceed(s, AtRest)
           ELSE /\ rows' = end.rows
                /\ remembering' = [remembering EXCEPT ![s] =
                      [call EXCEPT !.step = "done", !.created = Created(end),
                                   !.duplicates = duplicates,
                                   !.related = {note \in @ : note.of \notin Of(duplicates)}]]
                /\ UNCHANGED <<vectors, sends>>

\* One insight, one row: it is created, or the row that says the same is named.
ReflectInsert(s) ==
    /\ remembering[s].step = "insert" /\ remembering[s].reflect
    /\ LET call == remembering[s]
           end == Written(NothingWritten, 1, call)
           made == end.out[1].created
       IN  IF ~Known(call)
           THEN Proceed(s, AtRest)
           ELSE /\ rows' = end.rows
                /\ remembering' = [remembering EXCEPT ![s] =
                      IF made
                      THEN [call EXCEPT !.step = "done", !.created = {Note(end.out[1].id, 1)}]
                      ELSE [call EXCEPT !.step = "done", !.related = {},
                                        !.duplicates = {Note(end.out[1].id, 1)}]]
                /\ UNCHANGED <<vectors, sends>>

\* A race the retries of insert_batch did not win.
InsertFails(s) ==
    /\ remembering[s].step = "insert"
    /\ Kept(remembering[s]) # {} \/ remembering[s].episode
    /\ Proceed(s, AtRest)

RememberDone(s) ==
    /\ remembering[s].step = "done"
    /\ Proceed(s, AtRest)

GateNext == \E s \in Session :
    \/ Send(s) \/ Reflect(s) \/ Embed(s) \/ EmbedFails(s) \/ Gate(s) \/ ReflectGate(s)
    \/ Insert(s) \/ ReflectInsert(s) \/ InsertFails(s) \/ RememberDone(s)

GateSpec == GateInit /\ [][GateNext]_gateVars
-----------------------------------------------------------------------------
GateTypeOK ==
    /\ vectors \in BOOLEAN /\ sends \in 0..MaxSends
    /\ \A s \in Session : remembering[s].step \in {"idle", "embed", "probe", "insert", "done"}
    /\ \A id \in DOMAIN rows : rows[id].live \in BOOLEAN

(***************************************************************************)
(* A report accounts for every claim the caller sent, whatever was left    *)
(* out of the batch before the transaction and found stored in it: each is *)
(* created as it was sent or named under its own index as a duplicate of a *)
(* row that says the same, never both, and related rows are given for none *)
(* that was a duplicate.                                                   *)
(***************************************************************************)
EveryClaimAnswered ==
    \A s \in Session : remembering[s].step = "done" =>
        LET call == remembering[s]
        IN  /\ Of(call.created) \cup Of(call.duplicates) = DOMAIN call.memories
            /\ Of(call.created) \cap Of(call.duplicates) = {}
            /\ \A note \in call.created : Apart(call, note) = 0
            /\ \A note \in call.duplicates : Apart(call, note) <= Near
            /\ \A note \in call.related :
                 Apart(call, note) > Near /\ note.of \notin Of(call.duplicates)

(***************************************************************************)
(* The gate keeps near duplicates apart as far as it can see: of two live  *)
(* claims of a space that say the same, the later one corrected something, *)
(* or its probe came before the earlier was written (another session, or   *)
(* the same batch), or the draw, which closed rows and other spaces share, *)
(* had no room for the earlier one, or it is the summary of the earlier.   *)
(***************************************************************************)
NearDuplicatesExcused ==
    \A b \in DOMAIN rows : \A a \in 1..(b - 1) :
        /\ rows[a].live /\ rows[b].live /\ rows[a].space = rows[b].space
        /\ rows[a].embedded /\ rows[b].embedded /\ rows[b].gated
        /\ Distance(rows[a].content, rows[b].content) <= Near
        => rows[b].probed < a \/ a \in rows[b].unseen
=============================================================================
