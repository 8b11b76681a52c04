------------------------------ MODULE RecallPage ------------------------------
(***************************************************************************)
(* One `recall` call from the rows the store returned to the answer        *)
(* (crates/agmem-server, tools/recall.rs run, with tools/hop.rs,           *)
(* tools/occupancy.rs, tools/abstain.rs and crates/agmem-core scoring.rs). *)
(*                                                                         *)
(* The steps of run are the actions, in its order: check the parameters,   *)
(* widen the candidates by one entity hop, rank them, apply the per-source *)
(* cap and the verbatim cap, give a hop-voted row the last slot, truncate  *)
(* to k, cut at the floor or the knee, reinforce and count.  Each          *)
(* re-orders the page the one before it built; what matters is what they   *)
(* do together.                                                            *)
(*                                                                         *)
(* A row carries what the steps read: its fused score (rrf), the points    *)
(* retention, importance and temporal fit add to it (standing), the        *)
(* similarity a vector arm measured, the source it occupies the page       *)
(* under, and its entities.  rrf_normalized, a fraction in the code, is an *)
(* integer between 0 and Scale.                                            *)
(***************************************************************************)
EXTENDS Common, SequencesExt

CONSTANTS
    RowId,       \* ids of claims and slices
    Requests,    \* the calls, each with the rows the store returns for it
    MaxK,        \* config.max_k
    Scale,       \* rrf_normalized = 1.0
    SeedHits, SeedCap, HubMinPool, HopLimit, \* the constants of hop.rs
    HopVotes,    \* the hop arm's contribution by rank, in the currency of rrf
    Floor        \* the abstention floor of the embedding model

VerbatimCap == 1

\* A row of the pool, before and after the hop.
PoolRow ==
    [id : RowId, chunk : BOOLEAN, source : STRING, entities : Seq(STRING), sim : Int \cup {None},
     rrf : Int, standing : Int]

\* The store returns a row once; only claims are linked; a slice and a claim
\* have different ids.  A listing holds claims that its filters select.
ASSUME RecallAssumption ==
    /\ {SeedHits, SeedCap, HubMinPool, HopLimit, MaxK, Scale} \subseteq Nat /\ Floor \in Int
    /\ HopVotes \in [1..HopLimit -> Nat] /\ None # "verbatim"
    /\ \A r \in Requests :
         /\ r.k \in Nat /\ r.search \in BOOLEAN
         /\ r.rows \in Seq(PoolRow) /\ r.linked \in Seq(PoolRow)
         /\ \A i, j \in DOMAIN r.rows : r.rows[i].id = r.rows[j].id => i = j
         /\ \A i, j \in DOMAIN r.linked : r.linked[i].id = r.linked[j].id => i = j
         /\ \A i \in DOMAIN r.linked :
              /\ ~r.linked[i].chunk
              /\ \A j \in DOMAIN r.rows : r.rows[j].chunk => r.rows[j].id # r.linked[i].id
         /\ ~r.search => /\ \A i \in DOMAIN r.rows : ~r.rows[i].chunk
                         /\ r.matching \in Nat /\ Len(r.rows) <= r.matching

\* A listing that came back shorter than a page is the whole selection.  The
\* rows drawn are at least as many as a page by the defaults of config.rs
\* (64 against 50); nothing enforces it.
PoolHoldsAPage ==
    \A r \in Requests : ~r.search /\ Len(r.rows) < r.k => Len(r.rows) = r.matching

VARIABLES
    request,     \* the RecallParams and what the store answers them with
    recallStep,  \* the next step of run, idle between calls
    candidates,  \* the pool, widened by the hop
    hopped,      \* ids the hop voted for
    byScore,     \* the ids of the top k by score alone
    ranked,      \* the rows in the order the steps so far left them
    capped,      \* what the caps report as moved off the page, by pass
    cut,         \* the verdict of abstain::apply
    touched,     \* the ids reinforced
    truncated    \* whether the answer says it is a page of a larger set

recallVars == <<request, recallStep, candidates, hopped, byScore, ranked, capped, cut, touched, truncated>>

\* Capped, when neither cap changed the page.
Uncapped == [source |-> 0, verbatim |-> 0]

Ids(rows) == {rows[i].id : i \in DOMAIN rows}
ClaimsOf(rows) == Ids(Picked(rows, {i \in DOMAIN rows : ~rows[i].chunk}))
MostOf(S) == CHOOSE x \in S : \A y \in S : y <= x
LeastOf(S) == CHOOSE x \in S : \A y \in S : x <= y

\* A stable sort by falling key: each place goes where the places before it
\* leave it.
Before(key, i, j) == key[i] > key[j] \/ (key[i] = key[j] /\ i < j)
StableOrder(key) ==
    [p \in DOMAIN key |->
        CHOOSE i \in DOMAIN key : Cardinality({j \in DOMAIN key : Before(key, j, i)}) = p - 1]
Sorted(s, key) == [p \in DOMAIN s |-> s[StableOrder(key)[p]]]

-----------------------------------------------------------------------------
(***************************************************************************)
(* tools/hop.rs: one hop along the entities of the strongest hits.         *)
(***************************************************************************)
EntityPool(rows) == Picked(rows, {i \in DOMAIN rows : ~rows[i].chunk})

\* The entities at least half of the pool carries.
Hubs(pool) ==
    IF Len(pool) < HubMinPool THEN {}
    ELSE {e \in UNION {ToSet(pool[i].entities) : i \in DOMAIN pool} :
             2 * Cardinality({i \in DOMAIN pool : e \in ToSet(pool[i].entities)}) >= Len(pool)}

\* The entities of the top rows, the ones most of them name first and then
\* in the order they were seen, without the hubs.
Seeds(top, hubs) ==
    LET named == FlattenSeq([i \in DOMAIN top |-> top[i].entities])
        seen == Picked(named, {i \in DOMAIN named : /\ named[i] \notin hubs
                                                   /\ \A j \in 1..(i - 1) : named[j] # named[i]})
        count(e) == Cardinality({i \in DOMAIN top : e \in ToSet(top[i].entities)})
    IN  FirstOf(Sorted(seen, [i \in DOMAIN seen |-> count(seen[i])]), SeedCap)

LeadsOnward(row, seeds, hubs) ==
    \E e \in ToSet(row.entities) : e \notin ToSet(seeds) /\ e \notin hubs

\* A claim already in the pool gains the vote, a new one enters with it alone.
Merge(rows, onward) ==
    LET vote(id) == HopVotes[CHOOSE i \in DOMAIN onward : onward[i].id = id]
        raised == [i \in DOMAIN rows |->
                     IF rows[i].id \in Ids(onward) /\ ~rows[i].chunk
                     THEN [rows[i] EXCEPT !.rrf = @ + vote(rows[i].id)] ELSE rows[i]]
        new == Picked(onward, {i \in DOMAIN onward : onward[i].id \notin ClaimsOf(rows)})
    IN  raised \o [i \in DOMAIN new |-> [new[i] EXCEPT !.rrf = vote(new[i].id), !.sim = None]]

(***************************************************************************)
(* agmem-core scoring.rs: rank.  Sorted by score; the sort is stable.      *)
(***************************************************************************)
Normalized(best, least, row) ==
    CASE best <= 0 -> 0
      [] best > 0 /\ best > least -> ((row.rrf - least) * Scale) \div (best - least)
      [] OTHER -> Scale

\* 0.6 of the normalised match and the points that do not depend on the query.
Score(best, least, row) == 6 * Normalized(best, least, row) + row.standing

\* A row as the passes after the ranking see it.
Hit(row, match) ==
    [id |-> row.id, chunk |-> row.chunk, source |-> row.source, sim |-> row.sim, match |-> match]

Rank(rows) ==
    LET rrfs == {rows[i].rrf : i \in DOMAIN rows}
        best == MostOf(rrfs)
        least == LeastOf(rrfs)
    IN  Sorted([i \in DOMAIN rows |-> Hit(rows[i], Normalized(best, least, rows[i]))],
               [i \in DOMAIN rows |-> Score(best, least, rows[i])])

(***************************************************************************)
(* tools/occupancy.rs: rows over quota are deferred below the others, when *)
(* that changes the page at all.  A key is the quota a row counts against. *)
(***************************************************************************)
Cap(k) == LET half == (k + 1) \div 2 IN IF half > 2 THEN half ELSE 2

SourceKey(row) == IF row.source = "agent" THEN None ELSE row.source
VerbatimKey(row) == IF row.chunk THEN "verbatim" ELSE None
SourceKeys(rows) == [i \in DOMAIN rows |-> SourceKey(rows[i])]
VerbatimKeys(rows) == [i \in DOMAIN rows |-> VerbatimKey(rows[i])]

OverQuota(keys, cap, i) ==
    /\ keys[i] # None
    /\ Cardinality({j \in 1..(i - 1) : keys[j] = keys[i]}) >= cap

Displaced(keys, k, cap) ==
    IF Len(keys) <= k THEN 0
    ELSE Cardinality({i \in 1..k : OverQuota(keys, cap, i)})

Reslice(rows, keys, k, cap) ==
    IF Displaced(keys, k, cap) = 0 THEN rows
    ELSE Sorted(rows, [i \in DOMAIN rows |-> IF OverQuota(keys, cap, i) THEN 0 ELSE 1])

\* hop.rs reserve_tail: the best hop-voted row below the cut takes slot k
\* when the page holds none.
ReserveTail(rows, k, voted) ==
    LET hop(i) == rows[i].id \in voted /\ ~rows[i].chunk
        waiting == {i \in DOMAIN rows : i > k /\ hop(i)}
    IN  IF k < 2 \/ Len(rows) <= k \/ (\E i \in 1..k : hop(i)) \/ waiting = {} THEN rows
        ELSE LET w == LeastOf(waiting)
             IN  [i \in DOMAIN rows |-> CASE i = k -> rows[w]
                                          [] k < i /\ i <= w -> rows[i - 1]
                                          [] OTHER -> rows[i]]

(***************************************************************************)
(* tools/abstain.rs: nothing, a trimmed tail, or the page as it came.      *)
(***************************************************************************)
Measured(rows) == {rows[i].sim : i \in DOMAIN rows} \ {None}

Abstains(rows) ==
    /\ rows # << >> /\ rows[1].sim # None
    /\ MostOf(Measured(rows)) < Floor

\* The prefix minima of the match, and the drop after each row but the last.
Envelope(rows) == [i \in DOMAIN rows |-> LeastOf({rows[j].match : j \in 1..i})]
Gap(rows, i) == Envelope(rows)[i] - Envelope(rows)[i + 1]
Widest(rows) == MostOf({Gap(rows, i) : i \in 1..(Len(rows) - 1)})

\* max_by keeps the last of several widest gaps.
Knee(rows) == MostOf({i \in 1..(Len(rows) - 1) : Gap(rows, i) = Widest(rows)})

\* At least MIN_GAP (0.10) and more than half of the whole spread.
HasKnee(rows) ==
    /\ Len(rows) >= 3
    /\ 10 * Widest(rows) >= Scale
    /\ 2 * Widest(rows) > Envelope(rows)[1] - Envelope(rows)[Len(rows)]

Expendable(row) == row.sim # None /\ row.sim < Floor

Trim(rows, spared) ==
    Picked(rows, {i \in DOMAIN rows : i <= Knee(rows) \/ i \in spared \/ ~Expendable(rows[i])})

-----------------------------------------------------------------------------
RecallInit ==
    /\ request = None
    /\ recallStep = "idle"
    /\ candidates = << >>
    /\ hopped = {}
    /\ byScore = << >>
    /\ ranked = << >>
    /\ capped = Uncapped
    /\ cut = None
    /\ touched = {}
    /\ truncated = FALSE

\* resolve_k, resolve_window and resolve_liveness refuse the call before
\* anything is read; search_hybrid or direct_lookup then returns the rows.
BadK(k) == k = 0 \/ k > MaxK
BadWindow(window) == window \in {"inverted", "unparsable"}
Refused(r) == BadK(r.k) \/ BadWindow(r.window)

Recall ==
    /\ recallStep = "idle"
    /\ \E r \in Requests :
         /\ request' = r
         /\ IF Refused(r) THEN recallStep' = "done" /\ UNCHANGED candidates
            ELSE recallStep' = "hop" /\ candidates' = r.rows
    /\ UNCHANGED <<hopped, byScore, ranked, capped, cut, touched, truncated>>

\* A lookup by filters alone, a search that filters on entities, a hop with
\* nothing to follow and one whose lookup failed leave the pool alone.
NoHop ==
    /\ recallStep = "hop"
    /\ recallStep' = "rank"
    /\ UNCHANGED <<request, candidates, hopped, byScore, ranked, capped, cut, touched, truncated>>

Hop ==
    /\ recallStep = "hop"
    /\ request.search /\ ~request.by_entity
    /\ LET pool == EntityPool(candidates)
           hubs == Hubs(pool)
           seeds == Seeds(FirstOf(pool, SeedHits), hubs)
           linked(row) == \E e \in ToSet(row.entities) : e \in ToSet(seeds)
           found == {i \in DOMAIN request.linked :
                       linked(request.linked[i]) /\ LeadsOnward(request.linked[i], seeds, hubs)}
           onward == FirstOf(Picked(request.linked, found), HopLimit)
       IN  /\ seeds # << >>
           /\ candidates' = Merge(candidates, onward)
           /\ hopped' = Ids(onward)
    /\ recallStep' = "rank"
    /\ UNCHANGED <<request, byScore, ranked, capped, cut, touched, truncated>>

RankRows ==
    /\ recallStep = "rank"
    /\ ranked' = Rank(candidates)
    /\ byScore' = FirstOf([i \in DOMAIN ranked' |-> ranked'[i].id], request.k)
    /\ recallStep' = "cap"
    /\ UNCHANGED <<request, candidates, hopped, capped, cut, touched, truncated>>

\* Mutant: the verbatim pass starts over from the ranking.
CapRowsApart ==
    /\ recallStep = "cap"
    /\ ranked' = Reslice(ranked, VerbatimKeys(ranked), request.k, VerbatimCap)
    /\ capped' = [source |-> Displaced(SourceKeys(ranked), request.k, Cap(request.k)),
                  verbatim |-> Displaced(VerbatimKeys(ranked), request.k, VerbatimCap)]
    /\ recallStep' = "page"
    /\ UNCHANGED <<request, candidates, hopped, byScore, cut, touched, truncated>>

\* The per-source pass, then the verbatim pass on what it left.
CapRows ==
    /\ recallStep = "cap"
    /\ LET k == request.k
           first == Reslice(ranked, SourceKeys(ranked), k, Cap(k))
       IN  /\ ranked' = Reslice(first, VerbatimKeys(first), k, VerbatimCap)
           /\ capped' = [source |-> Displaced(SourceKeys(ranked), k, Cap(k)),
                         verbatim |-> Displaced(VerbatimKeys(first), k, VerbatimCap)]
    /\ recallStep' = "page"
    /\ UNCHANGED <<request, candidates, hopped, byScore, cut, touched, truncated>>

TakePage ==
    /\ recallStep = "page"
    /\ ranked' = FirstOf(ReserveTail(ranked, request.k, hopped), request.k)
    /\ recallStep' = "cut"
    /\ UNCHANGED <<request, candidates, hopped, byScore, capped, cut, touched, truncated>>

\* Mutant: a hop row that made the page by its score is not spared.
ProtectedByPlace(row) == row.id \notin ToSet(byScore)

\* The rows policy placed on the page rather than score: the trim spares them.
Protected(row) ==
    row.id \notin ToSet(byScore) \/ (row.id \in hopped /\ ~row.chunk)

\* The verdict, as the answer carries it.
CutTo(after) == [kept |-> Len(after), considered |-> Len(ranked)]

CutPage ==
    /\ recallStep = "cut"
    /\ LET spared == {i \in DOMAIN ranked : Protected(ranked[i])}
           after == IF ~request.search \/ ~(Abstains(ranked) \/ HasKnee(ranked)) THEN ranked
                    ELSE IF Abstains(ranked) THEN << >> ELSE Trim(ranked, spared)
       IN  /\ ranked' = after
           /\ cut' = IF Len(after) < Len(ranked) THEN CutTo(after) ELSE None
           /\ capped' = IF after = << >> THEN Uncapped ELSE capped
    /\ recallStep' = "answer"
    /\ UNCHANGED <<request, candidates, hopped, byScore, touched, truncated>>

ClaimsOnPage == ClaimsOf(ranked)

\* A call that asked for live claims reinforces the ones it returns.
Reinforces == IF request.live THEN ClaimsOnPage ELSE {}

\* The page was full before the cut, and the filters select more claims than
\* came back.
Truncates ==
    LET considered == IF cut = None THEN Len(ranked) ELSE cut.considered
        abstained == cut # None /\ cut.kept = 0
    IN  considered = request.k /\ ~abstained /\ request.matching > Cardinality(ClaimsOnPage)

Answer ==
    /\ recallStep = "answer"
    /\ touched' = Reinforces
    /\ truncated' = Truncates
    /\ recallStep' = "done"
    /\ UNCHANGED <<request, candidates, hopped, byScore, ranked, capped, cut>>

\* The answer is sent: nothing of the call is kept.
RecallReply ==
    /\ recallStep = "done"
    /\ recallStep' = "idle"
    /\ request' = None /\ cut' = None
    /\ candidates' = << >> /\ byScore' = << >> /\ ranked' = << >>
    /\ hopped' = {} /\ touched' = {}
    /\ capped' = Uncapped
    /\ truncated' = FALSE

RecallNext ==
    \/ Recall \/ NoHop \/ Hop \/ RankRows \/ CapRows \/ TakePage \/ CutPage
    \/ Answer \/ RecallReply

RecallSpec == RecallInit /\ [][RecallNext]_recallVars
-----------------------------------------------------------------------------
RecallTypeOK ==
    /\ recallStep \in {"idle", "hop", "rank", "cap", "page", "cut", "answer", "done"}
    /\ hopped \subseteq Ids(candidates)
    /\ Ids(ranked) \subseteq Ids(candidates)
    /\ touched \subseteq Ids(ranked)
    /\ capped.source \in Nat /\ capped.verbatim \in Nat
    /\ truncated \in BOOLEAN

OnPage == Ids(ranked)

Page == ToSet(ranked)
By(source, rows) == {row \in rows : SourceKey(row) = source}
LeftOff == {row \in ToSet(candidates) : row.id \notin OnPage}

(***************************************************************************)
(* A source holds more than its quota, by more than the slices the         *)
(* verbatim cap moved off the page, only when each row left off is such a  *)
(* slice or of a source that has its quota too, up to the slices that      *)
(* moved.  Where none moved that is the quota as the comments have it.     *)
(* The row the hop may promote is not counted.  Slices hold more than      *)
(* their one place only when nothing but slices was left off.              *)
(***************************************************************************)
Shared(page, off, voted, quota, moved) ==
    LET flooding == {source \in {SourceKey(row) : row \in page} \ {None} :
                       Cardinality({row \in By(source, page) : row.id \notin voted}) > quota + moved}
    IN  /\ flooding # {} =>
             \A row \in off :
                \/ row.chunk /\ moved > 0
                \/ SourceKey(row) # None /\ Cardinality(By(SourceKey(row), page)) >= quota - moved
        /\ Cardinality({row \in page : row.chunk}) > VerbatimCap => \A row \in off : row.chunk

(***************************************************************************)
(* Three passes re-order the rows before the page is cut.  "Nothing is     *)
(* dropped, and the page still fills": it holds k different rows, or every *)
(* row there is, and is shared out as the passes say.                      *)
(***************************************************************************)
PageShared ==
    recallStep = "cut" =>
        /\ Cardinality(OnPage) = Len(ranked)
        /\ Len(ranked) = Smaller(Len(candidates), request.k)
        /\ Shared(Page, LeftOff, hopped, Cap(request.k), capped.verbatim)

(***************************************************************************)
(* The design has no exception: "no source may hold more than ceil(k/2)    *)
(* (min 2) of the page; the surplus defers to the next-ranked hits from    *)
(* elsewhere", and the module names one, the row the hop promotes.  The    *)
(* verbatim pass runs after the quotas and fills the places it frees from  *)
(* whatever ranks next, a source at its quota included.                    *)
(***************************************************************************)
QuotasHold ==
    recallStep = "cut" =>
        \A source \in {SourceKey(row) : row \in Page} \ {None} :
            Cardinality(By(source, Page)) > Cap(request.k) + 1 =>
                \A row \in LeftOff :
                    ~row.chunk => SourceKey(row) # None
                                    /\ Cardinality(By(SourceKey(row), Page)) >= Cap(request.k)

(***************************************************************************)
(* The answer keeps what the steps before promised.  When the hop voted    *)
(* for rows, one of them is on every answer with room for two ("the row    *)
(* was fetched precisely to be seen"), whatever the caps deferred and the  *)
(* knee trimmed.  A listing that reports no truncation returned every      *)
(* claim its filters select.  An answer that abstained reports no cap and  *)
(* no truncation, and reinforces nothing.                                  *)
(***************************************************************************)
AnswerHonest ==
    recallStep = "done" /\ request # None /\ ~Refused(request) =>
        /\ ranked # << >> /\ request.k >= 2 /\ hopped # {} => OnPage \cap hopped # {}
        /\ ~request.search /\ ~truncated => Cardinality(OnPage) = request.matching
        /\ ranked = << >> => capped.source = 0 /\ touched = {} /\ ~truncated
=============================================================================
