------------------------------- MODULE Inspect -------------------------------
(***************************************************************************)
(* The `inspect` tool beside writers and purges (crates/agmem-server,      *)
(* tools/inspect.rs; crates/agmem-store, repo/read.rs, queries/read.rs).   *)
(*                                                                         *)
(* Answering one reference takes several queries, and nothing holds the    *)
(* store still between them: each query is an action, and documents are    *)
(* put and rows purged in between.  A bare id is tried as a claim, as a    *)
(* slice and as a text, in each searched space in turn.  A document is     *)
(* read a window at a time, and the reader sends next_offset back.         *)
(*                                                                         *)
(* The store is its three tables.  A claim keeps what it came from, what it *)
(* is derived from and the ids its supersession links lead to: following   *)
(* them is MemoryStore's matter, but a walk that meets the id of a purged  *)
(* row fails the call.                                                     *)
(***************************************************************************)
EXTENDS Common, SequencesExt

CONSTANTS
    ClaimRows,   \* the claims a store may start with, a set of sets of records
    TextRows,    \* the texts, likewise
    SliceRows,   \* the slices, likewise
    NewTexts,    \* documents that may be put while a call is under way: [text, slices]
    GraceStart,  \* a text stored before it is out of the grace of a new document
    Spaces,      \* the searched spaces, in order
    Asks         \* the references and windows a reader may send

\* Every text and every slice there may be.
AnyText == (UNION TextRows) \cup {d.text : d \in NewTexts}
AnySlice == (UNION SliceRows) \cup (UNION {d.slices : d \in NewTexts})

\* An id is one row's, of one table; a slice is in the space of its text;
\* offset and limit are counts of characters.
Unique(rows) == \A r, q \in rows : r.id = q.id => r = q
ASSUME InspectAssumption ==
    /\ Spaces \in Seq(ToSet(Spaces)) /\ Spaces # << >>
    /\ None \notin Nat /\ None \notin {"found", "missing", "internal"}
    /\ \A rows \in ClaimRows : IsFiniteSet(rows) /\ Unique(rows) /\ \A c \in rows : c.id \in c.chain
    /\ Unique(AnyText) /\ Unique(AnySlice)
    /\ \A t \in AnyText : t.id # None /\ t.chars \in Nat /\ \A s \in AnySlice : s.id # t.id
    /\ \A s \in AnySlice : s.chars \in Nat
    /\ \A ts \in TextRows, ss \in SliceRows :
         \A s \in ss : \E t \in ts : t.id = s.episode /\ t.space = s.space
    /\ \A d \in NewTexts : \A s \in d.slices : d.text.id = s.episode /\ d.text.space = s.space
    /\ Asks \subseteq [kind : {"memory", "episode", "bare", "doc"}, id : {ask.id : ask \in Asks},
                       offset : Nat \cup {None}, limit : Nat \cup {None}]

VARIABLES
    claims,      \* memory: [id, space, source, derived, expands, chain, live], derived_from
                 \* split into the texts and the claims it names, and the links both ways
    texts,       \* episode: [id, space, title, chars, at], a document when it has a title
    slices,      \* episode_chunk: [id, space, episode, position, chars]
    call,        \* the call being answered, or None
    read,        \* the windows the reader has put together: [text, from, to]
    outcome,     \* how the last call ended: None, "found", "missing", "internal"
    steady       \* what the call names was there when it began, with every link of the
                 \* chains it leads to, and none of it was purged since

inspectVars == <<claims, texts, slices, call, read, outcome, steady>>

With(table, id, space) == {r \in table : r.id = id /\ r.space = space}
Here == Spaces[call.at]
LastSpace == call.at = Len(Spaces)

-----------------------------------------------------------------------------
(***************************************************************************)
(* The queries of queries/read.rs over the tables.                         *)
(***************************************************************************)
\* history_chain: the rows of the links the walk names are all there.
Unbroken(claim) == claim.chain \subseteq {c.id : c \in claims}

\* documents_by_title: the versions of a title, and the first of them in the
\* order it returns them, the newest.
DocumentsByTitle(space, title) == {t \in texts : t.space = space /\ t.title = title}
IsNewest(version, versions) == \A v \in versions : v.at <= version.at

\* episode(): the chunks of a text, and the first of them by position.
ChunksOf(id) == {c \in slices : c.episode = id}
FirstChunk(chunks) == {c \in chunks : \A d \in chunks : c.position <= d.position}

\* document_citers: the live claims of the space that name the document.
DocumentCiters(space, id) ==
    {c \in claims : c.space = space /\ c.live /\ (c.source = id \/ id \in c.derived)}

\* documents: the documents of a space.
Documents(space) == {t \in texts : t.space = space /\ t.title # None}

\* Mutant: a claim that names a document by both links counts twice.
CitedCountTwice(space, id) ==
    LET live == {c \in claims : c.space = space /\ c.live}
    IN  Cardinality({c \in live : c.source = id}) + Cardinality({c \in live : id \in c.derived})

\* documents: the listing counts (claim, document) pairs from two queries.
CitedCount(space, id) ==
    LET docs == {t.id : t \in Documents(space)}
        live == {c \in claims : c.space = space /\ c.live}
        bySource == {<<c.id, c.source>> : c \in {x \in live : x.source \in docs}}
        byDerivation == UNION {{<<c.id, d>> : d \in c.derived} :
                                 c \in {x \in live : x.derived \cap docs # {}}}
    IN  Cardinality({p \in bySource \cup byDerivation : p[2] = id})

\* orphan_documents: the documents past their grace that no live claim names by
\* either link.
OrphanDocuments(space) ==
    LET live == {c \in claims : c.space = space /\ c.live}
        cited == {c.source : c \in {x \in live : x.source # None}}
        derived == UNION {c.derived : c \in live}
    IN  {t.id : t \in {d \in Documents(space) : d.at < GraceStart}} \ (cited \cup derived)

(***************************************************************************)
(* WindowSpec::apply: the slice of a text the answer carries, and where to *)
(* read on.  A document defaults to the length of its first chunk.         *)
(***************************************************************************)
DefaultLimit(text) ==
    LET first == FirstChunk(ChunksOf(text.id))
        chars == (CHOOSE c \in first : TRUE).chars
    IN  IF text.title # None /\ first # {} /\ chars > 0 THEN chars ELSE None

\* Mutant: the limit is taken for a position.
WindowEndAbsolute(text, offset, limit) ==
    Smaller(text.chars, IF limit = None THEN text.chars ELSE limit)

WindowEnd(text, offset, limit) ==
    Smaller(text.chars, offset + (IF limit = None THEN text.chars - offset ELSE limit))

Window(text, ask) ==
    LET limit == IF ask.limit # None THEN ask.limit ELSE DefaultLimit(text)
        offset == Smaller(IF ask.offset = None THEN 0 ELSE ask.offset, text.chars)
        end == WindowEnd(text, offset, limit)
        whole == ask.offset = None /\ limit = None
    IN  [text |-> text.id, from |-> IF whole THEN 0 ELSE offset,
         to |-> IF whole THEN text.chars ELSE end,
         next_offset |-> IF ~whole /\ end < text.chars THEN end ELSE None]

-----------------------------------------------------------------------------
InspectInit ==
    /\ claims \in ClaimRows /\ texts \in TextRows /\ slices \in SliceRows
    /\ call = None
    /\ read = << >>
    /\ outcome = None
    /\ steady = TRUE

\* What the reference names, in a searched space.
NamedRows(ask) ==
    LET searched == ToSet(Spaces)
        inTable(table) == \E r \in table : r.id = ask.id /\ r.space \in searched
    IN  CASE ask.kind = "memory" -> inTable(claims)
          [] ask.kind = "episode" -> inTable(texts)
          [] ask.kind = "bare" -> inTable(claims) \/ inTable(slices) \/ inTable(texts)
          [] ask.kind = "doc" -> \E t \in texts : t.title = ask.id /\ t.space \in searched

\* The claims answering a reference walks from: the claim itself and what it is
\* derived from.
Cited(ask) == UNION {c.expands : c \in {d \in claims : d.id = ask.id}}
Reached(ask) ==
    {c \in claims : /\ ask.kind \in {"memory", "bare"} /\ c.space \in ToSet(Spaces)
                   /\ c.id \in {ask.id} \cup Cited(ask)}

\* parse has told the kinds of reference apart; run goes to the first query.
FirstQuery(kind) ==
    CASE kind \in {"memory", "bare"} -> "exists"
      [] kind = "episode" -> "text"
      [] kind = "doc" -> "title"

InspectCall ==
    /\ call = None
    /\ \E ask \in Asks :
         call' = [ask |-> ask, query |-> FirstQuery(ask.kind), at |-> 1, id |-> ask.id,
                  todo |-> {}]
    /\ steady' = (NamedRows(call'.ask) /\ \A c \in Reached(call'.ask) : Unbroken(c))
    /\ read' = << >> /\ outcome' = None
    /\ UNCHANGED <<claims, texts, slices>>

\* The queries of a call leave the store alone.
GoOn(query, at, id) ==
    /\ call' = [call EXCEPT !.query = query, !.at = at, !.id = id]
    /\ UNCHANGED <<claims, texts, slices, read, outcome, steady>>

Viewed(cited) ==
    /\ call' = [call EXCEPT !.query = "expand", !.at = 1, !.todo = @ \ {cited}]
    /\ UNCHANGED <<claims, texts, slices, read, outcome, steady>>

End(how) ==
    /\ outcome' = how
    /\ call' = [call EXCEPT !.query = "done"]
    /\ UNCHANGED <<claims, texts, slices, read, steady>>

\* detailed: the answer carries a window, and the reader keeps it.
Found(text) ==
    /\ outcome' = "found"
    /\ read' = Append(read, Window(text, call.ask))
    /\ call' = [call EXCEPT !.query = "done"]
    /\ UNCHANGED <<claims, texts, slices, steady>>

\* memory(), history_chain: the claim is looked for and only then walked from,
\* and a link without its row is an error.
Exists ==
    /\ call # None /\ call.query = "exists"
    /\ \/ With(claims, call.id, Here) # {} /\ GoOn("walk", call.at, call.id)
       \/ With(claims, call.id, Here) = {} /\ ~LastSpace /\ GoOn("exists", call.at + 1, call.id)
       \/ /\ With(claims, call.id, Here) = {} /\ LastSpace
          /\ IF call.ask.kind = "bare" THEN GoOn("slice", 1, call.id) ELSE End("missing")

ChainThere == \E c \in With(claims, call.id, Here) : Unbroken(c)

Walk ==
    /\ call # None /\ call.query = "walk"
    /\ \/ ~ChainThere /\ End("internal")
       \/ \E c \in With(claims, call.id, Here) :
            /\ ChainThere
            /\ call' = [call EXCEPT !.query = IF c.source = None THEN "expand" ELSE "source",
                                    !.at = 1, !.todo = c.expands]
            /\ UNCHANGED <<claims, texts, slices, read, outcome, steady>>

\* The text a claim came from may be gone: the claim is still an answer.
SourceText == call # None /\ call.query = "source" /\ GoOn("expand", 1, call.id)

\* view(): each claim the answer is derived from is looked for in every
\* space, passed over when it is gone, and walked from when it is there.
Expand ==
    /\ call # None /\ call.query = "expand"
    /\ \/ call.todo = {} /\ End("found")
       \/ /\ call.todo # {}
          /\ LET cited == CHOOSE c \in call.todo : TRUE
             IN  \/ With(claims, cited, Here) # {} /\ GoOn("view", call.at, cited)
                 \/ With(claims, cited, Here) = {} /\ ~LastSpace /\ GoOn("expand", call.at + 1, cited)
                 \/ With(claims, cited, Here) = {} /\ LastSpace /\ Viewed(cited)

View ==
    /\ call # None /\ call.query = "view"
    /\ \/ ~ChainThere /\ End("internal")
       \/ ChainThere /\ Viewed(call.id)

\* unqualified(): a slice answers with the text it was cut from.
SliceParent ==
    /\ call # None /\ call.query = "slice"
    /\ \/ \E s \in With(slices, call.id, Here) : GoOn("parent", 1, s.episode)
       \/ With(slices, call.id, Here) = {} /\ ~LastSpace /\ GoOn("slice", call.at + 1, call.id)
       \/ With(slices, call.id, Here) = {} /\ LastSpace /\ GoOn("text", 1, call.id)

\* episode(), for a reference to a text and for the parent of a slice.
Text ==
    /\ call # None /\ call.query \in {"text", "parent"}
    /\ \/ \E t \in With(texts, call.id, Here) : Found(t)
       \/ With(texts, call.id, Here) = {} /\ ~LastSpace /\ GoOn(call.query, call.at + 1, call.id)
       \/ /\ With(texts, call.id, Here) = {} /\ LastSpace
          /\ End(IF call.query = "parent" THEN "internal" ELSE "missing")

\* Mutant: the version found is looked for in the first space.
TitleForgetsSpace ==
    /\ call # None /\ call.query = "title"
    /\ LET versions == DocumentsByTitle(Here, call.ask.id)
       IN  \/ \E v \in versions : IsNewest(v, versions) /\ GoOn("newest", 1, v.id)
           \/ versions = {} /\ ~LastSpace /\ GoOn("title", call.at + 1, call.id)
           \/ versions = {} /\ LastSpace /\ End("missing")

\* document(): the newest version of a title, then that version by its id.
Title ==
    /\ call # None /\ call.query = "title"
    /\ LET versions == DocumentsByTitle(Here, call.ask.id)
       IN  \/ \E v \in versions : IsNewest(v, versions) /\ GoOn("newest", call.at, v.id)
           \/ versions = {} /\ ~LastSpace /\ GoOn("title", call.at + 1, call.id)
           \/ versions = {} /\ LastSpace /\ End("missing")

Newest ==
    /\ call # None /\ call.query = "newest"
    /\ \/ \E t \in With(texts, call.id, Here) : Found(t)
       \/ With(texts, call.id, Here) = {} /\ End("internal")

\* The reader sends the offset it was given, or is done with the reference.
\* It gives up on a page that brought nothing, which a limit of 0 asks for.
ReadOn ==
    /\ call # None /\ call.query = "done" /\ outcome = "found" /\ read # << >>
    /\ Last(read).next_offset # None /\ Last(read).from < Last(read).to
    /\ call' = [call EXCEPT !.ask.offset = Last(read).next_offset, !.at = 1, !.id = call.ask.id,
                            !.query = FirstQuery(call.ask.kind)]
    /\ outcome' = None
    /\ UNCHANGED <<claims, texts, slices, read, steady>>

Leave ==
    /\ call # None /\ call.query = "done"
    /\ call' = None /\ read' = << >> /\ outcome' = None /\ steady' = TRUE
    /\ UNCHANGED <<claims, texts, slices>>

-----------------------------------------------------------------------------
(***************************************************************************)
(* What other sessions do to the rows, each in one transaction of the      *)
(* write path (see MemoryStore): put a document with its slices, purge a   *)
(* claim with its chain, purge a text with its slices and, when it is a    *)
(* document, the claims that cite it and their chains.  A chain with a     *)
(* link missing cannot be walked, and refuses the purge.                   *)
(***************************************************************************)
Named(gone) ==
    call # None /\ (\/ call.ask.id \in gone \/ call.id \in gone
                    \/ \E c \in Reached(call.ask) : c.chain \cap gone # {}
                    \/ \E s \in slices : s.id = call.ask.id /\ s.episode \in gone
                    \/ \E t \in texts : t.id \in gone /\ t.title = call.ask.id)

Put ==
    \E d \in NewTexts :
        /\ ~\E u \in texts : u.id = d.text.id \/ u.at >= d.text.at
        /\ texts' = texts \cup {d.text}
        /\ slices' = slices \cup d.slices
        /\ UNCHANGED <<claims, call, read, outcome, steady>>

\* forget purge, expand_chains: the rows of the claims' chains.
Purged(targets, gone) ==
    /\ \A c \in targets : Unbroken(c)
    /\ claims' = {d \in claims : \A c \in targets : d.id \notin c.chain}
    /\ steady' = (steady /\ ~Named(gone \cup UNION {c.chain : c \in targets}))

PurgeClaim ==
    /\ \E c \in claims : Purged({c}, {})
    /\ UNCHANGED <<texts, slices, call, read, outcome>>

\* cascade_documents: the claims of an anonymous text outlive it.
Cascaded(text) == IF text.title = None THEN {} ELSE DocumentCiters(text.space, text.id)

\* Mutant: the slices outlive their text.
PurgeTextKeepsSlices ==
    \E t \in texts :
        /\ texts' = texts \ {t}
        /\ Purged(Cascaded(t), {t.id})
        /\ UNCHANGED <<slices, call, read, outcome>>

PurgeText ==
    \E t \in texts :
        /\ texts' = texts \ {t}
        /\ slices' = {s \in slices : s.episode # t.id}
        /\ Purged(Cascaded(t), {t.id})
        /\ UNCHANGED <<call, read, outcome>>

InspectNext ==
    \/ InspectCall \/ Exists \/ Walk \/ SourceText \/ Expand \/ View \/ SliceParent \/ Text \/ Title \/ Newest
    \/ ReadOn \/ Leave \/ Put \/ PurgeClaim \/ PurgeText

InspectSpec == InspectInit /\ [][InspectNext]_inspectVars
-----------------------------------------------------------------------------
InspectTypeOK ==
    /\ outcome \in {None, "found", "missing", "internal"}
    /\ steady \in BOOLEAN
    /\ call # None => call.at \in DOMAIN Spaces
    /\ \A s \in slices : \E t \in texts : t.id = s.episode /\ t.space = s.space

(***************************************************************************)
(* Up to six queries over three tables and every searched space answer a   *)
(* call, while rows come and go: a reference is found when what it names,  *)
(* and every link of the chains it leads to, was there all the while.  A   *)
(* claim with a link to a purged row, which a purge of its chain taken     *)
(* from one end can leave behind, is answered with an internal error from  *)
(* then on, as walking a chain is once a row of it goes under way.         *)
(***************************************************************************)
SteadyIsFound ==
    outcome \in {"missing", "internal"} => ~steady

(***************************************************************************)
(* Reading a text by its id and sending next_offset back puts the text     *)
(* together: no page overlaps or skips what the one before it ended with,  *)
(* every page that promises another gets somewhere unless none was asked   *)
(* for (a limit of 0, which the code does not refuse), and the last one    *)
(* ends the text, whatever is stored in between.                           *)
(***************************************************************************)
PagesTile ==
    (call # None /\ call.ask.kind \in {"episode", "bare"} /\ read # << >>) =>
        /\ \A i \in 1..(Len(read) - 1) : read[i].to = read[i + 1].from /\ read[i].text = read[i + 1].text
        /\ \A i \in DOMAIN read :
             read[i].next_offset # None /\ call.ask.limit # 0 => read[i].from < read[i].to
        /\ \A t \in texts : t.id = read[1].text /\ Last(read).next_offset = None => Last(read).to = t.chars

(***************************************************************************)
(* Three queries written apart agree on who cites a document: the count on *)
(* the listing, the claims a purge would be refused for, and the orphans   *)
(* consolidate reports, which are the uncited ones past their grace.       *)
(***************************************************************************)
CitationViewsAgree ==
    \A t \in {d \in texts : d.title # None} :
        /\ CitedCount(t.space, t.id) = Cardinality(DocumentCiters(t.space, t.id))
        /\ t.id \in OrphanDocuments(t.space)
             <=> t.at < GraceStart /\ DocumentCiters(t.space, t.id) = {}
=============================================================================
