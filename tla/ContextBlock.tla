----------------------------- MODULE ContextBlock -----------------------------
(***************************************************************************)
(* The `context` tool: one Markdown block of what a session should know,   *)
(* fitted to a budget (crates/agmem-server, tools/context.rs).             *)
(*                                                                         *)
(* run reads four sections, one query each; assemble fills the block up to *)
(* three times: as it is, with summaries standing in for the claims they   *)
(* cover, and once more with room kept for the note that says it was       *)
(* trimmed.  An entry is its id, the length of its line and what it        *)
(* covers; the text itself is not kept.                                    *)
(***************************************************************************)
EXTENDS Common, SequencesExt

CONSTANTS
    Memories,        \* the orders of live claims the store may rank, a set of sequences
    Queries,         \* for each call, None or the ids a search returns, best first
    Budgets,         \* the budgets asked for
    TitleChars, HeaderChars, TrimmedChars, NothingChars, \* lengths of the fixed text
    LessonsReserveChars,
    MinBudgetChars, RelevantK, RelevantUnaimedK, LessonsK, LessonsPerTag

VARIABLES
    memories,    \* the live claims in the order scoring::rank leaves them
    asked,       \* the query's answer and the budget of the call in hand
    contextStep, \* the next step of run
    sections,    \* the four sections, as read
    block        \* the last fill: what it shows, its length, how many it dropped

contextVars == <<memories, asked, contextStep, sections, block>>

\* The live claims there may be: each has an id of its own and a length, and
\* what a search returns are ids.
RankedClaims == UNION {ToSet(order) : order \in Memories}
FoundIds == UNION {ToSet(query) : query \in Queries \ {None}}

ASSUME ContextAssumption ==
    /\ {TitleChars, HeaderChars, TrimmedChars, NothingChars, LessonsReserveChars} \subseteq Nat
    /\ {RelevantK, RelevantUnaimedK, LessonsK} \subseteq Nat /\ Budgets \subseteq Nat
    /\ \A order \in Memories :
          order \in Seq(RankedClaims) /\ \A i, j \in DOMAIN order : order[i].id = order[j].id => i = j
    /\ \A claim \in RankedClaims : claim.chars \in Nat
    /\ \A query \in Queries : query = None \/ query \in Seq(FoundIds)

Total(lengths) ==
    LET upto[i \in 0..Len(lengths)] == IF i = 0 THEN 0 ELSE upto[i - 1] + lengths[i]
    IN  upto[Len(lengths)]

Unfilled == [shown |-> << >>, used |-> 0, dropped |-> 0, seen |-> {}, note |-> None]

-----------------------------------------------------------------------------
(***************************************************************************)
(* The sections.                                                           *)
(***************************************************************************)
\* Defer, never drop: a claim one of whose tags is at quota goes to the end.
CapByTag(records, cap) ==
    LET held(places, tag) == Cardinality({i \in places : tag \in records[i].tags})
        kept[i \in 0..Len(records)] ==
            IF i = 0 THEN {}
            ELSE kept[i - 1] \cup
                 (IF \E tag \in records[i].tags : held(kept[i - 1], tag) >= cap THEN {} ELSE {i})
        admitted == kept[Len(records)]
    IN  Picked(records, admitted) \o Picked(records, DOMAIN records \ admitted)

\* lookup_section: the live claims of the given kinds, and under a tag.
Lookup(kinds, tag) ==
    Picked(memories, {i \in DOMAIN memories :
                        memories[i].kind \in kinds /\ (tag = None \/ tag \in memories[i].tags)})

\* search_section: what the hybrid search found, whatever its kind.
SearchSection(ids) ==
    LET at(id) == {i \in DOMAIN memories : memories[i].id = id}
        live == Picked(ids, {j \in DOMAIN ids : at(ids[j]) # {}})
    IN  FirstOf([j \in DOMAIN live |-> memories[CHOOSE i \in at(live[j]) : TRUE]], RelevantK)

LessonsReserve(budget) == Smaller(LessonsReserveChars, budget \div 3)

Sections(query, budget) ==
    << [entries |-> Lookup({"instruction"}, None), reserve |-> 0],
       [entries |-> Lookup({"fact"}, "identity"), reserve |-> 0],
       [entries |-> IF query # None THEN SearchSection(query)
                    ELSE FirstOf(Lookup({"fact", "summary"}, None), RelevantUnaimedK),
        reserve |-> 0],
       [entries |-> FirstOf(CapByTag(Lookup({"lesson"}, None), LessonsPerTag), LessonsK),
        reserve |-> LessonsReserve(budget)] >>

Lengths(entries) == [i \in DOMAIN entries |-> entries[i].chars]

\* What a section holds back from the ones before it: its reserve, or all it
\* would write when that is less.
Held(section) ==
    IF section.reserve = 0 \/ section.entries = << >> THEN 0
    ELSE Smaller(section.reserve, HeaderChars + Total(Lengths(section.entries)))

-----------------------------------------------------------------------------
(***************************************************************************)
(* render: fill the sections in order.  A heading is charged to the first  *)
(* entry under it that fits, an entry already shown or covered is passed   *)
(* over, and one that does not fit is dropped and counted.                 *)
(***************************************************************************)
Place(acc, entry, room, rollUp) ==
    LET cost == acc.header + entry.chars
    IN  CASE entry.id \in acc.seen -> acc
          [] entry.id \notin acc.seen /\ acc.used + cost > room ->
               [acc EXCEPT !.dropped = @ + 1, !.seen = @ \cup {entry.id}]
          [] OTHER ->
               [acc EXCEPT !.shown = Append(@, entry.id), !.used = @ + cost, !.header = 0,
                           !.seen = @ \cup {entry.id} \cup (IF rollUp THEN entry.covers ELSE {})]

\* Mutant: nothing is held back for the sections after this one.
RoomUnreserved(n, budget) == budget

\* The length the block may have when section n is filled: all but what the
\* sections after it hold back.  The first section never yields.
Room(n, budget) ==
    LET after == [i \in 1..(Len(sections) - n) |-> Held(sections[n + i])]
        held == IF n = 1 THEN 0 ELSE Total(after)
    IN  IF held > budget THEN 0 ELSE budget - held

\* One section filled after the ones before it.
FillSection(acc, n, budget, rollUp) ==
    LET entries == sections[n].entries
        upto[i \in 0..Len(entries)] ==
            IF i = 0 THEN [acc EXCEPT !.header = HeaderChars]
            ELSE Place(upto[i - 1], entries[i], Room(n, budget), rollUp)
    IN  upto[Len(entries)]

Titled == [shown |-> << >>, used |-> TitleChars, dropped |-> 0, seen |-> {}, header |-> 0]

Render(budget, rollUp) ==
    LET filled[n \in 0..Len(sections)] ==
            IF n = 0 THEN Titled ELSE FillSection(filled[n - 1], n, budget, rollUp)
        full == filled[Len(sections)]
        nothing == full.used = TitleChars /\ full.dropped = 0
                     /\ full.used + NothingChars <= budget
    IN  [shown |-> full.shown, dropped |-> full.dropped, seen |-> full.seen,
         used |-> full.used + IF nothing THEN NothingChars ELSE 0,
         note |-> IF nothing THEN "nothing" ELSE None]

-----------------------------------------------------------------------------
ContextInit ==
    /\ memories = << >>
    /\ asked = None
    /\ contextStep = "idle"
    /\ sections = << >>
    /\ block = Unfilled

\* resolve_budget refuses a budget that is too small.
Context ==
    /\ contextStep = "idle"
    /\ memories' \in Memories
    /\ \E query \in Queries, budget \in Budgets :
         /\ asked' = [query |-> query, budget |-> budget]
         /\ contextStep' = IF budget < MinBudgetChars THEN "done" ELSE "read"
    /\ UNCHANGED <<sections, block>>

ReadSections ==
    /\ contextStep = "read"
    /\ sections' = Sections(asked.query, asked.budget)
    /\ contextStep' = "whole"
    /\ UNCHANGED <<memories, asked, block>>

\* The three fills of assemble.
FillWhole ==
    /\ contextStep = "whole"
    /\ block' = Render(asked.budget, FALSE)
    /\ contextStep' = IF block'.dropped = 0 THEN "done" ELSE "roll"
    /\ UNCHANGED <<memories, asked, sections>>

FillRolledUp ==
    /\ contextStep = "roll"
    /\ block' = Render(asked.budget, TRUE)
    /\ contextStep' = IF block'.dropped = 0 THEN "done" ELSE "trim"
    /\ UNCHANGED <<memories, asked, sections>>

\* Mutant: the last fill keeps no room for the note.
FillTrimmedToTheBrim ==
    /\ contextStep = "trim"
    /\ block' = [Render(asked.budget, TRUE) EXCEPT !.used = @ + TrimmedChars, !.note = "trimmed"]
    /\ contextStep' = "done"
    /\ UNCHANGED <<memories, asked, sections>>

FillTrimmed ==
    /\ contextStep = "trim"
    /\ LET reserved == IF asked.budget < TrimmedChars THEN 0 ELSE asked.budget - TrimmedChars
           last == Render(reserved, TRUE)
       IN  block' = [last EXCEPT !.used = @ + TrimmedChars, !.note = "trimmed"]
    /\ contextStep' = "done"
    /\ UNCHANGED <<memories, asked, sections>>

ContextReply ==
    /\ contextStep = "done"
    /\ contextStep' = "idle"
    /\ memories' = << >> /\ asked' = None /\ sections' = << >> /\ block' = Unfilled

ContextNext == Context \/ ReadSections \/ FillWhole \/ FillRolledUp \/ FillTrimmed \/ ContextReply

ContextSpec == ContextInit /\ [][ContextNext]_contextVars
-----------------------------------------------------------------------------
ContextTypeOK ==
    /\ contextStep \in {"idle", "read", "whole", "roll", "trim", "done"}
    /\ block.used \in Nat /\ block.dropped \in Nat
    /\ block.note \in {None, "nothing", "trimmed"}
    /\ Len(sections) \in {0, 4}

Answered == contextStep = "done" /\ sections # << >>
EntriesOf(n) == ToSet(sections[n].entries)
Shown == ToSet(block.shown)
Stood(entry) ==
    \/ entry.id \in Shown
    \/ \E n \in DOMAIN sections : \E s \in EntriesOf(n) : s.id \in Shown /\ entry.id \in s.covers

(***************************************************************************)
(* The three fills end in an honest block.  It fits its budget, heading,   *)
(* title and note included, as long as the title and the note alone do.    *)
(* Without the note it is complete: every entry of every section is on it, *)
(* or under a summary that is.                                             *)
(***************************************************************************)
BlockHonest ==
    Answered =>
        /\ TitleChars + TrimmedChars <= asked.budget => block.used <= asked.budget
        /\ block.note # "trimmed" =>
             \A n \in DOMAIN sections : \A entry \in EntriesOf(n) : Stood(entry)

\* Lessons all of whose demand is held back, and that the instructions left
\* the room for, on a block that shows these ids.
HeldIn(shown, room) ==
    LET entries == sections[1].entries
        obeyed == {i \in DOMAIN entries : entries[i].id \in shown}
        lengths == [i \in DOMAIN entries |-> IF i \in obeyed THEN entries[i].chars ELSE 0]
        first == TitleChars + Total(lengths) + IF obeyed = {} THEN 0 ELSE HeaderChars
    IN  /\ 0 < Held(sections[4]) /\ Held(sections[4]) < sections[4].reserve
        /\ first + Held(sections[4]) <= room

HeldInFull ==
    HeldIn(Shown, IF block.note = "trimmed" THEN asked.budget - TrimmedChars ELSE asked.budget)

(***************************************************************************)
(* "Filling in priority order can no longer starve a section that has      *)
(* something to say": lessons that fit their reserve are on the block,     *)
(* whatever Profile and Relevant wanted, unless the instructions, the one  *)
(* section that never yields, took the room.  Of lessons no earlier        *)
(* section lists this is so.                                               *)
(***************************************************************************)
ReserveHonoured ==
    Answered /\ HeldInFull =>
        \A entry \in EntriesOf(4) :
            entry \in EntriesOf(3) \/ Stood(entry)

(***************************************************************************)
(* The comment says it of every lesson.  One that the query also found is  *)
(* refused in Relevant, where the reserve is held against it, and counts   *)
(* as seen when its own section comes.                                     *)
(***************************************************************************)
LessonsNotStarved ==
    Answered /\ HeldInFull => \A entry \in EntriesOf(4) : Stood(entry)
=============================================================================
