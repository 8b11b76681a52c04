------------------------------- MODULE MCTools -------------------------------
(***************************************************************************)
(* The MCP tools and the editor hooks for TLC.  They share nothing but the *)
(* store, which each module abstracts for itself, so a behaviour is about  *)
(* one of them, its scene, and the others rest.                            *)
(***************************************************************************)
EXTENDS RecallPage, ContextBlock, Consolidate, Inspect, ForgetConfirm, HookLog, RememberGate, TLC

VARIABLE scene

-----------------------------------------------------------------------------
(* recall *)

RecallRow(id, from, rrf, sim, standing, entities) ==
    [id |-> id, chunk |-> from.chunk, source |-> from.source, entities |-> entities,
     sim |-> sim, rrf |-> rrf, standing |-> standing]
Own == [chunk |-> FALSE, source |-> "agent"]
FromA == [chunk |-> FALSE, source |-> "a"]
FromB == [chunk |-> FALSE, source |-> "b"]
TextC == [chunk |-> TRUE, source |-> "c"]
TextA == [chunk |-> TRUE, source |-> "a"]
TextB == [chunk |-> TRUE, source |-> "b"]

RecallCall(search, k, rs, linked) ==
    [search |-> search, by_entity |-> FALSE, k |-> k, live |-> search, window |-> None,
     matching |-> Cardinality({i \in DOMAIN rs : ~rs[i].chunk}), rows |-> rs, linked |-> linked]

\* Rows of these sources, best first; the hop finds nothing, a claim of the
\* pool, or a new one.
Layout(k, from, hop) ==
    LET linked == CASE hop = 9 -> <<RecallRow(9, FromA, 0, None, 0, <<"x", "y">>)>>
                    [] hop \in DOMAIN from /\ ~from[hop].chunk ->
                          <<RecallRow(hop, from[hop], 0, None, 0, <<"x", "y">>)>>
                    [] OTHER -> << >>
        row(i) == RecallRow(i, from[i], 10 - i, 5, 0, IF i = 1 THEN <<"x">> ELSE << >>)
    IN  RecallCall(TRUE, k, [i \in DOMAIN from |-> row(i)], linked)

\* Five rows from every mix of sources; the hop may find the last of them again.
Layouts ==
    {Layout(k, from, hop) : k \in {2, 4}, from \in [1..5 -> {Own, FromA, TextA, TextB}], hop \in {0, 5, 9}}

\* Seven rows of two sources and of slices of two texts, the last a claim of the
\* lesser source, and a row the hop finds: both caps at work, and claims enough
\* for a page of four to lack some.
LongLayouts ==
    {Layout(4, <<FromA>> \o from \o <<FromB>>, 9) : from \in [1..5 -> {FromA, FromB, TextA, TextC}]}

\* Four rows in the order the store fused them, at every mix of fused score
\* and similarity: floor and knee.
Scores ==
    {RecallCall(TRUE, 4, [i \in 1..4 |-> RecallRow(i, Own, rrf[i], sim[i], 0, IF i = 1 THEN <<"x">> ELSE << >>)], hop) :
        rrf \in {f \in [1..4 -> {2, 5, 9}] : f[1] >= f[2] /\ f[2] >= f[3] /\ f[3] >= f[4]},
        sim \in [1..4 -> {None, 1, 5}],
        hop \in {<< >>, <<RecallRow(4, Own, 0, None, 0, <<"x", "y">>)>>}}

\* An entity most rows carry is a hub and leads nowhere.
Crowd ==
    {[RecallCall(TRUE, 2, [i \in 1..4 |-> RecallRow(i, Own, 10 - i, 5, 0, <<e[i]>>)],
                 <<RecallRow(9, Own, 0, None, 0, <<"x", "y">>)>>) EXCEPT !.by_entity = b] :
        e \in [1..4 -> {"x", "y", "z"}], b \in BOOLEAN}

Listings ==
    {[RecallCall(FALSE, k, [i \in 1..n |-> RecallRow(i, Own, 0, None, st[i], << >>)], << >>)
        EXCEPT !.live = live, !.window = w] :
        k \in 0..5, n \in 0..4, st \in [1..4 -> {0, 3}], live \in BOOLEAN,
        w \in {None, "dated", "inverted"}}

RecallCalls == Crowd \cup (LongLayouts \cup (Listings \cup (Scores \cup Layouts)))
OneVoteEach == <<1, 1>>
ASSUME PoolHoldsAPage

-----------------------------------------------------------------------------
(* context *)

Kinds == {[kind |-> "instruction", tags |-> {}], [kind |-> "fact", tags |-> {}],
          [kind |-> "fact", tags |-> {"identity"}], [kind |-> "summary", tags |-> {}],
          [kind |-> "lesson", tags |-> {"a"}], [kind |-> "lesson", tags |-> {"b"}]}

\* Four claims of any kinds, two of them short or long and two long; a
\* summary covers the others.
FourClaims ==
    LET claim(id, of, chars) ==
            [id |-> id, kind |-> of.kind, tags |-> of.tags, chars |-> chars,
             covers |-> IF of.kind = "summary" THEN (1..4) \ {id} ELSE {}]
    IN  {[i \in 1..4 |-> claim(i, of[i], chars[i])] :
            of \in [1..4 -> Kinds], chars \in {c \in [1..4 -> {2, 5}] : c[3] = 5 /\ c[4] = 5}}
SearchAnswers == {None, <<4, 1>>, <<3, 2, 4>>}

-----------------------------------------------------------------------------
(* consolidate *)

PairsOf(n) == {p \in SUBSET (1..n) : Cardinality(p) = 2}
NoEntities(n) == [i \in 1..n |-> {}]

\* Every graph of close pairs on five rows; four rows in all three bands, one
\* without a direction, some sharing an entity; too few rows to compare.
ScannedSpaces ==
    {[n |-> 5, units |-> 1..5, cosine |-> c, entities |-> NoEntities(5)] : c \in [PairsOf(5) -> {0, 9}]}
    \cup {[n |-> 4, units |-> u, cosine |-> c, entities |-> [i \in 1..4 |-> IF i \in e THEN {"x"} ELSE {}]] :
            c \in [PairsOf(4) -> {0, 7, 9}], u \in {1..4, {1, 3, 4}}, e \in {{1, 2}, 1..4}}
    \cup {[n |-> n, units |-> 1..n, cosine |-> [p \in PairsOf(n) |-> 9], entities |-> NoEntities(n)] : n \in 0..2}

-----------------------------------------------------------------------------
(* inspect *)

StoredTexts ==
    {{[id |-> "e1", space |-> "b", title |-> "plan", chars |-> 3, at |-> 1],
      [id |-> "e2", space |-> "a", title |-> None, chars |-> 2, at |-> 2]}}
StoredSlices ==
    {{[id |-> "s1", space |-> "b", episode |-> "e1", position |-> 0, chars |-> 2],
      [id |-> "s2", space |-> "b", episode |-> "e1", position |-> 1, chars |-> 1],
      [id |-> "s3", space |-> "a", episode |-> "e2", position |-> 0, chars |-> 2]}}
\* m3 is a claim m1 corrected: a chain of two, one that m3 has no link of, so that
\* its purge breaks the walk from m1, and one of m1 that is broken already.
StoredClaims ==
    LET claim(id, space, source, derived, expands, chain, live) ==
            [id |-> id, space |-> space, source |-> source, derived |-> derived,
             expands |-> expands, chain |-> chain, live |-> live]
    IN  {{claim("m1", "a", "e2", {}, {}, ch[1], TRUE), claim("m3", "a", None, {}, {}, ch[2], FALSE),
          claim("m2", "b", s2, d2, x2, {"m2"}, l2)} :
            s2 \in {None, "e1"}, d2 \in {{}, {"e1"}}, x2 \in {{}, {"m1"}},
            l2 \in BOOLEAN,
            ch \in {<<{"m1", "m3"}, {"m1", "m3"}>>, <<{"m1", "m3"}, {"m3"}>>, <<{"m1", "m0"}, {"m3"}>>}}
NewVersion ==
    {[text |-> [id |-> "e3", space |-> "b", title |-> "plan", chars |-> 2, at |-> 3],
      slices |-> {[id |-> "s4", space |-> "b", episode |-> "e3", position |-> 0, chars |-> 2]}]}
TwoSpaces == <<"a", "b">>
References ==
    {[kind |-> k, id |-> i, offset |-> None, limit |-> l] :
        k \in {"memory", "episode", "bare"}, i \in {"m1", "m2", "e1", "e2", "s1", "x"}, l \in {None, 1}}
    \cup {[kind |-> "doc", id |-> "plan", offset |-> None, limit |-> l] : l \in {None, 1}}
    \cup {[kind |-> "episode", id |-> "e1", offset |-> 1, limit |-> l] : l \in {None, 0}}

-----------------------------------------------------------------------------
(* forget by query *)

\* The query selects claim 1; claim 2 is its history, which only a purge takes.
OneQuery == [q |-> {1}]
FirstHasHistory == 1 :> {1, 2} @@ 2 :> {2}

-----------------------------------------------------------------------------
(* remember *)

SentClaim(x, sup) == [content |-> x, supersedes |-> sup, valid |-> TRUE]
SentClaims == {SentClaim(x, sup) : x \in {1, 2, 4}, sup \in {{}, {1}}}
RememberCalls ==
    {[space |-> "p", memories |-> ms, episode |-> FALSE] :
        ms \in {q \in [1..2 -> SentClaims] : q[1].supersedes = {}} \cup [1..1 -> SentClaims]}
    \cup {[space |-> "p", memories |-> << >>, episode |-> e] : e \in BOOLEAN}
    \cup {[space |-> "p", memories |-> <<[SentClaim(1, {}) EXCEPT !.valid = FALSE]>>, episode |-> TRUE],
          [space |-> "p", memories |-> <<SentClaim(2, {})>>, episode |-> TRUE],
          [space |-> "u", memories |-> <<SentClaim(2, {1})>>, episode |-> TRUE]}

\* Lessons and summaries of the first claim, restating it, near it or not.
ReflectCalls ==
    {[space |-> "p", memory |-> SentClaim(x, sup), cites |-> {1}, summary |-> summary] :
        x \in {2, 4}, sup \in {{}, {1}}, summary \in BOOLEAN}
    \cup {[space |-> "p", memory |-> SentClaim(2, {}), cites |-> {}, summary |-> FALSE],
          [space |-> "p", memory |-> SentClaim(5, {}), cites |-> {1, 2}, summary |-> FALSE]}

StoredBefore ==
    LET old(x, space, live) == [content |-> x, space |-> space, live |-> live, embedded |-> TRUE,
                                probed |-> 0, gated |-> TRUE, unseen |-> {}]
    IN  {<< >>, <<old(3, "p", TRUE)>>, <<old(2, "u", TRUE), old(2, "p", FALSE)>>}

-----------------------------------------------------------------------------
ToolsInit ==
    /\ scene \in {"recall", "context", "consolidate", "inspect", "forget", "hook", "remember"}
    /\ RecallInit /\ ContextInit /\ ConsolidateInit /\ InspectInit /\ ForgetInit /\ HookInit /\ GateInit
    /\ scene # "inspect" => claims = CHOOSE c \in StoredClaims : TRUE
    /\ scene # "forget" => stored = {}
    /\ scene # "remember" => rows = << >> /\ vectors

ToolsNext ==
    \/ /\ scene = "recall" /\ RecallNext
       /\ UNCHANGED <<scene, contextVars, consolidateVars, inspectVars, forgetVars, hookVars, gateVars>>
    \/ /\ scene = "context" /\ ContextNext
       /\ UNCHANGED <<scene, recallVars, consolidateVars, inspectVars, forgetVars, hookVars, gateVars>>
    \/ /\ scene = "consolidate" /\ ConsolidateNext
       /\ UNCHANGED <<scene, recallVars, contextVars, inspectVars, forgetVars, hookVars, gateVars>>
    \/ /\ scene = "inspect" /\ InspectNext
       /\ UNCHANGED <<scene, recallVars, contextVars, consolidateVars, forgetVars, hookVars, gateVars>>
    \/ /\ scene = "forget" /\ ForgetNext
       /\ UNCHANGED <<scene, recallVars, contextVars, consolidateVars, inspectVars, hookVars, gateVars>>
    \/ /\ scene = "hook" /\ HookNext
       /\ UNCHANGED <<scene, recallVars, contextVars, consolidateVars, inspectVars, forgetVars, gateVars>>
    \/ /\ scene = "remember" /\ GateNext
       /\ UNCHANGED <<scene, recallVars, contextVars, consolidateVars, inspectVars, forgetVars, hookVars>>

ToolsSpec ==
    ToolsInit /\ [][ToolsNext]_<<scene, recallVars, contextVars, consolidateVars, inspectVars,
                                 forgetVars, hookVars, gateVars>>

\* Every variable has its shape, in every scene.
ToolsTypeOK ==
    /\ RecallTypeOK /\ ContextTypeOK /\ ConsolidateTypeOK /\ InspectTypeOK
    /\ ForgetTypeOK /\ HookTypeOK /\ GateTypeOK
=============================================================================
