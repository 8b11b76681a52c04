---------------------------- MODULE MCMemoryStore ----------------------------
(***************************************************************************)
(* Instances of MemoryStore for TLC.                                       *)
(***************************************************************************)
EXTENDS MemoryStore, TLC

CONSTANTS h1, h2, sp1, sp2

AtMost(n) == {S \in SUBSET MemId : Cardinality(S) <= n}

Entries(hashes, stamps, most) ==
    {[content_hash |-> h, decay_class |-> "fast", valid_from |-> v,
      supersedes |-> S, derived_from |-> {}] :
        h \in hashes, v \in stamps, S \in AtMost(most)}

Memories(sp, seqs) == {[space |-> sp, episode |-> None, memories |-> q] : q \in seqs}
Singles(es) == {<<e>> : e \in es}
Pairs(es) == {<<d, e>> : d, e \in es}

Forgets(spaces, purges) ==
    {[spaces |-> spaces, memories |-> {m}, episodes |-> {},
      purge |-> p, cascade |-> FALSE] : m \in MemId, p \in purges}

\* One claim per batch, replacing at most one other; one id per forget.
OneClaim == Memories(sp1, Singles(Entries({h1, h2}, {None}, 1)))
OneForget == Forgets({sp1}, BOOLEAN)
SoftForget == Forgets({sp1}, {FALSE})

\* Only one id is ever forgotten: enough to leave a close others collide with.
ForgetOne == {w \in SoftForget : w.memories = {CHOOSE m \in MemId : TRUE}}

\* A claim and the correction that replaces it.
Correction ==
    Memories(sp1, Singles(Entries({h1}, {None}, 0) \cup Entries({h2}, {None}, 1)))

\* Batches of two claims, merges of two claims into one, and a second space
\* whose batches may name the first one's ids.
TwoClaims ==
    Memories(sp1, Pairs(Entries({h1, h2}, {None}, 1)))
        \cup Memories(sp1, Singles(Entries({h1, h2}, {None}, 2)))
        \cup Memories(sp2, Singles(Entries({h1}, {None}, 1)))

\* A document or plain text, alone or with a claim distilled from it.
Text(sp, kinds, seqs) ==
    {[space |-> sp, episode |-> [content_hash |-> h2, document |-> d],
      memories |-> q] : d \in kinds, q \in seqs}
\* An insight that cites an episode.
Insight(sp) ==
    Memories(sp, {<<[content_hash |-> h1, decay_class |-> "kept", valid_from |-> None,
                     supersedes |-> {}, derived_from |-> {e}]>> : e \in EpId})

\* Batches and merges of claims, texts with and without a claim distilled from
\* them, and insights about a text.
ClaimsAndTexts ==
    TwoClaims \cup Insight(sp1)
        \cup Text(sp1, BOOLEAN, {<< >>} \cup Singles(Entries({h1}, {None}, 0)))

PurgeText(spaces) ==
    {[spaces |-> spaces, memories |-> S, episodes |-> {e}, purge |-> TRUE, cascade |-> c] :
        S \in AtMost(1), e \in EpId, c \in BOOLEAN}
ForgetOrPurgeText == OneForget \cup {w \in PurgeText({sp1}) : w.memories = {}}

\* A document of the `user` space and an insight about it in a project.
AcrossSpaces == Text(sp2, {TRUE}, {<< >>}) \cup Insight(sp1)
PurgeAnywhere == PurgeText({sp1, sp2})

(***************************************************************************)
(* To keep the instance small a behaviour goes one of three ways: it       *)
(* stores texts, it lets the clock move, or it reinforces one claim.       *)
(* From there on its batches are plain ones: the first space's, of one     *)
(* claim that replaces at most one other.                                  *)
(***************************************************************************)
Texts == (\E e \in EpId : ep[e].status # "unused") \/ (\E s \in Session : batch[s].episode # None)
Reinforced == {m \in MemId : mem[m].access_count > 0}
Plain ==
    {b \in ClaimsAndTexts :
        /\ b.space = sp1
        /\ Len(b.memories) <= 1
        /\ Cardinality(Asked(b)) <= 1}
OneWay ==
    /\ now > 0 => ~Texts
    /\ Texts \/ now > 0 \/ Reinforced # {} =>
          \A s \in Session : batch[s] \in Plain \cup {NoBatch}
    /\ Reinforced # {} => ~Texts /\ now = 0 /\ Cardinality(Reinforced) = 1

(***************************************************************************)
(* The run `liveness` starts where two calls have stored one claim each,   *)
(* of different content: what two sessions can merge in opposite           *)
(* directions.  From there on any batch of one claim may come.             *)
(***************************************************************************)
StoredFirst == CHOOSE two \in MemId \X MemId : two[1] # two[2]
Remembered(h) == [NoMemory EXCEPT !.status = "stored", !.space = sp1, !.content_hash = h]
TwoRemembered ==
    /\ now = 0
    /\ mem = [NoMemories EXCEPT ![StoredFirst[1]] = Remembered(h1), ![StoredFirst[2]] = Remembered(h2)]
    /\ ep = NoEpisodes
    /\ pc = [s \in Session |-> "idle"]
    /\ batch = [s \in Session |-> NoBatch]
    /\ attempts = [s \in Session |-> 0]
    /\ closed = [s \in Session |-> {}]
    /\ targets = [s \in Session |-> << >>]
    /\ stamp = [s \in Session |-> 0]
    /\ snap = [s \in Session |-> NoMemories]
    /\ work = [s \in Session |-> NoMemories]
    /\ esnap = [s \in Session |-> NoEpisodes]
    /\ ework = [s \in Session |-> NoEpisodes]
    /\ source = [s \in Session |-> None]
    /\ out = [s \in Session |-> << >>]
    /\ wipe = [s \in Session |-> NoWipe]
    /\ why = [s \in Session |-> None]

MergingSpec == TwoRemembered /\ [][Next]_vars /\ Fairness

Symmetry == Permutations(MemId) \cup Permutations(EpId) \cup Permutations(Session)
=============================================================================
