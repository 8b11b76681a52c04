--------------------------- MODULE ReadToolsProofs ----------------------------
(***************************************************************************)
(* The answers of inspect, for any store, any searched spaces and any      *)
(* number of documents put and rows purged between the queries of a call;  *)
(* and the clusters of consolidate, for any scan.                          *)
(*                                                                         *)
(* On inspect three arguments share one invariant.  The citation queries   *)
(* count the same claims because ids are unique.  A reference whose rows   *)
(* stay is found because, at every query, one of them is still ahead of    *)
(* the call: in a space it has not asked yet or a table it has not reached;*)
(* and because the claims it is yet to walk from keep all their links.     *)
(* The pages tile because a reference to a text leads to the same text on  *)
(* every read, and each page starts where the one before it told.          *)
(*                                                                         *)
(* On consolidate the trees of the union-find array are read as the sets   *)
(* of rows made of whole trees.  Halving a path changes no such set, and   *)
(* joining two roots keeps just those that hold both rows or neither: at   *)
(* every pair they are the sets that no close pair met so far leaves, and  *)
(* the trees end as the components.                                        *)
(***************************************************************************)
EXTENDS Inspect, Consolidate, FunctionTheorems, FiniteSetTheorems, SequenceTheorems,
        WellFoundedInduction, TLAPS

(* Who cites a document *)

\* The (claim, document) pairs the listing counts are the claims a purge would
\* be refused for.
LEMMA CountIsCiters ==
    ASSUME NEW t \in texts, t.title # None, IsFiniteSet(claims), Unique(claims)
    PROVE  CitedCount(t.space, t.id) = Cardinality(DocumentCiters(t.space, t.id))
<1> DEFINE docs == {d.id : d \in Documents(t.space)}
           live == {c \in claims : c.space = t.space /\ c.live}
           bySource == {<<c.id, c.source>> : c \in {x \in live : x.source \in docs}}
           Derived(c) == {<<c.id, d>> : d \in c.derived}
           byDerivation == UNION {Derived(c) : c \in {x \in live : x.derived \cap docs # {}}}
           pairs == {p \in bySource \cup byDerivation : p[2] = t.id}
           citers == DocumentCiters(t.space, t.id)
           Citing(c) == <<c.id, t.id>>
           f == [c \in citers |-> Citing(c)]
<1>1. t.id \in docs
  BY DEF Documents
<1>2. \A c : c \in citers <=> c \in live /\ (c.source = t.id \/ t.id \in c.derived)
  BY DEF DocumentCiters
<1>3. CitedCount(t.space, t.id) = Cardinality(pairs)
  BY DEF CitedCount
<1>4. ASSUME NEW c \in citers
      PROVE  Citing(c) \in pairs
  <2>1. CASE c.source = t.id
    <3>1. <<c.id, c.source>> \in bySource
      BY <1>1, <1>2, <2>1
    <3> QED  BY <2>1, <3>1
  <2>2. CASE t.id \in c.derived
    <3>1. c \in {x \in live : x.derived \cap docs # {}}
      BY <1>1, <1>2, <2>2
    <3>2. Citing(c) \in Derived(c)
      BY <2>2
    <3>3. Citing(c) \in byDerivation
      BY <3>1, <3>2
    <3> QED  BY <3>3
  <2> QED  BY <1>2, <2>1, <2>2
<1>5. ASSUME NEW p \in pairs
      PROVE  \E c \in citers : p = Citing(c)
  <2>1. CASE p \in bySource
    <3>1. PICK c \in live : p = <<c.id, c.source>>
      BY <2>1
    <3>2. c.source = t.id
      BY <3>1
    <3> QED  BY <1>2, <3>1, <3>2
  <2>2. CASE p \in byDerivation
    <3>1. PICK c \in live : p \in Derived(c)
      BY <2>2
    <3>2. PICK d \in c.derived : p = <<c.id, d>>
      BY <3>1
    <3>3. d = t.id
      BY <3>2
    <3> QED  BY <1>2, <3>2, <3>3
  <2> QED  BY <2>1, <2>2
<1> HIDE DEF docs, live, bySource, byDerivation, pairs, citers
<1>6. citers \subseteq claims
  BY DEF citers, DocumentCiters
<1>7. f \in Bijection(citers, pairs)
  <2>1. f \in [citers -> pairs]
    BY <1>4
  <2>2. \A a, b \in citers : f[a] = f[b] => a = b
    BY <1>6 DEF Unique
  <2>3. \A p \in pairs : \E c \in citers : f[c] = p
    BY <1>5
  <2> QED  BY <2>1, <2>2, <2>3 DEF Bijection, Injection, Surjection, IsInjective
<1>8. IsFiniteSet(citers)
  BY <1>6, FS_Subset
<1>9. Cardinality(pairs) = Cardinality(citers)
  <2>1. ExistsBijection(citers, pairs)
    BY <1>7 DEF ExistsBijection
  <2> QED  BY <1>8, <2>1, FS_Bijection
<1> QED  BY <1>3, <1>9 DEF citers

\* A document past its grace is an orphan when no claim is in the way of its purge.
LEMMA OrphansHaveNoCiters ==
    ASSUME Unique(texts), NEW t \in texts, t.title # None, t.id # None
    PROVE  t.id \in OrphanDocuments(t.space)
             <=> t.at < GraceStart /\ DocumentCiters(t.space, t.id) = {}
<1> DEFINE live == {c \in claims : c.space = t.space /\ c.live}
           cited == {c.source : c \in {x \in live : x.source # None}}
           derived == UNION {c.derived : c \in live}
           old == {d \in Documents(t.space) : d.at < GraceStart}
<1>1. t.id \in OrphanDocuments(t.space) <=> t.id \in {d.id : d \in old} /\ t.id \notin cited /\ t.id \notin derived
  BY DEF OrphanDocuments
<1>2. t.id \in cited <=> \E c \in live : c.source = t.id
  OBVIOUS
<1>3. t.id \in derived <=> \E c \in live : t.id \in c.derived
  OBVIOUS
<1>4. DocumentCiters(t.space, t.id) = {c \in live : c.source = t.id \/ t.id \in c.derived}
  BY DEF DocumentCiters
<1>5. t.id \in {d.id : d \in old} <=> t.at < GraceStart
  <2>1. \A d \in old : d.id = t.id => d = t
    BY DEF Documents, Unique
  <2>2. t \in Documents(t.space)
    BY DEF Documents
  <2> QED  BY <2>1, <2>2
<1> HIDE DEF cited, derived, live, old
<1> QED  BY <1>1, <1>2, <1>3, <1>4, <1>5

-----------------------------------------------------------------------------
(* The invariant *)

AskSet == [kind : {"memory", "episode", "bare", "doc"}, id : {ask.id : ask \in Asks},
           offset : Nat \cup {None}, limit : Nat \cup {None}]

CallRecord(c) ==
    c = [ask |-> c.ask, query |-> c.query, at |-> c.at, id |-> c.id, todo |-> c.todo]

\* Which queries a kind of reference leads to, and what they look for.
CallSound(c) ==
    /\ CallRecord(c)
    /\ c.ask \in AskSet
    /\ c.at \in 1..Len(Spaces)
    /\ c.query \in {"exists", "walk", "source", "expand", "view"} => c.ask.kind \in {"memory", "bare"}
    /\ c.query \in {"slice", "parent"} => c.ask.kind = "bare"
    /\ c.query = "text" => c.ask.kind \in {"episode", "bare"}
    /\ c.query \in {"title", "newest"} => c.ask.kind = "doc"
    /\ c.query \in {"exists", "walk", "slice", "text"} => c.id = c.ask.id

\* A row with the id, or a text with the title, in the spaces from a on.
RowAhead(table, id, a) ==
    \E r \in table : r.id = id /\ \E b \in a..Len(Spaces) : r.space = Spaces[b]
TitleAhead(ts, title, a) ==
    \E t \in ts : t.title = title /\ \E b \in a..Len(Spaces) : t.space = Spaces[b]
RowAt(table, id, a) == \E r \in table : r.id = id /\ r.space = Spaces[a]

\* The rows the reference names, as NamedRows has it.
Asked(ask, cs, ts, ss) ==
    /\ ask.kind = "memory" => RowAhead(cs, ask.id, 1)
    /\ ask.kind = "episode" => RowAhead(ts, ask.id, 1)
    /\ ask.kind = "bare" => RowAhead(cs, ask.id, 1) \/ RowAhead(ss, ask.id, 1) \/ RowAhead(ts, ask.id, 1)
    /\ ask.kind = "doc" => TitleAhead(ts, ask.id, 1)

\* What a call that has not found it yet has in front of it.
Ahead(c, cs, ts, ss) ==
    /\ Asked(c.ask, cs, ts, ss)
    /\ c.query = "exists" =>
         \/ RowAhead(cs, c.ask.id, c.at)
         \/ c.ask.kind = "bare" /\ (RowAhead(ss, c.ask.id, 1) \/ RowAhead(ts, c.ask.id, 1))
    /\ c.query = "slice" => RowAhead(ss, c.ask.id, c.at) \/ RowAhead(ts, c.ask.id, 1)
    /\ c.query = "text" => RowAhead(ts, c.ask.id, c.at)
    /\ c.query = "parent" => RowAhead(ts, c.id, c.at)
    /\ c.query = "title" => TitleAhead(ts, c.ask.id, c.at)
    /\ c.query \in {"walk", "view"} => RowAt(cs, c.id, c.at)
    /\ c.query = "newest" => RowAt(ts, c.id, c.at)

\* The text a reference by id leads to.
Answers(ask, text) ==
    IF ask.kind = "bare" /\ \E s \in AnySlice : s.id = ask.id
    THEN \E s \in AnySlice : s.id = ask.id /\ s.episode = text
    ELSE text = ask.id

Page == [text : {t.id : t \in AnyText}, from : Nat, to : Nat, next_offset : Nat \cup {None}]

\* A page is of the text asked for, and says where it ends.
PageSound(ask, p) ==
    /\ Answers(ask, p.text)
    /\ p.next_offset # None => p.next_offset = p.to /\ (ask.limit # 0 => p.from < p.to)
    /\ \A t \in AnyText : t.id = p.text =>
         IF p.next_offset = None THEN p.to = t.chars ELSE p.to <= t.chars

\* The pages read so far, and what the next one is asked for.
Tiled(c, pages) ==
    /\ pages \in Seq(Page)
    /\ \A i \in 1..Len(pages) : PageSound(c.ask, pages[i])
    /\ \A i \in 1..(Len(pages) - 1) : pages[i].to = pages[i + 1].from
    /\ pages # << >> /\ c.query # "done" =>
         pages[Len(pages)].next_offset # None /\ c.ask.offset = pages[Len(pages)].next_offset
    /\ c.query = "parent" => \E s \in AnySlice : s.id = c.ask.id /\ s.episode = c.id

\* The claims the call walks from have all their links, and the ones it is yet
\* to walk from are what the claim is derived from.
ClaimsAhead(c) ==
    /\ \A w \in Reached(c.ask) : Unbroken(w)
    /\ c.query \in {"source", "expand", "view"} => c.todo \subseteq Cited(c.ask)
    /\ c.query = "view" => c.id \in Cited(c.ask)

ById(c) == c.ask.kind \in {"episode", "bare"}

StoreSound ==
    /\ IsFiniteSet(claims) /\ Unique(claims)
    /\ texts \subseteq AnyText /\ slices \subseteq AnySlice
    /\ \A s \in slices : \E t \in texts : t.id = s.episode /\ t.space = s.space

InspectInv ==
    /\ StoreSound
    /\ call # None => CallSound(call)
    /\ call # None /\ steady => Ahead(call, claims, texts, slices)
    /\ call # None /\ steady => ClaimsAhead(call)
    /\ SteadyIsFound
    /\ read \in Seq(Page)
    /\ call # None /\ ById(call) => Tiled(call, read)

-----------------------------------------------------------------------------
(* Lemmas *)

\* The searched spaces.
LEMMA SpacesType ==
    Len(Spaces) \in Nat /\ Len(Spaces) >= 1 /\ DOMAIN Spaces = 1..Len(Spaces) /\ 1 \in 1..Len(Spaces)
<1>1. Len(Spaces) \in Nat /\ DOMAIN Spaces = 1..Len(Spaces)
  BY InspectAssumption, LenProperties
<1>2. Len(Spaces) # 0
  BY InspectAssumption, EmptySeq
<1> QED  BY <1>1, <1>2

\* NamedRows says what Asked does.
LEMMA NamedIsAsked ==
    ASSUME NEW ask, ask.kind \in {"memory", "episode", "bare", "doc"}, NamedRows(ask)
    PROVE  Asked(ask, claims, texts, slices)
<1>1. \A x : x \in ToSet(Spaces) <=> \E b \in 1..Len(Spaces) : x = Spaces[b]
  BY SpacesType DEF ToSet
<1>2. CASE ask.kind = "memory"
  <2>1. \E r \in claims : r.id = ask.id /\ r.space \in ToSet(Spaces)
    BY <1>2 DEF NamedRows
  <2> QED  BY <1>1, <1>2, <2>1 DEF Asked, RowAhead
<1>3. CASE ask.kind = "episode"
  <2>1. \E r \in texts : r.id = ask.id /\ r.space \in ToSet(Spaces)
    BY <1>3 DEF NamedRows
  <2> QED  BY <1>1, <1>3, <2>1 DEF Asked, RowAhead
<1>4. CASE ask.kind = "bare"
  <2>1. \/ \E r \in claims : r.id = ask.id /\ r.space \in ToSet(Spaces)
        \/ \E r \in slices : r.id = ask.id /\ r.space \in ToSet(Spaces)
        \/ \E r \in texts : r.id = ask.id /\ r.space \in ToSet(Spaces)
    BY <1>4 DEF NamedRows
  <2> QED  BY <1>1, <1>4, <2>1 DEF Asked, RowAhead
<1>5. CASE ask.kind = "doc"
  <2>1. \E t \in texts : t.title = ask.id /\ t.space \in ToSet(Spaces)
    BY <1>5 DEF NamedRows
  <2> QED  BY <1>1, <1>5, <2>1 DEF Asked, TitleAhead
<1> QED  BY <1>2, <1>3, <1>4, <1>5

\* Rows that stay keep the call's way open.
LEMMA AheadKept ==
    ASSUME NEW c, NEW cs, NEW ts, NEW ss, NEW cs2, NEW ts2, NEW ss2, Ahead(c, cs, ts, ss),
           \A r \in cs : r.id = c.ask.id \/ r.id = c.id => r \in cs2,
           \A r \in ts : r.id = c.ask.id \/ r.id = c.id \/ r.title = c.ask.id => r \in ts2,
           \A r \in ss : r.id = c.ask.id => r \in ss2
    PROVE  Ahead(c, cs2, ts2, ss2)
<1>1. \A a : /\ RowAhead(cs, c.ask.id, a) => RowAhead(cs2, c.ask.id, a)
             /\ RowAhead(ts, c.ask.id, a) => RowAhead(ts2, c.ask.id, a)
             /\ RowAhead(ts, c.id, a) => RowAhead(ts2, c.id, a)
             /\ RowAhead(ss, c.ask.id, a) => RowAhead(ss2, c.ask.id, a)
             /\ TitleAhead(ts, c.ask.id, a) => TitleAhead(ts2, c.ask.id, a)
             /\ RowAt(cs, c.id, a) => RowAt(cs2, c.id, a)
             /\ RowAt(ts, c.id, a) => RowAt(ts2, c.id, a)
  BY DEF RowAhead, TitleAhead, RowAt
<1>2. Asked(c.ask, cs2, ts2, ss2)
  BY <1>1 DEF Ahead, Asked
<1> QED  BY <1>1, <1>2 DEF Ahead

\* A space without the row is behind the call.
LEMMA NextSpace ==
    ASSUME NEW table, NEW id, NEW a \in 1..Len(Spaces), With(table, id, Spaces[a]) = {}
    PROVE  /\ a = Len(Spaces) => ~RowAhead(table, id, a)
           /\ a # Len(Spaces) => a + 1 \in 1..Len(Spaces)
           /\ RowAhead(table, id, a) => RowAhead(table, id, a + 1)
<1>1. \A r \in table : r.id = id => r.space # Spaces[a]
  BY DEF With
<1>2. \A b \in a..Len(Spaces) : b = a \/ b \in (a + 1)..Len(Spaces)
  BY SpacesType
<1>3. RowAhead(table, id, a) => RowAhead(table, id, a + 1)
  BY <1>1, <1>2 DEF RowAhead
<1>4. a = Len(Spaces) => (a + 1)..Len(Spaces) = {}
  BY SpacesType
<1>5. a = Len(Spaces) => ~RowAhead(table, id, a + 1)
  BY <1>4 DEF RowAhead
<1>6. ASSUME a # Len(Spaces)
      PROVE  a + 1 \in 1..Len(Spaces)
  <2> DEFINE n == Len(Spaces)
  <2>1. n \in Nat /\ a \in 1..n /\ a # n
    BY <1>6, SpacesType
  <2> HIDE DEF n
  <2>2. a + 1 \in 1..n
    BY <2>1
  <2> QED  BY <2>2 DEF n
<1> QED  BY <1>3, <1>5, <1>6

\* The same for a title.
LEMMA NextTitleSpace ==
    ASSUME NEW title, NEW a \in 1..Len(Spaces), DocumentsByTitle(Spaces[a], title) = {}
    PROVE  /\ a = Len(Spaces) => ~TitleAhead(texts, title, a)
           /\ TitleAhead(texts, title, a) => TitleAhead(texts, title, a + 1)
<1>1. \A t \in texts : t.title = title => t.space # Spaces[a]
  BY DEF DocumentsByTitle
<1>2. \A b \in a..Len(Spaces) : b = a \/ b \in (a + 1)..Len(Spaces)
  BY SpacesType
<1>3. TitleAhead(texts, title, a) => TitleAhead(texts, title, a + 1)
  BY <1>1, <1>2 DEF TitleAhead
<1>4. a = Len(Spaces) => (a + 1)..Len(Spaces) = {}
  BY SpacesType
<1>5. a = Len(Spaces) => ~TitleAhead(texts, title, a + 1)
  BY <1>4 DEF TitleAhead
<1> QED  BY <1>3, <1>5

\* A call that goes on to another query ...
LEMMA CallMoved ==
    ASSUME NEW c, CallRecord(c), NEW q, NEW a, NEW x, NEW n,
           n = [c EXCEPT !.query = q, !.at = a, !.id = x]
    PROVE  n = [ask |-> c.ask, query |-> q, at |-> a, id |-> x, todo |-> c.todo]
<1> DEFINE n1 == [c EXCEPT !.query = q]
           n2 == [n1 EXCEPT !.at = a]
<1>0. n = [n2 EXCEPT !.id = x]
  OBVIOUS
<1>1. n1 = [ask |-> c.ask, query |-> q, at |-> c.at, id |-> c.id, todo |-> c.todo]
  BY DEF CallRecord
<1> HIDE DEF n1
<1>2. n2 = [ask |-> c.ask, query |-> q, at |-> a, id |-> c.id, todo |-> c.todo]
  BY <1>1
<1> HIDE DEF n2
<1> QED  BY <1>0, <1>2

\* ... that goes through what a claim is derived from ...
LEMMA CallExpanded ==
    ASSUME NEW c, CallRecord(c), NEW q, NEW a, NEW x, NEW n,
           n = [c EXCEPT !.query = q, !.at = a, !.todo = x]
    PROVE  n = [ask |-> c.ask, query |-> q, at |-> a, id |-> c.id, todo |-> x]
<1> DEFINE n1 == [c EXCEPT !.query = q]
           n2 == [n1 EXCEPT !.at = a]
<1>0. n = [n2 EXCEPT !.todo = x]
  OBVIOUS
<1>1. n1 = [ask |-> c.ask, query |-> q, at |-> c.at, id |-> c.id, todo |-> c.todo]
  BY DEF CallRecord
<1> HIDE DEF n1
<1>2. n2 = [ask |-> c.ask, query |-> q, at |-> a, id |-> c.id, todo |-> c.todo]
  BY <1>1
<1> HIDE DEF n2
<1> QED  BY <1>0, <1>2

\* ... and that is answered.
LEMMA CallDone ==
    ASSUME NEW c, CallRecord(c), NEW n, n = [c EXCEPT !.query = "done"]
    PROVE  n = [ask |-> c.ask, query |-> "done", at |-> c.at, id |-> c.id, todo |-> c.todo]
BY DEF CallRecord

\* The fields of a call.
LEMMA CallFields ==
    ASSUME NEW k, NEW q, NEW a, NEW x, NEW d, NEW n,
           n = [ask |-> k, query |-> q, at |-> a, id |-> x, todo |-> d]
    PROVE  CallRecord(n) /\ n.ask = k /\ n.query = q /\ n.at = a /\ n.id = x /\ n.todo = d
BY DEF CallRecord

\* A query that leaves the store, the reader and the reference alone.
LEMMA QueryMoves ==
    ASSUME InspectInv, call # None, call.query # "done",
           claims' = claims, texts' = texts, slices' = slices, read' = read, steady' = steady,
           call'.ask = call.ask, CallSound(call'),
           steady => Ahead(call', claims, texts, slices),
           steady => ClaimsAhead(call'),
           SteadyIsFound',
           call'.query = "parent" => \E s \in AnySlice : s.id = call.ask.id /\ s.episode = call'.id
    PROVE  InspectInv'
<1>1. StoreSound'
  BY DEF InspectInv, StoreSound
<1>2. ById(call') => Tiled(call', read')
  <2>1. ById(call') => Tiled(call, read)
    BY DEF InspectInv, ById
  <2> QED  BY <2>1 DEF Tiled
<1>3. steady' => ClaimsAhead(call)'
  BY DEF ClaimsAhead, Reached, Cited, Unbroken
<1> QED  BY <1>1, <1>2, <1>3 DEF InspectInv

\* ... to another query ...
LEMMA GoOnStep ==
    ASSUME InspectInv, call # None, call.query # "done", NEW q, NEW a, NEW x, GoOn(q, a, x),
           ASSUME NEW n, n = [ask |-> call.ask, query |-> q, at |-> a, id |-> x, todo |-> call.todo]
           PROVE  CallSound(n) /\ (steady => Ahead(n, claims, texts, slices)),
           q # "source",
           q \in {"expand", "view"} => call.query \in {"source", "expand", "view"},
           q = "view" => x \in call.todo,
           q = "parent" => \E s \in AnySlice : s.id = call.ask.id /\ s.episode = x
    PROVE  InspectInv'
<1>1. /\ call' = [call EXCEPT !.query = q, !.at = a, !.id = x]
      /\ claims' = claims /\ texts' = texts /\ slices' = slices
      /\ read' = read /\ outcome' = outcome /\ steady' = steady
  BY DEF GoOn
<1>2. CallRecord(call)
  BY DEF InspectInv, CallSound
<1>3. call' = [ask |-> call.ask, query |-> q, at |-> a, id |-> x, todo |-> call.todo]
  BY <1>1, <1>2, CallMoved
<1>4. CallSound(call') /\ (steady => Ahead(call', claims, texts, slices))
  BY <1>3
<1>5. call'.ask = call.ask /\ call'.query = q /\ call'.id = x /\ call'.todo = call.todo
  BY <1>3, CallFields
<1>6. SteadyIsFound'
  BY <1>1 DEF InspectInv, SteadyIsFound
<1>7. steady => ClaimsAhead(call')
  <2>1. steady => ClaimsAhead(call)
    BY DEF InspectInv
  <2> QED  BY <1>5, <2>1 DEF ClaimsAhead
<1> QED  BY <1>1, <1>4, <1>5, <1>6, <1>7, QueryMoves

\* ... to what the claim is derived from ...
Turn(q, a, d) ==
    /\ call' = [call EXCEPT !.query = q, !.at = a, !.todo = d]
    /\ UNCHANGED <<claims, texts, slices, read, outcome, steady>>

ToExpand(q) == q \in {"source", "expand"}
OfClaim(q) == q \in {"walk", "source", "expand", "view"}

\* (which is again a query)
LEMMA ExpandStep ==
    ASSUME InspectInv, call # None, OfClaim(call.query), NEW q, NEW d, Turn(q, 1, d), ToExpand(q),
           steady => d \subseteq Cited(call.ask)
    PROVE  InspectInv'
<1> DEFINE first == 1
<1>0. Turn(q, first, d) /\ first \in 1..Len(Spaces)
  BY SpacesType
<1> HIDE DEF first
<1>t. /\ call' = [call EXCEPT !.query = q, !.at = first, !.todo = d]
      /\ claims' = claims /\ texts' = texts /\ slices' = slices
      /\ read' = read /\ outcome' = outcome /\ steady' = steady
  BY <1>0 DEF Turn
<1>1. CallSound(call) /\ CallRecord(call)
  BY DEF InspectInv, CallSound
<1>2. call' = [ask |-> call.ask, query |-> q, at |-> first, id |-> call.id, todo |-> d]
  BY <1>1, <1>t, CallExpanded
<1>3. /\ CallRecord(call') /\ call'.ask = call.ask /\ call'.query = q
      /\ call'.at = first /\ call'.id = call.id /\ call'.todo = d
  BY <1>2, CallFields
<1>4. CallSound(call')
  BY <1>0, <1>1, <1>3 DEF CallSound, ToExpand, OfClaim
<1>5. steady => Ahead(call', claims, texts, slices)
  <2>1. steady => Asked(call.ask, claims, texts, slices)
    BY DEF InspectInv, Ahead
  <2> QED  BY <1>3, <2>1 DEF Ahead, ToExpand
<1>6. SteadyIsFound'
  BY <1>t DEF InspectInv, SteadyIsFound
<1>7. steady => ClaimsAhead(call')
  <2>1. steady => ClaimsAhead(call)
    BY DEF InspectInv
  <2> QED  BY <1>3, <2>1 DEF ClaimsAhead, ToExpand
<1> QED  BY <1>t, <1>3, <1>4, <1>5, <1>6, <1>7, QueryMoves DEF ToExpand, OfClaim

\* ... and to the answer, which is an error only when what is named is gone.
LEMMA EndStep ==
    ASSUME InspectInv, call # None, call.query # "done", NEW how, End(how),
           how \in {"missing", "internal"} => ~steady
    PROVE  InspectInv'
<1>1. /\ call' = [call EXCEPT !.query = "done"] /\ outcome' = how
      /\ claims' = claims /\ texts' = texts /\ slices' = slices
      /\ read' = read /\ steady' = steady
  BY DEF End
<1>2. CallSound(call) /\ CallRecord(call)
  BY DEF InspectInv, CallSound
<1>3. call' = [ask |-> call.ask, query |-> "done", at |-> call.at, id |-> call.id, todo |-> call.todo]
  BY <1>1, <1>2, CallDone
<1>4. /\ CallRecord(call') /\ call'.ask = call.ask /\ call'.query = "done"
      /\ call'.at = call.at /\ call'.id = call.id
  BY <1>3, CallFields
<1>5. CallSound(call')
  BY <1>2, <1>4 DEF CallSound
<1>6. steady => Ahead(call', claims, texts, slices)
  <2>1. steady => Asked(call.ask, claims, texts, slices)
    BY DEF InspectInv, Ahead
  <2> QED  BY <1>4, <2>1 DEF Ahead
<1>7. SteadyIsFound'
  BY <1>1 DEF SteadyIsFound
<1>8. steady => ClaimsAhead(call')
  <2>1. steady => ClaimsAhead(call)
    BY DEF InspectInv
  <2> QED  BY <1>4, <2>1 DEF ClaimsAhead
<1> QED  BY <1>1, <1>4, <1>5, <1>6, <1>7, <1>8, QueryMoves

-----------------------------------------------------------------------------
(* The queries *)

\* What the invariant says of a call under way.
LEMMA UnderWay ==
    ASSUME InspectInv, call # None
    PROVE  /\ CallSound(call) /\ call.at \in 1..Len(Spaces) /\ call.at \in Nat
           /\ steady => Ahead(call, claims, texts, slices) /\ Asked(call.ask, claims, texts, slices)
           /\ steady => ClaimsAhead(call)
<1>1. /\ CallSound(call) /\ (steady => Ahead(call, claims, texts, slices))
      /\ steady => ClaimsAhead(call)
  BY DEF InspectInv
<1>2. call.at \in 1..Len(Spaces) /\ call.at \in Nat
  BY <1>1, SpacesType DEF CallSound
<1> QED  BY <1>1, <1>2 DEF Ahead

\* The claim is looked for, a space at a time.
LEMMA ExistsStep ==
    ASSUME InspectInv, Exists
    PROVE  InspectInv'
<1> DEFINE none == With(claims, call.id, Here) = {}
<1>1. /\ call # None /\ call.query = "exists" /\ call.query # "done"
      /\ \/ ~none /\ GoOn("walk", call.at, call.id)
         \/ none /\ ~LastSpace /\ GoOn("exists", call.at + 1, call.id)
         \/ none /\ LastSpace /\ (IF call.ask.kind = "bare" THEN GoOn("slice", 1, call.id)
                                  ELSE End("missing"))
  BY DEF Exists
<1>2. /\ CallSound(call) /\ call.at \in 1..Len(Spaces) /\ call.at \in Nat /\ call.id = call.ask.id
      /\ call.ask \in AskSet /\ call.ask.kind \in {"memory", "bare"}
  BY <1>1, UnderWay DEF CallSound
<1>3. steady => /\ Asked(call.ask, claims, texts, slices)
                /\ \/ RowAhead(claims, call.ask.id, call.at)
                   \/ call.ask.kind = "bare"
                      /\ (RowAhead(slices, call.ask.id, 1) \/ RowAhead(texts, call.ask.id, 1))
  BY <1>1, UnderWay DEF Ahead
<1>4. CASE ~none /\ GoOn("walk", call.at, call.id)
  <2>1. ASSUME NEW n, n = [ask |-> call.ask, query |-> "walk", at |-> call.at, id |-> call.id,
                           todo |-> call.todo]
        PROVE  CallSound(n) /\ (steady => Ahead(n, claims, texts, slices))
    <3>1. /\ CallRecord(n) /\ n.ask = call.ask /\ n.query = "walk"
          /\ n.at = call.at /\ n.id = call.id
      BY <2>1, CallFields
    <3>2. RowAt(claims, n.id, n.at)
      BY <1>4, <3>1 DEF RowAt, With, Here
    <3> QED  BY <1>2, <1>3, <3>1, <3>2 DEF CallSound, Ahead
  <2> QED  BY <1>1, <1>4, <2>1, GoOnStep
<1>5. CASE none /\ ~LastSpace /\ GoOn("exists", call.at + 1, call.id)
  <2>0. /\ call.at + 1 \in 1..Len(Spaces)
        /\ RowAhead(claims, call.ask.id, call.at) => RowAhead(claims, call.ask.id, call.at + 1)
    BY <1>2, <1>5, NextSpace DEF Here, LastSpace
  <2>1. ASSUME NEW n, n = [ask |-> call.ask, query |-> "exists", at |-> call.at + 1, id |-> call.id,
                           todo |-> call.todo]
        PROVE  CallSound(n) /\ (steady => Ahead(n, claims, texts, slices))
    <3>1. /\ CallRecord(n) /\ n.ask = call.ask /\ n.query = "exists"
          /\ n.at = call.at + 1 /\ n.id = call.id
      BY <2>1, CallFields
    <3> QED  BY <1>2, <1>3, <2>0, <3>1 DEF CallSound, Ahead
  <2> QED  BY <1>1, <1>5, <2>1, GoOnStep
<1>6. CASE none /\ LastSpace /\ call.ask.kind = "bare" /\ GoOn("slice", 1, call.id)
  <2>0. ~RowAhead(claims, call.ask.id, call.at)
    BY <1>2, <1>6, NextSpace DEF Here, LastSpace
  <2>1. ASSUME NEW n, n = [ask |-> call.ask, query |-> "slice", at |-> 1, id |-> call.id,
                           todo |-> call.todo]
        PROVE  CallSound(n) /\ (steady => Ahead(n, claims, texts, slices))
    <3>1. /\ CallRecord(n) /\ n.ask = call.ask /\ n.query = "slice"
          /\ n.at = 1 /\ n.id = call.id
      BY <2>1, CallFields
    <3> QED  BY <1>2, <1>3, <1>6, <2>0, <3>1, SpacesType DEF CallSound, Ahead
  <2> QED  BY <1>1, <1>6, <2>1, GoOnStep
<1>7. CASE none /\ LastSpace /\ call.ask.kind # "bare" /\ End("missing")
  <2>0. ~RowAhead(claims, call.ask.id, call.at)
    BY <1>2, <1>7, NextSpace DEF Here, LastSpace
  <2>1. ~steady
    BY <1>3, <1>7, <2>0
  <2> QED  BY <1>1, <1>7, <2>1, EndStep
<1> QED  BY <1>1, <1>4, <1>5, <1>6, <1>7

\* A slice with the id leads to the text it was cut from.
LEMMA SliceStep ==
    ASSUME InspectInv, SliceParent
    PROVE  InspectInv'
<1> DEFINE none == With(slices, call.id, Here) = {}
<1>1. /\ call # None /\ call.query = "slice" /\ call.query # "done"
      /\ \/ \E s \in With(slices, call.id, Here) : GoOn("parent", 1, s.episode)
         \/ none /\ ~LastSpace /\ GoOn("slice", call.at + 1, call.id)
         \/ none /\ LastSpace /\ GoOn("text", 1, call.id)
  BY DEF SliceParent
<1>2. /\ CallSound(call) /\ call.at \in 1..Len(Spaces) /\ call.at \in Nat /\ call.id = call.ask.id
      /\ call.ask \in AskSet /\ call.ask.kind = "bare"
  BY <1>1, UnderWay DEF CallSound
<1>3. steady => /\ Asked(call.ask, claims, texts, slices)
                /\ RowAhead(slices, call.ask.id, call.at) \/ RowAhead(texts, call.ask.id, 1)
  BY <1>1, UnderWay DEF Ahead
<1>4. ASSUME NEW s \in With(slices, call.id, Here), GoOn("parent", 1, s.episode)
      PROVE  InspectInv'
  <2>0. s \in slices /\ s.id = call.ask.id /\ s.space = Spaces[call.at] /\ s \in AnySlice
    BY <1>2 DEF With, Here, InspectInv, StoreSound
  <2>2. RowAhead(texts, s.episode, 1)
    <3>1. PICK t \in texts : t.id = s.episode /\ t.space = s.space
      BY <2>0 DEF InspectInv, StoreSound
    <3> QED  BY <1>2, <2>0, <3>1 DEF RowAhead
  <2>1. ASSUME NEW n, n = [ask |-> call.ask, query |-> "parent", at |-> 1, id |-> s.episode,
                           todo |-> call.todo]
        PROVE  CallSound(n) /\ (steady => Ahead(n, claims, texts, slices))
    <3>1. /\ CallRecord(n) /\ n.ask = call.ask /\ n.query = "parent"
          /\ n.at = 1 /\ n.id = s.episode
      BY <2>1, CallFields
    <3> QED  BY <1>2, <1>3, <2>2, <3>1, SpacesType DEF CallSound, Ahead
  <2>3. \E x \in AnySlice : x.id = call.ask.id /\ x.episode = s.episode
    BY <2>0
  <2> QED  BY <1>1, <1>4, <2>1, <2>3, GoOnStep
<1>5. CASE none /\ ~LastSpace /\ GoOn("slice", call.at + 1, call.id)
  <2>0. /\ call.at + 1 \in 1..Len(Spaces)
        /\ RowAhead(slices, call.ask.id, call.at) => RowAhead(slices, call.ask.id, call.at + 1)
    BY <1>2, <1>5, NextSpace DEF Here, LastSpace
  <2>1. ASSUME NEW n, n = [ask |-> call.ask, query |-> "slice", at |-> call.at + 1, id |-> call.id,
                           todo |-> call.todo]
        PROVE  CallSound(n) /\ (steady => Ahead(n, claims, texts, slices))
    <3>1. /\ CallRecord(n) /\ n.ask = call.ask /\ n.query = "slice"
          /\ n.at = call.at + 1 /\ n.id = call.id
      BY <2>1, CallFields
    <3> QED  BY <1>2, <1>3, <2>0, <3>1 DEF CallSound, Ahead
  <2> QED  BY <1>1, <1>5, <2>1, GoOnStep
<1>6. CASE none /\ LastSpace /\ GoOn("text", 1, call.id)
  <2>0. ~RowAhead(slices, call.ask.id, call.at)
    BY <1>2, <1>6, NextSpace DEF Here, LastSpace
  <2>1. ASSUME NEW n, n = [ask |-> call.ask, query |-> "text", at |-> 1, id |-> call.id,
                           todo |-> call.todo]
        PROVE  CallSound(n) /\ (steady => Ahead(n, claims, texts, slices))
    <3>1. /\ CallRecord(n) /\ n.ask = call.ask /\ n.query = "text"
          /\ n.at = 1 /\ n.id = call.id
      BY <2>1, CallFields
    <3> QED  BY <1>2, <1>3, <2>0, <3>1, SpacesType DEF CallSound, Ahead
  <2> QED  BY <1>1, <1>6, <2>1, GoOnStep
<1> QED  BY <1>1, <1>4, <1>5, <1>6

\* The claim a steady call is about to walk from is there with all its links.
LEMMA SteadyChain ==
    ASSUME InspectInv, call # None, call.query \in {"walk", "view"}, steady
    PROVE  ChainThere
<1>1. /\ CallSound(call) /\ call.at \in 1..Len(Spaces)
      /\ Ahead(call, claims, texts, slices) /\ ClaimsAhead(call)
  BY UnderWay
<1>2. PICK r \in claims : r.id = call.id /\ r.space = Spaces[call.at]
  BY <1>1 DEF Ahead, RowAt
<1>3. r \in With(claims, call.id, Here)
  BY <1>2 DEF With, Here
<1>4. call.id \in {call.ask.id} \cup Cited(call.ask)
  BY <1>1 DEF CallSound, ClaimsAhead
<1>5. r.space \in ToSet(Spaces)
  BY <1>1, <1>2, SpacesType DEF ToSet
<1>6. r \in Reached(call.ask)
  BY <1>1, <1>2, <1>4, <1>5 DEF Reached, CallSound
<1> QED  BY <1>1, <1>3, <1>6 DEF ClaimsAhead, ChainThere

\* The claims an answer is derived from are walked one at a time.
LEMMA ClaimSteps ==
    ASSUME InspectInv, Walk \/ SourceText \/ Expand \/ View
    PROVE  InspectInv'
<1>0. ASSUME call # None, call.query \in {"source", "expand"}, NEW a, a \in 1..Len(Spaces), NEW x, GoOn("expand", a, x)
      PROVE  InspectInv'
  <2>0. CallSound(call) /\ (steady => Asked(call.ask, claims, texts, slices))
    BY <1>0, UnderWay
  <2>1. ASSUME NEW n, n = [ask |-> call.ask, query |-> "expand", at |-> a, id |-> x,
                           todo |-> call.todo]
        PROVE  CallSound(n) /\ (steady => Ahead(n, claims, texts, slices))
    <3>1. CallRecord(n) /\ n.ask = call.ask /\ n.query = "expand" /\ n.at = a
      BY <2>1, CallFields
    <3> QED  BY <1>0, <2>0, <3>1 DEF CallSound, Ahead
  <2>2. call.query # "done" /\ call.query \in {"source", "expand", "view"}
    BY <1>0
  <2> QED  BY <1>0, <2>1, <2>2, GoOnStep
<1>1. CASE Walk
  <2>1. /\ call # None /\ call.query = "walk" /\ OfClaim(call.query) /\ call.query # "done"
        /\ \/ ~ChainThere /\ End("internal")
           \/ \E c \in With(claims, call.id, Here) :
                Turn(IF c.source = None THEN "expand" ELSE "source", 1, c.expands)
    BY <1>1 DEF Walk, OfClaim, Turn
  <2>2. CASE ~ChainThere /\ End("internal")
    <3>1. ~steady
      BY <2>1, <2>2, SteadyChain
    <3> QED  BY <2>1, <2>2, <3>1, EndStep
  <2>3. ASSUME NEW c \in With(claims, call.id, Here),
               Turn(IF c.source = None THEN "expand" ELSE "source", 1, c.expands)
        PROVE  InspectInv'
    <3> DEFINE q == IF c.source = None THEN "expand" ELSE "source"
    <3>1. ToExpand(q) /\ Turn(q, 1, c.expands)
      BY <2>3 DEF ToExpand
    <3>2. c.expands \subseteq Cited(call.ask)
      <4>1. c \in claims /\ c.id = call.ask.id
        BY <2>1, UnderWay DEF With, CallSound
      <4> QED  BY <4>1 DEF Cited
    <3> HIDE DEF q
    <3> QED  BY <2>1, <3>1, <3>2, ExpandStep
  <2> QED  BY <2>1, <2>2, <2>3
<1>2. CASE SourceText
  <2>1. call # None /\ call.query \in {"source", "expand"} /\ GoOn("expand", 1, call.id)
    BY <1>2 DEF SourceText
  <2> QED  BY <1>0, <2>1, SpacesType
<1>3. CASE Expand
  <2> DEFINE cited == CHOOSE c \in call.todo : TRUE
             none == With(claims, cited, Here) = {}
  <2>1. /\ call # None /\ call.query = "expand" /\ OfClaim(call.query) /\ call.query # "done"
        /\ \/ End("found")
           \/ ~none /\ cited \in call.todo /\ GoOn("view", call.at, cited)
           \/ none /\ ~LastSpace /\ GoOn("expand", call.at + 1, cited)
           \/ Viewed(cited)
    BY <1>3 DEF Expand, OfClaim
  <2> HIDE DEF cited
  <2>2. CASE End("found")
    BY <2>1, <2>2, EndStep
  <2>3. CASE ~none /\ cited \in call.todo /\ GoOn("view", call.at, cited)
    <3>1. CallSound(call) /\ (steady => Asked(call.ask, claims, texts, slices))
      BY <2>1, UnderWay
    <3>2. ASSUME NEW n, n = [ask |-> call.ask, query |-> "view", at |-> call.at, id |-> cited,
                             todo |-> call.todo]
          PROVE  CallSound(n) /\ (steady => Ahead(n, claims, texts, slices))
      <4>1. /\ CallRecord(n) /\ n.ask = call.ask /\ n.query = "view"
            /\ n.at = call.at /\ n.id = cited
        BY <3>2, CallFields
      <4>2. RowAt(claims, n.id, n.at)
        BY <2>3, <4>1 DEF RowAt, With, Here
      <4> QED  BY <2>1, <3>1, <4>1, <4>2 DEF CallSound, Ahead
    <3> QED  BY <2>1, <2>3, <3>2, GoOnStep
  <2>4. CASE none /\ ~LastSpace /\ GoOn("expand", call.at + 1, cited)
    <3>1. call.at + 1 \in 1..Len(Spaces)
      BY <2>1, <2>4, UnderWay, NextSpace DEF Here, LastSpace
    <3> QED  BY <1>0, <2>1, <2>4, <3>1
  <2>5. CASE Viewed(cited)
    <3>1. Turn("expand", 1, call.todo \ {cited}) /\ ToExpand("expand")
      BY <2>5 DEF Viewed, Turn, ToExpand
    <3>2. steady => call.todo \ {cited} \subseteq Cited(call.ask)
      BY <2>1, UnderWay DEF ClaimsAhead
    <3> QED  BY <2>1, <3>1, <3>2, ExpandStep
  <2> QED  BY <2>1, <2>2, <2>3, <2>4, <2>5
<1>4. CASE View
  <2>1. /\ call # None /\ call.query = "view" /\ OfClaim(call.query) /\ call.query # "done"
        /\ \/ ~ChainThere /\ End("internal")
           \/ Viewed(call.id)
    BY <1>4 DEF View, OfClaim
  <2>2. CASE ~ChainThere /\ End("internal")
    <3>1. ~steady
      BY <2>1, <2>2, SteadyChain
    <3> QED  BY <2>1, <2>2, <3>1, EndStep
  <2>3. CASE Viewed(call.id)
    <3>1. Turn("expand", 1, call.todo \ {call.id}) /\ ToExpand("expand")
      BY <2>3 DEF Viewed, Turn, ToExpand
    <3>2. steady => call.todo \ {call.id} \subseteq Cited(call.ask)
      BY <2>1, UnderWay DEF ClaimsAhead
    <3> QED  BY <2>1, <3>1, <3>2, ExpandStep
  <2> QED  BY <2>1, <2>2, <2>3
<1> QED  BY <1>1, <1>2, <1>3, <1>4

-----------------------------------------------------------------------------
(* The pages *)

\* A document's default page is not empty.
LEMMA DefaultLimitType ==
    ASSUME NEW t, slices \subseteq AnySlice
    PROVE  DefaultLimit(t) = None \/ DefaultLimit(t) \in Nat \ {0}
<1> DEFINE first == FirstChunk(ChunksOf(t.id))
           c == CHOOSE c \in first : TRUE
<1>1. DefaultLimit(t) = IF t.title # None /\ first # {} /\ c.chars > 0 THEN c.chars ELSE None
  BY DEF DefaultLimit
<1>2. first # {} => c \in first
  OBVIOUS
<1>3. first \subseteq AnySlice
  BY DEF FirstChunk, ChunksOf
<1> HIDE DEF c, first
<1>4. first # {} => c.chars \in Nat
  BY <1>2, <1>3, InspectAssumption
<1> QED  BY <1>1, <1>4

\* WindowSpec::apply: a page that promises another ends where that one starts.
LEMMA WindowPage ==
    ASSUME NEW t \in AnyText, NEW ask \in AskSet, NEW p, p = Window(t, ask), slices \subseteq AnySlice
    PROVE  /\ p \in Page /\ p.text = t.id
           /\ p.next_offset = None => p.to = t.chars
           /\ p.next_offset # None =>
                p.next_offset = p.to /\ p.to <= t.chars /\ (ask.limit # 0 => p.from < p.to)
           /\ ask.offset # None /\ ask.offset <= t.chars => p.from = ask.offset
<1> DEFINE chars == t.chars
           default == DefaultLimit(t)
           limit == IF ask.limit # None THEN ask.limit ELSE default
           offset == Smaller(IF ask.offset = None THEN 0 ELSE ask.offset, chars)
           end == WindowEnd(t, offset, limit)
           whole == ask.offset = None /\ limit = None
           from == IF whole THEN 0 ELSE offset
           to == IF whole THEN chars ELSE end
           next == IF ~whole /\ end < chars THEN end ELSE None
<1>1. p = [text |-> t.id, from |-> from, to |-> to, next_offset |-> next]
  BY DEF Window
<1>2. /\ chars \in Nat /\ None \notin Nat
      /\ ask.offset \in Nat \cup {None} /\ ask.limit \in Nat \cup {None}
      /\ default = None \/ default \in Nat \ {0}
  BY InspectAssumption, DefaultLimitType DEF AskSet
<1>3. end = Smaller(chars, offset + (IF limit = None THEN chars - offset ELSE limit))
  BY DEF WindowEnd
<1> HIDE DEF chars, default, end
<1>4. /\ offset \in Nat /\ offset <= chars
      /\ ask.offset # None /\ ask.offset <= chars => offset = ask.offset
  BY <1>2 DEF Smaller
<1>5. /\ limit = None \/ limit \in Nat
      /\ ask.limit # 0 => limit # 0
  BY <1>2
<1> HIDE DEF offset, limit
<1>6. /\ end \in Nat /\ end <= chars
      /\ limit = None => end = chars
      /\ end < chars /\ limit # 0 => offset < end
  BY <1>2, <1>3, <1>4, <1>5 DEF Smaller
<1>7. /\ from \in Nat /\ to \in Nat /\ next \in Nat \cup {None}
      /\ next = None => to = chars
      /\ next # None => next = to /\ to <= chars /\ (ask.limit # 0 => from < to)
      /\ ask.offset # None /\ ask.offset <= chars => from = ask.offset
  BY <1>2, <1>4, <1>5, <1>6
<1> HIDE DEF from, to, next
<1>8. p.text = t.id /\ p.from = from /\ p.to = to /\ p.next_offset = next
  BY <1>1
<1>9. p \in Page
  BY <1>1, <1>7 DEF Page
<1> QED  BY <1>7, <1>8, <1>9 DEF chars

\* A reference by id leads to one text.
LEMMA OneAnswer ==
    ASSUME NEW ask, NEW x, NEW y, Answers(ask, x), Answers(ask, y)
    PROVE  x = y
BY InspectAssumption DEF Answers, Unique

\* One more page.
LEMMA PageAdded ==
    ASSUME NEW c, c.ask \in AskSet, c.query # "done", NEW pages, Tiled(c, pages),
           NEW t \in AnyText, Answers(c.ask, t.id), slices \subseteq AnySlice,
           NEW n, n.ask = c.ask, n.query = "done"
    PROVE  Tiled(n, Append(pages, Window(t, c.ask)))
<1> DEFINE p == Window(t, c.ask)
           more == Append(pages, p)
           last == Len(pages)
<1>1. /\ p \in Page /\ p.text = t.id
      /\ p.next_offset = None => p.to = t.chars
      /\ p.next_offset # None =>
           p.next_offset = p.to /\ p.to <= t.chars /\ (c.ask.limit # 0 => p.from < p.to)
      /\ c.ask.offset # None /\ c.ask.offset <= t.chars => p.from = c.ask.offset
  BY WindowPage
<1> HIDE DEF p
<1>2. pages \in Seq(Page) /\ last \in Nat /\ (pages # << >> => last # 0) /\ (pages = << >> => last = 0)
  BY LenProperties, EmptySeq DEF Tiled
<1>3. /\ more \in Seq(Page) /\ Len(more) = last + 1
      /\ \A i \in 1..last : more[i] = pages[i]
      /\ more[last + 1] = p
  BY <1>1, <1>2, AppendProperties
<1>4. PageSound(c.ask, p)
  <2>1. \A u \in AnyText : u.id = p.text => u = t
    BY <1>1, InspectAssumption DEF Unique
  <2>2. Answers(c.ask, p.text)
    BY <1>1
  <2> QED  BY <1>1, <2>1, <2>2 DEF PageSound
<1>5. ASSUME last # 0
      PROVE  pages[last].to = p.from
  <2> DEFINE q == pages[last]
  <2>1. pages # << >> /\ last \in 1..last
    BY <1>2, <1>5
  <2>2. /\ PageSound(c.ask, q) /\ q.next_offset # None
        /\ c.ask.offset = q.next_offset
    BY <2>1 DEF Tiled
  <2> HIDE DEF q
  <2>3. q.text = t.id
    BY <2>2, OneAnswer DEF PageSound
  <2>4. q.next_offset = q.to /\ q.to <= t.chars
    BY <2>2, <2>3 DEF PageSound
  <2>5. p.from = c.ask.offset
    BY <1>1, <2>2, <2>4
  <2>6. q.to = p.from
    BY <2>2, <2>4, <2>5
  <2> QED  BY <2>6 DEF q
<1> HIDE DEF more, last
<1>6. ASSUME NEW i \in 1..Len(more)
      PROVE  PageSound(n.ask, more[i])
  <2>1. CASE i = last + 1
    BY <1>3, <1>4, <2>1
  <2>2. CASE i # last + 1
    <3>1. i \in 1..last
      BY <1>2, <1>3, <2>2
    <3>2. PageSound(c.ask, pages[i])
      BY <3>1 DEF Tiled, last
    <3> QED  BY <1>3, <3>1, <3>2
  <2> QED  BY <2>1, <2>2
<1>7. ASSUME NEW i \in 1..(Len(more) - 1)
      PROVE  more[i].to = more[i + 1].from
  <2>0. i \in 1..last
    BY <1>2, <1>3
  <2>1. CASE i = last
    <3>1. last # 0
      BY <2>0, <2>1
    <3> QED  BY <1>3, <1>5, <2>0, <2>1, <3>1
  <2>2. CASE i # last
    <3>1. i \in 1..(last - 1) /\ i + 1 \in 1..last
      BY <1>2, <2>0, <2>2
    <3>2. pages[i].to = pages[i + 1].from
      BY <3>1 DEF Tiled, last
    <3> QED  BY <1>3, <2>0, <3>1, <3>2
  <2> QED  BY <2>1, <2>2
<1>8. Tiled(n, more)
  BY <1>3, <1>6, <1>7 DEF Tiled
<1> QED  BY <1>8 DEF more, p

\* detailed: the answer carries a page.
LEMMA FoundStep ==
    ASSUME InspectInv, call # None, call.query # "done", NEW t \in texts, Found(t),
           ById(call) => Answers(call.ask, t.id)
    PROVE  InspectInv'
<1>1. /\ call' = [call EXCEPT !.query = "done"] /\ outcome' = "found"
      /\ read' = Append(read, Window(t, call.ask))
      /\ claims' = claims /\ texts' = texts /\ slices' = slices /\ steady' = steady
  BY DEF Found
<1>2. CallSound(call) /\ CallRecord(call) /\ call.ask \in AskSet
  BY DEF InspectInv, CallSound
<1>3. call' = [ask |-> call.ask, query |-> "done", at |-> call.at, id |-> call.id, todo |-> call.todo]
  BY <1>1, <1>2, CallDone
<1>4. /\ CallRecord(call') /\ call'.ask = call.ask /\ call'.query = "done"
      /\ call'.at = call.at /\ call'.id = call.id
  BY <1>3, CallFields
<1>5. CallSound(call')
  BY <1>2, <1>4 DEF CallSound
<1>6. steady => Ahead(call', claims, texts, slices)
  <2>1. steady => Asked(call.ask, claims, texts, slices)
    BY DEF InspectInv, Ahead
  <2> QED  BY <1>4, <2>1 DEF Ahead
<1>7. SteadyIsFound'
  BY <1>1 DEF SteadyIsFound
<1>8. StoreSound /\ StoreSound'
  BY <1>1 DEF InspectInv, StoreSound
<1>9. ASSUME ById(call')
      PROVE  Tiled(call', read')
  <2>1. ById(call) /\ Tiled(call, read) /\ Answers(call.ask, t.id)
    BY <1>4, <1>9 DEF ById, InspectInv
  <2>2. t \in AnyText /\ slices \subseteq AnySlice
    BY <1>8 DEF StoreSound
  <2>3. Tiled(call', Append(read, Window(t, call.ask)))
    BY <1>2, <1>4, <2>1, <2>2, PageAdded
  <2> QED  BY <1>1, <2>3
<1>10. read' \in Seq(Page)
  <2> DEFINE p == Window(t, call.ask)
  <2>1. t \in AnyText /\ slices \subseteq AnySlice
    BY <1>8 DEF StoreSound
  <2>2. p \in Page
    BY <1>2, <2>1, WindowPage
  <2> HIDE DEF p
  <2>3. Append(read, p) \in Seq(Page)
    BY <2>2, AppendProperties DEF InspectInv
  <2> QED  BY <1>1, <2>3 DEF p
<1>11. steady' => ClaimsAhead(call)'
  <2>1. steady => ClaimsAhead(call)
    BY DEF InspectInv
  <2> QED  BY <1>1, <1>4, <2>1 DEF ClaimsAhead, Reached, Cited, Unbroken
<1> QED  BY <1>1, <1>5, <1>6, <1>7, <1>8, <1>9, <1>10, <1>11 DEF InspectInv

\* The text is looked for, a space at a time, by its id or as a slice's parent.
LEMMA TextStep ==
    ASSUME InspectInv, Text
    PROVE  InspectInv'
<1> DEFINE none == With(texts, call.id, Here) = {}
<1>1. /\ call # None /\ call.query \in {"text", "parent"} /\ call.query # "done"
      /\ \/ \E t \in With(texts, call.id, Here) : Found(t)
         \/ none /\ ~LastSpace /\ GoOn(call.query, call.at + 1, call.id)
         \/ none /\ LastSpace /\ End(IF call.query = "parent" THEN "internal" ELSE "missing")
  BY DEF Text
<1>2. /\ CallSound(call) /\ call.at \in 1..Len(Spaces) /\ call.at \in Nat
      /\ call.ask \in AskSet /\ call.ask.kind \in {"episode", "bare"}
      /\ call.query = "text" => call.id = call.ask.id
      /\ call.query = "parent" => call.ask.kind = "bare"
  BY <1>1, UnderWay DEF CallSound
<1>3. steady => Asked(call.ask, claims, texts, slices) /\ RowAhead(texts, call.id, call.at)
  BY <1>1, <1>2, UnderWay DEF Ahead
<1>4. call.query = "parent" => \E s \in AnySlice : s.id = call.ask.id /\ s.episode = call.id
  BY <1>1, <1>2 DEF InspectInv, ById, Tiled
<1>5. ASSUME NEW t \in With(texts, call.id, Here), Found(t)
      PROVE  InspectInv'
  <2>1. t \in texts /\ t.id = call.id /\ t \in AnyText
    BY DEF With, InspectInv, StoreSound
  <2>2. Answers(call.ask, t.id)
    <3>1. CASE call.query = "text"
      <4>1. \A s \in AnySlice : s.id # call.ask.id
        BY <1>2, <2>1, <3>1, InspectAssumption
      <4> QED  BY <1>2, <2>1, <3>1, <4>1 DEF Answers
    <3>2. CASE call.query = "parent"
      BY <1>2, <1>4, <2>1, <3>2 DEF Answers
    <3> QED  BY <1>1, <3>1, <3>2
  <2> QED  BY <1>1, <1>5, <2>1, <2>2, FoundStep
<1>6. CASE none /\ ~LastSpace /\ GoOn(call.query, call.at + 1, call.id)
  <2>0. /\ call.at + 1 \in 1..Len(Spaces)
        /\ RowAhead(texts, call.id, call.at) => RowAhead(texts, call.id, call.at + 1)
    BY <1>2, <1>6, NextSpace DEF Here, LastSpace
  <2>1. ASSUME NEW n, n = [ask |-> call.ask, query |-> call.query, at |-> call.at + 1, id |-> call.id,
                           todo |-> call.todo]
        PROVE  CallSound(n) /\ (steady => Ahead(n, claims, texts, slices))
    <3>1. /\ CallRecord(n) /\ n.ask = call.ask /\ n.query = call.query
          /\ n.at = call.at + 1 /\ n.id = call.id
      BY <2>1, CallFields
    <3>2. CallSound(n)
      BY <1>2, <2>0, <3>1 DEF CallSound
    <3>3. steady => Asked(n.ask, claims, texts, slices) /\ RowAhead(texts, n.id, n.at)
      BY <1>3, <2>0, <3>1
    <3>4. n.query = "text" => n.id = n.ask.id
      BY <1>2, <3>1
    <3> QED  BY <1>1, <3>1, <3>2, <3>3, <3>4 DEF Ahead
  <2> QED  BY <1>1, <1>4, <1>6, <2>1, GoOnStep
<1>7. CASE none /\ LastSpace /\ End(IF call.query = "parent" THEN "internal" ELSE "missing")
  <2>0. ~RowAhead(texts, call.id, call.at)
    BY <1>2, <1>7, NextSpace DEF Here, LastSpace
  <2>1. ~steady
    BY <1>3, <2>0
  <2> QED  BY <1>1, <1>7, <2>1, EndStep
<1> QED  BY <1>1, <1>5, <1>6, <1>7

\* The newest version of a title, and then that version by its id.
LEMMA TitleSteps ==
    ASSUME InspectInv, Title \/ Newest
    PROVE  InspectInv'
<1>1. CASE Title
  <2> DEFINE versions == DocumentsByTitle(Here, call.ask.id)
  <2>1. /\ call # None /\ call.query = "title" /\ call.query # "done"
        /\ \/ \E v \in versions : GoOn("newest", call.at, v.id)
           \/ versions = {} /\ ~LastSpace /\ GoOn("title", call.at + 1, call.id)
           \/ versions = {} /\ LastSpace /\ End("missing")
    BY <1>1 DEF Title
  <2>2. /\ CallSound(call) /\ call.at \in 1..Len(Spaces) /\ call.at \in Nat
        /\ call.ask \in AskSet /\ call.ask.kind = "doc"
    BY <2>1, UnderWay DEF CallSound
  <2>3. steady => Asked(call.ask, claims, texts, slices) /\ TitleAhead(texts, call.ask.id, call.at)
    BY <2>1, UnderWay DEF Ahead
  <2>4. ASSUME NEW v \in versions, GoOn("newest", call.at, v.id)
        PROVE  InspectInv'
    <3>0. RowAt(texts, v.id, call.at)
      BY DEF DocumentsByTitle, RowAt, Here
    <3>1. ASSUME NEW n, n = [ask |-> call.ask, query |-> "newest", at |-> call.at, id |-> v.id,
                             todo |-> call.todo]
          PROVE  CallSound(n) /\ (steady => Ahead(n, claims, texts, slices))
      <4>1. /\ CallRecord(n) /\ n.ask = call.ask /\ n.query = "newest"
            /\ n.at = call.at /\ n.id = v.id
        BY <3>1, CallFields
      <4> QED  BY <2>2, <2>3, <3>0, <4>1 DEF CallSound, Ahead
    <3> QED  BY <2>1, <2>4, <3>1, GoOnStep
  <2>5. CASE versions = {} /\ ~LastSpace /\ GoOn("title", call.at + 1, call.id)
    <3>0. /\ call.at + 1 \in 1..Len(Spaces)
          /\ TitleAhead(texts, call.ask.id, call.at) => TitleAhead(texts, call.ask.id, call.at + 1)
      <4>1. call.at # Len(Spaces)
        BY <2>5 DEF LastSpace
      <4>2. With({}, call.id, Spaces[call.at]) = {}
        BY DEF With
      <4> QED  BY <2>2, <2>5, <4>1, <4>2, NextSpace, NextTitleSpace DEF Here
    <3>1. ASSUME NEW n, n = [ask |-> call.ask, query |-> "title", at |-> call.at + 1, id |-> call.id,
                             todo |-> call.todo]
          PROVE  CallSound(n) /\ (steady => Ahead(n, claims, texts, slices))
      <4>1. /\ CallRecord(n) /\ n.ask = call.ask /\ n.query = "title"
            /\ n.at = call.at + 1 /\ n.id = call.id
        BY <3>1, CallFields
      <4> QED  BY <2>2, <2>3, <3>0, <4>1 DEF CallSound, Ahead
    <3> QED  BY <2>1, <2>5, <3>1, GoOnStep
  <2>6. CASE versions = {} /\ LastSpace /\ End("missing")
    <3>1. ~TitleAhead(texts, call.ask.id, call.at)
      BY <2>2, <2>6, NextTitleSpace DEF Here, LastSpace
    <3>2. ~steady
      BY <2>3, <3>1
    <3> QED  BY <2>1, <2>6, <3>2, EndStep
  <2> QED  BY <2>1, <2>4, <2>5, <2>6
<1>2. CASE Newest
  <2>1. /\ call # None /\ call.query = "newest" /\ call.query # "done"
        /\ \/ \E t \in With(texts, call.id, Here) : Found(t)
           \/ With(texts, call.id, Here) = {} /\ End("internal")
    BY <1>2 DEF Newest
  <2>2. call.ask.kind = "doc" /\ (steady => RowAt(texts, call.id, call.at))
    BY <2>1, UnderWay DEF CallSound, Ahead
  <2>3. ASSUME NEW t \in With(texts, call.id, Here), Found(t)
        PROVE  InspectInv'
    <3>1. t \in texts /\ ~ById(call)
      BY <2>2 DEF With, ById
    <3> QED  BY <2>1, <2>3, <3>1, FoundStep
  <2>4. CASE With(texts, call.id, Here) = {} /\ End("internal")
    <3>1. ~steady
      BY <2>2, <2>4 DEF RowAt, With, Here
    <3> QED  BY <2>1, <2>4, <3>1, EndStep
  <2> QED  BY <2>1, <2>3, <2>4
<1> QED  BY <1>1, <1>2

-----------------------------------------------------------------------------
(* The reader *)

\* A call to its first query has all it names in front of it.
LEMMA FirstQuerySound ==
    ASSUME NEW k \in AskSet, NEW d, NEW n,
           n = [ask |-> k, query |-> FirstQuery(k.kind), at |-> 1, id |-> k.id, todo |-> d]
    PROVE  /\ CallSound(n) /\ n.ask = k /\ n.query \notin {"done", "parent", "source", "expand", "view"}
           /\ Asked(k, claims, texts, slices) => Ahead(n, claims, texts, slices)
<1> DEFINE q == FirstQuery(k.kind)
<1>0. k.kind \in {"memory", "episode", "bare", "doc"}
  BY DEF AskSet
<1>1. /\ k.kind \in {"memory", "bare"} => q = "exists"
      /\ k.kind = "episode" => q = "text"
      /\ k.kind = "doc" => q = "title"
  BY <1>0 DEF FirstQuery
<1>2. n = [ask |-> k, query |-> q, at |-> 1, id |-> k.id, todo |-> d]
  OBVIOUS
<1> HIDE DEF q
<1>3. CallRecord(n) /\ n.ask = k /\ n.query = q /\ n.at = 1 /\ n.id = k.id
  BY <1>2, CallFields
<1>4. q \in {"exists", "text", "title"}
  BY <1>0, <1>1
<1>5. CallSound(n)
  BY <1>0, <1>1, <1>3, <1>4, SpacesType DEF CallSound
<1>6. Asked(k, claims, texts, slices) => Ahead(n, claims, texts, slices)
  BY <1>0, <1>1, <1>3, <1>4 DEF Ahead, Asked
<1> QED  BY <1>3, <1>4, <1>5, <1>6

\* A call begins.
LEMMA CallStep ==
    ASSUME InspectInv, InspectCall
    PROVE  InspectInv'
<1>1. PICK k \in Asks :
           call' = [ask |-> k, query |-> FirstQuery(k.kind), at |-> 1, id |-> k.id, todo |-> {}]
  BY DEF InspectCall
<1>2. /\ steady' = (NamedRows(call'.ask) /\ \A c \in Reached(call'.ask) : Unbroken(c))
      /\ read' = << >> /\ outcome' = None
      /\ claims' = claims /\ texts' = texts /\ slices' = slices
  BY DEF InspectCall
<1>3. k \in AskSet /\ k.kind \in {"memory", "episode", "bare", "doc"}
  BY InspectAssumption DEF AskSet
<1>4. /\ CallSound(call') /\ call'.ask = k
      /\ call'.query \notin {"done", "parent", "source", "expand", "view"}
      /\ Asked(k, claims, texts, slices) => Ahead(call', claims, texts, slices)
  BY <1>1, <1>3, FirstQuerySound
<1>5. steady' => Ahead(call', claims, texts, slices)
  <2>1. NamedRows(k) => Asked(k, claims, texts, slices)
    BY <1>3, NamedIsAsked
  <2>2. steady' => NamedRows(k)
    BY <1>2, <1>4
  <2> QED  BY <1>4, <2>1, <2>2
<1>6. SteadyIsFound'
  BY <1>2, InspectAssumption DEF SteadyIsFound
<1>7. StoreSound'
  BY <1>2 DEF InspectInv, StoreSound
<1>8. Tiled(call', read')
  BY <1>2, <1>4, EmptySeq DEF Tiled
<1>9. steady' => ClaimsAhead(call)'
  BY <1>2, <1>4 DEF ClaimsAhead, Reached, Cited, Unbroken
<1> QED  BY <1>2, <1>4, <1>5, <1>6, <1>7, <1>8, <1>9, EmptySeq DEF InspectInv

\* The reader sends back the offset it was given.
LEMMA ReadOnStep ==
    ASSUME InspectInv, ReadOn
    PROVE  InspectInv'
<1> DEFINE next == Last(read).next_offset
           k == [call.ask EXCEPT !.offset = next]
           q == FirstQuery(call.ask.kind)
<1>1. /\ call # None /\ call.query = "done" /\ read # << >> /\ next # None
      /\ call' = [call EXCEPT !.ask.offset = next, !.at = 1, !.id = call.ask.id, !.query = q]
      /\ outcome' = None /\ read' = read /\ steady' = steady
      /\ claims' = claims /\ texts' = texts /\ slices' = slices
  BY DEF ReadOn
<1>2. CallSound(call) /\ CallRecord(call) /\ call.ask \in AskSet
  BY <1>1 DEF InspectInv, CallSound
<1>3. Len(read) \in 1..Len(read) /\ read[Len(read)] \in Page /\ next = read[Len(read)].next_offset
  <2>1. read \in Seq(Page) /\ Len(read) \in Nat \ {0}
    BY <1>1, EmptySeq DEF InspectInv
  <2>2. Len(read) \in 1..Len(read)
    BY <2>1
  <2> QED  BY <2>1, <2>2, ElementOfSeq DEF Last
<1>4. next \in Nat
  BY <1>1, <1>3 DEF Page
<1>a. k \in AskSet /\ k.kind = call.ask.kind /\ k.id = call.ask.id /\ k.limit = call.ask.limit
      /\ k.offset = next
  <2> HIDE DEF next
  <2> QED  BY <1>2, <1>4 DEF AskSet
<1>5. call' = [ask |-> k, query |-> q, at |-> 1, id |-> call.ask.id, todo |-> call.todo]
  <2> HIDE DEF next, q
  <2> DEFINE c1 == [call EXCEPT !.ask = k]
             c2 == [c1 EXCEPT !.at = 1]
             c3 == [c2 EXCEPT !.id = call.ask.id]
  <2>0. call' = [c3 EXCEPT !.query = q]
    BY <1>1, <1>2 DEF CallRecord
  <2> HIDE DEF k
  <2>1. c1 = [ask |-> k, query |-> call.query, at |-> call.at, id |-> call.id, todo |-> call.todo]
    BY <1>2 DEF CallRecord
  <2> HIDE DEF c1
  <2>2. c2 = [ask |-> k, query |-> call.query, at |-> 1, id |-> call.id, todo |-> call.todo]
    BY <2>1
  <2> HIDE DEF c2
  <2>3. c3 = [ask |-> k, query |-> call.query, at |-> 1, id |-> call.ask.id, todo |-> call.todo]
    BY <2>2
  <2> HIDE DEF c3
  <2> QED  BY <2>0, <2>3
<1> HIDE DEF next, k
<1>6. /\ CallSound(call') /\ call'.ask = k
      /\ call'.query \notin {"done", "parent", "source", "expand", "view"}
      /\ Asked(k, claims, texts, slices) => Ahead(call', claims, texts, slices)
  BY <1>5, <1>a, FirstQuerySound
<1>7. steady' => Ahead(call', claims', texts', slices')
  <2>1. steady => Asked(call.ask, claims, texts, slices)
    BY <1>1, UnderWay
  <2>2. Asked(call.ask, claims, texts, slices) => Asked(k, claims, texts, slices)
    BY <1>a DEF Asked
  <2> QED  BY <1>1, <1>6, <2>1, <2>2
<1>8. SteadyIsFound'
  BY <1>1, InspectAssumption DEF SteadyIsFound
<1>9. StoreSound'
  BY <1>1 DEF InspectInv, StoreSound
<1>10. ASSUME ById(call')
       PROVE  Tiled(call', read')
  <2>1. Tiled(call, read)
    BY <1>1, <1>6, <1>10, <1>a DEF InspectInv, ById
  <2>2. \A p : PageSound(call.ask, p) => PageSound(k, p)
    BY <1>a DEF PageSound, Answers
  <2>3. Tiled(call', read)
    BY <1>1, <1>3, <1>6, <1>a, <2>1, <2>2 DEF Tiled
  <2> QED  BY <1>1, <2>3
<1>11. steady' => ClaimsAhead(call)'
  <2>1. steady => \A w \in Reached(call.ask) : Unbroken(w)
    BY <1>1, UnderWay DEF ClaimsAhead
  <2>2. Reached(k) = Reached(call.ask)
    BY <1>a DEF Reached, Cited
  <2>3. steady => \A w \in Reached(call'.ask) : Unbroken(w)
    BY <1>6, <2>1, <2>2
  <2> QED  BY <1>1, <1>6, <2>3 DEF ClaimsAhead, Reached, Cited, Unbroken
<1> QED  BY <1>1, <1>6, <1>7, <1>8, <1>9, <1>10, <1>11 DEF InspectInv

\* The reader is done with the reference.
LEMMA LeaveStep ==
    ASSUME InspectInv, Leave
    PROVE  InspectInv'
<1>1. /\ call' = None /\ read' = << >> /\ outcome' = None
      /\ claims' = claims /\ texts' = texts /\ slices' = slices
  BY DEF Leave
<1>2. SteadyIsFound'
  BY <1>1, InspectAssumption DEF SteadyIsFound
<1>3. StoreSound'
  BY <1>1 DEF InspectInv, StoreSound
<1> QED  BY <1>1, <1>2, <1>3, EmptySeq DEF InspectInv

-----------------------------------------------------------------------------
(* The store *)

\* Other sessions change rows between two queries of a call.
LEMMA StoreMoves ==
    ASSUME InspectInv, StoreSound',
           call' = call, read' = read, outcome' = outcome, steady' => steady,
           call # None /\ steady' =>
             /\ \A r \in claims : r.id = call.ask.id \/ r.id = call.id => r \in claims'
             /\ \A r \in texts : r.id = call.ask.id \/ r.id = call.id \/ r.title = call.ask.id => r \in texts'
             /\ \A r \in slices : r.id = call.ask.id => r \in slices'
             /\ \A w \in Reached(call.ask)' : Unbroken(w)',
           claims' \subseteq claims
    PROVE  InspectInv'
<1>1. call # None /\ steady' => Ahead(call, claims', texts', slices')
  <2>1. call # None /\ steady' => Ahead(call, claims, texts, slices)
    BY DEF InspectInv
  <2> QED  BY <2>1, AheadKept
<1>2. SteadyIsFound'
  BY DEF InspectInv, SteadyIsFound
<1>3. call # None /\ steady' => ClaimsAhead(call)'
  <2>1. call # None /\ steady' => ClaimsAhead(call)
    BY DEF InspectInv
  <2>2. call # None /\ steady' => Cited(call.ask) \subseteq Cited(call.ask)'
    BY DEF Cited
  <2> QED  BY <2>1, <2>2 DEF ClaimsAhead
<1> QED  BY <1>1, <1>2, <1>3 DEF InspectInv

\* A document is put with its slices.
LEMMA PutStep ==
    ASSUME InspectInv, Put
    PROVE  InspectInv'
<1>1. PICK d \in NewTexts : texts' = texts \cup {d.text} /\ slices' = slices \cup d.slices
  BY DEF Put
<1>2. claims' = claims /\ call' = call /\ read' = read /\ outcome' = outcome /\ steady' = steady
  BY DEF Put
<1>3. d.text \in AnyText /\ d.slices \subseteq AnySlice
  BY DEF AnyText, AnySlice
<1>4. \A s \in d.slices : d.text.id = s.episode /\ d.text.space = s.space
  BY InspectAssumption
<1>5. StoreSound'
  <2>1. \A s \in slices' : \E t \in texts' : t.id = s.episode /\ t.space = s.space
    BY <1>1, <1>4 DEF InspectInv, StoreSound
  <2> QED  BY <1>1, <1>2, <1>3, <2>1 DEF InspectInv, StoreSound
<1>6. call # None /\ steady' => \A w \in Reached(call.ask)' : Unbroken(w)'
  BY <1>2 DEF InspectInv, ClaimsAhead, Reached, Cited, Unbroken
<1> QED  BY <1>1, <1>2, <1>5, <1>6, StoreMoves

\* Claims that are purged leave the others.
LEMMA FewerClaims ==
    ASSUME IsFiniteSet(claims), Unique(claims), NEW cs, cs \subseteq claims
    PROVE  IsFiniteSet(cs) /\ Unique(cs)
BY FS_Subset DEF Unique

\* Purged chains leave a steady call what it needs.
LEMMA PurgedLeaves ==
    ASSUME InspectInv, NEW targets, NEW gone, Purged(targets, gone), call' = call
    PROVE  /\ IsFiniteSet(claims') /\ Unique(claims') /\ claims' \subseteq claims
           /\ steady' => steady /\ ~Named(gone)
           /\ call # None /\ steady' =>
                /\ \A r \in claims : r.id = call.ask.id \/ r.id = call.id => r \in claims'
                /\ \A w \in Reached(call.ask)' : Unbroken(w)'
<1> DEFINE rows == UNION {c.chain : c \in targets}
<1>1. /\ claims' = {d \in claims : d.id \notin rows}
      /\ steady' => steady /\ ~Named(gone \cup rows)
  BY DEF Purged
<1> HIDE DEF rows
<1>2. IsFiniteSet(claims') /\ Unique(claims') /\ claims' \subseteq claims
  BY <1>1, FewerClaims DEF InspectInv, StoreSound
<1>3. ~Named(gone \cup rows) => ~Named(gone)
  BY DEF Named
<1>4. ASSUME call # None, steady'
      PROVE  /\ call.ask.id \notin rows /\ call.id \notin rows
             /\ \A w \in Reached(call.ask) : w.chain \cap rows = {} /\ Unbroken(w)
  BY <1>1, <1>4 DEF Named, InspectInv, ClaimsAhead
<1>5. ASSUME call # None, steady'
      PROVE  \A r \in claims : r.id = call.ask.id \/ r.id = call.id => r \in claims'
  BY <1>1, <1>4, <1>5
<1>6. ASSUME call # None, steady'
      PROVE  \A w \in Reached(call.ask)' : Unbroken(w)'
  <2>1. Cited(call.ask)' \subseteq Cited(call.ask)
    BY <1>2 DEF Cited
  <2>2. Reached(call.ask)' \subseteq Reached(call.ask)
    BY <1>2, <2>1 DEF Reached
  <2>3. ASSUME NEW w \in Reached(call.ask)
        PROVE  Unbroken(w)'
    BY <1>1, <1>4, <1>6 DEF Unbroken
  <2> QED  BY <2>2, <2>3
<1> QED  BY <1>1, <1>2, <1>3, <1>5, <1>6

\* A claim is purged with its chain.
LEMMA PurgeClaimStep ==
    ASSUME InspectInv, PurgeClaim
    PROVE  InspectInv'
<1>1. PICK c \in claims : Purged({c}, {})
  BY DEF PurgeClaim
<1>2. texts' = texts /\ slices' = slices /\ call' = call /\ read' = read /\ outcome' = outcome
  BY DEF PurgeClaim
<1>3. /\ IsFiniteSet(claims') /\ Unique(claims') /\ claims' \subseteq claims
      /\ steady' => steady
      /\ call # None /\ steady' =>
           /\ \A r \in claims : r.id = call.ask.id \/ r.id = call.id => r \in claims'
           /\ \A w \in Reached(call.ask)' : Unbroken(w)'
  BY <1>1, <1>2, PurgedLeaves
<1>4. StoreSound'
  BY <1>2, <1>3 DEF InspectInv, StoreSound
<1> QED  BY <1>2, <1>3, <1>4, StoreMoves

\* A text is purged with its slices and the chains of the claims that cite it.
LEMMA PurgeTextStep ==
    ASSUME InspectInv, PurgeText
    PROVE  InspectInv'
<1>1. PICK t \in texts :
        /\ texts' = texts \ {t}
        /\ slices' = {s \in slices : s.episode # t.id}
        /\ Purged(Cascaded(t), {t.id})
  BY DEF PurgeText
<1>2. call' = call /\ read' = read /\ outcome' = outcome
  BY DEF PurgeText
<1>3. /\ IsFiniteSet(claims') /\ Unique(claims') /\ claims' \subseteq claims
      /\ steady' => steady /\ ~Named({t.id})
      /\ call # None /\ steady' =>
           /\ \A r \in claims : r.id = call.ask.id \/ r.id = call.id => r \in claims'
           /\ \A w \in Reached(call.ask)' : Unbroken(w)'
  BY <1>1, <1>2, PurgedLeaves
<1>4. StoreSound'
  <2>1. \A s \in slices' : \E u \in texts' : u.id = s.episode /\ u.space = s.space
    BY <1>1 DEF InspectInv, StoreSound
  <2> QED  BY <1>1, <1>3, <2>1 DEF InspectInv, StoreSound
<1>5. ASSUME call # None, ~Named({t.id})
      PROVE  /\ t.id # call.ask.id /\ t.id # call.id /\ t.title # call.ask.id
             /\ \A s \in slices : s.id = call.ask.id => s.episode # t.id
  BY <1>5 DEF Named
<1> QED  BY <1>1, <1>2, <1>3, <1>4, <1>5, StoreMoves

-----------------------------------------------------------------------------
(* The tool *)

\* A store no call has been made of.
LEMMA InspectStart == InspectInit => InspectInv
<1> SUFFICES ASSUME InspectInit
             PROVE  InspectInv
  OBVIOUS
<1>1. /\ claims \in ClaimRows /\ texts \in TextRows /\ slices \in SliceRows
      /\ call = None /\ read = << >> /\ outcome = None
  BY DEF InspectInit
<1>2. StoreSound
  <2>1. texts \subseteq AnyText /\ slices \subseteq AnySlice
    BY <1>1 DEF AnyText, AnySlice
  <2>2. /\ IsFiniteSet(claims) /\ Unique(claims)
        /\ \A s \in slices : \E t \in texts : t.id = s.episode /\ t.space = s.space
    BY <1>1, InspectAssumption
  <2> QED  BY <2>1, <2>2 DEF StoreSound
<1>3. SteadyIsFound
  BY <1>1, InspectAssumption DEF SteadyIsFound
<1> QED  BY <1>1, <1>2, <1>3, EmptySeq DEF InspectInv

\* Every query, and every change of the store between two, keeps the invariant.
LEMMA InspectStep == InspectInv /\ [InspectNext]_inspectVars => InspectInv'
<1> SUFFICES ASSUME InspectInv, [InspectNext]_inspectVars
             PROVE  InspectInv'
  OBVIOUS
<1>1. CASE UNCHANGED inspectVars
  <2>1. /\ claims' = claims /\ texts' = texts /\ slices' = slices /\ call' = call
        /\ read' = read /\ outcome' = outcome /\ steady' = steady
    BY <1>1 DEF inspectVars
  <2>2. StoreSound'
    BY <2>1 DEF InspectInv, StoreSound
  <2>3. call # None /\ steady' => \A w \in Reached(call.ask)' : Unbroken(w)'
    BY <2>1 DEF InspectInv, ClaimsAhead, Reached, Cited, Unbroken
  <2> QED  BY <2>1, <2>2, <2>3, StoreMoves
<1>2. CASE InspectNext
  BY <1>2, CallStep, ExistsStep, ClaimSteps, SliceStep, TextStep, TitleSteps, ReadOnStep,
     LeaveStep, PutStep, PurgeClaimStep, PurgeTextStep DEF InspectNext
<1> QED  BY <1>1, <1>2

\* The invariant, of every behaviour.
LEMMA InspectAlways == InspectSpec => []InspectInv
BY InspectStart, InspectStep, PTL DEF InspectSpec

(***************************************************************************)
(* Whatever is put and purged between the queries of a call, a reference   *)
(* is found when what it names and every link of the chains it leads to    *)
(* was there all the while: "missing" is only ever the sight of a purge,   *)
(* and the internal errors of inspect.rs that of a purge or of a chain     *)
(* that had lost a link before.                                            *)
(***************************************************************************)
THEOREM SteadyReferencesFound == InspectSpec => []SteadyIsFound
<1>1. InspectInv => SteadyIsFound
  BY DEF InspectInv
<1> QED  BY <1>1, InspectAlways, PTL

(***************************************************************************)
(* The pages of a text that is read by its id tile it, for any offset and  *)
(* limit, any length and any changes of the store between two pages.       *)
(***************************************************************************)
THEOREM PagesTileTexts == InspectSpec => []PagesTile
<1>1. ASSUME InspectInv, call # None, call.ask.kind \in {"episode", "bare"}, read # << >>
      PROVE  /\ \A i \in 1..(Len(read) - 1) : read[i].to = read[i + 1].from /\ read[i].text = read[i + 1].text
             /\ \A i \in DOMAIN read :
                  read[i].next_offset # None /\ call.ask.limit # 0 => read[i].from < read[i].to
             /\ \A t \in texts : t.id = read[1].text /\ Last(read).next_offset = None => Last(read).to = t.chars
  <2>1. Tiled(call, read) /\ texts \subseteq AnyText
    BY <1>1 DEF InspectInv, ById, StoreSound
  <2>2. /\ Len(read) \in Nat \ {0} /\ DOMAIN read = 1..Len(read)
    BY <1>1, <2>1, EmptySeq, LenProperties DEF Tiled
  <2>3. \A i, j \in 1..Len(read) : read[i].text = read[j].text
    BY <2>1, OneAnswer DEF Tiled, PageSound
  <2>4. \A i \in 1..(Len(read) - 1) : i \in 1..Len(read) /\ i + 1 \in 1..Len(read)
    BY <2>2
  <2>5. \A i \in 1..(Len(read) - 1) : read[i].to = read[i + 1].from /\ read[i].text = read[i + 1].text
    BY <2>1, <2>3, <2>4 DEF Tiled
  <2>6. \A i \in DOMAIN read :
          read[i].next_offset # None /\ call.ask.limit # 0 => read[i].from < read[i].to
    BY <2>1, <2>2 DEF Tiled, PageSound
  <2>7. ASSUME NEW t \in texts, t.id = read[1].text, Last(read).next_offset = None
        PROVE  Last(read).to = t.chars
    <3>1. 1 \in 1..Len(read) /\ Len(read) \in 1..Len(read)
      BY <2>2
    <3>2. PageSound(call.ask, Last(read)) /\ Last(read).text = t.id /\ t \in AnyText
      BY <2>1, <2>3, <2>7, <3>1 DEF Tiled, Last
    <3> QED  BY <2>7, <3>2 DEF PageSound
  <2> QED  BY <2>5, <2>6, <2>7
<1>2. InspectInv => PagesTile
  BY <1>1 DEF PagesTile
<1> QED  BY <1>2, InspectAlways, PTL

(***************************************************************************)
(* In every store, the listing of documents and the claims a purge would   *)
(* be refused for agree on who cites what, and the orphans of consolidate  *)
(* are the documents past their grace that neither finds a claim for.      *)
(***************************************************************************)
THEOREM CitationsAgree == InspectSpec => []CitationViewsAgree
<1>1. ASSUME InspectInv, NEW t \in texts, t.title # None
      PROVE  /\ CitedCount(t.space, t.id) = Cardinality(DocumentCiters(t.space, t.id))
             /\ t.id \in OrphanDocuments(t.space)
                  <=> t.at < GraceStart /\ DocumentCiters(t.space, t.id) = {}
  <2>1. IsFiniteSet(claims) /\ Unique(claims) /\ t.id # None /\ Unique(texts)
    BY <1>1, InspectAssumption DEF InspectInv, StoreSound, Unique
  <2> QED  BY <1>1, <2>1, CountIsCiters, OrphansHaveNoCiters
<1>2. InspectInv => CitationViewsAgree
  BY <1>1 DEF CitationViewsAgree
<1> QED  BY <1>2, InspectAlways, PTL

-----------------------------------------------------------------------------
(* Consolidate *)


-----------------------------------------------------------------------------
(* Trees over 1..n whose parents descend *)

Descends(p, n) == p \in [1..n -> 1..n] /\ \A i \in 1..n : p[i] <= i

\* S is made of whole trees.
Whole(p, n, S) == \A i \in 1..n : i \in S <=> p[i] \in S

\* Halving a path moves no row to another tree.
LEMMA HalvingKeeps ==
    ASSUME NEW n \in Nat, NEW p, Descends(p, n), NEW x \in 1..n, p[x] # x
    PROVE  LET q == [p EXCEPT ![x] = p[p[x]]]
           IN  /\ Descends(q, n) /\ p[p[x]] \in 1..n
               /\ \A S \in SUBSET (1..n) : Whole(q, n, S) <=> Whole(p, n, S)
               /\ \A S \in SUBSET (1..n) : Whole(p, n, S) => (x \in S <=> p[p[x]] \in S)
<1> DEFINE q == [p EXCEPT ![x] = p[p[x]]]
<1>1. /\ p \in [1..n -> 1..n] /\ \A i \in 1..n : p[i] <= i /\ p[i] \in 1..n
  BY DEF Descends
<1>2. p[x] \in 1..n /\ p[p[x]] \in 1..n /\ p[p[x]] <= x
  <2>1. p[x] \in 1..n
    BY <1>1
  <2>2. p[p[x]] \in 1..n /\ p[p[x]] <= p[x] /\ p[x] <= x
    BY <1>1, <2>1
  <2> QED  BY <2>1, <2>2
<1>3. /\ q \in [1..n -> 1..n] /\ q[x] = p[p[x]]
      /\ \A i \in 1..n : i # x => q[i] = p[i]
  BY <1>1, <1>2
<1> HIDE DEF q
<1>4. Descends(q, n)
  BY <1>1, <1>2, <1>3 DEF Descends
<1>5. ASSUME NEW S \in SUBSET (1..n) PROVE Whole(q, n, S) <=> Whole(p, n, S)
  <2>1. Whole(p, n, S) => Whole(q, n, S)
    BY <1>2, <1>3 DEF Whole
  <2>2. Whole(q, n, S) => Whole(p, n, S)
    BY <1>2, <1>3 DEF Whole
  <2> QED  BY <2>1, <2>2
<1>6. \A S \in SUBSET (1..n) : Whole(p, n, S) => (x \in S <=> p[p[x]] \in S)
  BY <1>2 DEF Whole
<1> QED  BY <1>2, <1>4, <1>5, <1>6 DEF q

\* Putting one root under another makes one tree of the two.
LEMMA JoiningMerges ==
    ASSUME NEW n \in Nat, NEW p, Descends(p, n), NEW a \in 1..n, NEW b \in 1..n,
           p[a] = a, p[b] = b, a # b
    PROVE  LET q == [p EXCEPT ![Larger(a, b)] = Smaller(a, b)]
           IN  /\ Descends(q, n)
               /\ \A S \in SUBSET (1..n) :
                    Whole(q, n, S) <=> Whole(p, n, S) /\ (a \in S <=> b \in S)
<1> DEFINE hi == Larger(a, b)
           lo == Smaller(a, b)
           q == [p EXCEPT ![hi] = lo]
<1>1. /\ hi \in 1..n /\ lo \in 1..n /\ lo < hi /\ p[hi] = hi /\ p[lo] = lo
      /\ (hi = a /\ lo = b) \/ (hi = b /\ lo = a)
  BY DEF Larger, Smaller
<1> HIDE DEF hi, lo
<1>2. /\ q \in [1..n -> 1..n] /\ q[hi] = lo /\ \A i \in 1..n : i # hi => q[i] = p[i]
  BY <1>1 DEF Descends
<1> HIDE DEF q
<1>3. Descends(q, n)
  <2>1. \A i \in 1..n : q[i] <= i
    <3>1. q[hi] <= hi
      BY <1>1, <1>2
    <3>2. \A i \in 1..n : i # hi => q[i] <= i
      BY <1>2 DEF Descends
    <3> QED  BY <3>1, <3>2
  <2> QED  BY <1>2, <2>1 DEF Descends
<1>4. ASSUME NEW S \in SUBSET (1..n) PROVE Whole(q, n, S) <=> Whole(p, n, S) /\ (a \in S <=> b \in S)
  <2>1. Whole(p, n, S) /\ (hi \in S <=> lo \in S) => Whole(q, n, S)
    BY <1>1, <1>2 DEF Whole
  <2>2. Whole(q, n, S) => Whole(p, n, S) /\ (hi \in S <=> lo \in S)
    BY <1>1, <1>2 DEF Whole
  <2>3. (hi \in S <=> lo \in S) <=> (a \in S <=> b \in S)
    BY <1>1
  <2> QED  BY <2>1, <2>2, <2>3
<1> QED  BY <1>3, <1>4 DEF q, hi, lo

\* A set of numbers has a least one.
LEMMA LeastRow ==
    ASSUME NEW T \in SUBSET Nat, T # {}
    PROVE  \E x \in T : \A y \in T : ~(y < x)
<1> DEFINE R == OpToRel(<, Nat)
<1>1. IsWellFoundedOn(R, Nat)
  BY NatLessThanWellFounded
<1>2. \E x \in T : \A y \in T : <<y, x>> \notin R
  <2> HIDE DEF R
  <2> QED  BY <1>1, WFMin
<1> QED  BY <1>2 DEF OpToRel

\* The root of every row of such trees can be found: there is a function of
\* them that follows the parents.
LEMMA RootsExist ==
    ASSUME NEW n \in Nat, NEW p, Descends(p, n)
    PROVE  \E f : f = [i \in 1..n |-> IF p[i] = i THEN i ELSE f[p[i]]]
<1> DEFINE F(f, k) == [i \in 1..k |-> IF p[i] = i THEN i ELSE f[p[i]]]
           Z == {k \in 0..n : ~\E f : f = F(f, k)}
<1>1. ASSUME Z # {} PROVE FALSE
  <2>1. PICK k \in Z : \A m \in Z : ~(m < k)
    <3>1. Z \in SUBSET Nat
      OBVIOUS
    <3> HIDE DEF Z
    <3> QED  BY <1>1, <3>1, LeastRow
  <2>2. k # 0
    <3>1. F(<< >>, 0) = F(F(<< >>, 0), 0)
      OBVIOUS
    <3> QED  BY <3>1
  <2>3. k - 1 \in 0..n /\ k - 1 \notin Z /\ k \in 1..n
    BY <2>1, <2>2
  <2>4. PICK f : f = F(f, k - 1)
    BY <2>3
  <2> DEFINE g == [i \in 1..k |-> IF i = k THEN (IF p[k] = k THEN k ELSE f[p[k]]) ELSE f[i]]
  <2>5. ASSUME NEW i \in 1..k PROVE g[i] = IF p[i] = i THEN i ELSE g[p[i]]
    <3>1. p[i] \in 1..n /\ p[i] <= i /\ i \in 1..n
      BY <2>3 DEF Descends
    <3>2. CASE i = k
      <4>1. p[i] # i => p[i] \in 1..k /\ p[i] # k
        BY <3>1, <3>2
      <4> QED  BY <3>2, <4>1
    <3>3. CASE i # k
      <4>1. i \in 1..(k - 1) /\ p[i] \in 1..k /\ p[i] # k
        BY <2>3, <3>1, <3>3
      <4>2. f[i] = IF p[i] = i THEN i ELSE f[p[i]]
        BY <2>4, <4>1
      <4> QED  BY <3>3, <4>1, <4>2
    <3> QED  BY <3>2, <3>3
  <2>6. g = F(g, k)
    BY <2>5
  <2> HIDE DEF F, g
  <2> QED  BY <2>1, <2>6
<1>2. n \notin Z
  BY <1>1
<1> QED  BY <1>2

-----------------------------------------------------------------------------
(* What root finds *)

\* A row has the root of the row it hangs from, one before it and a root itself.
LEMMA RootFound ==
    ASSUME scan.n \in Nat, Descends(parent, scan.n)
    PROVE  /\ \A i \in Rows : Root[i] = IF parent[i] = i THEN i ELSE Root[parent[i]]
           /\ \A i \in Rows : Root[i] \in Rows /\ Root[i] <= i /\ Root[Root[i]] = Root[i]
           /\ \A S \in SUBSET Rows, i \in Rows :
                Whole(parent, scan.n, S) => (i \in S <=> Root[i] \in S)
<1> DEFINE F(f) == [i \in Rows |-> IF parent[i] = i THEN i ELSE f[parent[i]]]
<1>1. Root = CHOOSE f : f = F(f)
  BY DEF Root
<1>2. \E f : f = F(f)
  BY RootsExist DEF Rows
<1>3. Root = F(Root)
  <2> HIDE DEF F
  <2> QED  BY <1>1, <1>2
<1>4. \A i \in Rows : Root[i] = IF parent[i] = i THEN i ELSE Root[parent[i]]
  BY <1>3
<1>5. \A i \in Rows : parent[i] \in Rows /\ parent[i] <= i /\ i \in Nat
  BY DEF Descends, Rows
<1> DEFINE Good(i) == /\ Root[i] \in Rows /\ Root[i] <= i /\ parent[Root[i]] = Root[i]
                      /\ \A S \in SUBSET Rows : Whole(parent, scan.n, S) => (i \in S <=> Root[i] \in S)
           Bad == {i \in Rows : ~Good(i)}
<1>6. ASSUME Bad # {} PROVE FALSE
  <2>1. PICK i \in Bad : \A j \in Bad : ~(j < i)
    <3>1. Bad \in SUBSET Nat
      BY DEF Rows
    <3> HIDE DEF Bad
    <3> QED  BY <1>6, <3>1, LeastRow
  <2>2. i \in Rows /\ ~Good(i)
    BY <2>1
  <2>3. parent[i] # i
    <3> SUFFICES ASSUME parent[i] = i PROVE FALSE
      OBVIOUS
    <3>1. Root[i] = i
      BY <1>4, <2>2
    <3> QED  BY <1>5, <2>2, <3>1
  <2>4. Root[i] = Root[parent[i]]
    BY <1>4, <2>2, <2>3
  <2>5. parent[i] \in Rows /\ parent[i] < i /\ i \in Nat
    BY <1>5, <2>2, <2>3 DEF Rows
  <2>6. Good(parent[i])
    BY <2>1, <2>5
  <2>7. Root[i] <= i
    BY <2>4, <2>5, <2>6 DEF Rows
  <2>8. \A S \in SUBSET Rows : Whole(parent, scan.n, S) => (i \in S <=> parent[i] \in S)
    BY <2>2 DEF Whole, Rows
  <2> QED  BY <2>2, <2>4, <2>6, <2>7, <2>8
<1>7. \A i \in Rows : Good(i)
  BY <1>6
<1>8. \A i \in Rows : Root[Root[i]] = Root[i]
  BY <1>4, <1>7
<1> QED  BY <1>4, <1>7, <1>8

-----------------------------------------------------------------------------
(* The invariant *)

Comparing == consolidateStep \in {"compare", "join", "report"}
AtPair == consolidateStep \in {"compare", "join"}

\* The sets that no close pair leaves are those made of whole trees; and the
\* walks of a join have not left the trees they began in.
ConsolidateInv ==
    /\ Comparing =>
         /\ scan.n \in Nat /\ Descends(parent, scan.n)
         /\ \A S \in SUBSET Rows : Whole(parent, scan.n, S) <=> ~Crossed(S)
    /\ AtPair => left \in Rows /\ right \in Rows /\ left < right
    /\ consolidateStep = "join" =>
         /\ Comparable(left, right) /\ IsClusterCandidate(Similarity(left, right))
         /\ leftRoot \in Rows /\ rightRoot \in Rows
         /\ \A S \in SUBSET Rows : Whole(parent, scan.n, S) =>
              (left \in S <=> leftRoot \in S) /\ (right \in S <=> rightRoot \in S)

\* The trees are the components of the close pairs.
LEMMA TreesAreComponents == ConsolidateInv => GroupsAreComponents
<1> SUFFICES ASSUME ConsolidateInv, Comparing, NEW i \in Rows
             PROVE  /\ Root[i] = Min(Group(i))
                    /\ ~Crossed(Group(i))
                    /\ \A part \in (SUBSET Group(i)) \ {{}, Group(i)} : Crossed(part)
  BY DEF GroupsAreComponents, Comparing
<1> DEFINE g == Group(i)
<1>1. scan.n \in Nat /\ Descends(parent, scan.n)
      /\ \A S \in SUBSET Rows : Whole(parent, scan.n, S) <=> ~Crossed(S)
  BY DEF ConsolidateInv
<1>2. /\ \A j \in Rows : Root[j] = IF parent[j] = j THEN j ELSE Root[parent[j]]
      /\ \A j \in Rows : Root[j] \in Rows /\ Root[j] <= j /\ Root[Root[j]] = Root[j]
      /\ \A S \in SUBSET Rows, j \in Rows :
           Whole(parent, scan.n, S) => (j \in S <=> Root[j] \in S)
  BY <1>1, RootFound
<1>3. Root[i] = Min(g)
  <2>1. Root[i] \in g /\ \A j \in g : Root[i] <= j
    BY <1>2 DEF Group
  <2>2. g \subseteq Int
    BY DEF Group, Rows
  <2>3. \A r \in g : (\A j \in g : r <= j) => r = Root[i]
    BY <2>1, <2>2
  <2> HIDE DEF g
  <2> QED  BY <2>1, <2>3 DEF Min
<1>4. ~Crossed(g)
  <2>1. \A j \in Rows : parent[j] \in Rows /\ Root[j] = Root[parent[j]]
    BY <1>1, <1>2 DEF Descends, Rows
  <2>2. Whole(parent, scan.n, g)
    BY <2>1 DEF Whole, Group, Rows
  <2> QED  BY <1>1, <2>2 DEF Group
<1>5. ASSUME NEW part \in SUBSET g, part # {}, part # g PROVE Crossed(part)
  <2> SUFFICES ASSUME ~Crossed(part) PROVE g \subseteq part
    BY <1>5
  <2>1. part \in SUBSET Rows /\ Whole(parent, scan.n, part)
    BY <1>1 DEF Group
  <2>2. PICK j \in part : TRUE
    BY <1>5
  <2>3. Root[i] \in part
    BY <1>2, <2>1, <2>2 DEF Group
  <2>4. ASSUME NEW k \in g PROVE k \in part
    BY <1>2, <2>1, <2>3 DEF Group
  <2> QED  BY <2>4
<1> QED  BY <1>3, <1>4, <1>5

\* The pairs compare has been through, after one more.
LEMMA OneMorePair ==
    ASSUME scan.n \in Nat, left \in Rows, right \in Rows, left < right, NextPair, scan' = scan
    PROVE  /\ consolidateStep' \in {"compare", "report"}
           /\ consolidateStep' = "compare" => left' \in Rows /\ right' \in Rows /\ left' < right'
           /\ Close' = IF Comparable(left, right) /\ IsClusterCandidate(Similarity(left, right))
                       THEN Close \cup {<<left, right>>} ELSE Close
<1>1. left \in Int /\ right \in Int /\ scan.n \in Nat /\ left >= 1 /\ right <= scan.n /\ left < right
  BY DEF Rows
<1>2. \/ /\ right < scan.n /\ right' = right + 1 /\ left' = left /\ consolidateStep' = "compare"
      \/ /\ right = scan.n /\ left' = left + 1 /\ right' = left + 2
         /\ consolidateStep' = IF left + 1 < scan.n THEN "compare" ELSE "report"
  BY <1>1 DEF NextPair
<1>3. Rows' = Rows
  BY DEF Rows
<1>4. ASSUME NEW i \in Rows, NEW j \in Rows, i < j
      PROVE  Walked(i, j)' <=> Walked(i, j) \/ (i = left /\ j = right)
  <2>1. i \in Int /\ j \in Int /\ i < j /\ j <= scan.n
    BY <1>4 DEF Rows
  <2> QED  BY <1>1, <1>2, <2>1 DEF Walked
<1>5. \A i, j : /\ Comparable(i, j)' <=> Comparable(i, j)
                /\ IsClusterCandidate(Similarity(i, j))' <=> IsClusterCandidate(Similarity(i, j))
  BY DEF Comparable, IsClusterCandidate, Similarity
<1> DEFINE Fits(i, j) == Comparable(i, j) /\ IsClusterCandidate(Similarity(i, j))
<1>6. Close = {p \in Rows \X Rows : p[1] < p[2] /\ Walked(p[1], p[2]) /\ Fits(p[1], p[2])}
  BY DEF Close
<1>7. Close' = {p \in Rows \X Rows : p[1] < p[2] /\ (Walked(p[1], p[2]) \/ (p[1] = left /\ p[2] = right))
                                     /\ Fits(p[1], p[2])}
  BY <1>3, <1>4, <1>5 DEF Close
<1>8. <<left, right>> \in Rows \X Rows
  OBVIOUS
<1>9. \A p \in Rows \X Rows : p = <<left, right>> <=> p[1] = left /\ p[2] = right
  OBVIOUS
<1>10. Close' = IF Fits(left, right) THEN Close \cup {<<left, right>>} ELSE Close
  <2> HIDE DEF Fits
  <2>1. CASE Fits(left, right)
    BY <1>6, <1>7, <1>8, <1>9, <2>1
  <2>2. CASE ~Fits(left, right)
    BY <1>6, <1>7, <1>8, <1>9, <2>2
  <2> QED  BY <2>1, <2>2
<1>11. /\ consolidateStep' \in {"compare", "report"}
       /\ consolidateStep' = "compare" => left' \in Rows /\ right' \in Rows /\ left' < right'
  BY <1>1, <1>2 DEF Rows
<1> QED  BY <1>10, <1>11

\* Every step keeps it.
LEMMA ConsolidateStep ==
    ASSUME ConsolidateInv, ConsolidateNext
    PROVE  ConsolidateInv'
<1>1. CASE Consolidate
  <2>1. /\ scan' \in Scans /\ parent' = [i \in 1..scan'.n |-> i] /\ left' = 1 /\ right' = 2
        /\ consolidateStep' = IF scan'.n < 2 THEN "report" ELSE "compare"
    BY <1>1 DEF Consolidate
  <2>2. scan'.n \in Nat
    BY <2>1, ConsolidateAssumption
  <2>3. Descends(parent', scan'.n)
    BY <2>1, <2>2 DEF Descends
  <2>4. Close' = {}
    <3>1. \A i, j \in Rows' : i < j => ~Walked(i, j)'
      BY <2>1, <2>2 DEF Walked, Rows
    <3> QED  BY <3>1 DEF Close
  <2>5. \A S \in SUBSET Rows' : Whole(parent', scan'.n, S) /\ ~Crossed(S)'
    BY <2>1, <2>4 DEF Whole, Crossed, Rows
  <2>6. AtPair' => left' \in Rows' /\ right' \in Rows' /\ left' < right'
    BY <2>1, <2>2 DEF AtPair, Rows
  <2> QED  BY <2>1, <2>2, <2>3, <2>5, <2>6 DEF ConsolidateInv
<1>2. ASSUME AtPair, UNCHANGED <<scan, consolidateStep, left, right>>,
             Descends(parent', scan.n),
             \A S \in SUBSET Rows : Whole(parent', scan.n, S) <=> Whole(parent, scan.n, S),
             leftRoot' \in Rows, rightRoot' \in Rows,
             \A S \in SUBSET Rows : Whole(parent, scan.n, S) =>
               (leftRoot \in S <=> leftRoot' \in S) /\ (rightRoot \in S <=> rightRoot' \in S)
      PROVE  ConsolidateInv'
  <2>1. Rows' = Rows /\ Close' = Close /\ \A S : Crossed(S)' <=> Crossed(S)
    BY <1>2 DEF Rows, Close, Crossed, Walked, Comparable, IsClusterCandidate, Similarity
  <2>2. scan.n \in Nat /\ \A S \in SUBSET Rows : Whole(parent, scan.n, S) <=> ~Crossed(S)
    BY <1>2 DEF ConsolidateInv, AtPair, Comparing
  <2>3. \A S \in SUBSET Rows' : Whole(parent', scan'.n, S) <=> ~Crossed(S)'
    BY <1>2, <2>1, <2>2
  <2>4. consolidateStep' = "join" =>
          /\ (Comparable(left, right) /\ IsClusterCandidate(Similarity(left, right)))'
          /\ \A S \in SUBSET Rows' : Whole(parent', scan'.n, S) =>
               (left' \in S <=> leftRoot' \in S) /\ (right' \in S <=> rightRoot' \in S)
    BY <1>2, <2>1 DEF ConsolidateInv, Comparable, IsClusterCandidate, Similarity
  <2>5. left' \in Rows' /\ right' \in Rows' /\ left' < right'
    BY <1>2, <2>1 DEF ConsolidateInv, AtPair
  <2> QED  BY <1>2, <2>1, <2>2, <2>3, <2>4, <2>5 DEF ConsolidateInv
<1>3. CASE HalveLeft
  <2> DEFINE up == parent[parent[leftRoot]]
  <2>1. /\ consolidateStep = "join" /\ parent[leftRoot] # leftRoot
        /\ parent' = [parent EXCEPT ![leftRoot] = up] /\ leftRoot' = up /\ rightRoot' = rightRoot
        /\ UNCHANGED <<scan, consolidateStep, left, right>>
    BY <1>3 DEF HalveLeft
  <2>2. scan.n \in Nat /\ Descends(parent, scan.n) /\ leftRoot \in Rows /\ rightRoot \in Rows
    BY <2>1 DEF ConsolidateInv, Comparing
  <2>3. /\ Descends(parent', scan.n) /\ up \in Rows
        /\ \A S \in SUBSET Rows : Whole(parent', scan.n, S) <=> Whole(parent, scan.n, S)
        /\ \A S \in SUBSET Rows : Whole(parent, scan.n, S) => (leftRoot \in S <=> up \in S)
    BY <2>1, <2>2, HalvingKeeps DEF Rows
  <2> HIDE DEF up
  <2> QED  BY <1>2, <2>1, <2>2, <2>3 DEF AtPair
<1>4. CASE HalveRight
  <2> DEFINE up == parent[parent[rightRoot]]
  <2>1. /\ consolidateStep = "join" /\ parent[rightRoot] # rightRoot
        /\ parent' = [parent EXCEPT ![rightRoot] = up] /\ rightRoot' = up /\ leftRoot' = leftRoot
        /\ UNCHANGED <<scan, consolidateStep, left, right>>
    BY <1>4 DEF HalveRight
  <2>2. scan.n \in Nat /\ Descends(parent, scan.n) /\ leftRoot \in Rows /\ rightRoot \in Rows
    BY <2>1 DEF ConsolidateInv, Comparing
  <2>3. /\ Descends(parent', scan.n) /\ up \in Rows
        /\ \A S \in SUBSET Rows : Whole(parent', scan.n, S) <=> Whole(parent, scan.n, S)
        /\ \A S \in SUBSET Rows : Whole(parent, scan.n, S) => (rightRoot \in S <=> up \in S)
    BY <2>1, <2>2, HalvingKeeps DEF Rows
  <2> HIDE DEF up
  <2> QED  BY <1>2, <2>1, <2>2, <2>3 DEF AtPair
<1>5. CASE Pair /\ consolidateStep' = "join"
  <2>1. /\ consolidateStep = "compare" /\ UNCHANGED <<scan, parent, left, right>>
        /\ Comparable(left, right) /\ IsClusterCandidate(Similarity(left, right))
        /\ leftRoot' = left /\ rightRoot' = right
    <3>1. ~NextPair
      BY <1>5 DEF NextPair
    <3> QED  BY <1>5, <3>1 DEF Pair
  <2>2. Rows' = Rows /\ Close' = Close /\ \A S : Crossed(S)' <=> Crossed(S)
    BY <2>1 DEF Rows, Close, Crossed, Walked, Comparable, IsClusterCandidate, Similarity
  <2>3. (Comparable(left, right) /\ IsClusterCandidate(Similarity(left, right)))'
    BY <2>1 DEF Comparable, IsClusterCandidate, Similarity
  <2>4. Comparing /\ AtPair
    BY <2>1 DEF Comparing, AtPair
  <2> QED  BY <1>5, <2>1, <2>2, <2>3, <2>4 DEF ConsolidateInv
<1>6. ASSUME AtPair, NextPair, scan' = scan, Descends(parent', scan.n),
             \A S \in SUBSET Rows :
               Whole(parent', scan.n, S) <=>
                 /\ Whole(parent, scan.n, S)
                 /\ Comparable(left, right) /\ IsClusterCandidate(Similarity(left, right))
                      => (left \in S <=> right \in S)
      PROVE  ConsolidateInv'
  <2>1. scan.n \in Nat /\ left \in Rows /\ right \in Rows /\ left < right
        /\ \A S \in SUBSET Rows : Whole(parent, scan.n, S) <=> ~Crossed(S)
    BY <1>6 DEF ConsolidateInv, AtPair, Comparing
  <2>2. /\ consolidateStep' \in {"compare", "report"}
        /\ consolidateStep' = "compare" => left' \in Rows /\ right' \in Rows /\ left' < right'
        /\ Close' = IF Comparable(left, right) /\ IsClusterCandidate(Similarity(left, right))
                    THEN Close \cup {<<left, right>>} ELSE Close
    BY <1>6, <2>1, OneMorePair
  <2>3. Rows' = Rows
    BY <1>6 DEF Rows
  <2>4. ASSUME NEW S \in SUBSET Rows
        PROVE  ~Crossed(S)' <=> /\ ~Crossed(S)
                                /\ Comparable(left, right) /\ IsClusterCandidate(Similarity(left, right))
                                     => (left \in S <=> right \in S)
    <3> DEFINE fits == Comparable(left, right) /\ IsClusterCandidate(Similarity(left, right))
               pair == <<left, right>>
    <3>1. pair[1] = left /\ pair[2] = right
      OBVIOUS
    <3>2. Crossed(S) <=> \E p \in Close : (p[1] \in S) # (p[2] \in S)
      BY DEF Crossed
    <3>3. Crossed(S)' <=> \E p \in Close' : (p[1] \in S) # (p[2] \in S)
      BY DEF Crossed
    <3> HIDE DEF pair, fits
    <3>4. CASE fits
      <4>1. Close' = Close \cup {pair}
        BY <2>2, <3>4 DEF fits, pair
      <4>2. Crossed(S)' <=> Crossed(S) \/ (pair[1] \in S) # (pair[2] \in S)
        BY <3>2, <3>3, <4>1
      <4> QED  BY <3>1, <3>4, <4>2 DEF fits
    <3>5. CASE ~fits
      <4>1. Close' = Close
        BY <2>2, <3>5 DEF fits
      <4> QED  BY <3>2, <3>3, <3>5, <4>1 DEF fits
    <3> QED  BY <3>4, <3>5
  <2>5. \A S \in SUBSET Rows' : Whole(parent', scan'.n, S) <=> ~Crossed(S)'
    BY <1>6, <2>1, <2>3, <2>4
  <2> QED  BY <1>6, <2>1, <2>2, <2>3, <2>5 DEF ConsolidateInv, AtPair, Comparing
<1>7. CASE Pair /\ consolidateStep' # "join"
  <2>1. /\ consolidateStep = "compare" /\ NextPair /\ UNCHANGED <<scan, parent>>
        /\ ~(Comparable(left, right) /\ IsClusterCandidate(Similarity(left, right)))
    BY <1>7 DEF Pair
  <2>2. Descends(parent, scan.n) /\ AtPair
    BY <2>1 DEF ConsolidateInv, Comparing, AtPair
  <2> QED  BY <1>6, <2>1, <2>2
<1>8. CASE Join
  <2>1. /\ consolidateStep = "join" /\ parent[leftRoot] = leftRoot /\ parent[rightRoot] = rightRoot
        /\ parent' = IF leftRoot = rightRoot THEN parent
                     ELSE [parent EXCEPT ![Larger(leftRoot, rightRoot)] = Smaller(leftRoot, rightRoot)]
        /\ NextPair /\ scan' = scan
    BY <1>8 DEF Join
  <2>2. /\ scan.n \in Nat /\ Descends(parent, scan.n)
        /\ Comparable(left, right) /\ IsClusterCandidate(Similarity(left, right))
        /\ leftRoot \in Rows /\ rightRoot \in Rows
        /\ \A S \in SUBSET Rows : Whole(parent, scan.n, S) =>
              (left \in S <=> leftRoot \in S) /\ (right \in S <=> rightRoot \in S)
    BY <2>1 DEF ConsolidateInv, Comparing
  <2>3. /\ Descends(parent', scan.n)
        /\ \A S \in SUBSET Rows : Whole(parent', scan.n, S) <=>
             Whole(parent, scan.n, S) /\ (leftRoot \in S <=> rightRoot \in S)
    <3>1. CASE leftRoot = rightRoot
      BY <2>1, <2>2, <3>1
    <3>2. CASE leftRoot # rightRoot
      BY <2>1, <2>2, <3>2, JoiningMerges DEF Rows
    <3> QED  BY <3>1, <3>2
  <2>4. \A S \in SUBSET Rows : Whole(parent', scan.n, S) <=>
           Whole(parent, scan.n, S) /\ (left \in S <=> right \in S)
    BY <2>2, <2>3
  <2>5. AtPair
    BY <2>1 DEF AtPair
  <2> QED  BY <1>6, <2>1, <2>2, <2>3, <2>4, <2>5
<1>9. CASE ReportGroups \/ ConsolidateReply
  <2>1. consolidateStep' \in {"done", "idle"}
    BY <1>9 DEF ReportGroups, ConsolidateReply
  <2> QED  BY <2>1 DEF ConsolidateInv, Comparing, AtPair
<1> QED  BY <1>1, <1>3, <1>4, <1>5, <1>7, <1>8, <1>9 DEF ConsolidateNext

\* The clusters consolidate reports are the components of the close pairs, for
\* any number of rows and any similarities, whatever paths the walks halved on
\* their way (compare and Union of consolidate.rs).
THEOREM ClustersAreComponents == ConsolidateSpec => []GroupsAreComponents
<1>1. ConsolidateInit => ConsolidateInv
  BY DEF ConsolidateInit, ConsolidateInv, Comparing, AtPair
<1>2. ConsolidateInv /\ [ConsolidateNext]_consolidateVars => ConsolidateInv'
  <2> SUFFICES ASSUME ConsolidateInv, [ConsolidateNext]_consolidateVars PROVE ConsolidateInv'
    OBVIOUS
  <2>1. CASE UNCHANGED consolidateVars
    <3>1. UNCHANGED <<scan, consolidateStep, left, right, leftRoot, rightRoot, parent>>
      BY <2>1 DEF consolidateVars
    <3>2. Rows' = Rows /\ Close' = Close /\ \A S : Crossed(S)' <=> Crossed(S)
      BY <3>1 DEF Rows, Close, Crossed, Walked, Comparable, IsClusterCandidate, Similarity
    <3> QED  BY <3>1, <3>2 DEF ConsolidateInv, Comparing, AtPair, Comparable, IsClusterCandidate, Similarity
  <2> QED  BY <2>1, ConsolidateStep
<1>3. ConsolidateInv => GroupsAreComponents
  BY TreesAreComponents
<1> QED  BY <1>1, <1>2, <1>3, PTL DEF ConsolidateSpec
===============================================================================
