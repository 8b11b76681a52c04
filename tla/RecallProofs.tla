---------------------------- MODULE RecallProofs ----------------------------
(***************************************************************************)
(* What the answer of `recall` holds, for any rows the store returns, any  *)
(* links, any sources and any k.                                           *)
(*                                                                         *)
(* The rows are followed through the passes as a set of different rows in  *)
(* an order.  A pass that defers some moves none ahead of a row it keeps,  *)
(* so what is over a quota on the page has no row to give way to: every    *)
(* row below is of a source with its quota too.  The verbatim pass brings  *)
(* as many rows to the page as it takes slices off it, and the hop one     *)
(* claim; by so much the shares can be off.                                *)
(***************************************************************************)
EXTENDS RecallPage, CommonProofs

-----------------------------------------------------------------------------
(* The stable sort *)

\* The places in this order: each once, none after one it comes before, and
\* each where the places before it leave it.
Sorts(order, key, n) ==
    /\ order \in [1..n -> 1..n]
    /\ \A p, q \in 1..n : order[p] = order[q] => p = q
    /\ \A i \in 1..n : \E p \in 1..n : order[p] = i
    /\ \A p, q \in 1..n : p < q => Before(key, order[p], order[q])
    /\ \A p \in 1..n : Cardinality({j \in 1..n : Before(key, j, order[p])}) = p - 1

\* StableOrder is such an order, whatever the keys.
LEMMA StableOrderSorts ==
    ASSUME NEW n \in Nat, NEW key \in [1..n -> Int]
    PROVE  Sorts(StableOrder(key), key, n)
<1> DEFINE first(i) == {j \in 1..n : Before(key, j, i)}
           count == [i \in 1..n |-> Cardinality(first(i)) + 1]
<1>1. \A i, j \in 1..n : i # j => Before(key, i, j) \/ Before(key, j, i)
  BY DEF Before
<1>2. \A i, j, k \in 1..n : Before(key, i, j) /\ Before(key, j, k) => Before(key, i, k)
  BY DEF Before
<1>3. \A i \in 1..n : ~Before(key, i, i)
  BY DEF Before
<1>4. ASSUME NEW i \in 1..n PROVE IsFiniteSet(first(i)) /\ count[i] \in 1..n
  <2>1. first(i) \in SUBSET (1..n) /\ first(i) # 1..n /\ i \in 1..n
    BY <1>3
  <2> HIDE DEF first
  <2>2. Cardinality(first(i)) < Cardinality(1..n) /\ Cardinality(first(i)) \in Nat /\ IsFiniteSet(first(i))
    BY <2>1, CountTo, PartCount
  <2> QED  BY <2>2, CountTo
<1>5. ASSUME NEW i \in 1..n, NEW j \in 1..n, Before(key, i, j) PROVE count[i] < count[j]
  <2>1. first(i) \in SUBSET first(j) /\ i \in first(j) /\ i \notin first(i)
    BY <1>2, <1>3, <1>5
  <2>2. IsFiniteSet(first(j)) /\ first(i) # first(j)
    BY <1>4, <2>1
  <2> HIDE DEF first
  <2>3. /\ Cardinality(first(i)) < Cardinality(first(j))
        /\ Cardinality(first(i)) \in Nat /\ Cardinality(first(j)) \in Nat
    BY <2>1, <2>2, PartCount
  <2> QED  BY <2>3
<1>7. count \in [1..n -> 1..n]
  BY <1>4
<1> HIDE DEF count
<1>6. \A i, j \in 1..n : count[i] = count[j] => i = j
  <2> SUFFICES ASSUME NEW i \in 1..n, NEW j \in 1..n, count[i] = count[j], i # j PROVE FALSE
    OBVIOUS
  <2>1. count[i] \in Nat /\ count[j] \in Nat
    BY <1>7
  <2> QED  BY <1>1, <1>5, <2>1
<1>8. \A q \in 1..n : \E i \in 1..n : count[i] = q
  <2>1. count \in Injection(1..n, 1..n)
    BY <1>6, <1>7 DEF Injection, IsInjective
  <2>2. count \in Surjection(1..n, 1..n)
    <3>1. IsFiniteSet(1..n) /\ Cardinality(1..n) = Cardinality(1..n)
      BY CountTo
    <3> QED  BY <2>1, <3>1, FS_Injection
  <2> QED  BY <2>2 DEF Surjection
<1> DEFINE order == StableOrder(key)
<1>9. \A p \in 1..n : order[p] \in 1..n /\ count[order[p]] = p
  <2> TAKE p \in 1..n
  <2>1. order[p] = CHOOSE i \in 1..n : Cardinality(first(i)) = p - 1
    BY DEF StableOrder
  <2>2. PICK i \in 1..n : count[i] = p
    BY <1>8
  <2>3. Cardinality(first(i)) = p - 1
    <3>1. Cardinality(first(i)) \in Nat
      BY <1>4, FS_CardinalityType
    <3>2. count[i] = Cardinality(first(i)) + 1
      BY DEF count
    <3> HIDE DEF first
    <3> QED  BY <2>2, <3>1, <3>2
  <2>4. order[p] \in 1..n /\ Cardinality(first(order[p])) = p - 1
    <3> HIDE DEF first, order
    <3> QED  BY <2>1, <2>3
  <2>5. count[order[p]] = Cardinality(first(order[p])) + 1
    BY <2>4 DEF count
  <2> HIDE DEF first, order
  <2> QED  BY <2>4, <2>5
<1>10. order \in [1..n -> 1..n]
  <2>1. DOMAIN order = 1..n /\ order = [p \in DOMAIN order |-> order[p]]
    <3> DEFINE body(p) == CHOOSE i \in DOMAIN key : Cardinality({j \in DOMAIN key : Before(key, j, i)}) = p - 1
    <3>1. DOMAIN key = 1..n
      OBVIOUS
    <3>2. order = [p \in DOMAIN key |-> body(p)]
      BY DEF StableOrder
    <3> HIDE DEF body, order
    <3> QED  BY <3>1, <3>2
  <2> HIDE DEF order
  <2> QED  BY <1>9, <2>1
<1> HIDE DEF order
<1>11. \A p, q \in 1..n : order[p] = order[q] => p = q
  BY <1>9
<1>12. \A i \in 1..n : \E p \in 1..n : order[p] = i
  BY <1>6, <1>7, <1>9
<1>13. \A p, q \in 1..n : p < q => Before(key, order[p], order[q])
  <2> SUFFICES ASSUME NEW p \in 1..n, NEW q \in 1..n, p < q PROVE Before(key, order[p], order[q])
    OBVIOUS
  <2>1. order[p] \in 1..n /\ order[q] \in 1..n /\ order[p] # order[q]
    BY <1>9
  <2>2. ASSUME Before(key, order[q], order[p]) PROVE FALSE
    <3>1. count[order[q]] < count[order[p]]
      BY <1>5, <2>1, <2>2
    <3> QED  BY <1>9, <3>1
  <2> QED  BY <1>1, <2>1, <2>2
<1>14. \A p \in 1..n : Cardinality({j \in 1..n : Before(key, j, order[p])}) = p - 1
  <2> TAKE p \in 1..n
  <2>1. order[p] \in 1..n /\ Cardinality(first(order[p])) + 1 = p
    BY <1>9 DEF count
  <2>2. Cardinality(first(order[p])) \in Nat
    BY <1>4, <2>1, FS_CardinalityType
  <2>3. Cardinality(first(order[p])) = p - 1
    BY <2>1, <2>2
  <2> QED  BY <2>3
<1> QED  BY <1>10, <1>11, <1>12, <1>13, <1>14 DEF order, Sorts

-----------------------------------------------------------------------------
(* The caps *)

Shuffles(order, n) ==
    /\ order \in [1..n -> 1..n]
    /\ \A p, q \in 1..n : order[p] = order[q] => p = q
    /\ \A i \in 1..n : \E p \in 1..n : order[p] = i

DistinctIds(rows, n) == \A i, j \in 1..n : rows[i].id = rows[j].id => i = j
Top(rows, n) == {rows[i] : i \in 1..n}

\* A sequence and what a sort makes of it.
LEMMA SortedSeq ==
    ASSUME NEW S, NEW rows \in Seq(S), NEW key \in [1..Len(rows) -> Int]
    PROVE  /\ Sorts(StableOrder(key), key, Len(rows))
           /\ Sorted(rows, key) \in Seq(S) /\ Len(Sorted(rows, key)) = Len(rows)
           /\ \A p \in 1..Len(rows) : Sorted(rows, key)[p] = rows[StableOrder(key)[p]]
<1> DEFINE n == Len(rows)
           order == StableOrder(key)
           s == Sorted(rows, key)
<1>1. n \in Nat /\ DOMAIN rows = 1..n /\ rows \in [1..n -> S]
  BY LenProperties
<1>2. Sorts(order, key, n)
  BY <1>1, StableOrderSorts
<1>3. s = [p \in 1..n |-> rows[order[p]]]
  BY <1>1 DEF Sorted
<1>4. \A p \in 1..n : order[p] \in 1..n
  BY <1>2 DEF Sorts
<1> HIDE DEF n, order, s
<1>5. s \in [1..n -> S]
  BY <1>1, <1>3, <1>4
<1>6. s \in Seq(S) /\ Len(s) = n
  <2>1. n \in Nat
    BY <1>1
  <2> QED  BY <1>5, <2>1, TuplesAreSeqs
<1> QED  BY <1>2, <1>3, <1>6 DEF n, order, s

\* Shuffling keeps the rows and their ids apart.
LEMMA ShuffledRows ==
    ASSUME NEW n \in Nat, NEW order, Shuffles(order, n), NEW rows, NEW s,
           \A p \in 1..n : s[p] = rows[order[p]]
    PROVE  Top(s, n) = Top(rows, n) /\ (DistinctIds(rows, n) => DistinctIds(s, n))
<1>1. \A p \in 1..n : order[p] \in 1..n
  BY DEF Shuffles
<1>2. ASSUME NEW x \in Top(s, n) PROVE x \in Top(rows, n)
  BY <1>1 DEF Top
<1>3. ASSUME NEW x \in Top(rows, n) PROVE x \in Top(s, n)
  <2>1. PICK i \in 1..n : x = rows[i]
    BY DEF Top
  <2>2. PICK p \in 1..n : order[p] = i
    BY DEF Shuffles
  <2>3. x = s[p]
    BY <2>1, <2>2
  <2> QED  BY <2>3 DEF Top
<1>4. ASSUME DistinctIds(rows, n) PROVE DistinctIds(s, n)
  <2> SUFFICES ASSUME NEW p \in 1..n, NEW q \in 1..n, s[p].id = s[q].id PROVE p = q
    BY DEF DistinctIds
  <2>1. order[p] = order[q]
    BY <1>1, <1>4 DEF DistinctIds
  <2> QED  BY <2>1 DEF Shuffles
<1> QED  BY <1>2, <1>3, <1>4

\* Of the rows of one key, no more than the cap are within the quota.
LEMMA WithinQuota ==
    ASSUME NEW n \in Nat, NEW keys, NEW cap \in Nat, NEW key, key # None,
           NEW P \in SUBSET (1..n),
           \A i \in P : keys[i] = key /\ ~OverQuota(keys, cap, i)
    PROVE  Cardinality(P) <= cap
<1>1. CASE P = {}
  BY <1>1, FS_EmptySet
<1>2. CASE P # {}
  <2>1. P \in SUBSET Int /\ IsFiniteSet(P)
    BY CountTo
  <2>2. PICK m \in P : \A i \in P : i <= m
    BY <1>2, <2>1, Extremes
  <2> DEFINE E == {j \in 1..(m - 1) : keys[j] = keys[m]}
             Q == P \ {m}
  <2>3. m \in 1..n /\ m - 1 \in Nat /\ keys[m] = key /\ ~OverQuota(keys, cap, m)
    OBVIOUS
  <2>4. E \in SUBSET (1..(m - 1))
    OBVIOUS
  <2>5. IsFiniteSet(E) /\ Cardinality(E) \in Nat
    BY <2>3, <2>4, CountTo
  <2>6. ~(Cardinality(E) >= cap)
    BY <2>3 DEF OverQuota
  <2>7. \A i \in Q : i \in E
    <3> TAKE i \in Q
    <3>1. i \in P /\ i # m /\ i <= m /\ i \in 1..n
      BY <2>2
    <3>2. i \in 1..(m - 1) /\ keys[i] = keys[m]
      BY <2>3, <3>1
    <3> QED  BY <3>2
  <2>10. Q \in SUBSET E
    BY <2>7
  <2> HIDE DEF E
  <2>8. Cardinality(P \ {m}) = Cardinality(P) - 1 /\ Cardinality(P) \in Nat
    BY <2>1, FS_RemoveElement, FS_CardinalityType
  <2>9. Cardinality(Q) <= Cardinality(E) /\ Cardinality(Q) \in Nat
    BY <2>5, <2>10, PartCount
  <2> QED  BY <2>5, <2>6, <2>8, <2>9
<1> QED  BY <1>1, <1>2

\* When a row is over its quota, the quota is full.
LEMMA QuotaFull ==
    ASSUME NEW n \in Nat, NEW keys, NEW cap \in Nat, NEW i \in 1..n, OverQuota(keys, cap, i)
    PROVE  LET within == {j \in 1..n : keys[j] = keys[i] /\ ~OverQuota(keys, cap, j)}
           IN  cap <= Cardinality(within) /\ IsFiniteSet(within)
<1> DEFINE within == {j \in 1..n : keys[j] = keys[i] /\ ~OverQuota(keys, cap, j)}
           over == {j \in 1..n : keys[j] = keys[i] /\ OverQuota(keys, cap, j)}
<1>1. PICK m \in over : \A j \in over : ~(j < m)
  <2>1. over \in SUBSET Nat /\ i \in over
    OBVIOUS
  <2> HIDE DEF over
  <2> QED  BY <2>1, LeastIndex
<1> DEFINE E == {j \in 1..(m - 1) : keys[j] = keys[m]}
<1>2. \A j \in E : j \in within
  <2> TAKE j \in E
  <2>1. j \in 1..n /\ j < m /\ keys[j] = keys[i]
    OBVIOUS
  <2>2. j \notin over
    BY <1>1, <2>1
  <2> QED  BY <2>1, <2>2
<1>3. Cardinality(E) >= cap
  BY <1>1 DEF OverQuota
<1>4. within \in SUBSET (1..n)
  OBVIOUS
<1>8. E \in SUBSET within
  BY <1>2
<1> HIDE DEF E, within
<1>5. IsFiniteSet(within)
  BY <1>4, CountTo
<1>6. Cardinality(E) <= Cardinality(within) /\ Cardinality(E) \in Nat /\ Cardinality(within) \in Nat
  BY <1>8, <1>5, PartCount
<1>7. cap <= Cardinality(within)
  BY <1>3, <1>6
<1> QED  BY <1>5, <1>7 DEF within

\* What a cap does to rows that do not all fit the page: they are shuffled;
\* from a deferred row on the page onwards all are deferred; a row of the page
\* that is not deferred does not fall.
Deferred(s, rows, keys, k, cap, n) ==
    \E order :
        /\ Shuffles(order, n) /\ \A p \in 1..n : s[p] = rows[order[p]]
        /\ \A p \in 1..n : \A q \in 1..n :
              p <= k /\ p <= q /\ OverQuota(keys, cap, order[p]) => OverQuota(keys, cap, order[q])
        /\ \A i \in 1..n : i <= k /\ ~OverQuota(keys, cap, i) => \E p \in 1..i : order[p] = i

\* Reslice does so.
LEMMA Reslices ==
    ASSUME NEW S, NEW rows \in Seq(S), NEW k \in Nat, k < Len(rows), NEW cap \in Nat,
           NEW keys, Len(keys) = Len(rows)
    PROVE  LET s == Reslice(rows, keys, k, cap)
           IN  s \in Seq(S) /\ Len(s) = Len(rows) /\ Deferred(s, rows, keys, k, cap, Len(rows))
<1> DEFINE n == Len(rows)
           over(i) == OverQuota(keys, cap, i)
           key == [i \in DOMAIN rows |-> IF over(i) THEN 0 ELSE 1]
           s == Reslice(rows, keys, k, cap)
           displaced == {i \in 1..k : over(i)}
<1>1. n \in Nat /\ DOMAIN rows = 1..n
  BY LenProperties
<1>2. Displaced(keys, k, cap) = Cardinality(displaced)
  BY <1>1 DEF Displaced
<1>3. CASE Displaced(keys, k, cap) = 0
  <2>1. s = rows
    BY <1>3 DEF Reslice
  <2>2. displaced \in SUBSET (1..k)
    OBVIOUS
  <2>3. displaced = {}
    <3> HIDE DEF displaced
    <3> QED  BY <1>2, <1>3, <2>2, CountTo, FS_EmptySet
  <2>4. \A i \in 1..n : i <= k => ~over(i)
    BY <1>1, <2>3
  <2> DEFINE order == [i \in 1..n |-> i]
  <2>5. Shuffles(order, n) /\ \A p \in 1..n : order[p] = p
    BY <1>1 DEF Shuffles
  <2>6. \A i \in 1..n : i \in 1..i
    BY <1>1
  <2> HIDE DEF order, n, over
  <2>7. Deferred(s, rows, keys, k, cap, n)
    BY <2>1, <2>4, <2>5, <2>6 DEF Deferred, over
  <2> QED  BY <2>1, <2>7 DEF n
<1>4. CASE Displaced(keys, k, cap) # 0
  <2>1. s = Sorted(rows, key)
    BY <1>4 DEF Reslice
  <2>2. key \in [1..n -> Int] /\ \A i \in 1..n : key[i] = IF over(i) THEN 0 ELSE 1
    BY <1>1
  <2> DEFINE order == StableOrder(key)
  <2> HIDE DEF key, over
  <2>3. /\ Sorts(order, key, n)
        /\ s \in Seq(S) /\ Len(s) = n
        /\ \A p \in 1..n : s[p] = rows[order[p]]
    BY <2>1, <2>2, SortedSeq
  <2> HIDE DEF order, n, s
  <2>4. Shuffles(order, n)
    BY <2>3 DEF Sorts, Shuffles
  <2>5. ASSUME NEW p \in 1..n, NEW q \in 1..n, p <= q, over(order[p]) PROVE over(order[q])
    <3>1. CASE p = q
      BY <2>5, <3>1
    <3>2. CASE p < q
      <4>1. Before(key, order[p], order[q]) /\ order[p] \in 1..n /\ order[q] \in 1..n
        BY <2>3, <3>2 DEF Sorts
      <4>2. key[order[p]] >= key[order[q]]
        BY <2>2, <4>1 DEF Before
      <4> QED  BY <2>2, <2>5, <4>1, <4>2
    <3> QED  BY <1>1, <2>5, <3>1, <3>2
  <2>6. ASSUME NEW i \in 1..n, ~over(i) PROVE \E p \in 1..i : order[p] = i
    <3>1. PICK p \in 1..n : order[p] = i
      BY <2>3 DEF Sorts
    <3> DEFINE B == {j \in 1..n : Before(key, j, i)}
    <3>2. Cardinality(B) = p - 1
      BY <2>3, <3>1 DEF Sorts
    <3>7. \A j \in B : j \in 1..(i - 1)
      <4> TAKE j \in B
      <4>1. key[i] = 1 /\ key[j] \in {0, 1} /\ Before(key, j, i) /\ j \in 1..n
        BY <2>2, <2>6
      <4> QED  BY <1>1, <4>1 DEF Before
    <3>3. B \in SUBSET (1..(i - 1))
      BY <3>7
    <3>4. i - 1 \in Nat
      BY <1>1
    <3> HIDE DEF B
    <3>5. Cardinality(B) \in 0..(i - 1)
      BY <3>3, <3>4, CountTo
    <3>6. p \in 1..i
      BY <1>1, <3>2, <3>5
    <3> QED  BY <3>1, <3>6
  <2>7. Deferred(s, rows, keys, k, cap, n)
    BY <2>3, <2>4, <2>5, <2>6 DEF Deferred, over
  <2> QED  BY <2>3, <2>7 DEF n, s
<1> QED  BY <1>3, <1>4

-----------------------------------------------------------------------------
(* The two passes *)

\* As many rows as places.
LEMMA TopCount ==
    ASSUME NEW rows, NEW n \in Nat, DistinctIds(rows, n), NEW P \in SUBSET (1..n),
           NEW T, \A i \in P : rows[i] \in T, \A x \in T : \E i \in P : x = rows[i]
    PROVE  IsFiniteSet(T) /\ Cardinality(T) = Cardinality(P)
<1>1. \A i, j \in P : rows[i] = rows[j] => i = j
  BY DEF DistinctIds
<1>2. IsFiniteSet(P)
  BY CountTo
<1> QED  BY <1>1, <1>2, ImageCount

\* The quotas as the source pass leaves them: no source has more rows on the
\* page than its quota, or from some place of the page on each row is of a
\* source with its quota before that place.
QuotasKept(rows, n, k, quota) ==
    \/ \A source : source # None => Cardinality(By(source, Top(rows, k))) <= quota
    \/ \E t \in 0..(k - 1) : \A i \in (t + 1)..n :
          /\ SourceKey(rows[i]) # None
          /\ quota <= Cardinality(By(SourceKey(rows[i]), Top(rows, t)))

\* The source pass keeps the quotas.
LEMMA SourcePass ==
    ASSUME NEW S, NEW rows \in Seq(S), NEW k \in Nat, k < Len(rows), NEW quota \in Nat,
           DistinctIds(rows, Len(rows))
    PROVE  LET s == Reslice(rows, SourceKeys(rows), k, quota)
               n == Len(rows)
           IN  /\ s \in Seq(S) /\ Len(s) = n /\ Top(s, n) = Top(rows, n) /\ DistinctIds(s, n)
               /\ QuotasKept(s, n, k, quota)
<1> DEFINE n == Len(rows)
           keys == SourceKeys(rows)
           s == Reslice(rows, keys, k, quota)
<1>1. n \in Nat /\ DOMAIN rows = 1..n /\ k < n
  BY LenProperties
<1>2. /\ keys = [i \in 1..n |-> SourceKey(rows[i])]
      /\ \A i \in 1..n : keys[i] = SourceKey(rows[i])
  BY <1>1 DEF SourceKeys
<1>3. Len(keys) = n
  <2>1. keys \in [1..n -> {SourceKey(rows[i]) : i \in 1..n}]
    BY <1>2
  <2> HIDE DEF keys
  <2> QED  BY <1>1, <2>1, TuplesAreSeqs
<1> HIDE DEF keys
<1>4. s \in Seq(S) /\ Len(s) = n /\ Deferred(s, rows, keys, k, quota, n)
  BY <1>3, Reslices
<1> HIDE DEF s, n
<1> DEFINE over(i) == OverQuota(keys, quota, i)
<1>5. PICK order :
        /\ Shuffles(order, n) /\ \A p \in 1..n : s[p] = rows[order[p]]
        /\ \A p \in 1..n : \A q \in 1..n :
              p <= k /\ p <= q /\ over(order[p]) => over(order[q])
  BY <1>4 DEF Deferred
<1>6. \A p \in 1..n : order[p] \in 1..n /\ SourceKey(s[p]) = keys[order[p]]
  BY <1>2, <1>5 DEF Shuffles
<1>7. Top(s, n) = Top(rows, n) /\ DistinctIds(s, n)
  <2>1. DistinctIds(rows, n)
    BY DEF n
  <2> QED  BY <1>1, <1>5, <2>1, ShuffledRows
<1>8. CASE \A p \in 1..k : ~over(order[p])
  <2>1. ASSUME NEW source, source # None PROVE Cardinality(By(source, Top(s, k))) <= quota
    <3> DEFINE Q == {p \in 1..k : keys[order[p]] = source}
               P == {order[p] : p \in Q}
    <3>1. Q \in SUBSET (1..n) /\ P \in SUBSET (1..n)
      BY <1>1, <1>6
    <3>2. \A i \in P : keys[i] = source /\ ~over(i)
      BY <1>8
    <3>3. By(source, Top(s, k)) = {rows[i] : i \in P}
      <4>1. ASSUME NEW x \in By(source, Top(s, k)) PROVE x \in {rows[i] : i \in P}
        <5>1. PICK p \in 1..k : x = s[p] /\ SourceKey(s[p]) = source
          BY DEF By, Top
        <5>2. p \in 1..n /\ p \in Q /\ x = rows[order[p]]
          BY <1>1, <1>5, <1>6, <5>1
        <5> QED  BY <5>2
      <4>2. ASSUME NEW x \in {rows[i] : i \in P} PROVE x \in By(source, Top(s, k))
        <5>1. PICK p \in Q : x = rows[order[p]]
          OBVIOUS
        <5>2. p \in 1..n /\ p \in 1..k /\ x = s[p] /\ SourceKey(s[p]) = source
          BY <1>1, <1>5, <1>6, <5>1
        <5> QED  BY <5>2 DEF By, Top
      <4> QED  BY <4>1, <4>2
    <3> HIDE DEF P
    <3> DEFINE T == By(source, Top(s, k))
    <3>4. Cardinality(T) = Cardinality(P)
      <4>1. DistinctIds(rows, n) /\ n \in Nat /\ P \in SUBSET (1..n)
        BY <1>1, <3>1 DEF n
      <4>2. (\A i \in P : rows[i] \in T) /\ \A x \in T : \E i \in P : x = rows[i]
        BY <3>3
      <4> HIDE DEF T
      <4> QED  BY <4>1, <4>2, TopCount
    <3>5. Cardinality(P) <= quota
      BY <1>1, <2>1, <3>1, <3>2, WithinQuota
    <3> QED  BY <3>3, <3>4, <3>5
  <2> QED  BY <1>4, <1>7, <2>1 DEF QuotasKept, s, n, keys
<1>9. CASE \E p \in 1..k : over(order[p])
  <2> DEFINE Z == {p \in 1..k : over(order[p])}
  <2>1. PICK m \in Z : \A p \in Z : ~(p < m)
    <3>1. Z \in SUBSET Nat /\ Z # {}
      BY <1>9
    <3> HIDE DEF Z
    <3> QED  BY <3>1, LeastIndex
  <2> DEFINE t == m - 1
  <2>2. t \in 0..(k - 1) /\ m \in 1..n /\ m <= k /\ over(order[m])
    BY <1>1
  <2>3. \A p \in 1..n : over(order[p]) => t < p
    <3> SUFFICES ASSUME NEW p \in 1..n, over(order[p]), ~(t < p) PROVE FALSE
      OBVIOUS
    <3>1. p \in Z /\ p < m
      BY <1>1, <2>2
    <3> QED  BY <2>1, <3>1
  <2>4. ASSUME NEW i \in (t + 1)..n
        PROVE  /\ SourceKey(s[i]) # None
               /\ quota <= Cardinality(By(SourceKey(s[i]), Top(s, t)))
    <3>1. i \in 1..n /\ m <= i
      BY <1>1, <2>2
    <3>2. over(order[i])
      BY <1>5, <2>2, <3>1
    <3> DEFINE o == order[i]
               within == {j \in 1..n : keys[j] = keys[o] /\ ~over(j)}
               T == {rows[j] : j \in within}
    <3>3. o \in 1..n /\ SourceKey(s[i]) = keys[o]
      BY <1>6, <3>1
    <3>4. keys[o] # None
      BY <3>2 DEF OverQuota
    <3>5. quota <= Cardinality(within)
      <4> HIDE DEF o
      <4>1. over(o)
        BY <3>2 DEF o
      <4> QED  BY <1>1, <3>3, <4>1, QuotaFull
    <3>6. Cardinality(T) = Cardinality(within)
      <4>1. DistinctIds(rows, n) /\ n \in Nat /\ within \in SUBSET (1..n)
        BY <1>1 DEF n
      <4>2. (\A j \in within : rows[j] \in T) /\ \A x \in T : \E j \in within : x = rows[j]
        OBVIOUS
      <4> HIDE DEF within, T
      <4> QED  BY <4>1, <4>2, TopCount
    <3>7. ASSUME NEW x \in T PROVE x \in By(keys[o], Top(s, t))
      <4>1. PICK j \in within : x = rows[j]
        OBVIOUS
      <4>2. PICK p \in 1..n : order[p] = j
        BY <1>5 DEF Shuffles
      <4>3. p \in 1..t
        <5>1. ~over(order[p])
          BY <4>1, <4>2
        <5>2. ~(p >= m)
          BY <1>1, <1>5, <2>2, <5>1
        <5> QED  BY <2>2, <5>2
      <4>4. s[p] = x /\ SourceKey(x) = keys[o]
        BY <1>5, <1>6, <4>1, <4>2
      <4> QED  BY <4>3, <4>4 DEF By, Top
    <3>8. IsFiniteSet(By(keys[o], Top(s, t)))
      <4>1. t \in Nat /\ (1..t) \in SUBSET (1..n)
        BY <1>1, <2>2
      <4>2. IsFiniteSet(Top(s, t))
        <5>1. \A j \in 1..t : s[j] \in Top(s, t)
          BY DEF Top
        <5>2. \A y \in Top(s, t) : \E j \in 1..t : y = s[j]
          BY DEF Top
        <5> HIDE DEF t
        <5> QED  BY <1>1, <1>7, <4>1, <5>1, <5>2, TopCount
      <4>3. By(keys[o], Top(s, t)) \in SUBSET Top(s, t)
        BY DEF By
      <4> QED  BY <4>2, <4>3, PartCount
    <3> HIDE DEF T, within
    <3>9. /\ Cardinality(T) <= Cardinality(By(keys[o], Top(s, t)))
          /\ Cardinality(T) \in Nat /\ Cardinality(By(keys[o], Top(s, t))) \in Nat
      <4>1. T \in SUBSET By(keys[o], Top(s, t))
        BY <3>7
      <4> QED  BY <3>8, <4>1, PartCount
    <3> HIDE DEF o, t
    <3>10. quota <= Cardinality(By(keys[o], Top(s, t)))
      BY <3>5, <3>6, <3>9
    <3> QED  BY <3>3, <3>4, <3>10
  <2> HIDE DEF t
  <2>5. QuotasKept(s, n, k, quota)
    BY <2>2, <2>4 DEF QuotasKept
  <2> QED  BY <1>4, <1>7, <2>5 DEF s, n, keys
<1> QED  BY <1>8, <1>9

\* What is drawn from two sets is no more than both.
LEMMA DrawnFromTwo ==
    ASSUME NEW X, NEW Y, NEW Z, IsFiniteSet(Y), IsFiniteSet(Z), \A x \in X : x \in Y \/ x \in Z
    PROVE  /\ IsFiniteSet(X) /\ Cardinality(X) \in Nat /\ Cardinality(Y) \in Nat /\ Cardinality(Z) \in Nat
           /\ Cardinality(X) <= Cardinality(Y) + Cardinality(Z)
<1>1. /\ IsFiniteSet(Y \cup Z)
      /\ Cardinality(Y \cup Z) = Cardinality(Y) + Cardinality(Z) - Cardinality(Y \cap Z)
  BY FS_Union
<1>2. /\ Cardinality(Y \cap Z) \in Nat /\ Cardinality(Y) \in Nat /\ Cardinality(Z) \in Nat
  BY FS_Intersection, FS_CardinalityType
<1>3. /\ IsFiniteSet(X) /\ Cardinality(X) <= Cardinality(Y \cup Z)
      /\ Cardinality(X) \in Nat /\ Cardinality(Y \cup Z) \in Nat
  <2>1. X \in SUBSET (Y \cup Z)
    OBVIOUS
  <2> QED  BY <1>1, <2>1, PartCount
<1> QED  BY <1>1, <1>2, <1>3

\* Of two sets of one size, as much is new in the second as is gone from the first.
LEMMA AsManyNew ==
    ASSUME NEW A, NEW B, IsFiniteSet(A), IsFiniteSet(B), Cardinality(A) = Cardinality(B),
           NEW Z, IsFiniteSet(Z), \A x \in A : x \in B \/ x \in Z
    PROVE  IsFiniteSet(B \ A) /\ Cardinality(B \ A) <= Cardinality(Z)
<1>1. /\ IsFiniteSet(A \ B) /\ Cardinality(A \ B) = Cardinality(A) - Cardinality(A \cap B)
  BY FS_Difference
<1>2. /\ IsFiniteSet(B \ A) /\ Cardinality(B \ A) = Cardinality(B) - Cardinality(A \cap B)
  <2>1. B \cap A = A \cap B
    OBVIOUS
  <2> QED  BY <2>1, FS_Difference
<1>3. Cardinality(A \ B) <= Cardinality(Z)
  <2>1. A \ B \in SUBSET Z
    OBVIOUS
  <2> QED  BY <2>1, PartCount
<1> QED  BY <1>1, <1>2, <1>3

\* Both quotas on the page that both passes leave: either no source has more
\* than its quota and what the verbatim pass moved, or each row from the last
\* place on is a slice that may have been moved or of a source with its quota
\* before that place, up to what was moved; and two slices are on the page
\* only when slices are all that follows.
SharedOut(rows, n, k, quota, moved) ==
    /\ \/ \A source : source # None => Cardinality(By(source, Top(rows, k))) <= quota + moved
       \/ \A i \in k..n :
             \/ rows[i].chunk /\ moved > 0
             \/ /\ SourceKey(rows[i]) # None
                /\ quota <= Cardinality(By(SourceKey(rows[i]), Top(rows, k - 1))) + moved
    /\ \A p, q \in 1..k : p # q /\ rows[p].chunk /\ rows[q].chunk => \A i \in k..n : rows[i].chunk

\* The verbatim pass puts other rows in the places of the slices it moves: what
\* the quotas promised holds up to as many rows as it moved.
LEMMA VerbatimPass ==
    ASSUME NEW S, NEW rows \in Seq(S), NEW k \in Nat, k < Len(rows), NEW quota \in Nat,
           DistinctIds(rows, Len(rows)), QuotasKept(rows, Len(rows), k, quota)
    PROVE  LET s == Reslice(rows, VerbatimKeys(rows), k, VerbatimCap)
               moved == Displaced(VerbatimKeys(rows), k, VerbatimCap)
               n == Len(rows)
           IN  /\ s \in Seq(S) /\ Len(s) = n /\ Top(s, n) = Top(rows, n) /\ DistinctIds(s, n)
               /\ moved \in Nat /\ SharedOut(s, n, k, quota, moved)
<1> DEFINE n == Len(rows)
           keys == VerbatimKeys(rows)
           s == Reslice(rows, keys, k, VerbatimCap)
           moved == Displaced(keys, k, VerbatimCap)
           over(i) == OverQuota(keys, VerbatimCap, i)
           D == {i \in 1..k : over(i)}
           E == {rows[i] : i \in D}
<1>1. n \in Nat /\ DOMAIN rows = 1..n /\ k < n /\ DistinctIds(rows, n) /\ VerbatimCap \in Nat
  BY LenProperties DEF VerbatimCap
<1>2. /\ keys = [i \in 1..n |-> VerbatimKey(rows[i])]
      /\ \A i \in 1..n : keys[i] = VerbatimKey(rows[i])
  BY <1>1 DEF VerbatimKeys
<1>3. Len(keys) = n
  <2>1. keys \in [1..n -> {VerbatimKey(rows[i]) : i \in 1..n}]
    BY <1>2
  <2> HIDE DEF keys
  <2> QED  BY <1>1, <2>1, TuplesAreSeqs
<1>4. moved = Cardinality(D)
  BY <1>1, <1>3 DEF Displaced
<1> HIDE DEF keys
<1>5. s \in Seq(S) /\ Len(s) = n /\ Deferred(s, rows, keys, k, VerbatimCap, n)
  BY <1>1, <1>3, Reslices
<1> HIDE DEF s, n, moved
<1>6. PICK order :
        /\ Shuffles(order, n) /\ \A p \in 1..n : s[p] = rows[order[p]]
        /\ \A p \in 1..n : \A q \in 1..n :
              p <= k /\ p <= q /\ over(order[p]) => over(order[q])
        /\ \A i \in 1..n : i <= k /\ ~over(i) => \E p \in 1..i : order[p] = i
  BY <1>5 DEF Deferred
<1>7. \A p \in 1..n : order[p] \in 1..n
  BY <1>6 DEF Shuffles
<1>8. Top(s, n) = Top(rows, n) /\ DistinctIds(s, n)
  BY <1>1, <1>6, ShuffledRows
<1>9. \A i \in 1..n : over(i) => rows[i].chunk
  BY <1>2 DEF OverQuota, VerbatimKey
<1>10. IsFiniteSet(E) /\ Cardinality(E) = moved /\ moved \in Nat
  <2>1. D \in SUBSET (1..n) /\ (\A i \in D : rows[i] \in E) /\ \A x \in E : \E i \in D : x = rows[i]
    BY <1>1
  <2> HIDE DEF D, E
  <2>2. IsFiniteSet(E) /\ Cardinality(E) = Cardinality(D)
    BY <1>1, <2>1, TopCount
  <2>3. Cardinality(D) \in Nat
    BY <1>1, <2>1, CountTo
  <2> QED  BY <1>4, <2>2, <2>3
<1>11. ASSUME NEW t \in 0..k, NEW x \in Top(rows, t) PROVE x \in Top(s, t) \/ x \in E
  <2>1. PICK i \in 1..t : x = rows[i]
    BY DEF Top
  <2>2. i \in 1..n /\ i \in 1..k /\ i <= k
    BY <1>1
  <2>3. CASE over(i)
    BY <2>1, <2>2, <2>3
  <2>4. CASE ~over(i)
    <3>1. PICK p \in 1..i : order[p] = i
      BY <1>6, <2>2, <2>4
    <3>2. p \in 1..t /\ p \in 1..n
      BY <1>1, <2>2
    <3>3. x = s[p]
      BY <1>6, <2>1, <3>1, <3>2
    <3> QED  BY <3>2, <3>3 DEF Top
  <2> QED  BY <2>3, <2>4
<1>12. ASSUME NEW f, NEW t \in 0..k, DistinctIds(f, n) PROVE IsFiniteSet(Top(f, t)) /\ Cardinality(Top(f, t)) = t
  <2>1. (\A i \in 1..t : f[i] \in Top(f, t)) /\ \A x \in Top(f, t) : \E i \in 1..t : x = f[i]
    BY DEF Top
  <2>2. t \in Nat /\ (1..t) \in SUBSET (1..n)
    BY <1>1
  <2>3. Cardinality(1..t) = t
    BY <2>2, CountTo
  <2> QED  BY <1>1, <1>12, <2>1, <2>2, <2>3, TopCount
<1>13. \/ \A source : source # None => Cardinality(By(source, Top(s, k))) <= quota + moved
       \/ \A i \in k..n :
             \/ s[i].chunk /\ moved > 0
             \/ /\ SourceKey(s[i]) # None
                /\ quota <= Cardinality(By(SourceKey(s[i]), Top(s, k - 1))) + moved
  <2>1. CASE \A source : source # None => Cardinality(By(source, Top(rows, k))) <= quota
    <3> SUFFICES ASSUME NEW source, source # None
                 PROVE  Cardinality(By(source, Top(s, k))) <= quota + moved
      OBVIOUS
    <3> DEFINE A == Top(rows, k)
               B == Top(s, k)
               X == By(source, B)
               Y == By(source, A)
    <3>1. k \in 0..k
      OBVIOUS
    <3>2. IsFiniteSet(A) /\ IsFiniteSet(B) /\ Cardinality(A) = k /\ Cardinality(B) = k
      BY <1>1, <1>8, <1>12, <3>1
    <3>3. \A x \in A : x \in B \/ x \in E
      BY <1>11, <3>1
    <3>4. Y \in SUBSET A /\ \A x \in X : x \in Y \/ x \in B \ A
      BY DEF By
    <3>5. Cardinality(Y) <= quota
      BY <2>1
    <3> HIDE DEF A, B, X, Y, E
    <3>6. IsFiniteSet(B \ A) /\ Cardinality(B \ A) <= Cardinality(E)
      BY <1>10, <3>2, <3>3, AsManyNew
    <3>7. IsFiniteSet(Y)
      BY <3>2, <3>4, PartCount
    <3>8. /\ Cardinality(X) <= Cardinality(Y) + Cardinality(B \ A)
          /\ Cardinality(X) \in Nat /\ Cardinality(Y) \in Nat /\ Cardinality(B \ A) \in Nat
      BY <3>4, <3>6, <3>7, DrawnFromTwo
    <3>9. Cardinality(X) <= quota + moved
      BY <1>10, <3>5, <3>6, <3>8
    <3> QED  BY <3>9 DEF X, B
  <2>2. CASE \E t \in 0..(k - 1) : \A i \in (t + 1)..n :
                /\ SourceKey(rows[i]) # None
                /\ quota <= Cardinality(By(SourceKey(rows[i]), Top(rows, t)))
    <3>1. PICK t \in 0..(k - 1) : \A i \in (t + 1)..n :
                /\ SourceKey(rows[i]) # None
                /\ quota <= Cardinality(By(SourceKey(rows[i]), Top(rows, t)))
      BY <2>2
    <3> SUFFICES ASSUME NEW i \in k..n
                 PROVE  \/ s[i].chunk /\ moved > 0
                        \/ /\ SourceKey(s[i]) # None
                           /\ quota <= Cardinality(By(SourceKey(s[i]), Top(s, k - 1))) + moved
      OBVIOUS
    <3> DEFINE j == order[i]
    <3>2. i \in 1..n /\ k - 1 \in 0..k /\ t \in 0..k
      BY <1>1
    <3>3. j \in 1..n /\ s[i] = rows[j]
      BY <1>6, <1>7, <3>2
    <3>4. CASE j <= t
      <4>1. j \in 1..n /\ j <= k - 1 /\ j \in 1..k
        BY <1>1, <3>3, <3>4
      <4>2. ASSUME ~over(j) PROVE FALSE
        <5>1. PICK p \in 1..j : order[p] = j
          BY <1>6, <4>1, <4>2
        <5>2. p \in 1..n /\ p # i
          BY <1>1, <3>2, <4>1
        <5>3. order[p] = order[i]
          BY <5>1
        <5> QED  BY <1>6, <3>2, <5>2, <5>3 DEF Shuffles
      <4>3. rows[j].chunk /\ j \in D
        BY <1>9, <4>1, <4>2
      <4>4. D # {} /\ D \in SUBSET (1..k)
        BY <4>3
      <4> HIDE DEF D
      <4>5. moved # 0
        BY <1>4, <4>4, CountTo, FS_EmptySet
      <4> QED  BY <1>10, <3>3, <4>3, <4>5
    <3>5. CASE ~(j <= t)
      <4> DEFINE key == SourceKey(rows[j])
                 X == By(key, Top(rows, t))
                 Y == By(key, Top(s, k - 1))
      <4>1. key # None /\ quota <= Cardinality(X)
        <5>1. j \in (t + 1)..n
          BY <1>1, <3>3, <3>5
        <5> QED  BY <3>1, <5>1
      <4>2. \A x \in X : x \in Y \/ x \in E
        <5> TAKE x \in X
        <5>1. x \in Top(rows, t) /\ SourceKey(x) = key
          BY DEF By
        <5>2. x \in Top(s, t) \/ x \in E
          BY <1>11, <3>2, <5>1
        <5>3. \A y \in Top(s, t) : y \in Top(s, k - 1)
          <6>1. \A p \in 1..t : p \in 1..(k - 1)
            BY <1>1
          <6> QED  BY <6>1 DEF Top
        <5> QED  BY <5>1, <5>2, <5>3 DEF By
      <4>3. Y \in SUBSET Top(s, k - 1) /\ IsFiniteSet(Top(s, k - 1))
        BY <1>8, <1>12, <3>2 DEF By
      <4> HIDE DEF X, Y, E, key
      <4>4. IsFiniteSet(Y)
        BY <4>3, PartCount
      <4>5. /\ Cardinality(X) <= Cardinality(Y) + Cardinality(E)
            /\ Cardinality(X) \in Nat /\ Cardinality(Y) \in Nat
        BY <1>10, <4>2, <4>4, DrawnFromTwo
      <4>6. quota <= Cardinality(Y) + moved
        BY <1>10, <4>1, <4>5
      <4> QED  BY <3>3, <4>1, <4>6 DEF key, Y
    <3> QED  BY <3>4, <3>5
  <2> QED  BY <2>1, <2>2 DEF QuotasKept, n
<1>14. ASSUME NEW p \in 1..k, NEW q \in 1..k, p # q, s[p].chunk, s[q].chunk, NEW i \in k..n
       PROVE  s[i].chunk
  <2>1. p \in 1..n /\ q \in 1..n /\ i \in 1..n
    BY <1>1
  <2>2. order[p] # order[q] /\ order[p] \in 1..n /\ order[q] \in 1..n
    BY <1>6, <1>14, <2>1 DEF Shuffles
  <2>3. keys[order[p]] = "verbatim" /\ keys[order[q]] = "verbatim"
    BY <1>2, <1>6, <1>14, <2>1, <2>2 DEF VerbatimKey
  <2>4. ASSUME NEW a \in 1..n, NEW b \in 1..n, a < b, keys[a] = "verbatim", keys[b] = "verbatim"
        PROVE  over(b)
    <3> DEFINE W == {j \in 1..(b - 1) : keys[j] = keys[b]}
    <3>1. a \in W /\ b - 1 \in Nat /\ W \in SUBSET (1..(b - 1))
      BY <1>1, <2>4
    <3> HIDE DEF W
    <3>2. Cardinality(W) \in Nat /\ IsFiniteSet(W)
      BY <3>1, CountTo
    <3>3. Cardinality(W) # 0
      BY <3>1, <3>2, FS_EmptySet
    <3>4. Cardinality(W) >= VerbatimCap
      BY <3>2, <3>3 DEF VerbatimCap
    <3>5. keys[b] # None
      BY <2>4, RecallAssumption
    <3> QED  BY <3>4, <3>5 DEF OverQuota, W
  <2>5. over(order[p]) \/ over(order[q])
    <3>1. order[p] < order[q] \/ order[q] < order[p]
      BY <1>1, <2>2
    <3> QED  BY <2>2, <2>3, <2>4, <3>1
  <2>6. over(order[i])
    <3>1. p <= k /\ p <= i /\ q <= k /\ q <= i
      BY <1>1
    <3> QED  BY <1>6, <2>1, <2>5, <3>1
  <2> QED  BY <1>6, <1>7, <1>9, <2>1, <2>6
<1>15. SharedOut(s, n, k, quota, moved)
  BY <1>13, <1>14 DEF SharedOut
<1> QED  BY <1>5, <1>8, <1>10, <1>15 DEF s, n, moved, keys

\* The rows of a source that the hop did not vote for, and the slices.
Unvoted(source, rows, voted) == {row \in By(source, rows) : row.id \notin voted}
Slices(rows) == {row \in rows : row.chunk}

\* The top of the rows is a finite set.
LEMMA TopFinite ==
    ASSUME NEW rows, NEW n \in Nat, DistinctIds(rows, n)
    PROVE  IsFiniteSet(Top(rows, n))
<1>1. (\A i \in 1..n : rows[i] \in Top(rows, n)) /\ \A x \in Top(rows, n) : \E i \in 1..n : x = rows[i]
  BY DEF Top
<1> QED  BY <1>1, TopCount

\* The page taken from the top of such rows is shared out as well, though the
\* hop may have put a claim of its own in the last place.
LEMMA SharesSurvive ==
    ASSUME NEW rows, NEW n \in Nat, NEW k \in Nat, k < n, k # 0, NEW quota \in Nat, NEW moved \in Nat,
           DistinctIds(rows, n), SharedOut(rows, n, k, quota, moved),
           NEW voted, NEW P, IsFiniteSet(P), \A i \in 1..(k - 1) : rows[i] \in P,
           \A x \in P : x \in Top(rows, k) \/ (x.id \in voted /\ ~x.chunk)
    PROVE  /\ \A source : source # None /\ Cardinality(Unvoted(source, P, voted)) > quota + moved =>
                \A i \in k..n :
                   \/ rows[i].chunk /\ moved > 0
                   \/ SourceKey(rows[i]) # None /\ Cardinality(By(SourceKey(rows[i]), P)) >= quota - moved
           /\ Cardinality(Slices(P)) > 1 => \A i \in k..n : rows[i].chunk
<1>1. IsFiniteSet(Top(rows, k)) /\ IsFiniteSet(1..k)
  <2>1. (\A i \in 1..k : rows[i] \in Top(rows, k)) /\ \A x \in Top(rows, k) : \E i \in 1..k : x = rows[i]
    BY DEF Top
  <2>2. (1..k) \in SUBSET (1..n)
    OBVIOUS
  <2> QED  BY <2>1, <2>2, TopCount, CountTo
<1>2. ASSUME NEW source, source # None, Cardinality(Unvoted(source, P, voted)) > quota + moved,
             NEW i \in k..n
      PROVE  \/ rows[i].chunk /\ moved > 0
             \/ SourceKey(rows[i]) # None /\ Cardinality(By(SourceKey(rows[i]), P)) >= quota - moved
  <2> DEFINE X == Unvoted(source, P, voted)
             Y == By(source, Top(rows, k))
             key == SourceKey(rows[i])
             U == By(key, Top(rows, k - 1))
             V == By(key, P)
  <2>1. X \in SUBSET Y
    BY DEF By, Unvoted
  <2>2. IsFiniteSet(Y)
    <3>1. Y \in SUBSET Top(rows, k)
      BY DEF By
    <3> QED  BY <1>1, <3>1, PartCount
  <2>3. ~(Cardinality(Y) <= quota + moved)
    <3>1. Cardinality(X) > quota + moved
      BY <1>2
    <3> HIDE DEF X, Y
    <3>2. Cardinality(X) <= Cardinality(Y) /\ Cardinality(X) \in Nat /\ Cardinality(Y) \in Nat
      BY <2>1, <2>2, PartCount
    <3> QED  BY <3>1, <3>2
  <2>4. \/ rows[i].chunk /\ moved > 0
        \/ key # None /\ quota <= Cardinality(U) + moved
    BY <1>2, <2>3 DEF SharedOut
  <2>5. U \in SUBSET V
    <3>1. \A x \in Top(rows, k - 1) : x \in P
      BY DEF Top
    <3> QED  BY <3>1 DEF By
  <2>6. IsFiniteSet(V)
    <3>1. V \in SUBSET P
      BY DEF By
    <3> QED  BY <3>1, PartCount
  <2> HIDE DEF X, Y, U, V
  <2>7. Cardinality(U) <= Cardinality(V) /\ Cardinality(U) \in Nat /\ Cardinality(V) \in Nat
    BY <2>5, <2>6, PartCount
  <2>8. (rows[i].chunk /\ moved > 0) \/ (key # None /\ Cardinality(V) >= quota - moved)
    BY <2>4, <2>7
  <2> QED  BY <2>8 DEF V
<1>3. ASSUME Cardinality(Slices(P)) > 1, NEW i \in k..n PROVE rows[i].chunk
  <2> DEFINE X == Slices(P)
  <2>1. \E x, y \in X : x # y
    <3> SUFFICES ASSUME \A x, y \in X : x = y PROVE FALSE
      OBVIOUS
    <3>1. Cardinality(X) > 1
      BY <1>3
    <3> HIDE DEF X
    <3>2. CASE X = {}
      BY <3>1, <3>2, FS_EmptySet
    <3>3. CASE X # {}
      <4>1. PICK x \in X : TRUE
        BY <3>3
      <4>2. X = {x}
        BY <4>1
      <4>3. Cardinality({x}) = 1
        BY FS_Singleton
      <4> QED  BY <3>1, <4>2, <4>3
    <3> QED  BY <3>2, <3>3
  <2>2. PICK x \in X, y \in X : x # y
    BY <2>1
  <2>3. x \in Top(rows, k) /\ y \in Top(rows, k) /\ x.chunk /\ y.chunk
    BY <2>2 DEF Slices
  <2>4. PICK p \in 1..k, q \in 1..k : x = rows[p] /\ y = rows[q]
    BY <2>3 DEF Top
  <2>5. p # q /\ rows[p].chunk /\ rows[q].chunk
    BY <2>2, <2>3, <2>4
  <2> QED  BY <2>4, <2>5 DEF SharedOut
<1> QED  BY <1>2, <1>3

-----------------------------------------------------------------------------
(* Taking the page *)

IsHop(row, voted) == row.id \in voted /\ ~row.chunk

\* The page is the top of the rows, or the best claim of the hop below it
\* stands in its last place; either way it has a claim of the hop if there is
\* one and room for two.
LEMMA Promoted ==
    ASSUME NEW S, NEW rows \in Seq(S), NEW k \in Nat, k # 0, NEW voted
    PROVE  LET s == FirstOf(ReserveTail(rows, k, voted), k)
               n == Len(rows)
           IN  /\ s \in Seq(S) /\ Len(s) = Smaller(n, k)
               /\ \/ /\ \A i \in 1..Smaller(n, k) : s[i] = rows[i]
                     /\ k >= 2 /\ (\E i \in 1..n : IsHop(rows[i], voted)) =>
                           \E i \in 1..Smaller(n, k) : IsHop(s[i], voted)
                  \/ /\ k < n /\ \A i \in 1..(k - 1) : s[i] = rows[i]
                     /\ \E w \in (k + 1)..n : s[k] = rows[w] /\ IsHop(rows[w], voted)
<1> DEFINE n == Len(rows)
           tail == ReserveTail(rows, k, voted)
           s == FirstOf(tail, k)
           waiting == {i \in DOMAIN rows : i > k /\ IsHop(rows[i], voted)}
           keep == k < 2 \/ n <= k \/ (\E i \in 1..k : IsHop(rows[i], voted)) \/ waiting = {}
           w == LeastOf(waiting)
           shifted == [i \in DOMAIN rows |-> CASE i = k -> rows[w]
                                               [] k < i /\ i <= w -> rows[i - 1]
                                               [] OTHER -> rows[i]]
<1>1. n \in Nat /\ DOMAIN rows = 1..n /\ rows \in [1..n -> S]
  BY LenProperties
<1>2. tail = IF keep THEN rows ELSE shifted
  BY DEF ReserveTail, IsHop
<1>3. CASE keep
  <2>1. s \in Seq(S) /\ Len(s) = Smaller(n, k) /\ \A i \in 1..Smaller(n, k) : s[i] = rows[i]
    BY <1>2, <1>3, FirstOfRows
  <2>2. ASSUME k >= 2, NEW i \in 1..n, IsHop(rows[i], voted)
        PROVE  \E j \in 1..Smaller(n, k) : IsHop(s[j], voted)
    <3>1. \E j \in 1..Smaller(n, k) : IsHop(rows[j], voted)
      <4>1. CASE n <= k
        BY <1>1, <2>2, <4>1 DEF Smaller
      <4>2. CASE k < n
        <5>1. Smaller(n, k) = k
          <6> HIDE DEF n, keep
          <6> QED  BY <1>1, <4>2 DEF Smaller
        <5>2. CASE i <= k
          <6>1. i \in 1..k
            BY <1>1, <5>2
          <6> QED  BY <2>2, <5>1, <6>1
        <5>3. CASE ~(i <= k)
          <6>1. i \in waiting
            BY <1>1, <2>2, <5>3
          <6>2. ~(k < 2) /\ ~(n <= k)
            BY <1>1, <2>2, <4>2
          <6> HIDE DEF waiting, n
          <6> QED  BY <1>3, <5>1, <6>1, <6>2
        <5> QED  BY <5>2, <5>3
      <4> QED  BY <1>1, <4>1, <4>2
    <3> QED  BY <2>1, <3>1
  <2> HIDE DEF n, s
  <2>3. /\ s \in Seq(S) /\ Len(s) = Smaller(n, k)
        /\ \A i \in 1..Smaller(n, k) : s[i] = rows[i]
        /\ k >= 2 /\ (\E i \in 1..n : IsHop(rows[i], voted)) =>
              \E i \in 1..Smaller(n, k) : IsHop(s[i], voted)
    BY <2>1, <2>2
  <2> QED  BY <2>3 DEF n, s
<1>4. CASE ~keep
  <2>1. k < n /\ waiting # {} /\ waiting \in SUBSET Int /\ waiting \in SUBSET (1..n)
    BY <1>1, <1>4
  <2>2. w \in waiting
    <3> HIDE DEF waiting
    <3>1. IsFiniteSet(waiting)
      BY <1>1, <2>1, CountTo
    <3>2. \E x \in waiting : \A y \in waiting : x <= y
      BY <2>1, <3>1, Extremes
    <3> QED  BY <3>2 DEF LeastOf
  <2>3. w \in (k + 1)..n /\ IsHop(rows[w], voted)
    BY <1>1, <2>2
  <2> HIDE DEF w
  <2>4. shifted \in [1..n -> S]
    <3>1. ASSUME NEW i \in 1..n PROVE shifted[i] \in S
      <4>1. k < i => i - 1 \in 1..n
        OBVIOUS
      <4> QED  BY <1>1, <2>3, <4>1
    <3> QED  BY <1>1, <3>1
  <2>5. shifted[k] = rows[w] /\ \A i \in 1..(k - 1) : shifted[i] = rows[i]
    BY <1>1, <2>1
  <2> HIDE DEF shifted, n
  <2>6. shifted \in Seq(S) /\ Len(shifted) = n
    BY <1>1, <2>4, TuplesAreSeqs
  <2>7. tail = shifted
    BY <1>2, <1>4
  <2> HIDE DEF tail
  <2>8. s \in Seq(S) /\ Len(s) = Smaller(n, k) /\ \A i \in 1..Smaller(n, k) : s[i] = shifted[i]
    BY <2>6, <2>7, FirstOfRows
  <2>9. Smaller(n, k) = k /\ k \in 1..k /\ \A i \in 1..(k - 1) : i \in 1..k
    BY <1>1, <2>1 DEF Smaller
  <2>10. s[k] = rows[w] /\ \A i \in 1..(k - 1) : s[i] = rows[i]
    BY <2>5, <2>8, <2>9
  <2> QED  BY <2>1, <2>3, <2>8, <2>10 DEF s, n, tail
<1> QED  BY <1>3, <1>4

\* Rows with ids of their own keep them when some are picked.
LEMMA PickedIds ==
    ASSUME NEW X, NEW s \in Seq(X), NEW places
    PROVE  /\ Picked(s, places) \in Seq(X)
           /\ \A x \in Top(Picked(s, places), Len(Picked(s, places))) :
                \E i \in 1..Len(s) : i \in places /\ x = s[i]
           /\ \A i \in 1..Len(s) : i \in places => s[i] \in Top(Picked(s, places), Len(Picked(s, places)))
           /\ DistinctIds(s, Len(s)) => DistinctIds(Picked(s, places), Len(Picked(s, places)))
<1> DEFINE n == Len(s)
           p == Picked(s, places)
           m == Len(p)
<1>1. p \in Seq(X) /\ PicksFrom(p, s, places, n)
  BY PickedRows
<1> HIDE DEF n, p, m
<1>2. PICK from \in [1..m -> 1..n] :
        /\ \A q \in 1..m : from[q] \in places /\ p[q] = s[from[q]]
        /\ \A q, r \in 1..m : from[q] = from[r] => q = r
        /\ \A j \in 1..n : j \in places => \E q \in 1..m : from[q] = j
  BY <1>1 DEF PicksFrom, m
<1>3. \A x \in Top(p, m) : \E i \in 1..n : i \in places /\ x = s[i]
  BY <1>2 DEF Top
<1>4. \A i \in 1..n : i \in places => s[i] \in Top(p, m)
  <2> TAKE i \in 1..n
  <2> HAVE i \in places
  <2>1. PICK q \in 1..m : from[q] = i
    BY <1>2
  <2>2. s[i] = p[q]
    BY <1>2, <2>1
  <2> QED  BY <2>2 DEF Top
<1>5. ASSUME DistinctIds(s, n) PROVE DistinctIds(p, m)
  <2> SUFFICES ASSUME NEW q \in 1..m, NEW r \in 1..m, p[q].id = p[r].id PROVE q = r
    BY DEF DistinctIds
  <2>1. from[q] = from[r]
    <3>1. from[q] \in 1..n /\ from[r] \in 1..n /\ s[from[q]].id = s[from[r]].id
      BY <1>2
    <3> QED  BY <1>5, <3>1 DEF DistinctIds
  <2> QED  BY <1>2, <2>1
<1> QED  BY <1>1, <1>3, <1>4, <1>5 DEF n, p, m

-----------------------------------------------------------------------------
(* The rows through the passes *)

HitRow == [id : RowId, chunk : BOOLEAN, source : STRING, sim : Int \cup {None}, match : Int]

Alike(x, y) == x.id = y.id /\ x.chunk = y.chunk /\ x.source = y.source

\* The same rows, whatever else they carry.
Mirrored(A, B) == (\A x \in A : \E y \in B : Alike(x, y)) /\ (\A y \in B : \E x \in A : Alike(x, y))

\* The greatest and the least of finitely many numbers are among them.
LEMMA MostAndLeast ==
    ASSUME NEW S \in SUBSET Int, IsFiniteSet(S), S # {}
    PROVE  MostOf(S) \in S /\ LeastOf(S) \in S
<1>1. (\E x \in S : \A y \in S : y <= x) /\ (\E x \in S : \A y \in S : x <= y)
  BY Extremes
<1> QED  BY <1>1 DEF MostOf, LeastOf

\* The fused scores of the rows.
Rrfs(rows) == {rows[j].rrf : j \in DOMAIN rows}

\* The normalised match is a number.
LEMMA NormalizedInt ==
    ASSUME NEW rows \in Seq(PoolRow), NEW i \in 1..Len(rows)
    PROVE  Normalized(MostOf(Rrfs(rows)), LeastOf(Rrfs(rows)), rows[i]) \in Int
<1> DEFINE n == Len(rows)
           rrfs == Rrfs(rows)
           best == MostOf(rrfs)
           least == LeastOf(rrfs)
<1>1. n \in Nat /\ DOMAIN rows = 1..n /\ \A j \in 1..n : rows[j].rrf \in Int
  <2>1. \A j \in 1..n : rows[j] \in PoolRow
    BY ElementOfSeq
  <2>2. \A row \in PoolRow : row.rrf \in Int
    BY DEF PoolRow
  <2> QED  BY <2>1, <2>2, LenProperties
<1>2. rrfs \in SUBSET Int /\ rrfs # {}
  BY <1>1 DEF Rrfs
<1>3. IsFiniteSet(rrfs)
  <2>1. IsFiniteSet(DOMAIN rows)
    BY <1>1, CountTo
  <2> DEFINE g == [j \in DOMAIN rows |-> rows[j].rrf]
  <2>2. g \in Surjection(DOMAIN rows, rrfs)
    BY DEF Surjection, Rrfs
  <2> HIDE DEF g, rrfs
  <2> QED  BY <2>1, <2>2, FS_Surjection
<1> HIDE DEF rrfs
<1>4. best \in Int /\ least \in Int
  BY <1>2, <1>3, MostAndLeast
<1>5. Scale \in Int /\ rows[i].rrf \in Int
  BY <1>1, RecallAssumption
<1> DEFINE raised == (rows[i].rrf - least) * Scale
<1> HIDE DEF best, least
<1>6. best - least \in Int /\ raised \in Int
  BY <1>4, <1>5
<1> HIDE DEF raised
<1>7. best > least => raised \div (best - least) \in Int
  BY <1>4, <1>6
<1>8. Normalized(best, least, rows[i]) = CASE best <= 0 -> 0
                                           [] best > 0 /\ best > least -> raised \div (best - least)
                                           [] OTHER -> Scale
  BY DEF Normalized, raised
<1>9. Normalized(best, least, rows[i]) \in Int
  BY <1>4, <1>5, <1>7, <1>8
<1> QED  BY <1>9 DEF best, least, rrfs

\* The ranking keeps the rows.
LEMMA RankMirrors ==
    ASSUME NEW rows \in Seq(PoolRow), DistinctIds(rows, Len(rows))
    PROVE  LET s == Rank(rows)
               n == Len(rows)
           IN  /\ s \in Seq(HitRow) /\ Len(s) = n /\ DistinctIds(s, n)
               /\ Mirrored(Top(s, n), Top(rows, n))
<1> DEFINE n == Len(rows)
           best == MostOf(Rrfs(rows))
           least == LeastOf(Rrfs(rows))
           hits == [i \in DOMAIN rows |-> Hit(rows[i], Normalized(best, least, rows[i]))]
           key == [i \in DOMAIN rows |-> Score(best, least, rows[i])]
           order == StableOrder(key)
           s == Sorted(hits, key)
<1>1. n \in Nat /\ DOMAIN rows = 1..n /\ \A i \in 1..n : rows[i] \in PoolRow
  BY LenProperties, ElementOfSeq
<1>2. \A i \in 1..n : Normalized(best, least, rows[i]) \in Int
  BY NormalizedInt
<1> HIDE DEF best, least
<1>3. key \in [1..n -> Int]
  <2>1. ASSUME NEW i \in 1..n PROVE Score(best, least, rows[i]) \in Int
    <3>1. rows[i].standing \in Int /\ Normalized(best, least, rows[i]) \in Int
      BY <1>1, <1>2 DEF PoolRow
    <3> QED  BY <3>1 DEF Score
  <2> QED  BY <1>1, <2>1
<1>4. ASSUME NEW i \in 1..n PROVE hits[i] \in HitRow /\ Alike(hits[i], rows[i])
  <2>1. /\ rows[i] \in PoolRow /\ Normalized(best, least, rows[i]) \in Int
        /\ hits[i] = Hit(rows[i], Normalized(best, least, rows[i]))
    BY <1>1, <1>2
  <2> QED  BY <2>1 DEF PoolRow, HitRow, Hit, Alike
<1>5. hits \in [1..n -> HitRow]
  BY <1>1, <1>4
<1>6. Rank(rows) = s
  BY DEF Rank, Rrfs, best, least
<1> HIDE DEF hits, key, n
<1>7. hits \in Seq(HitRow) /\ Len(hits) = n
  BY <1>1, <1>5, TuplesAreSeqs
<1> HIDE DEF order
<1>8. /\ Sorts(order, key, n) /\ s \in Seq(HitRow) /\ Len(s) = n
      /\ \A p \in 1..n : s[p] = hits[order[p]]
  BY <1>3, <1>7, SortedSeq DEF order
<1> HIDE DEF s
<1>9. DistinctIds(hits, n)
  <2>1. DistinctIds(rows, n)
    BY DEF n
  <2> QED  BY <1>4, <2>1 DEF DistinctIds, Alike
<1>10. Top(s, n) = Top(hits, n) /\ DistinctIds(s, n)
  <2>1. Shuffles(order, n)
    BY <1>8 DEF Sorts, Shuffles
  <2> QED  BY <1>1, <1>8, <1>9, <2>1, ShuffledRows
<1>11. Mirrored(Top(hits, n), Top(rows, n))
  <2>1. ASSUME NEW x \in Top(hits, n) PROVE \E y \in Top(rows, n) : Alike(x, y)
    BY <1>4 DEF Top
  <2>2. ASSUME NEW y \in Top(rows, n) PROVE \E x \in Top(hits, n) : Alike(x, y)
    BY <1>4 DEF Top
  <2> QED  BY <2>1, <2>2 DEF Mirrored
<1> QED  BY <1>6, <1>8, <1>10, <1>11 DEF n

\* Both passes, on a page that may hold all rows.
LEMMA BothPasses ==
    ASSUME NEW S, NEW rows \in Seq(S), NEW k \in Nat, NEW quota \in Nat, DistinctIds(rows, Len(rows))
    PROVE  LET first == Reslice(rows, SourceKeys(rows), k, quota)
               s == Reslice(first, VerbatimKeys(first), k, VerbatimCap)
               moved == Displaced(VerbatimKeys(first), k, VerbatimCap)
               n == Len(rows)
           IN  /\ s \in Seq(S) /\ Len(s) = n /\ Top(s, n) = Top(rows, n) /\ DistinctIds(s, n)
               /\ moved \in Nat /\ (k < n => SharedOut(s, n, k, quota, moved))
<1> DEFINE n == Len(rows)
           first == Reslice(rows, SourceKeys(rows), k, quota)
           s == Reslice(first, VerbatimKeys(first), k, VerbatimCap)
           moved == Displaced(VerbatimKeys(first), k, VerbatimCap)
<1>1. n \in Nat /\ DOMAIN rows = 1..n
  BY LenProperties
<1>2. CASE k < n
  <2>1. /\ first \in Seq(S) /\ Len(first) = n /\ Top(first, n) = Top(rows, n) /\ DistinctIds(first, n)
        /\ QuotasKept(first, n, k, quota)
    BY <1>2, SourcePass
  <2> HIDE DEF first, n
  <2>2. /\ s \in Seq(S) /\ Len(s) = n /\ Top(s, n) = Top(first, n) /\ DistinctIds(s, n)
        /\ moved \in Nat /\ SharedOut(s, n, k, quota, moved)
    <3>1. k < Len(first) /\ DistinctIds(first, Len(first)) /\ QuotasKept(first, Len(first), k, quota)
      BY <1>2, <2>1
    <3> HIDE DEF s, moved
    <3> QED  BY <2>1, <3>1, VerbatimPass DEF s, moved
  <2> QED  BY <2>1, <2>2 DEF first, s, moved, n
<1>3. CASE n <= k
  <2>1. Len(SourceKeys(rows)) = n /\ Len(VerbatimKeys(rows)) = n
    <3>1. SourceKeys(rows) = [i \in 1..n |-> SourceKey(rows[i])]
      BY <1>1 DEF SourceKeys
    <3>2. VerbatimKeys(rows) = [i \in 1..n |-> VerbatimKey(rows[i])]
      BY <1>1 DEF VerbatimKeys
    <3>3. SourceKeys(rows) \in [1..n -> {SourceKey(rows[i]) : i \in 1..n}]
      BY <3>1
    <3>4. VerbatimKeys(rows) \in [1..n -> {VerbatimKey(rows[i]) : i \in 1..n}]
      BY <3>2
    <3> HIDE DEF n
    <3> QED  BY <1>1, <3>3, <3>4, TuplesAreSeqs
  <2>2. first = rows
    BY <1>3, <2>1 DEF Reslice, Displaced
  <2>3. moved = 0 /\ s = rows
    <3> HIDE DEF first
    <3> QED  BY <1>3, <2>1, <2>2 DEF Reslice, Displaced
  <2>4. rows \in Seq(S) /\ DistinctIds(rows, n) /\ ~(k < n) /\ 0 \in Nat
    BY <1>1, <1>3
  <2> HIDE DEF first, s, moved, n
  <2>5. /\ s \in Seq(S) /\ Len(s) = n /\ Top(s, n) = Top(rows, n) /\ DistinctIds(s, n)
        /\ moved \in Nat /\ (k < n => SharedOut(s, n, k, quota, moved))
    BY <2>3, <2>4 DEF n
  <2> QED  BY <2>5 DEF first, s, moved, n
<1> QED  BY <1>1, <1>2, <1>3

-----------------------------------------------------------------------------
(* The hop *)

\* The ids of a sequence are those of its rows.
LEMMA IdsAreTop ==
    ASSUME NEW S, NEW rows \in Seq(S)
    PROVE  \A id : id \in Ids(rows) <=> \E x \in Top(rows, Len(rows)) : x.id = id
<1>1. DOMAIN rows = 1..Len(rows)
  BY LenProperties
<1> QED  BY <1>1 DEF Ids, Top

\* The claims of a sequence are the ids of its rows that are not slices.
LEMMA ClaimsByRow ==
    ASSUME NEW S, NEW rows \in Seq(S)
    PROVE  \A id : id \in ClaimsOf(rows) <=> \E i \in 1..Len(rows) : rows[i].id = id /\ ~rows[i].chunk
<1> DEFINE n == Len(rows)
           places == {i \in DOMAIN rows : ~rows[i].chunk}
           p == Picked(rows, places)
<1>1. DOMAIN rows = 1..n
  BY LenProperties
<1>2. /\ p \in Seq(S)
      /\ \A x \in Top(p, Len(p)) : \E i \in 1..n : i \in places /\ x = rows[i]
      /\ \A i \in 1..n : i \in places => rows[i] \in Top(p, Len(p))
  BY PickedIds
<1>3. ClaimsOf(rows) = Ids(p)
  BY DEF ClaimsOf
<1>4. \A i \in 1..n : i \in places <=> ~rows[i].chunk
  BY <1>1
<1> HIDE DEF p, n, places
<1>5. \A id : id \in Ids(p) <=> \E x \in Top(p, Len(p)) : x.id = id
  BY <1>2, IdsAreTop
<1>6. \A id : id \in ClaimsOf(rows) <=> \E i \in 1..n : rows[i].id = id /\ ~rows[i].chunk
  BY <1>2, <1>3, <1>4, <1>5
<1> QED  BY <1>6 DEF n

\* A row of the pool with a vote added.
LEMMA Raising ==
    ASSUME NEW row \in PoolRow, NEW v \in Int
    PROVE  LET x == [row EXCEPT !.rrf = @ + v]
           IN  x \in PoolRow /\ x.id = row.id /\ x.chunk = row.chunk
<1>1. row.rrf + v \in Int
  BY DEF PoolRow
<1> QED  BY <1>1 DEF PoolRow

\* Merging keeps the ids apart, and each claim the hop voted for is there.
LEMMA MergeKeepsRows ==
    ASSUME NEW rows \in Seq(PoolRow), DistinctIds(rows, Len(rows)),
           NEW onward \in Seq(PoolRow), DistinctIds(onward, Len(onward)), Len(onward) <= HopLimit,
           \A i \in 1..Len(onward) :
              /\ ~onward[i].chunk
              /\ \A j \in 1..Len(rows) : rows[j].chunk => rows[j].id # onward[i].id
    PROVE  LET s == Merge(rows, onward)
           IN  /\ s \in Seq(PoolRow) /\ DistinctIds(s, Len(s))
               /\ \A i \in 1..Len(onward) : \E x \in Top(s, Len(s)) : x.id = onward[i].id /\ ~x.chunk
<1> DEFINE n == Len(rows)
           o == Len(onward)
           vote(id) == HopVotes[CHOOSE i \in DOMAIN onward : onward[i].id = id]
           raised == [i \in DOMAIN rows |->
                        IF rows[i].id \in Ids(onward) /\ ~rows[i].chunk
                        THEN [rows[i] EXCEPT !.rrf = @ + vote(rows[i].id)] ELSE rows[i]]
           places == {i \in DOMAIN onward : onward[i].id \notin ClaimsOf(rows)}
           new == Picked(onward, places)
           added == [i \in DOMAIN new |-> [new[i] EXCEPT !.rrf = vote(new[i].id), !.sim = None]]
           m == Len(new)
           s == Merge(rows, onward)
<1>1. /\ n \in Nat /\ DOMAIN rows = 1..n /\ o \in Nat /\ DOMAIN onward = 1..o
      /\ (\A i \in 1..n : rows[i] \in PoolRow) /\ \A i \in 1..o : onward[i] \in PoolRow
  BY LenProperties, ElementOfSeq
<1>2. s = raised \o added
  BY DEF Merge
<1>3. \A id \in Ids(onward) : vote(id) \in Int
  <2> TAKE id \in Ids(onward)
  <2> DEFINE c == CHOOSE i \in DOMAIN onward : onward[i].id = id
  <2>1. c \in 1..o
    BY <1>1 DEF Ids
  <2>2. HopLimit \in Nat /\ HopVotes \in [1..HopLimit -> Nat] /\ o <= HopLimit
    BY RecallAssumption
  <2> HIDE DEF c, o
  <2>3. c \in 1..HopLimit
    BY <1>1, <2>1, <2>2
  <2> QED  BY <2>2, <2>3 DEF c
<1>4. /\ new \in Seq(PoolRow)
      /\ \A x \in Top(new, m) : \E i \in 1..o : i \in places /\ x = onward[i]
      /\ \A i \in 1..o : i \in places => onward[i] \in Top(new, m)
      /\ DistinctIds(new, m)
  BY PickedIds
<1>5. m \in Nat /\ DOMAIN new = 1..m
  <2> HIDE DEF new
  <2> QED  BY <1>4, LenProperties
<1> HIDE DEF vote, new, m, s, n, o
<1>6. ASSUME NEW q \in 1..m
      PROVE  \E i \in 1..o : new[q] = onward[i] /\ onward[i].id \notin ClaimsOf(rows)
  <2>1. new[q] \in Top(new, m)
    BY DEF Top
  <2> QED  BY <1>4, <2>1
<1>7. ASSUME NEW i \in 1..n PROVE raised[i] \in PoolRow /\ raised[i].id = rows[i].id /\ raised[i].chunk = rows[i].chunk
  <2>1. CASE rows[i].id \in Ids(onward) /\ ~rows[i].chunk
    <3> DEFINE v == vote(rows[i].id)
    <3>1. v \in Int /\ rows[i] \in PoolRow
      BY <1>1, <1>3, <2>1
    <3>2. raised[i] = [rows[i] EXCEPT !.rrf = @ + v]
      BY <1>1, <2>1
    <3> HIDE DEF v, raised
    <3> QED  BY <3>1, <3>2, Raising
  <2>2. CASE ~(rows[i].id \in Ids(onward) /\ ~rows[i].chunk)
    BY <1>1, <2>2
  <2> QED  BY <2>1, <2>2
<1>8. ASSUME NEW q \in 1..m PROVE added[q] \in PoolRow /\ added[q].id = new[q].id /\ added[q].chunk = new[q].chunk
  <2> DEFINE v == vote(new[q].id)
  <2>1. new[q].id \in Ids(onward) /\ new[q] \in PoolRow
    BY <1>1, <1>6 DEF Ids
  <2>2. v \in Int /\ new[q] \in PoolRow
    BY <1>3, <2>1, RecallAssumption
  <2>3. added[q] = [new[q] EXCEPT !.rrf = v, !.sim = None]
    BY <1>5
  <2> HIDE DEF v, added
  <2> QED  BY <2>2, <2>3 DEF PoolRow
<1>9. raised \in [1..n -> PoolRow] /\ added \in [1..m -> PoolRow]
  BY <1>1, <1>5, <1>7, <1>8
<1> HIDE DEF raised, added, places
<1>10. raised \in Seq(PoolRow) /\ Len(raised) = n /\ added \in Seq(PoolRow) /\ Len(added) = m
  BY <1>1, <1>5, <1>9, TuplesAreSeqs
<1>11. /\ s \in Seq(PoolRow) /\ Len(s) = n + m
       /\ \A i \in 1..(n + m) : s[i] = IF i <= n THEN raised[i] ELSE added[i - n]
  BY <1>2, <1>10, ConcatProperties
<1>12. \A i \in 1..(n + m) :
          \/ i \in 1..n /\ s[i] = raised[i]
          \/ i \notin 1..n /\ i - n \in 1..m /\ s[i] = added[i - n]
  <2> TAKE i \in 1..(n + m)
  <2>1. s[i] = IF i <= n THEN raised[i] ELSE added[i - n]
    BY <1>11
  <2>4. n \in Nat /\ m \in Nat
    BY <1>1, <1>5
  <2>2. CASE i <= n
    BY <2>1, <2>2, <2>4
  <2>3. CASE ~(i <= n)
    BY <2>1, <2>3, <2>4
  <2> QED  BY <2>2, <2>3
<1>13. DistinctIds(rows, n) /\ DistinctIds(onward, o)
       /\ \A i \in 1..o : ~onward[i].chunk /\ \A j \in 1..n : rows[j].chunk => rows[j].id # onward[i].id
  BY DEF n, o
<1>14. \A id : id \in ClaimsOf(rows) <=> \E i \in 1..n : rows[i].id = id /\ ~rows[i].chunk
  BY ClaimsByRow DEF n
<1>15. ASSUME NEW i \in 1..n, NEW q \in 1..m PROVE raised[i].id # added[q].id
  <2>1. PICK j \in 1..o : new[q] = onward[j] /\ onward[j].id \notin ClaimsOf(rows)
    BY <1>6
  <2>2. rows[i].id # onward[j].id
    BY <1>13, <1>14, <2>1
  <2> QED  BY <1>7, <1>8, <2>1, <2>2
<1>16. ASSUME NEW i \in 1..(n + m), NEW j \in 1..(n + m), s[i].id = s[j].id PROVE i = j
  <2>1. CASE i \in 1..n /\ j \in 1..n
    BY <1>7, <1>12, <1>13, <1>16, <2>1 DEF DistinctIds
  <2>2. CASE i \notin 1..n /\ j \notin 1..n
    <3>1. i - n \in 1..m /\ j - n \in 1..m /\ s[i] = added[i - n] /\ s[j] = added[j - n]
      BY <1>12, <2>2
    <3>2. new[i - n].id = new[j - n].id
      BY <1>8, <1>16, <3>1
    <3>3. i - n = j - n
      BY <1>4, <3>1, <3>2 DEF DistinctIds
    <3> QED  BY <1>1, <3>3
  <2>3. CASE (i \in 1..n) # (j \in 1..n)
    BY <1>12, <1>15, <1>16, <2>3
  <2> QED  BY <2>1, <2>2, <2>3
<1>17. ASSUME NEW i \in 1..o PROVE \E x \in Top(s, n + m) : x.id = onward[i].id /\ ~x.chunk
  <2>1. CASE onward[i].id \in ClaimsOf(rows)
    <3>1. PICK j \in 1..n : rows[j].id = onward[i].id /\ ~rows[j].chunk
      BY <1>14, <2>1
    <3>2. j \in 1..(n + m) /\ s[j] = raised[j]
      BY <1>1, <1>5, <1>11
    <3> QED  BY <1>7, <3>1, <3>2 DEF Top
  <2>2. CASE onward[i].id \notin ClaimsOf(rows)
    <3>1. i \in places
      BY <1>1, <2>2 DEF places
    <3>2. PICK q \in 1..m : new[q] = onward[i]
      BY <1>4, <3>1 DEF Top
    <3>3. n + q \in 1..(n + m) /\ s[n + q] = added[q]
      <4>1. n + q \in 1..(n + m) /\ ~(n + q <= n) /\ (n + q) - n = q
        BY <1>1, <1>5
      <4> QED  BY <1>11, <4>1
    <3> QED  BY <1>8, <1>13, <3>2, <3>3 DEF Top
  <2> QED  BY <2>1, <2>2
<1>18. DistinctIds(s, n + m)
  BY <1>16 DEF DistinctIds
<1> QED  BY <1>11, <1>17, <1>18 DEF s, o

\* What a hop returns: some of the linked claims.
LEMMA HopKeepsRows ==
    ASSUME NEW r \in Requests, NEW found,
           NEW onward, onward = FirstOf(Picked(r.linked, found), HopLimit)
    PROVE  LET s == Merge(r.rows, onward)
           IN  /\ s \in Seq(PoolRow) /\ DistinctIds(s, Len(s))
               /\ \A id \in Ids(onward) : \E x \in Top(s, Len(s)) : x.id = id /\ ~x.chunk
<1> DEFINE p == Picked(r.linked, found)
           l == r.linked
<1>1. /\ r.rows \in Seq(PoolRow) /\ l \in Seq(PoolRow) /\ HopLimit \in Nat
      /\ DOMAIN l = 1..Len(l) /\ DOMAIN r.rows = 1..Len(r.rows)
  BY RecallAssumption, LenProperties
<1>2. /\ DistinctIds(r.rows, Len(r.rows)) /\ DistinctIds(l, Len(l))
      /\ \A i \in 1..Len(l) :
           /\ ~l[i].chunk
           /\ \A j \in 1..Len(r.rows) : r.rows[j].chunk => r.rows[j].id # l[i].id
  BY <1>1, RecallAssumption DEF DistinctIds
<1>3. r.rows \in Seq(PoolRow)
  BY <1>1
<1> HIDE DEF l
<1>4. /\ p \in Seq(PoolRow) /\ DistinctIds(p, Len(p))
      /\ \A x \in Top(p, Len(p)) : \E i \in 1..Len(l) : x = l[i]
  BY <1>1, <1>2, PickedIds DEF l
<1> HIDE DEF p
<1> DEFINE m == Smaller(Len(p), HopLimit)
<1>5. onward \in Seq(PoolRow) /\ Len(onward) = m /\ \A i \in 1..m : onward[i] = p[i]
  <2>1. onward = FirstOf(p, HopLimit)
    BY DEF p
  <2>2. /\ FirstOf(p, HopLimit) \in Seq(PoolRow) /\ Len(FirstOf(p, HopLimit)) = Smaller(Len(p), HopLimit)
        /\ \A i \in 1..Smaller(Len(p), HopLimit) : FirstOf(p, HopLimit)[i] = p[i]
    BY <1>1, <1>4, FirstOfRows
  <2> QED  BY <2>1, <2>2
<1>6. m \in Nat /\ m <= HopLimit /\ m <= Len(p) /\ Len(p) \in Nat
  BY <1>1, <1>4, LenProperties DEF Smaller
<1> HIDE DEF m
<1>7. \A i \in 1..m : i \in 1..Len(p)
  BY <1>6
<1>8. DistinctIds(onward, m)
  BY <1>4, <1>5, <1>7 DEF DistinctIds
<1>9. \A i \in 1..m : \E j \in 1..Len(l) : onward[i] = l[j]
  BY <1>4, <1>5, <1>7 DEF Top
<1>10. \A i \in 1..m : /\ ~onward[i].chunk
                       /\ \A j \in 1..Len(r.rows) : r.rows[j].chunk => r.rows[j].id # onward[i].id
  <2> TAKE i \in 1..m
  <2>1. PICK j \in 1..Len(l) : onward[i] = l[j]
    BY <1>9
  <2> QED  BY <1>2, <2>1
<1> DEFINE s == Merge(r.rows, onward)
<1>11. /\ s \in Seq(PoolRow) /\ DistinctIds(s, Len(s))
       /\ \A i \in 1..Len(onward) : \E x \in Top(s, Len(s)) : x.id = onward[i].id /\ ~x.chunk
  <2>1. /\ onward \in Seq(PoolRow) /\ DistinctIds(onward, Len(onward)) /\ Len(onward) <= HopLimit
        /\ \A i \in 1..Len(onward) :
              /\ ~onward[i].chunk
              /\ \A j \in 1..Len(r.rows) : r.rows[j].chunk => r.rows[j].id # onward[i].id
    BY <1>5, <1>6, <1>8, <1>10
  <2>2. r.rows \in Seq(PoolRow) /\ DistinctIds(r.rows, Len(r.rows))
    BY <1>2, <1>3
  <2> HIDE DEF s
  <2> QED  BY <2>1, <2>2, MergeKeepsRows, ZenonT(60) DEF s
<1> HIDE DEF s
<1>12. \A id \in Ids(onward) : \E x \in Top(s, Len(s)) : x.id = id /\ ~x.chunk
  <2>1. DOMAIN onward = 1..Len(onward)
    BY <1>5, LenProperties
  <2> QED  BY <1>11, <2>1 DEF Ids
<1> QED  BY <1>11, <1>12 DEF s

-----------------------------------------------------------------------------
(* The page, and what is left off it                                       *)
Missing(page, pool) == {row \in pool : \A x \in page : x.id # row.id}

\* A page of distinct rows of the pool, with a claim of the hop if there is one.
DrawnFrom(pool, n, k, voted, page) ==
    /\ page \in Seq(HitRow) /\ Len(page) = Smaller(n, k) /\ DistinctIds(page, Len(page))
    /\ \A x \in Top(page, Len(page)) : \E y \in Top(pool, n) : Alike(x, y)
    /\ k >= 2 /\ (\E y \in Top(pool, n) : IsHop(y, voted)) => \E i \in 1..Len(page) : IsHop(page[i], voted)

SharesOf(P, off, voted, quota, moved) ==
    /\ \A source : source # None /\ Cardinality(Unvoted(source, P, voted)) > quota + moved =>
         \A row \in off :
            \/ row.chunk /\ moved > 0
            \/ SourceKey(row) # None /\ Cardinality(By(SourceKey(row), P)) >= quota - moved
    /\ Cardinality(Slices(P)) > 1 => \A row \in off : row.chunk

\* The page that is taken holds rows of the pool, the hop's claim among them, and
\* is shared out.
LEMMA PageTaken ==
    ASSUME NEW rows \in Seq(HitRow), NEW pool \in Seq(PoolRow), NEW n \in Nat, Len(rows) = n, Len(pool) = n,
           DistinctIds(rows, n), Mirrored(Top(rows, n), Top(pool, n)),
           NEW k \in Nat, k # 0, NEW quota \in Nat, NEW moved \in Nat,
           k < n => SharedOut(rows, n, k, quota, moved), NEW voted
    PROVE  LET page == FirstOf(ReserveTail(rows, k, voted), k)
               P == Top(page, Len(page))
           IN  /\ DrawnFrom(pool, n, k, voted, page)
               /\ SharesOf(P, Missing(P, Top(pool, n)), voted, quota, moved)
<1> DEFINE page == FirstOf(ReserveTail(rows, k, voted), k)
           P == Top(page, Len(page))
           off == Missing(P, Top(pool, n))
<1> DEFINE m == Smaller(n, k)
           asIs == /\ \A i \in 1..m : page[i] = rows[i]
                   /\ k >= 2 /\ (\E i \in 1..n : IsHop(rows[i], voted)) => \E i \in 1..m : IsHop(page[i], voted)
           changed == /\ k < n /\ \A i \in 1..(k - 1) : page[i] = rows[i]
                      /\ \E w \in (k + 1)..n : page[k] = rows[w] /\ IsHop(rows[w], voted)
<1>1. page \in Seq(HitRow) /\ Len(page) = m /\ (asIs \/ changed)
  <2> DEFINE s == FirstOf(ReserveTail(rows, k, voted), k)
             l == Len(rows)
  <2>1. /\ s \in Seq(HitRow) /\ Len(s) = Smaller(l, k)
        /\ \/ /\ \A i \in 1..Smaller(l, k) : s[i] = rows[i]
              /\ k >= 2 /\ (\E i \in 1..l : IsHop(rows[i], voted)) =>
                    \E i \in 1..Smaller(l, k) : IsHop(s[i], voted)
           \/ /\ k < l /\ \A i \in 1..(k - 1) : s[i] = rows[i]
              /\ \E w \in (k + 1)..l : s[k] = rows[w] /\ IsHop(rows[w], voted)
    <3> HIDE DEF s
    <3> QED  BY Promoted DEF s
  <2>2. s = page /\ l = n
    OBVIOUS
  <2> HIDE DEF s, l
  <2> QED  BY <2>1, <2>2
<1>2. /\ m \in Nat /\ m <= n /\ m <= k
      /\ k < n => m = k
      /\ n <= k => m = n
  BY DEF Smaller
<1> HIDE DEF m
<1>3. P = Top(page, m)
  BY <1>1
<1>4. ASSUME NEW i \in 1..m
      PROVE  \/ page[i] = rows[i] /\ i \in 1..n
             \/ i = k /\ k < n /\ \E w \in (k + 1)..n : page[i] = rows[w] /\ IsHop(rows[w], voted)
  <2>1. CASE asIs
    BY <1>2, <2>1
  <2>2. CASE changed
    <3>1. i = k \/ i \in 1..(k - 1)
      BY <1>2
    <3> QED  BY <1>2, <2>2, <3>1
  <2> QED  BY <1>1, <2>1, <2>2
<1>5. ASSUME NEW i \in 1..m PROVE \E j \in 1..n : page[i] = rows[j] /\ (j = i \/ (i = k /\ j > k))
  <2>1. CASE page[i] = rows[i] /\ i \in 1..n
    BY <2>1
  <2>2. CASE i = k /\ \E w \in (k + 1)..n : page[i] = rows[w]
    <3>1. PICK w \in (k + 1)..n : page[i] = rows[w]
      BY <2>2
    <3>2. w \in 1..n /\ w > k
      OBVIOUS
    <3> QED  BY <2>2, <3>1, <3>2
  <2> QED  BY <1>4, <2>1, <2>2
<1>6. DistinctIds(page, m)
  <2> SUFFICES ASSUME NEW i \in 1..m, NEW j \in 1..m, page[i].id = page[j].id PROVE i = j
    BY DEF DistinctIds
  <2>1. PICK a \in 1..n : page[i] = rows[a] /\ (a = i \/ (i = k /\ a > k))
    BY <1>5
  <2>2. PICK b \in 1..n : page[j] = rows[b] /\ (b = j \/ (j = k /\ b > k))
    BY <1>5
  <2>3. a = b
    BY <2>1, <2>2 DEF DistinctIds
  <2> QED  BY <1>2, <2>1, <2>2, <2>3
<1>7. \A x \in P : \E j \in 1..n : x = rows[j]
  <2> TAKE x \in P
  <2>1. PICK i \in 1..m : x = page[i]
    BY <1>3 DEF Top
  <2> QED  BY <1>5, <2>1
<1>8. \A x \in P : \E y \in Top(pool, n) : Alike(x, y)
  <2> TAKE x \in P
  <2>1. x \in Top(rows, n)
    BY <1>7 DEF Top
  <2> QED  BY <2>1 DEF Mirrored
<1>9. ASSUME k >= 2, NEW y \in Top(pool, n), IsHop(y, voted) PROVE \E i \in 1..m : IsHop(page[i], voted)
  <2>1. PICK x \in Top(rows, n) : Alike(x, y)
    BY DEF Mirrored
  <2>2. PICK i \in 1..n : x = rows[i]
    BY DEF Top
  <2>3. IsHop(rows[i], voted)
    BY <1>9, <2>1, <2>2 DEF IsHop, Alike
  <2>4. CASE asIs
    BY <1>9, <2>3, <2>4
  <2>5. CASE changed
    <3>1. IsHop(page[k], voted) /\ k \in 1..m
      BY <1>2, <2>5
    <3> QED  BY <3>1
  <2> QED  BY <1>1, <2>4, <2>5
<1>10. \A i \in 1..(k - 1) : i <= n => rows[i] \in P
  <2> TAKE i \in 1..(k - 1)
  <2> HAVE i <= n
  <2>1. i \in 1..m
    BY <1>2
  <2>2. page[i] = rows[i]
    BY <1>4, <2>1
  <2> QED  BY <1>3, <2>1, <2>2 DEF Top
<1>11. \A x \in P : x \in Top(rows, k) \/ (x.id \in voted /\ ~x.chunk)
  <2> TAKE x \in P
  <2>1. PICK i \in 1..m : x = page[i]
    BY <1>3 DEF Top
  <2>2. CASE page[i] = rows[i] /\ i \in 1..n
    <3>1. i \in 1..k
      BY <1>2
    <3> QED  BY <2>1, <2>2, <3>1 DEF Top
  <2>3. CASE \E w \in (k + 1)..n : page[i] = rows[w] /\ IsHop(rows[w], voted)
    BY <2>1, <2>3 DEF IsHop
  <2> QED  BY <1>4, <2>2, <2>3
<1>12. IsFiniteSet(P)
  <2>1. m \in Nat
    BY <1>2
  <2> QED  BY <1>3, <1>6, <2>1, TopFinite
<1>13. ASSUME NEW row \in off PROVE k < n /\ \E i \in k..n : Alike(rows[i], row)
  <2>1. row \in Top(pool, n) /\ \A x \in P : x.id # row.id
    BY DEF Missing
  <2>2. PICK x \in Top(rows, n) : Alike(x, row)
    BY <2>1 DEF Mirrored
  <2>3. PICK i \in 1..n : x = rows[i]
    BY DEF Top
  <2>4. rows[i] \notin P
    BY <2>1, <2>2, <2>3 DEF Alike
  <2>5. ~(i <= k - 1)
    BY <1>10, <2>4
  <2>6. i \in k..n
    BY <2>5
  <2>7. k < n
    <3> SUFFICES ASSUME ~(k < n) PROVE FALSE
      OBVIOUS
    <3>1. i \in 1..m
      BY <1>2
    <3>2. page[i] = rows[i]
      BY <1>4, <3>1
    <3> QED  BY <1>3, <2>4, <3>1, <3>2 DEF Top
  <2> QED  BY <2>2, <2>3, <2>6, <2>7
<1>14. ASSUME k < n
       PROVE  /\ \A source : source # None /\ Cardinality(Unvoted(source, P, voted)) > quota + moved =>
                   \A i \in k..n :
                      \/ rows[i].chunk /\ moved > 0
                      \/ SourceKey(rows[i]) # None /\ Cardinality(By(SourceKey(rows[i]), P)) >= quota - moved
              /\ Cardinality(Slices(P)) > 1 => \A i \in k..n : rows[i].chunk
  <2>1. \A i \in 1..(k - 1) : rows[i] \in P
    BY <1>10, <1>14
  <2>2. SharedOut(rows, n, k, quota, moved)
    BY <1>14
  <2> HIDE DEF asIs, changed
  <2> QED  BY <1>11, <1>12, <1>14, <2>1, <2>2, SharesSurvive
<1>15. ASSUME NEW source, source # None, Cardinality(Unvoted(source, P, voted)) > quota + moved,
              NEW row \in off
       PROVE  \/ row.chunk /\ moved > 0
              \/ SourceKey(row) # None /\ Cardinality(By(SourceKey(row), P)) >= quota - moved
  <2>1. PICK i \in k..n : k < n /\ Alike(rows[i], row)
    BY <1>13
  <2>2. \/ rows[i].chunk /\ moved > 0
        \/ SourceKey(rows[i]) # None /\ Cardinality(By(SourceKey(rows[i]), P)) >= quota - moved
    BY <1>14, <1>15, <2>1
  <2>3. rows[i].chunk = row.chunk /\ SourceKey(rows[i]) = SourceKey(row)
    BY <2>1 DEF Alike, SourceKey
  <2> QED  BY <2>2, <2>3
<1>16. ASSUME Cardinality(Slices(P)) > 1, NEW row \in off PROVE row.chunk
  <2>1. PICK i \in k..n : k < n /\ Alike(rows[i], row)
    BY <1>13
  <2>2. rows[i].chunk
    BY <1>14, <1>16, <2>1
  <2> QED  BY <2>1, <2>2 DEF Alike
<1> HIDE DEF asIs, changed, off
<1>17. DrawnFrom(pool, n, k, voted, page)
  <2> HIDE DEF page
  <2> QED  BY <1>1, <1>6, <1>8, <1>9 DEF DrawnFrom, m
<1>18. SharesOf(P, off, voted, quota, moved)
  <2> HIDE DEF P
  <2> QED  BY <1>15, <1>16 DEF SharesOf
<1> QED  BY <1>17, <1>18 DEF off

-----------------------------------------------------------------------------
(* The invariant *)

PoolInv ==
    /\ candidates \in Seq(PoolRow) /\ DistinctIds(candidates, Len(candidates))
    /\ \A id \in hopped : \E x \in Top(candidates, Len(candidates)) : x.id = id /\ ~x.chunk
    /\ ~request.search => hopped = {} /\ candidates = request.rows

RankedInv ==
    /\ ranked \in Seq(HitRow) /\ Len(ranked) = Len(candidates) /\ DistinctIds(ranked, Len(ranked))
    /\ Mirrored(Top(ranked, Len(ranked)), Top(candidates, Len(candidates)))

SharedInv ==
    /\ capped.verbatim \in Nat
    /\ request.k < Len(ranked) => SharedOut(ranked, Len(ranked), request.k, Cap(request.k), capped.verbatim)

TakenInv ==
    /\ ranked \in Seq(HitRow) /\ DistinctIds(ranked, Len(ranked))
    /\ Len(ranked) = Smaller(Len(candidates), request.k)
    /\ \A x \in Top(ranked, Len(ranked)) : \E y \in Top(candidates, Len(candidates)) : Alike(x, y)
    /\ request.k >= 2 /\ hopped # {} => \E i \in 1..Len(ranked) : IsHop(ranked[i], hopped)

AnswerInv ==
    /\ ranked \in Seq(HitRow) /\ DistinctIds(ranked, Len(ranked))
    /\ ranked # << >> /\ request.k >= 2 /\ hopped # {} => \E i \in 1..Len(ranked) : IsHop(ranked[i], hopped)
    /\ ~request.search =>
         /\ cut = None /\ Len(ranked) = Smaller(Len(request.rows), request.k)
         /\ \A i \in 1..Len(ranked) : ~ranked[i].chunk
    /\ ranked = << >> => capped = Uncapped /\ (cut = None \/ cut.kept = 0)

RecallInv ==
    /\ recallStep \in {"idle", "hop", "rank", "cap", "page", "cut", "answer", "done"}
    /\ recallStep = "idle" => hopped = {}
    /\ recallStep # "idle" => request \in Requests
    /\ recallStep \notin {"idle", "done"} => ~Refused(request) /\ PoolInv
    /\ recallStep = "hop" => hopped = {} /\ candidates = request.rows
    /\ recallStep \in {"cap", "page"} => RankedInv
    /\ recallStep = "page" => SharedInv
    /\ recallStep = "cut" => TakenInv
    /\ recallStep = "answer" => AnswerInv
    /\ PageShared

\* The rows the store returns are a pool.
LEMMA RowsInPool ==
    ASSUME NEW r \in Requests
    PROVE  r.rows \in Seq(PoolRow) /\ DistinctIds(r.rows, Len(r.rows))
<1>1. r.rows \in Seq(PoolRow) /\ DOMAIN r.rows = 1..Len(r.rows)
  BY RecallAssumption, LenProperties
<1>2. DistinctIds(r.rows, Len(r.rows))
  BY <1>1, RecallAssumption DEF DistinctIds
<1> QED  BY <1>1, <1>2

\* A call that is not refused asks for at least one row.
LEMMA AsksForRows ==
    ASSUME NEW r \in Requests, ~Refused(r)
    PROVE  r.k \in Nat /\ r.k # 0 /\ Cap(r.k) \in Nat
<1>1. r.k \in Nat /\ r.k # 0
  BY RecallAssumption DEF Refused, BadK
<1>2. (r.k + 1) \div 2 \in Nat
  BY <1>1
<1> QED  BY <1>1, <1>2 DEF Cap

\* No call is under way at the start.
LEMMA RecallInitInv == RecallInit => RecallInv
  BY DEF RecallInit, RecallInv, PageShared

\* A call that starts has the rows of the store.
LEMMA RecallStarts == RecallInv /\ Recall => RecallInv'
<1> SUFFICES ASSUME RecallInv, Recall PROVE RecallInv'
  OBVIOUS
<1>1. /\ recallStep = "idle" /\ hopped = {}
      /\ UNCHANGED <<hopped, byScore, ranked, capped, cut, touched, truncated>>
  BY DEF Recall, RecallInv
<1>2. PICK r \in Requests :
        /\ request' = r
        /\ IF Refused(r) THEN recallStep' = "done" /\ UNCHANGED candidates
           ELSE recallStep' = "hop" /\ candidates' = r.rows
  BY DEF Recall
<1>3. CASE Refused(r)
  BY <1>1, <1>2, <1>3 DEF RecallInv, PageShared
<1>4. CASE ~Refused(r)
  <2>1. recallStep' = "hop" /\ candidates' = r.rows /\ request' = r /\ hopped' = {}
    BY <1>1, <1>2, <1>4
  <2>2. PoolInv'
    BY <2>1, RowsInPool DEF PoolInv
  <2> QED  BY <1>4, <2>1, <2>2 DEF RecallInv, PageShared
<1> QED  BY <1>3, <1>4

\* The pool as it came.
LEMMA NoHopKeeps == RecallInv /\ NoHop => RecallInv'
  BY DEF RecallInv, NoHop, PageShared, PoolInv

\* The pool with the claims of the hop.
LEMMA HopWidens == RecallInv /\ Hop => RecallInv'
<1> SUFFICES ASSUME RecallInv, Hop PROVE RecallInv'
  OBVIOUS
<1>1. /\ recallStep = "hop" /\ recallStep' = "rank" /\ request.search /\ request' = request
      /\ request \in Requests /\ candidates = request.rows /\ ~Refused(request)
  BY DEF Hop, RecallInv
<1> DEFINE pool == EntityPool(candidates)
           hubs == Hubs(pool)
           seeds == Seeds(FirstOf(pool, SeedHits), hubs)
           linked(row) == \E e \in ToSet(row.entities) : e \in ToSet(seeds)
           found == {i \in DOMAIN request.linked :
                       linked(request.linked[i]) /\ LeadsOnward(request.linked[i], seeds, hubs)}
           onward == FirstOf(Picked(request.linked, found), HopLimit)
<1>2. candidates' = Merge(request.rows, onward) /\ hopped' = Ids(onward)
  BY <1>1 DEF Hop
<1> HIDE DEF found
<1> HIDE DEF onward
<1>3. onward = FirstOf(Picked(request.linked, found), HopLimit)
  BY DEF onward
<1> DEFINE s == Merge(request.rows, onward)
<1>4. /\ s \in Seq(PoolRow) /\ DistinctIds(s, Len(s))
      /\ \A id \in Ids(onward) : \E x \in Top(s, Len(s)) : x.id = id /\ ~x.chunk
  <2> HIDE DEF s
  <2> QED  BY <1>1, <1>3, HopKeepsRows DEF s
<1> HIDE DEF s
<1>5. candidates' = s
  BY <1>2 DEF s
<1>6. PoolInv'
  BY <1>1, <1>2, <1>4, <1>5 DEF PoolInv
<1> QED  BY <1>1, <1>6 DEF RecallInv, PageShared

\* The ranking has the rows of the pool.
LEMMA RankKeeps == RecallInv /\ RankRows => RecallInv'
<1> SUFFICES ASSUME RecallInv, RankRows PROVE RecallInv'
  OBVIOUS
<1>1. /\ recallStep = "rank" /\ recallStep' = "cap" /\ ranked' = Rank(candidates)
      /\ UNCHANGED <<request, candidates, hopped, capped, cut, touched, truncated>>
  BY DEF RankRows
<1>2. request \in Requests /\ ~Refused(request) /\ PoolInv
  BY <1>1 DEF RecallInv
<1>3. candidates \in Seq(PoolRow) /\ DistinctIds(candidates, Len(candidates))
  BY <1>2 DEF PoolInv
<1> DEFINE s == Rank(candidates)
<1>4. /\ s \in Seq(HitRow) /\ Len(s) = Len(candidates) /\ DistinctIds(s, Len(candidates))
      /\ Mirrored(Top(s, Len(candidates)), Top(candidates, Len(candidates)))
  <2> HIDE DEF s
  <2> QED  BY <1>3, RankMirrors DEF s
<1>5. RankedInv'
  <2> HIDE DEF s
  <2>1. ranked' = s /\ candidates' = candidates
    BY <1>1 DEF s
  <2> QED  BY <1>4, <2>1 DEF RankedInv
<1>6. PoolInv'
  BY <1>1, <1>2 DEF PoolInv
<1> QED  BY <1>1, <1>2, <1>5, <1>6 DEF RecallInv, PageShared

\* The caps share the page out.
LEMMA CapKeeps == RecallInv /\ CapRows => RecallInv'
<1> SUFFICES ASSUME RecallInv, CapRows PROVE RecallInv'
  OBVIOUS
<1> DEFINE k == request.k
           quota == Cap(k)
           first == Reslice(ranked, SourceKeys(ranked), k, quota)
           s == Reslice(first, VerbatimKeys(first), k, VerbatimCap)
           moved == Displaced(VerbatimKeys(first), k, VerbatimCap)
           n == Len(ranked)
<1>1. /\ recallStep = "cap" /\ recallStep' = "page" /\ ranked' = s
      /\ capped'.verbatim = moved
      /\ UNCHANGED <<request, candidates, hopped, byScore, cut, touched, truncated>>
  BY DEF CapRows
<1>2. request \in Requests /\ ~Refused(request) /\ PoolInv /\ RankedInv
  BY <1>1 DEF RecallInv
<1>3. k \in Nat /\ quota \in Nat
  BY <1>2, AsksForRows
<1>4. ranked \in Seq(HitRow) /\ DistinctIds(ranked, n)
  BY <1>2 DEF RankedInv
<1>5. /\ s \in Seq(HitRow) /\ Len(s) = n /\ Top(s, n) = Top(ranked, n) /\ DistinctIds(s, n)
      /\ moved \in Nat /\ (k < n => SharedOut(s, n, k, quota, moved))
  <2> HIDE DEF quota, k
  <2> QED  BY <1>3, <1>4, BothPasses
<1> HIDE DEF s, moved, first, quota, k, n
<1>6. k' = k /\ quota' = quota
  BY <1>1 DEF k, quota
<1>7. Len(ranked') = n /\ n = Len(candidates)
  BY <1>1, <1>2, <1>5 DEF RankedInv, n
<1>8. Mirrored(Top(ranked, n), Top(candidates, Len(candidates)))
  BY <1>2 DEF RankedInv, n
<1>9. RankedInv'
  BY <1>1, <1>5, <1>7, <1>8 DEF RankedInv
<1>10. SharedInv'
  <2>1. request'.k = k /\ Cap(request'.k) = quota
    BY <1>1 DEF k, quota
  <2> QED  BY <1>1, <1>5, <1>7, <2>1 DEF SharedInv
<1>11. PoolInv'
  BY <1>1, <1>2 DEF PoolInv
<1> QED  BY <1>1, <1>2, <1>9, <1>10, <1>11 DEF RecallInv, PageShared

\* The counts of the shares, in the words of the model.
LEMMA SharedWords ==
    ASSUME NEW P, NEW off, NEW voted, NEW quota \in Nat, NEW moved \in Nat,
           SharesOf(P, off, voted, quota, moved)
    PROVE  Shared(P, off, voted, quota, moved)
<1> DEFINE flooding == {source \in {SourceKey(row) : row \in P} \ {None} :
                          Cardinality({row \in By(source, P) : row.id \notin voted}) > quota + moved}
<1>1. ASSUME flooding # {}
      PROVE  \A row \in off :
                \/ row.chunk /\ moved > 0
                \/ SourceKey(row) # None /\ Cardinality(By(SourceKey(row), P)) >= quota - moved
  <2>1. PICK source : source \in flooding
    BY <1>1
  <2>2. source # None /\ Cardinality(Unvoted(source, P, voted)) > quota + moved
    BY <2>1 DEF Unvoted
  <2> QED  BY <2>2 DEF SharesOf
<1>2. Cardinality({row \in P : row.chunk}) > VerbatimCap => \A row \in off : row.chunk
  BY DEF SharesOf, Slices, VerbatimCap
<1> QED  BY <1>1, <1>2 DEF Shared

\* The ids of a page are as many as its rows.
LEMMA IdsCount ==
    ASSUME NEW S, NEW rows \in Seq(S), DistinctIds(rows, Len(rows))
    PROVE  Cardinality(Ids(rows)) = Len(rows)
<1> DEFINE n == Len(rows)
           f == [i \in 1..n |-> rows[i].id]
           ids == Ids(rows)
<1>1. DOMAIN rows = 1..n /\ n \in Nat
  BY LenProperties
<1>2. (\A i \in 1..n : f[i] \in ids) /\ \A x \in ids : \E i \in 1..n : x = f[i]
  BY <1>1 DEF Ids
<1>3. \A i, j \in 1..n : f[i] = f[j] => i = j
  BY DEF DistinctIds
<1>4. IsFiniteSet(1..n) /\ Cardinality(1..n) = n
  BY <1>1, CountTo
<1> HIDE DEF f, ids, n
<1> QED  BY <1>2, <1>3, <1>4, ImageCount DEF ids, n

\* The page is taken as shared out.
LEMMA TakeKeeps == RecallInv /\ TakePage => RecallInv'
<1> SUFFICES ASSUME RecallInv, TakePage PROVE RecallInv'
  OBVIOUS
<1> DEFINE k == request.k
           quota == Cap(k)
           moved == capped.verbatim
           n == Len(ranked)
           page == FirstOf(ReserveTail(ranked, k, hopped), k)
           P == Top(page, Len(page))
           pool == candidates
           off == Missing(P, Top(pool, n))
<1>1. /\ recallStep = "page" /\ recallStep' = "cut" /\ ranked' = page
      /\ UNCHANGED <<request, candidates, hopped, byScore, capped, cut, touched, truncated>>
  BY DEF TakePage
<1>2. request \in Requests /\ ~Refused(request) /\ PoolInv /\ RankedInv /\ SharedInv
  BY <1>1 DEF RecallInv
<1>3. k \in Nat /\ k # 0 /\ quota \in Nat /\ moved \in Nat
  BY <1>2, AsksForRows DEF SharedInv
<1>4. /\ ranked \in Seq(HitRow) /\ candidates \in Seq(PoolRow) /\ n \in Nat /\ Len(candidates) = n
      /\ DistinctIds(ranked, n) /\ Mirrored(Top(ranked, n), Top(pool, n))
      /\ k < n => SharedOut(ranked, n, k, quota, moved)
  BY <1>2, LenProperties DEF RankedInv, SharedInv, PoolInv
<1>5. DrawnFrom(pool, n, k, hopped, page) /\ SharesOf(P, off, hopped, quota, moved)
  <2>1. Len(ranked) = n /\ pool \in Seq(PoolRow) /\ Len(pool) = n
    BY <1>4
  <2> HIDE DEF pool, quota, moved, k, n
  <2> QED  BY <1>3, <1>4, <2>1, PageTaken
<1>5a. /\ page \in Seq(HitRow) /\ Len(page) = Smaller(n, k) /\ DistinctIds(page, Len(page))
       /\ \A x \in P : \E y \in Top(pool, n) : Alike(x, y)
       /\ k >= 2 /\ (\E y \in Top(pool, n) : IsHop(y, hopped)) => \E i \in 1..Len(page) : IsHop(page[i], hopped)
  BY <1>5 DEF DrawnFrom
<1> HIDE DEF page
<1>6. Page' = P /\ OnPage' = Ids(page)
  <2>1. DOMAIN page = 1..Len(page)
    BY <1>5a, LenProperties
  <2>2. Page' = {page[i] : i \in DOMAIN page}
    BY <1>1 DEF Page, ToSet
  <2> QED  BY <1>1, <2>1, <2>2 DEF OnPage, Top
<1>7. LeftOff' = off
  <2>1. DOMAIN candidates = 1..n
    BY <1>4, LenProperties
  <2>2. ToSet(candidates) = Top(pool, n)
    BY <2>1 DEF ToSet, Top
  <2>3. \A id : id \in Ids(page) <=> \E x \in P : x.id = id
    BY <1>5a, IdsAreTop
  <2>4. LeftOff' = {row \in Top(pool, n) : row.id \notin Ids(page)}
    BY <1>1, <1>6, <2>2 DEF LeftOff
  <2> QED  BY <2>3, <2>4 DEF Missing
<1>8. Cardinality(OnPage') = Len(page)
  BY <1>5a, <1>6, IdsCount
<1>9. Shared(P, off, hopped, quota, moved)
  <2> HIDE DEF P, off, quota, moved
  <2> QED  BY <1>3, <1>5, SharedWords
<1>10. PageShared'
  <2>1. /\ Len(ranked') = Len(page) /\ Len(page) = Smaller(n, k)
        /\ Smaller(Len(candidates'), request'.k) = Smaller(n, k)
    BY <1>1, <1>4, <1>5a
  <2>2. Shared(Page', LeftOff', hopped', Cap(request'.k), capped'.verbatim)
    BY <1>1, <1>6, <1>7, <1>9
  <2>3. Cardinality(OnPage') = Len(ranked')
    BY <1>8, <2>1
  <2> QED  BY <2>1, <2>2, <2>3 DEF PageShared
<1>11. TakenInv'
  <2>1. ranked' \in Seq(HitRow) /\ DistinctIds(ranked', Len(ranked'))
    BY <1>1, <1>5a
  <2>2. Len(ranked') = Smaller(Len(candidates'), request'.k)
    BY <1>1, <1>4, <1>5a
  <2>3. \A x \in Top(ranked', Len(ranked')) : \E y \in Top(candidates', Len(candidates')) : Alike(x, y)
    BY <1>1, <1>4, <1>5a
  <2>4. ASSUME request'.k >= 2, hopped' # {} PROVE \E i \in 1..Len(ranked') : IsHop(ranked'[i], hopped')
    <3>1. PICK id \in hopped : TRUE
      BY <1>1, <2>4
    <3>2. \E y \in Top(pool, n) : IsHop(y, hopped)
      BY <1>2, <1>4, <3>1 DEF PoolInv, IsHop
    <3>3. \E i \in 1..Len(page) : IsHop(page[i], hopped)
      BY <1>1, <1>5a, <2>4, <3>2
    <3> QED  BY <1>1, <3>3
  <2> QED  BY <2>1, <2>2, <2>3, <2>4 DEF TakenInv
<1>12. PoolInv'
  BY <1>1, <1>2 DEF PoolInv
<1> QED  BY <1>1, <1>2, <1>10, <1>11, <1>12 DEF RecallInv

\* Nothing of a page is lost where nothing is cut; what the trim cuts is not a
\* claim of the hop.
LEMMA CutKeepsRows ==
    ASSUME TakenInv, NEW after,
           LET spared == {i \in DOMAIN ranked : Protected(ranked[i])}
           IN  after \in {ranked, << >>, Trim(ranked, spared)}
    PROVE  /\ after \in Seq(HitRow) /\ DistinctIds(after, Len(after))
           /\ after # << >> /\ request.k >= 2 /\ hopped # {} => \E i \in 1..Len(after) : IsHop(after[i], hopped)
<1> DEFINE n == Len(ranked)
           spared == {i \in DOMAIN ranked : Protected(ranked[i])}
           places == {i \in DOMAIN ranked : i <= Knee(ranked) \/ i \in spared \/ ~Expendable(ranked[i])}
           p == Picked(ranked, places)
<1>1. /\ ranked \in Seq(HitRow) /\ DistinctIds(ranked, n) /\ DOMAIN ranked = 1..n
      /\ request.k >= 2 /\ hopped # {} => \E i \in 1..n : IsHop(ranked[i], hopped)
  BY LenProperties DEF TakenInv
<1>2. CASE after = ranked
  BY <1>1, <1>2
<1>3. CASE after = << >>
  <2>1. << >> \in Seq(HitRow) /\ Len(<< >>) = 0
    BY EmptySeq
  <2>2. DistinctIds(<< >>, 0)
    BY DEF DistinctIds
  <2> QED  BY <1>3, <2>1, <2>2
<1>4. CASE after = Trim(ranked, spared)
  <2>1. after = p
    BY <1>4 DEF Trim
  <2>2. \A i \in 1..n : IsHop(ranked[i], hopped) => i \in places
    BY <1>1 DEF IsHop, Protected
  <2> HIDE DEF places
  <2>3. /\ p \in Seq(HitRow) /\ DistinctIds(p, Len(p))
        /\ \A i \in 1..n : i \in places => ranked[i] \in Top(p, Len(p))
    BY <1>1, PickedIds
  <2>4. ASSUME request.k >= 2, hopped # {} PROVE \E i \in 1..Len(p) : IsHop(p[i], hopped)
    <3>1. PICK i \in 1..n : IsHop(ranked[i], hopped)
      BY <1>1, <2>4
    <3>2. ranked[i] \in Top(p, Len(p))
      BY <2>2, <2>3, <3>1
    <3> HIDE DEF p
    <3>3. PICK q \in 1..Len(p) : ranked[i] = p[q]
      BY <3>2 DEF Top
    <3> QED  BY <3>1, <3>3
  <2> QED  BY <2>1, <2>3, <2>4
<1> QED  BY <1>2, <1>3, <1>4

\* The cut leaves a listing alone and spares the hop's claim.
LEMMA CutKeeps == RecallInv /\ CutPage => RecallInv'
<1> SUFFICES ASSUME RecallInv, CutPage PROVE RecallInv'
  OBVIOUS
<1> DEFINE spared == {i \in DOMAIN ranked : Protected(ranked[i])}
           asIs == ~request.search \/ ~(Abstains(ranked) \/ HasKnee(ranked))
           after == IF asIs THEN ranked
                    ELSE IF Abstains(ranked) THEN << >> ELSE Trim(ranked, spared)
<1>1. /\ recallStep = "cut" /\ recallStep' = "answer" /\ ranked' = after
      /\ cut' = IF Len(after) < Len(ranked) THEN CutTo(after) ELSE None
      /\ capped' = IF after = << >> THEN Uncapped ELSE capped
      /\ UNCHANGED <<request, candidates, hopped, byScore, touched, truncated>>
  BY DEF CutPage
<1>2. request \in Requests /\ ~Refused(request) /\ PoolInv /\ TakenInv
  BY <1>1 DEF RecallInv
<1>3. after \in {ranked, << >>, Trim(ranked, spared)} /\ (~request.search => after = ranked)
  OBVIOUS
<1> HIDE DEF after
<1>4. /\ after \in Seq(HitRow) /\ DistinctIds(after, Len(after))
      /\ after # << >> /\ request.k >= 2 /\ hopped # {} => \E i \in 1..Len(after) : IsHop(after[i], hopped)
  BY <1>2, <1>3, CutKeepsRows
<1>5. ASSUME ~request.search
      PROVE  /\ cut' = None /\ Len(ranked') = Smaller(Len(request.rows), request.k)
             /\ \A i \in 1..Len(ranked') : ~ranked'[i].chunk
  <2>1. ranked' = ranked /\ candidates = request.rows
    BY <1>1, <1>2, <1>3, <1>5 DEF PoolInv
  <2>2. Len(ranked) \in Nat /\ Len(ranked) = Smaller(Len(request.rows), request.k)
    BY <1>2, <2>1, LenProperties DEF TakenInv
  <2>3. cut' = None
    BY <1>1, <1>3, <1>5, <2>2
  <2>4. ASSUME NEW i \in 1..Len(ranked) PROVE ~ranked[i].chunk
    <3>1. ranked[i] \in Top(ranked, Len(ranked))
      BY DEF Top
    <3>2. PICK y \in Top(candidates, Len(candidates)) : Alike(ranked[i], y)
      BY <1>2, <3>1 DEF TakenInv
    <3>3. PICK j \in 1..Len(request.rows) : y = request.rows[j]
      BY <2>1 DEF Top
    <3>4. j \in DOMAIN request.rows
      BY <1>2, <2>1, LenProperties DEF PoolInv
    <3>5. ~y.chunk
      BY <1>2, <1>5, <3>3, <3>4, RecallAssumption
    <3> QED  BY <3>2, <3>5 DEF Alike
  <2> QED  BY <2>1, <2>2, <2>3, <2>4
<1>6. ranked' = << >> => capped' = Uncapped /\ (cut' = None \/ cut'.kept = 0)
  <2> SUFFICES ASSUME after = << >> PROVE capped' = Uncapped /\ (cut' = None \/ cut'.kept = 0)
    BY <1>1
  <2>1. Len(after) = 0
    BY EmptySeq
  <2>2. CutTo(after).kept = 0
    BY <2>1 DEF CutTo
  <2> QED  BY <1>1, <2>2
<1>7. AnswerInv'
  BY <1>1, <1>4, <1>5, <1>6 DEF AnswerInv
<1>8. PoolInv'
  BY <1>1, <1>2 DEF PoolInv
<1> QED  BY <1>1, <1>2, <1>7, <1>8 DEF RecallInv, PageShared

\* The answer changes no row.
LEMMA AnswerKeeps == RecallInv /\ Answer => RecallInv'
  BY DEF RecallInv, Answer, PageShared

\* Nothing of the call is kept.
LEMMA ReplyKeeps == RecallInv /\ RecallReply => RecallInv'
  BY DEF RecallInv, RecallReply, PageShared

\* Every step of run keeps the invariant.
LEMMA RecallInvKept == RecallInv /\ [RecallNext]_recallVars => RecallInv'
<1> SUFFICES ASSUME RecallInv, [RecallNext]_recallVars PROVE RecallInv'
  OBVIOUS
<1>1. CASE UNCHANGED recallVars
  BY <1>1 DEF recallVars, RecallInv, PageShared, PoolInv, RankedInv, SharedInv, TakenInv, AnswerInv,
     OnPage, Page, LeftOff
<1>2. CASE RecallNext
  BY <1>2, RecallStarts, NoHopKeeps, HopWidens, RankKeeps, CapKeeps, TakeKeeps, CutKeeps, AnswerKeeps,
     ReplyKeeps DEF RecallNext
<1> QED  BY <1>1, <1>2

\* A page of claims alone carries as many claims as rows.
LEMMA AllClaims ==
    ASSUME NEW S, NEW rows \in Seq(S), DistinctIds(rows, Len(rows)),
           \A i \in 1..Len(rows) : ~rows[i].chunk
    PROVE  ClaimsOf(rows) = Ids(rows) /\ Cardinality(ClaimsOf(rows)) = Len(rows)
<1>1. DOMAIN rows = 1..Len(rows)
  BY LenProperties
<1>2. \A id : id \in ClaimsOf(rows) <=> id \in Ids(rows)
  BY <1>1, ClaimsByRow DEF Ids
<1>3. ClaimsOf(rows) = Ids(rows)
  BY <1>2
<1> QED  BY <1>3, IdsCount

\* What the answer says of the page.
LEMMA HonestAnswer == PoolHoldsAPage /\ RecallInv /\ Answer => AnswerHonest'
<1> SUFFICES ASSUME PoolHoldsAPage, RecallInv, Answer PROVE AnswerHonest'
  OBVIOUS
<1>1. /\ recallStep = "answer" /\ touched' = Reinforces /\ truncated' = Truncates
      /\ UNCHANGED <<request, candidates, hopped, byScore, ranked, capped, cut>>
  BY DEF Answer
<1>2. request \in Requests /\ ~Refused(request) /\ AnswerInv
  BY <1>1 DEF RecallInv
<1>3. request.k \in Nat /\ request.k # 0
  BY <1>2, AsksForRows
<1>4. ranked \in Seq(HitRow) /\ DistinctIds(ranked, Len(ranked)) /\ Len(ranked) \in Nat
  BY <1>2, LenProperties DEF AnswerInv
<1>5. ASSUME ranked # << >>, request.k >= 2, hopped # {} PROVE OnPage \cap hopped # {}
  <2>1. PICK i \in 1..Len(ranked) : IsHop(ranked[i], hopped)
    BY <1>2, <1>5 DEF AnswerInv
  <2>2. i \in DOMAIN ranked
    BY <1>4, LenProperties
  <2>3. ranked[i].id \in OnPage
    BY <2>2 DEF OnPage, Ids
  <2> QED  BY <2>1, <2>3 DEF IsHop
<1>6. ASSUME ~request.search, ~Truncates PROVE Cardinality(OnPage) = request.matching
  <2>1. /\ cut = None /\ Len(ranked) = Smaller(Len(request.rows), request.k)
        /\ \A i \in 1..Len(ranked) : ~ranked[i].chunk
    BY <1>2, <1>6 DEF AnswerInv
  <2>2. Cardinality(ClaimsOnPage) = Len(ranked) /\ ClaimsOnPage = OnPage
    BY <1>4, <2>1, AllClaims DEF ClaimsOnPage, OnPage
  <2>3. Len(ranked) = request.k => request.matching <= Len(ranked)
    <3>1. ~(Len(ranked) = request.k /\ request.matching > Cardinality(ClaimsOnPage))
      BY <1>6, <2>1 DEF Truncates
    <3>2. request.matching \in Nat
      BY <1>2, <1>6, RecallAssumption
    <3> QED  BY <1>4, <2>2, <3>1, <3>2
  <2>4. /\ request.matching \in Nat /\ Len(request.rows) <= request.matching
        /\ Len(request.rows) \in Nat
        /\ Len(request.rows) < request.k => Len(request.rows) = request.matching
    BY <1>2, <1>6, RecallAssumption, LenProperties DEF PoolHoldsAPage
  <2>5. Len(ranked) = request.matching
    BY <1>3, <1>4, <2>1, <2>3, <2>4 DEF Smaller
  <2> QED  BY <2>2, <2>5
<1>7. ASSUME ranked = << >> PROVE capped.source = 0 /\ Reinforces = {} /\ ~Truncates
  <2>1. capped = Uncapped /\ (cut = None \/ cut.kept = 0)
    BY <1>2, <1>7 DEF AnswerInv
  <2>2. Len(ranked) = 0
    BY <1>7, EmptySeq
  <2>3. \A id : id \notin ClaimsOnPage
    <3>1. \A id : id \in ClaimsOf(ranked) <=> \E i \in 1..Len(ranked) : ranked[i].id = id /\ ~ranked[i].chunk
      BY <1>4, ClaimsByRow
    <3>2. \A i \in 1..Len(ranked) : FALSE
      BY <2>2
    <3> QED  BY <3>1, <3>2 DEF ClaimsOnPage
  <2>4. Reinforces = {}
    BY <2>3 DEF Reinforces
  <2>5. ~Truncates
    BY <1>3, <2>1, <2>2 DEF Truncates
  <2> QED  BY <2>1, <2>4, <2>5 DEF Uncapped
<1> QED  BY <1>1, <1>5, <1>6, <1>7 DEF AnswerHonest, OnPage

\* The page holds as many different rows as it can, and is shared out among the
\* sources as the caps of tools/occupancy.rs and the promotion of tools/hop.rs
\* leave it, for any rows and any k.
THEOREM PagesAreShared == RecallSpec => []PageShared
<1>1. RecallInv => PageShared
  BY DEF RecallInv
<1> QED  BY RecallInitInv, RecallInvKept, <1>1, PTL DEF RecallSpec

\* An answer of tools/recall.rs keeps a claim of the hop where there is room for
\* two, a listing says when it is not the whole selection, and an answer without
\* rows reports no cap and reinforces nothing; a listing shorter than a page must
\* be the whole selection.
THEOREM AnswersAreHonest == PoolHoldsAPage => (RecallSpec => []AnswerHonest)
<1> SUFFICES ASSUME PoolHoldsAPage PROVE RecallSpec => []AnswerHonest
  OBVIOUS
<1>1. RecallInit => AnswerHonest
  BY DEF RecallInit, AnswerHonest
<1>2. RecallInv /\ AnswerHonest /\ [RecallNext]_recallVars => AnswerHonest'
  <2> SUFFICES ASSUME RecallInv, AnswerHonest, [RecallNext]_recallVars PROVE AnswerHonest'
    OBVIOUS
  <2>1. CASE UNCHANGED recallVars
    BY <2>1 DEF recallVars, AnswerHonest, OnPage
  <2>2. CASE Recall
    BY <2>2 DEF Recall, AnswerHonest
  <2>3. CASE Answer
    BY <2>3, HonestAnswer
  <2>4. CASE NoHop \/ Hop \/ RankRows \/ CapRows \/ TakePage \/ CutPage \/ RecallReply
    BY <2>4 DEF NoHop, Hop, RankRows, CapRows, TakePage, CutPage, RecallReply, AnswerHonest
  <2> QED  BY <2>1, <2>2, <2>3, <2>4 DEF RecallNext
<1> QED  BY RecallInitInv, RecallInvKept, <1>1, <1>2, PTL DEF RecallSpec

=============================================================================
