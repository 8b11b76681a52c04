---------------------------- MODULE CommonProofs ----------------------------
(***************************************************************************)
(* What the operators of Common and the folds of the components compute,   *)
(* for any sequence, and the counting of finite sets, cited by the modules *)
(* that prove theorems of the components.                                  *)
(***************************************************************************)
EXTENDS Common, FiniteSetTheorems, SequenceTheorems, WellFoundedInduction, TLAPS

-----------------------------------------------------------------------------
(* Recursive functions, and the sequences they pick *)

\* A set of numbers that is not empty has a least one.
LEMMA LeastIndex ==
    ASSUME NEW S \in SUBSET Nat, S # {}
    PROVE  \E k \in S : \A m \in S : ~(m < k)
<1>1. IsWellFoundedOn(OpToRel(<, Nat), Nat)
  BY NatLessThanWellFounded
<1>2. PICK k \in S : \A m \in S : <<m, k>> \notin OpToRel(<, Nat)
  BY <1>1, WFMin
<1> QED  BY <1>2 DEF OpToRel

\* Taking n steps one after the other, from base.
Runs(f, n, S, base, g) ==
    f \in [0..n -> S] /\ f[0] = base /\ \A i \in 1..n : f[i] = g[i][f[i - 1]]

\* There is such a run, of any length.
LEMMA Iterated ==
    ASSUME NEW n \in Nat, NEW S, NEW base \in S, NEW g \in [1..n -> [S -> S]]
    PROVE  \E f : Runs(f, n, S, base, g)
<1> DEFINE Z == {k \in 0..n : ~\E f : Runs(f, k, S, base, g)}
<1>1. ASSUME Z # {} PROVE FALSE
  <2>1. PICK k \in Z : \A m \in Z : ~(m < k)
    <3>1. Z \in SUBSET Nat
      OBVIOUS
    <3> HIDE DEF Z
    <3> QED  BY <1>1, <3>1, LeastIndex
  <2>2. k # 0
    <3>1. Runs([i \in 0..0 |-> base], 0, S, base, g)
      BY DEF Runs
    <3> QED  BY <2>1, <3>1
  <2>3. k - 1 \in 0..n /\ k - 1 \notin Z /\ k \in 1..n
    BY <2>1, <2>2
  <2>4. PICK f : Runs(f, k - 1, S, base, g)
    BY <2>3
  <2> DEFINE last == g[k][f[k - 1]]
             h == [i \in 0..k |-> IF i = k THEN last ELSE f[i]]
  <2>5. last \in S
    BY <2>3, <2>4 DEF Runs
  <2> HIDE DEF last
  <2>6. h \in [0..k -> S] /\ h[0] = base
    BY <2>3, <2>4, <2>5 DEF Runs
  <2>7. ASSUME NEW i \in 1..k PROVE h[i] = g[i][h[i - 1]]
    <3>1. i - 1 \in 0..(k - 1) /\ h[i - 1] = f[i - 1]
      BY <2>3
    <3>2. CASE i = k
      BY <3>1, <3>2 DEF last
    <3>3. CASE i # k
      <4>1. i \in 1..(k - 1) /\ h[i] = f[i]
        BY <2>3, <3>3
      <4> QED  BY <2>4, <3>1, <4>1 DEF Runs
    <3> QED  BY <3>2, <3>3
  <2> HIDE DEF h
  <2>8. Runs(h, k, S, base, g)
    BY <2>6, <2>7 DEF Runs
  <2> QED  BY <2>1, <2>8
<1>2. n \notin Z
  BY <1>1
<1> QED  BY <1>2

\* A function on 1..n is a sequence of length n.
LEMMA TuplesAreSeqs ==
    ASSUME NEW S, NEW n \in Nat, NEW f \in [1..n -> S]
    PROVE  f \in Seq(S) /\ Len(f) = n
<1>1. f \in Seq(S)
  BY SeqDef
<1>2. DOMAIN f = 1..n /\ DOMAIN f = 1..Len(f) /\ Len(f) \in Nat
  BY <1>1, LenProperties
<1> QED  BY <1>1, <1>2

\* What Picked builds, place by place.
PickSteps(upto, s, places, n, S) ==
    /\ upto[0] = << >>
    /\ \A i \in 1..n : upto[i] = IF i \in places THEN Append(upto[i - 1], s[i]) ELSE upto[i - 1]
    /\ \A i \in 0..n : upto[i] \in S

\* Picked is built place by place.
LEMMA PickedSteps ==
    ASSUME NEW X, NEW s \in Seq(X), NEW places
    PROVE  \E upto : /\ PickSteps(upto, s, places, Len(s), Seq({s[i] : i \in DOMAIN s \cap places}))
                     /\ Picked(s, places) = upto[Len(s)]
<1> DEFINE n == Len(s)
           Y == {s[i] : i \in DOMAIN s \cap places}
           S == Seq(Y)
           next(a, i) == IF i \in places THEN Append(a, s[i]) ELSE a
           F(f) == [i \in 0..n |-> IF i = 0 THEN << >> ELSE next(f[i - 1], i)]
           upto == CHOOSE f : f = F(f)
<1>1. n \in Nat /\ DOMAIN s = 1..n
  BY LenProperties
<1>2. Picked(s, places) = upto[n]
  BY DEF Picked
<1>3. \A i \in 1..n : i \in places => s[i] \in Y
  BY <1>1
<1>4. << >> \in S /\ \A a \in S, y \in Y : Append(a, y) \in S
  <2> HIDE DEF Y
  <2> QED  BY EmptySeq, AppendProperties
<1> HIDE DEF n, Y, S
<1>5. \A a \in S, i \in 1..n : next(a, i) \in S
  BY <1>3, <1>4
<1>6. \A a, i : next(a, i) = IF i \in places THEN Append(a, s[i]) ELSE a
  OBVIOUS
<1> HIDE DEF next
<1>7. \E f : f = F(f)
  <2> DEFINE g == [i \in 1..n |-> [a \in S |-> next(a, i)]]
             base == << >>
  <2>1. g \in [1..n -> [S -> S]] /\ base \in S
    BY <1>4, <1>5
  <2> HIDE DEF g
  <2>2. PICK f : Runs(f, n, S, base, g)
    BY <1>1, <2>1, Iterated
  <2>3. f \in [0..n -> S] /\ f[0] = base /\ \A i \in 1..n : f[i] = g[i][f[i - 1]]
    BY <2>2 DEF Runs
  <2>4. \A i \in 1..n : f[i] = next(f[i - 1], i)
    <3> TAKE i \in 1..n
    <3>1. f[i - 1] \in S
      BY <1>1, <2>3
    <3> QED  BY <2>3, <3>1 DEF g
  <2>5. \A i \in 0..n : f[i] = IF i = 0 THEN base ELSE next(f[i - 1], i)
    BY <1>1, <2>3, <2>4
  <2>6. f = F(f)
    BY <2>3, <2>5
  <2> QED  BY <2>6
<1>8. upto = F(upto)
  <2> HIDE DEF F
  <2> QED  BY <1>7
<1> HIDE DEF upto
<1>9. upto[0] = << >> /\ \A i \in 1..n : upto[i] = next(upto[i - 1], i)
  BY <1>1, <1>8
<1> DEFINE Bad == {i \in 0..n : upto[i] \notin S}
<1>10. ASSUME Bad # {} PROVE FALSE
  <2>1. PICK i \in Bad : \A m \in Bad : ~(m < i)
    <3>1. Bad \in SUBSET Nat
      BY <1>1
    <3> HIDE DEF Bad
    <3> QED  BY <1>10, <3>1, LeastIndex
  <2>2. i \in 0..n /\ i # 0
    BY <1>4, <1>9, <2>1
  <2>3. i - 1 \in 0..n /\ i \in 1..n /\ i - 1 < i
    BY <1>1, <2>2
  <2>4. upto[i - 1] \in S
    BY <2>1, <2>3
  <2>5. upto[i] \in S
    BY <1>5, <1>9, <2>3, <2>4
  <2> QED  BY <2>1, <2>5
<1>11. \A i \in 0..n : upto[i] \in S
  BY <1>1, <1>10
<1>12. \A i \in 1..n : upto[i] = IF i \in places THEN Append(upto[i - 1], s[i]) ELSE upto[i - 1]
  BY <1>6, <1>9
<1>13. PickSteps(upto, s, places, n, S)
  BY <1>9, <1>11, <1>12 DEF PickSteps
<1> QED  BY <1>2, <1>13 DEF S, Y, n

\* What is picked from a sequence is what it has at those places.
LEMMA PickedSeq ==
    \A X : \A s \in Seq(X) : \A places :
        Picked(s, places) \in Seq({s[i] : i \in DOMAIN s \cap places})
<1> SUFFICES ASSUME NEW X, NEW s \in Seq(X), NEW places
             PROVE  Picked(s, places) \in Seq({s[i] : i \in DOMAIN s \cap places})
  OBVIOUS
<1> DEFINE S == Seq({s[i] : i \in DOMAIN s \cap places})
<1>1. PICK upto : PickSteps(upto, s, places, Len(s), S) /\ Picked(s, places) = upto[Len(s)]
  BY PickedSteps
<1>2. Len(s) \in 0..Len(s)
  BY LenProperties
<1> HIDE DEF S
<1>3. Picked(s, places) \in S
  BY <1>1, <1>2 DEF PickSteps
<1> QED  BY <1>3 DEF S

\* p has what s has at the places up to i, each place once.
PicksFrom(p, s, places, i) ==
    \E from \in [1..Len(p) -> 1..i] :
        /\ \A q \in 1..Len(p) : from[q] \in places /\ p[q] = s[from[q]]
        /\ \A q, r \in 1..Len(p) : from[q] = from[r] => q = r
        /\ \A j \in 1..i : j \in places => \E q \in 1..Len(p) : from[q] = j

\* Each place that is picked is there once.
LEMMA PickedRows ==
    ASSUME NEW X, NEW s \in Seq(X), NEW places
    PROVE  Picked(s, places) \in Seq(X) /\ PicksFrom(Picked(s, places), s, places, Len(s))
<1> DEFINE n == Len(s)
           Y == {s[i] : i \in DOMAIN s \cap places}
           S == Seq(Y)
<1>1. n \in Nat /\ DOMAIN s = 1..n /\ \A i \in 1..n : s[i] \in X
  BY LenProperties, ElementOfSeq
<1>2. PICK upto : PickSteps(upto, s, places, n, S) /\ Picked(s, places) = upto[n]
  BY PickedSteps
<1>3. \A i \in 1..n : i \in places => s[i] \in Y
  BY <1>1
<1>4. Y \in SUBSET X
  BY <1>1
<1> HIDE DEF n, Y
<1>5. \A a \in S : a \in Seq(X)
  <2> TAKE a \in S
  <2>1. Len(a) \in Nat /\ DOMAIN a = 1..Len(a) /\ a \in [1..Len(a) -> Y]
    BY LenProperties
  <2>2. a \in [1..Len(a) -> X]
    BY <1>4, <2>1
  <2> QED  BY <2>1, <2>2, TuplesAreSeqs
<1> DEFINE Bad == {i \in 0..n : ~PicksFrom(upto[i], s, places, i)}
<1>6. ASSUME Bad # {} PROVE FALSE
  <2>1. PICK i \in Bad : \A m \in Bad : ~(m < i)
    <3>1. Bad \in SUBSET Nat
      BY <1>1
    <3> HIDE DEF Bad
    <3> QED  BY <1>6, <3>1, LeastIndex
  <2>2. i # 0
    <3>1. upto[0] = << >> /\ Len(<< >>) = 0
      BY <1>2, EmptySeq DEF PickSteps
    <3> DEFINE from == [q \in 1..0 |-> 0]
               none == upto[0]
    <3>2. from \in [1..0 -> 1..0] /\ Len(none) = 0 /\ (\A q : q \notin 1..0)
      BY <3>1
    <3> HIDE DEF from, none
    <3>3. PicksFrom(none, s, places, 0)
      <4>1. from \in [1..Len(none) -> 1..0]
        BY <3>2
      <4>2. \A q \in 1..Len(none) : FALSE
        BY <3>2
      <4>3. \A q \in 1..0 : FALSE
        BY <3>2
      <4> QED  BY <4>1, <4>2, <4>3, Zenon DEF PicksFrom
    <3> QED  BY <2>1, <3>3 DEF none
  <2>3. i - 1 \in 0..n /\ i \in 1..n /\ i \in Nat
    BY <1>1, <2>1, <2>2
  <2> DEFINE a == upto[i - 1]
             b == upto[i]
             m == Len(a)
  <2>4. /\ b = IF i \in places THEN Append(a, s[i]) ELSE a
        /\ a \in S
    BY <1>2, <2>3 DEF PickSteps
  <2>5. m \in Nat
    BY <2>4, LenProperties
  <2>6. PicksFrom(a, s, places, i - 1)
    BY <1>1, <2>1, <2>3
  <2>7. ~PicksFrom(b, s, places, i)
    BY <2>1
  <2> HIDE DEF a, b, m, S
  <2>8. PICK from \in [1..m -> 1..(i - 1)] :
           /\ \A q \in 1..m : from[q] \in places /\ a[q] = s[from[q]]
           /\ \A q, r \in 1..m : from[q] = from[r] => q = r
           /\ \A j \in 1..(i - 1) : j \in places => \E q \in 1..m : from[q] = j
    BY <2>6 DEF PicksFrom, m
  <2>9. \A q \in 1..m : from[q] \in 1..i /\ from[q] # i
    BY <2>3, <2>8
  <2>10. CASE i \notin places
    <3>1. b = a /\ from \in [1..m -> 1..i]
      BY <2>4, <2>8, <2>9, <2>10
    <3>2. \A j \in 1..i : j \in places => \E q \in 1..m : from[q] = j
      BY <2>3, <2>8, <2>10
    <3>3. PicksFrom(a, s, places, i)
      BY <2>8, <3>1, <3>2 DEF PicksFrom, m
    <3> QED  BY <2>7, <3>1, <3>3
  <2>11. CASE i \in places
    <3> DEFINE h == [q \in 1..(m + 1) |-> IF q = m + 1 THEN i ELSE from[q]]
    <3>1. Len(b) = m + 1 /\ b[m + 1] = s[i] /\ \A q \in 1..m : b[q] = a[q]
      <4>1. a \in Seq(Y) /\ s[i] \in Y /\ b = Append(a, s[i])
        BY <1>3, <2>3, <2>4, <2>11 DEF S
      <4> QED  BY <4>1, AppendProperties DEF m
    <3>2. /\ h \in [1..(m + 1) -> 1..i]
          /\ h[m + 1] = i /\ \A q \in 1..m : h[q] = from[q]
      BY <2>3, <2>5, <2>9
    <3>3. \A q \in 1..(m + 1) : q \in 1..m \/ q = m + 1
      BY <2>5
    <3>7. \A q \in 1..m : q \in 1..(m + 1)
      BY <2>5
    <3> HIDE DEF h
    <3>4. \A q \in 1..(m + 1) : h[q] \in places /\ b[q] = s[h[q]]
      <4> TAKE q \in 1..(m + 1)
      <4> QED  BY <2>8, <2>11, <3>1, <3>2, <3>3
    <3>5. \A q, r \in 1..(m + 1) : h[q] = h[r] => q = r
      <4> TAKE q \in 1..(m + 1), r \in 1..(m + 1)
      <4> QED  BY <2>8, <2>9, <3>2, <3>3
    <3>6. \A j \in 1..i : j \in places => \E q \in 1..(m + 1) : h[q] = j
      <4> TAKE j \in 1..i
      <4>1. j = i \/ j \in 1..(i - 1)
        BY <2>3
      <4>2. m + 1 \in 1..(m + 1)
        BY <2>5
      <4> QED  BY <2>8, <3>2, <3>7, <4>1, <4>2
    <3>8. PicksFrom(b, s, places, i)
      BY <3>1, <3>2, <3>4, <3>5, <3>6 DEF PicksFrom
    <3> QED  BY <2>7, <3>8
  <2> QED  BY <2>10, <2>11
<1>7. n \in 0..n /\ PicksFrom(upto[n], s, places, n)
  BY <1>1, <1>6
<1>8. upto[n] \in S
  BY <1>2, <1>7 DEF PickSteps
<1> QED  BY <1>2, <1>5, <1>7, <1>8 DEF n

\* The first of a sequence are of its elements.
LEMMA FirstOfSeq == \A X : \A s \in Seq(X), k \in Nat : FirstOf(s, k) \in Seq(X)
<1> SUFFICES ASSUME NEW X, NEW s \in Seq(X), NEW k \in Nat
             PROVE  FirstOf(s, k) \in Seq(X)
  OBVIOUS
<1> DEFINE m == Smaller(Len(s), k)
<1>1. m \in Nat /\ m <= Len(s) /\ Len(s) \in Nat
  BY LenProperties DEF Smaller
<1> HIDE DEF m
<1>2. \A i \in 1..m : s[i] \in X
  BY <1>1, ElementOfSeq
<1>3. 1 \in Int /\ m \in Int
  BY <1>1
<1>4. SubSeq(s, 1, m) \in Seq(X)
  BY <1>2, <1>3, SubSeqProperties
<1> QED  BY <1>4 DEF FirstOf, m

-----------------------------------------------------------------------------
(* Counting *)

\* What a function maps a finite set to, one to one, is as many.
LEMMA ImageCount ==
    ASSUME NEW S, IsFiniteSet(S), NEW f, \A x, y \in S : f[x] = f[y] => x = y,
           NEW T, \A x \in S : f[x] \in T, \A y \in T : \E x \in S : y = f[x]
    PROVE  IsFiniteSet(T) /\ Cardinality(T) = Cardinality(S)
<1> DEFINE g == [x \in S |-> f[x]]
<1>1. g \in Surjection(S, T)
  BY DEF Surjection
<1>2. g \in Injection(S, T)
  BY DEF Injection, IsInjective
<1> HIDE DEF g
<1> QED  BY <1>1, <1>2, FS_Surjection

\* A part is no larger, and smaller if something is missing.
LEMMA PartCount ==
    ASSUME NEW S, IsFiniteSet(S), NEW T \in SUBSET S
    PROVE  /\ IsFiniteSet(T) /\ Cardinality(T) \in Nat /\ Cardinality(S) \in Nat
           /\ Cardinality(T) <= Cardinality(S)
           /\ T # S => Cardinality(T) < Cardinality(S)
<1>1. /\ IsFiniteSet(T) /\ Cardinality(T) <= Cardinality(S)
      /\ Cardinality(S) = Cardinality(T) => S = T
  BY FS_Subset
<1>2. Cardinality(T) \in Nat /\ Cardinality(S) \in Nat
  BY <1>1, FS_CardinalityType
<1> QED  BY <1>1, <1>2

\* Counting to n.
LEMMA CountTo ==
    ASSUME NEW n \in Nat
    PROVE  /\ IsFiniteSet(1..n) /\ Cardinality(1..n) = n
           /\ \A P \in SUBSET (1..n) : IsFiniteSet(P) /\ Cardinality(P) \in 0..n
<1>1. IsFiniteSet(1..n) /\ Cardinality(1..n) = n
  BY FS_Interval
<1>2. ASSUME NEW P \in SUBSET (1..n) PROVE IsFiniteSet(P) /\ Cardinality(P) \in 0..n
  <2>1. /\ IsFiniteSet(P) /\ Cardinality(P) \in Nat
        /\ Cardinality(P) <= Cardinality(1..n)
    BY <1>1, PartCount
  <2> QED  BY <1>1, <2>1
<1> QED  BY <1>1, <1>2

\* A finite set of numbers that is not empty has a greatest and a least one.
LEMMA Extremes ==
    ASSUME NEW S \in SUBSET Int, IsFiniteSet(S), S # {}
    PROVE  (\E x \in S : \A y \in S : y <= x) /\ (\E x \in S : \A y \in S : x <= y)
<1> DEFINE up(x) == {y \in S : y > x}
           down(x) == {y \in S : y < x}
           ups == {Cardinality(up(x)) : x \in S}
           downs == {Cardinality(down(x)) : x \in S}
<1>1. \A x \in S : Cardinality(up(x)) \in Nat /\ Cardinality(down(x)) \in Nat
  <2> TAKE x \in S
  <2> QED  BY PartCount
<1>2. \E x \in S : \A y \in S : y <= x
  <2>1. PICK k \in ups : \A m \in ups : ~(m < k)
    <3>1. ups \in SUBSET Nat /\ ups # {}
      BY <1>1
    <3> HIDE DEF ups
    <3> QED  BY <3>1, LeastIndex
  <2>2. PICK x \in S : k = Cardinality(up(x))
    OBVIOUS
  <2>3. ASSUME NEW y \in S, y > x PROVE FALSE
    <3>1. up(y) \in SUBSET up(x) /\ up(y) # up(x) /\ IsFiniteSet(up(x))
      <4>1. up(y) \in SUBSET up(x) /\ y \in up(x) /\ y \notin up(y)
        <5>1. \A z \in S : z > y => z > x
          BY <2>3
        <5>2. ~(y > y)
          OBVIOUS
        <5> QED  BY <2>3, <5>1, <5>2
      <4>2. IsFiniteSet(up(x))
        BY PartCount
      <4> QED  BY <4>1, <4>2
    <3>2. Cardinality(up(y)) < Cardinality(up(x))
      BY <3>1, PartCount
    <3> QED  BY <2>1, <2>2, <3>2
  <2>4. \A y \in S : y <= x
    BY <2>3
  <2> QED  BY <2>4
<1>3. \E x \in S : \A y \in S : x <= y
  <2>1. PICK k \in downs : \A m \in downs : ~(m < k)
    <3>1. downs \in SUBSET Nat /\ downs # {}
      BY <1>1
    <3> HIDE DEF downs
    <3> QED  BY <3>1, LeastIndex
  <2>2. PICK x \in S : k = Cardinality(down(x))
    OBVIOUS
  <2>3. ASSUME NEW y \in S, y < x PROVE FALSE
    <3>1. down(y) \in SUBSET down(x) /\ down(y) # down(x) /\ IsFiniteSet(down(x))
      <4>1. down(y) \in SUBSET down(x) /\ y \in down(x) /\ y \notin down(y)
        <5>1. \A z \in S : z < y => z < x
          BY <2>3
        <5>2. ~(y < y)
          OBVIOUS
        <5> QED  BY <2>3, <5>1, <5>2
      <4>2. IsFiniteSet(down(x))
        BY PartCount
      <4> QED  BY <4>1, <4>2
    <3>2. Cardinality(down(y)) < Cardinality(down(x))
      BY <3>1, PartCount
    <3> QED  BY <2>1, <2>2, <3>2
  <2>4. \A y \in S : x <= y
    BY <2>3
  <2> QED  BY <2>4
<1> QED  BY <1>2, <1>3

\* What the first k of a sequence are.
LEMMA FirstOfRows ==
    ASSUME NEW S, NEW s \in Seq(S), NEW k \in Nat
    PROVE  /\ FirstOf(s, k) \in Seq(S) /\ Len(FirstOf(s, k)) = Smaller(Len(s), k)
           /\ \A i \in 1..Smaller(Len(s), k) : FirstOf(s, k)[i] = s[i]
<1> DEFINE m == Smaller(Len(s), k)
<1>1. m \in Nat /\ m <= Len(s) /\ Len(s) \in Nat
  BY LenProperties DEF Smaller
<1> HIDE DEF m
<1>2. \A i \in 1..m : s[i] \in S
  BY <1>1, ElementOfSeq
<1>3. 1 \in Int /\ m \in Int
  BY <1>1
<1>4. /\ SubSeq(s, 1, m) \in Seq(S)
      /\ Len(SubSeq(s, 1, m)) = IF 1 <= m THEN m - 1 + 1 ELSE 0
      /\ \A i \in 1..(m - 1 + 1) : SubSeq(s, 1, m)[i] = s[1 + i - 1]
  BY <1>2, <1>3, SubSeqProperties
<1>5. Len(SubSeq(s, 1, m)) = m /\ \A i \in 1..m : SubSeq(s, 1, m)[i] = s[i]
  BY <1>1, <1>4
<1> QED  BY <1>4, <1>5 DEF FirstOf, m

=============================================================================
