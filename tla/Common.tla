-------------------------------- MODULE Common --------------------------------
(***************************************************************************)
(* What the tool, hook and startup modules share.                          *)
(***************************************************************************)
EXTENDS Integers, Sequences, FiniteSets

CONSTANT None    \* an Option that is None

Smaller(i, j) == IF i < j THEN i ELSE j
Larger(i, j) == IF i < j THEN j ELSE i

\* truncate: the first n of a sequence, or all of it.
FirstOf(s, n) == SubSeq(s, 1, Smaller(Len(s), n))

\* What s has at the given places, in its order.
Picked(s, places) ==
    LET upto[i \in 0..Len(s)] ==
            IF i = 0 THEN << >>
            ELSE IF i \in places THEN Append(upto[i - 1], s[i]) ELSE upto[i - 1]
    IN  upto[Len(s)]

Distance(x, y) == Larger(x, y) - Smaller(x, y)
===============================================================================
