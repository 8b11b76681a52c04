----------------------------- MODULE MCEmbedding -----------------------------
(***************************************************************************)
(* What must end, in the embedding of rows: the drain of a store that was  *)
(* moved to another model (VectorSpace) and the calls of the model's       *)
(* thread (EmbedHost).  A behaviour is about one of the two; the other     *)
(* rests.                                                                  *)
(***************************************************************************)
EXTENDS MCVectorSpace, EmbedHost

VARIABLE scene

Passage(i, n) == [id |-> i, tokens |-> n]

\* Nothing; a text longer than the model reads; two that do not share a batch
\* with a third; more than a slice.
Passages ==
    {<< >>,
     <<Passage(1, 1), Passage(2, 3), Passage(3, 9)>>,
     <<Passage(4, 2), Passage(5, 2)>>,
     <<Passage(6, 1), Passage(7, 1), Passage(8, 1), Passage(9, 1)>>}

EmbeddingInit ==
    \/ scene = "drain" /\ Init /\ EmbedInit /\ engine = "api" /\ ~idle
    \/ scene = "thread" /\ EmbedInit /\ Init /\ meta = None

EmbeddingNext ==
    \/ scene = "drain" /\ Next /\ UNCHANGED <<scene, embedVars>>
    \/ scene = "thread" /\ EmbedNext /\ UNCHANGED <<scene, vars>>

EmbeddingSpec ==
    /\ EmbeddingInit /\ [][EmbeddingNext]_<<scene, vars, embedVars>>
    /\ EmbedFairness
    /\ \A p \in Proc : WF_vars(Step(p))
=============================================================================
