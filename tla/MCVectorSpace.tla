---------------------------- MODULE MCVectorSpace ----------------------------
(***************************************************************************)
(* Instances of VectorSpace for TLC.                                       *)
(***************************************************************************)
EXTENDS VectorSpace, TLC

\* A model as a release that recorded no revision had it, the same model at
\* two revisions, a model of another width, and no model.
Unpinned == [model |-> "bge", dim |-> 2, revision |-> None]
Pinned == [model |-> "bge", dim |-> 2, revision |-> "r1"]
Repinned == [model |-> "bge", dim |-> 2, revision |-> "r2"]
Wider == [model |-> "gemma", dim |-> 3, revision |-> "r1"]
NoBackend == [model |-> "none", dim |-> 0, revision |-> None]

All == {Unpinned, Pinned, Repinned, Wider, NoBackend}
FreshOrPinned == {None, Pinned}
PinnedOnly == {Pinned}

\* Any backend after any other, one process at a time.
Served == [remote |-> FALSE, configured |-> All, tools |-> {"serve"},
           fails |-> TRUE, crashes |-> 1, starts |-> 3]
\* Served and reindexed, by releases that pin their models.
Reindexed == [remote |-> FALSE, configured |-> All \ {Unpinned}, tools |-> {"serve", "reindex"},
              fails |-> TRUE, crashes |-> 1, starts |-> 3]
\* Two processes at once on a server.
Shared == [remote |-> TRUE, configured |-> {Unpinned, Pinned, Wider}, tools |-> {"serve"},
           fails |-> FALSE, crashes |-> 0, starts |-> 3]
\* One move, crashed again and again.
OneMove == [remote |-> FALSE, configured |-> {Wider, NoBackend}, tools |-> {"serve", "reindex"},
            fails |-> TRUE, crashes |-> 3, starts |-> 4]
\* A move, and back.
BackAndForth == [remote |-> FALSE, configured |-> {Pinned, Wider}, tools |-> {"serve"},
                 fails |-> FALSE, crashes |-> 1, starts |-> 2]

EmbeddedAndShared == {Served, Reindexed, Shared}
OneMoveOnly == {OneMove}
Interrupted == {BackAndForth}

Symmetry == Permutations(Proc) \cup Permutations(Memory) \cup Permutations(Row \ Memory)
=============================================================================
