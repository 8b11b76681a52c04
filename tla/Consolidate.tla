------------------------------ MODULE Consolidate ------------------------------
(***************************************************************************)
(* The `consolidate` tool: what in a space may be the same claim twice, or *)
(* contradict another (crates/agmem-server, tools/consolidate.rs, with the *)
(* bands of crates/agmem-core, dedup.rs).                                  *)
(*                                                                         *)
(* compare walks every pair of the rows it was given, one Pair action per  *)
(* pair, and joins the close ones in a union-find array, one turn of       *)
(* Union::root's loop per action; the groups are then cut to what one      *)
(* answer carries.  Rows are 1..n in the order live_vectors returns them,  *)
(* strongest first.  A cosine is one of a few levels, and a row whose      *)
(* vector has no direction (Unit::new gives None) is compared with none.   *)
(***************************************************************************)
EXTENDS Common, FiniteSetsExt, SequencesExt

CONSTANTS
    Scans,              \* what live_vectors may return for the scanned space
    CorrectionFloor, Cluster,     \* dedup::Thresholds
    MaxPool, MaxClusterMembers, MaxClusters, MaxContradictions

ASSUME ConsolidateAssumption == \A s \in Scans : s.n \in Nat

VARIABLES
    scan,            \* the rows: how many, their vectors' cosines, their entities
    consolidateStep,
    left, right,     \* the pair compare is at
    leftRoot, rightRoot,   \* how far join has walked towards their roots
    parent,          \* Union
    contradictions,  \* the pairs found, in order
    report           \* the answer

consolidateVars ==
    <<scan, consolidateStep, left, right, leftRoot, rightRoot, parent, contradictions, report>>

Rows == 1..scan.n
Comparable(i, j) == i \in scan.units /\ j \in scan.units
Similarity(i, j) == scan.cosine[{i, j}]
SharedEntities(i, j) == scan.entities[i] \cap scan.entities[j]

IsClusterCandidate(score) == score >= Cluster
IsContradictionCandidate(score) == score >= CorrectionFloor

-----------------------------------------------------------------------------
\* Where Union::root ends.
Root[i \in Rows] == IF parent[i] = i THEN i ELSE Root[parent[i]]

\* The groups of two or more, each cut to what one answer carries of it.
Groups == {g \in {{i \in Rows : Root[i] = r} : r \in Rows} : Cardinality(g) > 1}
Carried(g) == {i \in g : Cardinality({j \in g : j < i}) < MaxClusterMembers}
Pairs(g) == {p \in SUBSET g : Cardinality(p) = 2}
Extremes(g) == LET scores == {scan.cosine[p] : p \in Pairs(g)}
               IN  [members |-> g, min |-> Min(scores), max |-> Max(scores)]

\* The closest first; which of two equally close clusters comes first is
\* left to the order of a HashMap.
Closest(score, limit) ==
    LET found == DOMAIN score
    IN  {s \in SUBSET found :
            /\ Cardinality(s) = Smaller(limit, Cardinality(found))
            /\ \A in \in s, out \in found \ s : score[in] >= score[out]}

-----------------------------------------------------------------------------
NoReport == [clusters |-> {}, contradictions |-> {}, truncated |-> FALSE, capped |-> FALSE]

ConsolidateInit ==
    /\ scan = None
    /\ consolidateStep = "idle"
    /\ left = 1 /\ right = 1 /\ leftRoot = 1 /\ rightRoot = 1
    /\ parent = << >>
    /\ contradictions = {}
    /\ report = NoReport

Consolidate ==
    /\ consolidateStep = "idle"
    /\ scan' \in Scans
    /\ parent' = [i \in 1..scan'.n |-> i]
    /\ left' = 1 /\ right' = 2
    /\ consolidateStep' = IF scan'.n < 2 THEN "report" ELSE "compare"
    /\ UNCHANGED <<leftRoot, rightRoot, contradictions, report>>

\* The rest of the body of compare's loops, and the step of their counters.
NextPair ==
    /\ contradictions' =
         IF /\ Comparable(left, right)
            /\ IsContradictionCandidate(Similarity(left, right))
            /\ SharedEntities(left, right) # {}
         THEN contradictions \cup {{left, right}} ELSE contradictions
    /\ IF right < scan.n
       THEN right' = right + 1 /\ UNCHANGED left /\ consolidateStep' = "compare"
       ELSE /\ left' = left + 1 /\ right' = left + 2
            /\ consolidateStep' = IF left + 1 < scan.n THEN "compare" ELSE "report"

\* compare comes to a pair: the rows are joined when they are close.
Pair ==
    /\ consolidateStep = "compare"
    /\ IF Comparable(left, right) /\ IsClusterCandidate(Similarity(left, right))
       THEN /\ leftRoot' = left /\ rightRoot' = right
            /\ consolidateStep' = "join"
            /\ UNCHANGED <<left, right, contradictions>>
       ELSE NextPair /\ UNCHANGED <<leftRoot, rightRoot>>
    /\ UNCHANGED <<scan, parent, report>>

\* A turn of root's loop: the path is halved as it is climbed, the left row's
\* to its end, then the right one's.
HalveLeft ==
    /\ consolidateStep = "join" /\ parent[leftRoot] # leftRoot
    /\ parent' = [parent EXCEPT ![leftRoot] = parent[parent[leftRoot]]]
    /\ leftRoot' = parent[parent[leftRoot]]
    /\ UNCHANGED <<scan, consolidateStep, left, right, rightRoot, contradictions, report>>
HalveRight ==
    /\ consolidateStep = "join" /\ parent[leftRoot] = leftRoot /\ parent[rightRoot] # rightRoot
    /\ parent' = [parent EXCEPT ![rightRoot] = parent[parent[rightRoot]]]
    /\ rightRoot' = parent[parent[rightRoot]]
    /\ UNCHANGED <<scan, consolidateStep, left, right, leftRoot, contradictions, report>>

\* Mutant: the rows are joined, not their roots.
JoinRows ==
    /\ consolidateStep = "join"
    /\ parent[leftRoot] = leftRoot /\ parent[rightRoot] = rightRoot
    /\ parent' = [parent EXCEPT ![Larger(left, right)] = Smaller(left, right)]
    /\ NextPair
    /\ UNCHANGED <<scan, leftRoot, rightRoot, report>>

\* Union::join: the smaller of two roots wins.
Join ==
    /\ consolidateStep = "join"
    /\ parent[leftRoot] = leftRoot /\ parent[rightRoot] = rightRoot
    /\ parent' = IF leftRoot = rightRoot THEN parent
                 ELSE [parent EXCEPT ![Larger(leftRoot, rightRoot)] = Smaller(leftRoot, rightRoot)]
    /\ NextPair
    /\ UNCHANGED <<scan, leftRoot, rightRoot, report>>

ReportGroups ==
    /\ consolidateStep = "report"
    /\ LET clusters == {Extremes(Carried(g)) : g \in Groups}
           pairs == {[pair |-> p, score |-> scan.cosine[p]] : p \in contradictions}
       IN  \E kept \in Closest([c \in clusters |-> c.max], MaxClusters),
              met \in Closest([p \in pairs |-> p.score], MaxContradictions) :
             report' = [clusters |-> kept, contradictions |-> met,
                        truncated |-> scan.n = MaxPool,
                        capped |-> \/ Cardinality(clusters) > MaxClusters
                                   \/ Cardinality(pairs) > MaxContradictions]
    /\ consolidateStep' = "done"
    /\ UNCHANGED <<scan, left, right, leftRoot, rightRoot, parent, contradictions>>

ConsolidateReply ==
    /\ consolidateStep = "done"
    /\ consolidateStep' = "idle"
    /\ scan' = None /\ parent' = << >> /\ contradictions' = {} /\ report' = NoReport
    /\ left' = 1 /\ right' = 1 /\ leftRoot' = 1 /\ rightRoot' = 1

ConsolidateNext ==
    Consolidate \/ Pair \/ HalveLeft \/ HalveRight \/ Join \/ ReportGroups \/ ConsolidateReply

ConsolidateSpec == ConsolidateInit /\ [][ConsolidateNext]_consolidateVars
-----------------------------------------------------------------------------
ConsolidateTypeOK ==
    /\ consolidateStep \in {"idle", "compare", "join", "report", "done"}
    /\ scan # None => parent \in [Rows -> Rows]
    /\ report.truncated \in BOOLEAN /\ report.capped \in BOOLEAN

\* The close pairs among those compare has been through.
Walked(i, j) == i < left \/ (i = left /\ j < right)
Close ==
    {p \in Rows \X Rows :
        /\ p[1] < p[2] /\ Walked(p[1], p[2])
        /\ Comparable(p[1], p[2]) /\ IsClusterCandidate(Similarity(p[1], p[2]))}

(***************************************************************************)
(* The union-find array, whose paths every walk shortens, is right after   *)
(* every pair and in the middle of every walk: the rows that share a root  *)
(* are a component of the close pairs (no close pair leaves them, and no   *)
(* part of them stands apart), and the root is the strongest of them.      *)
(***************************************************************************)
Group(i) == {j \in Rows : Root[j] = Root[i]}
Crossed(S) == \E p \in Close : (p[1] \in S) # (p[2] \in S)

GroupsAreComponents ==
    consolidateStep \in {"compare", "join", "report"} =>
        \A i \in Rows :
            /\ Root[i] = Min(Group(i))
            /\ ~Crossed(Group(i))
            /\ \A part \in (SUBSET Group(i)) \ {{}, Group(i)} : Crossed(part)
=============================================================================
