------------------------------ MODULE MCStartup ------------------------------
(***************************************************************************)
(* A process opening its store, for TLC: the schema is migrated            *)
(* (SchemaMigration) before the vector space is settled (VectorSpace).     *)
(* The two touch different rows of `meta`, so a behaviour is about one of  *)
(* them; the other rests.                                                  *)
(***************************************************************************)
EXTENDS MCVectorSpace, SchemaMigration

VARIABLE scene

StartupInit ==
    \/ scene = "schema" /\ MigrateInit /\ Init /\ meta = None
       /\ setup = CHOOSE s \in Setups : ~s.remote
    \/ scene = "vectors" /\ Init /\ MigrateInit /\ ~shared

StartupNext ==
    \/ scene = "schema" /\ MigrateNext /\ UNCHANGED <<scene, vars>>
    \/ scene = "vectors" /\ Next /\ UNCHANGED <<scene, migrateVars>>

StartupSpec == StartupInit /\ [][StartupNext]_<<scene, vars, migrateVars>>

\* Every variable has its shape; the drain's failures stay within its limit.
StartupTypeOK == TypeOK /\ MigrateTypeOK

StartupSymmetry == Symmetry \cup Permutations(Process) \cup Permutations(Hash)
=============================================================================
