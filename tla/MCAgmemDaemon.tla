---------------------------- MODULE MCAgmemDaemon ----------------------------
(***************************************************************************)
(* Instances of AgmemDaemon for TLC.                                       *)
(***************************************************************************)
EXTENDS AgmemDaemon, TLC

CONSTANTS c1, c2

Old == [release |-> 1, version |-> 1, serves |-> "store"]
New == [release |-> 2, version |-> 1, serves |-> "store"]

\* One session of an older release and one of a newer.
Upgrade == c1 :> Old @@ c2 :> New
=============================================================================
