------------------------ MODULE MCRepositoryUpdates ------------------------
(***************************************************************************)
(* Small instances of RepositoryUpdates.                                   *)
(***************************************************************************)
EXTENDS RepositoryUpdates, TLC

CONSTANTS m1, m2, p1, p2
=============================================================================
