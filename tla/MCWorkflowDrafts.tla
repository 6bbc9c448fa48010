-------------------------- MODULE MCWorkflowDrafts --------------------------
(***************************************************************************)
(* Small instances of WorkflowDrafts: clients of the API that send any     *)
(* request, and send on when they are answered.                            *)
(***************************************************************************)
EXTENDS WorkflowDrafts, TLC

CONSTANTS d1, d2, k1, e1, e2, x1, x2

ClientSymmetry == Permutations(Drafts) \cup Permutations(Callers)
=============================================================================
