-------------------------- MODULE MCWorkflowEngine --------------------------
(***************************************************************************)
(* Small instances of WorkflowEngine for TLC.                              *)
(***************************************************************************)
EXTENDS WorkflowEngine, TLC

CONSTANTS w1, w2

\* Tokens are numbered so that FreshToken is the least unused one.
MCTokens == 1 .. 7

\* Workflows: one node, a chain of two, two independent nodes.
OneNode == [n \in {1} |-> {}]
Chain == [n \in {1, 2} |-> IF n = 1 THEN {} ELSE {1}]
Fork == [n \in {1, 2} |-> {}]

\* Every worker serves every node.
ServesAll == [w \in Workers |-> Nodes]

\* w2 does not serve the last node.
ServesPart == [w \in Workers |-> IF w = w2 THEN Nodes \ {NumNodes} ELSE Nodes]

WorkerSymmetry == Permutations(Workers)
=============================================================================
