--------------------------- MODULE MCAsyncWorkers ---------------------------
(***************************************************************************)
(* Small instances of AsyncWorkers for TLC.                                *)
(***************************************************************************)
EXTENDS AsyncWorkers, TLC

CONSTANTS w1, w2

\* Tokens are numbered so that FreshToken is the least unused one.
MCTokens == 1 .. 7

\* Workflows: one node, a chain of two, two independent nodes.
OneNode == [n \in {1} |-> {}]
Chain == [n \in {1, 2} |-> IF n = 1 THEN {} ELSE {1}]
Fork == [n \in {1, 2} |-> {}]

\* Every worker serves every node.
ServesAll == [w \in Workers |-> Nodes]

WorkerSymmetry == Permutations(Workers)
=============================================================================
