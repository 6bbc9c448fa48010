----------------------------- MODULE MCComposer -----------------------------
(***************************************************************************)
(* Small instances of Composer: mounts of the composer that share the      *)
(* draft service.                                                          *)
(***************************************************************************)
EXTENDS Composer, TLC

CONSTANTS c1, c2, d1, d2, e1, e2, k1, k2

MCCallers == Composers \X Slots

\* Composers and, where none is Invalid or Flawed, edits are alike.
Alike == Permutations(Composers) \cup Permutations(Edits)
=============================================================================
