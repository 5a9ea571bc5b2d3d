----------------------------- MODULE MCBroadcast -----------------------------
(* BroadcastSystem on small instances; the cfg files choose them. *)
EXTENDS BroadcastSystem, TLC

\* Burns and operators are interchangeable in every safety run.
Symmetry == Permutations(Burns) \cup Permutations(Operators)
=============================================================================
