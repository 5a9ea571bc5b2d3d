------------------------------- MODULE MCForm -------------------------------
(* FormSystem on small instances; the cfg files choose them. *)
EXTENDS FormSystem, TLC

Symmetry == Permutations(Accounts)
=============================================================================
