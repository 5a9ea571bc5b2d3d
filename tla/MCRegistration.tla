---------------------------- MODULE MCRegistration ----------------------------
(* RegistrationSystem on small instances; the cfg files choose them. *)
EXTENDS RegistrationSystem, TLC

Symmetry == Permutations(Burns \ Invalid) \cup Permutations(Operators)
=============================================================================
