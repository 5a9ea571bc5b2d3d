------------------------------- MODULE MCSwap -------------------------------
(* SwapSystem on small instances; the cfg files choose them. *)
EXTENDS SwapSystem
=============================================================================
