------------------------------ MODULE Parties ------------------------------
(* The identities every module of the project speaks of. *)
EXTENDS FiniteSets

CONSTANTS Burns,      \* Ethereum transaction hashes of LogBurn events
          Operators   \* the operators' key aliases (operatorUser)

ASSUME OperatorsAssumption == IsFiniteSet(Operators)
=============================================================================
