------------------------------- MODULE Bridge -------------------------------
(***************************************************************************)
(* What the service as a whole promises, from Ethereum to the Secret        *)
(* Network: burns become final, for good; operators approve what is final;   *)
(* what Threshold of them approved is minted, once; and only what is minted  *)
(* is ever reported as confirmed.  Nothing that was burnt, approved or       *)
(* minted is taken back, whatever happens to chains, processes and requests. *)
(***************************************************************************)
EXTENDS Naturals, FiniteSets

CONSTANTS Burns,        \* the burns that name a recipient
          Operators, Threshold

VARIABLES burnt,        \* burns that no reorganisation reaches
          approvals,    \* approvals[h]: operators that approved h
          minted,
          reported      \* burns reported as confirmed

vars == <<burnt, approvals, minted, reported>>

Init ==
    /\ burnt = {}
    /\ approvals = [h \in Burns |-> {}]
    /\ minted = {}
    /\ reported = {}

\* A block makes all the burns of a block before it final.
Burn ==
    /\ \E final \in SUBSET Burns : burnt' = burnt \cup final
    /\ UNCHANGED <<approvals, minted, reported>>

Approve(o, h) ==
    /\ h \in burnt
    /\ approvals' = [approvals EXCEPT ![h] = @ \cup {o}]
    /\ UNCHANGED <<burnt, minted, reported>>

Mint(h) ==
    /\ h \in burnt \ minted
    /\ Cardinality(approvals[h]) >= Threshold
    /\ minted' = minted \cup {h}
    /\ UNCHANGED <<burnt, approvals, reported>>

\* A report may be withdrawn for a while, which loses nothing.
Report ==
    /\ reported' \in SUBSET minted
    /\ UNCHANGED <<burnt, approvals, minted>>

Next ==
    \/ Burn \/ Report
    \/ \E h \in Burns : Mint(h)
    \/ \E o \in Operators, h \in Burns : Approve(o, h)

Spec == Init /\ [][Next]_vars
=============================================================================
