------------------------------ MODULE MintQueue ------------------------------
(***************************************************************************)
(* What the swap service promises, with nothing of how it is done.  A burn  *)
(* is given a ticket; operators approve it; tickets are served strictly in  *)
(* turn, each at most once and only with Threshold approvals; the database  *)
(* may report a burn as confirmed only after it was served (and may for a   *)
(* while withdraw a report, which loses nothing).                           *)
(***************************************************************************)
EXTENDS Naturals, FiniteSets

CONSTANTS Burns, Operators, Threshold,
          Tickets,      \* the ticket numbers
          FirstTicket   \* the first to be served

VARIABLES ticket,     \* ticket[h]: the set holding h's ticket, or empty
          approvals,  \* approvals[h]: operators that approved h
          serving,    \* the ticket to be served next
          served,     \* burns minted
          reported    \* burns reported as confirmed

vars == <<ticket, approvals, serving, served, reported>>

Init ==
    /\ ticket = [h \in Burns |-> {}]
    /\ approvals = [h \in Burns |-> {}]
    /\ serving = FirstTicket
    /\ served = {}
    /\ reported = {}

TakeTicket(h) ==
    /\ ticket[h] = {}
    /\ \E n \in Tickets :
          /\ \A g \in Burns : n \notin ticket[g]
          /\ ticket' = [ticket EXCEPT ![h] = {n}]
    /\ UNCHANGED <<approvals, serving, served, reported>>

Approve(o, h) ==
    /\ ticket[h] # {}
    /\ approvals' = [approvals EXCEPT ![h] = @ \cup {o}]
    /\ UNCHANGED <<ticket, serving, served, reported>>

Serve(h) ==
    /\ h \notin served
    /\ ticket[h] = {serving}
    /\ Cardinality(approvals[h]) >= Threshold
    /\ served' = served \cup {h}
    /\ serving' = serving + 1
    /\ UNCHANGED <<ticket, approvals, reported>>

Report ==
    /\ reported' \in SUBSET served
    /\ UNCHANGED <<ticket, approvals, serving, served>>

Next ==
    \/ \E h \in Burns : TakeTicket(h) \/ Serve(h)
    \/ \E o \in Operators, h \in Burns : Approve(o, h)
    \/ Report

Spec == Init /\ [][Next]_vars
=============================================================================
