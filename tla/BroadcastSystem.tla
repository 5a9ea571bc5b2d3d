--------------------------- MODULE BroadcastSystem ---------------------------
(***************************************************************************)
(* The leader's broadcast side in its environment: the database, the       *)
(* Secret Network, and the two writers that feed it.  Those two, the       *)
(* leader's burn log loop and the operators, are reduced here to what they  *)
(* do to the collections: one inserts swap documents with sequence numbers  *)
(* of their own, the others add signatures to documents that exist.         *)
(***************************************************************************)
EXTENDS LeaderBroadcast

CONSTANTS Sequences     \* the sequence numbers documents carry

ASSUME SequencesAssumption == Sequences \subseteq Nat

vars == <<dbVars, chainVars, leaderVars, faults>>

\* A document appears, in any order: inserts overtake one another.
Register(h) ==
    /\ swaps[h].status = "ABSENT"
    /\ \E n \in Sequences : FindBySequence(n) = {} /\ ApplyInsert(h, n)
    /\ NoFault
    /\ UNCHANGED <<chainVars, leaderVars>>

Sign(o, h) ==
    /\ h \in Registered
    /\ o \notin signatures[h]
    /\ ApplySignature(o, h)
    /\ NoFault
    /\ UNCHANGED <<chainVars, leaderVars>>

Apply(u) == ApplyUpdate(u) /\ NoFault /\ UNCHANGED <<chainVars, leaderVars>>

ChainStep(t) == (Deliver(t) \/ Drop(t)) /\ UNCHANGED <<dbVars, leaderVars>>

Init == DbInit /\ ChainInit /\ LeaderInit /\ FaultInit

EnvironmentStep ==
    \/ \E h \in Burns : Register(h)
    \/ \E o \in Operators, h \in Burns : Sign(o, h)
    \/ \E u \in updates : Apply(u)
    \/ \E t \in mempool : ChainStep(t)

Next == LeaderStep \/ EnvironmentStep

Spec == Init /\ [][Next]_vars

\* The host runs the process and restarts it, MongoDB answers, timers fire,
\* blocks are made; the watchers register every burn and the operators sign it.
Fairness ==
    /\ WF_vars(LoopStep)
    /\ WF_vars(Restart)
    /\ WF_vars(\E t \in mempool : Deliver(t) /\ UNCHANGED <<dbVars, leaderVars>>)
    /\ \A i \in TimerIds : WF_vars(\E t \in timers : t.id = i /\ StatusCheck(t))
    /\ \A i \in WriteIds : WF_vars(\E u \in updates : u.id = i /\ Apply(u))
    /\ \A h \in Burns : WF_vars(Register(h))
    /\ \A o \in Operators, h \in Burns : WF_vars(Sign(o, h))

FairSpec == Spec /\ Fairness

---------------------------------------------------------------------------
(* Safety. *)

\* The burns of mint transactions in blocks.
Minted == {t.burn : t \in ledger}

TypeOK == DbTypeOK /\ ChainTypeOK /\ LeaderTypeOK /\ FaultTypeOK

\* A burn is minted at most once, however often the leader broadcasts it,
\* with whatever signatures, across crashes and failed commands: every
\* transaction of a swap carries the one sequence number of its document.
MintedOnce == \A s, t \in ledger : s.burn = t.burn => s = t

\* Nothing is minted below the multisig threshold: a transaction in a block
\* carries the signatures of at least Threshold operators who signed this burn.
MintedByThreshold ==
    \A t \in ledger : /\ t.signers \subseteq signatures[t.burn]
                      /\ Cardinality(t.signers) >= Threshold

\* A swap the database calls confirmed has been minted, whichever of the
\* loop, a late timer or a request in flight across a crash wrote it.
ConfirmedIsMinted ==
    \A h \in Burns : swaps[h].status = "CONFIRMED" => h \in Minted

\* A submitted or confirmed swap names a mint transaction of this very burn,
\* with this swap's sequence number: the snapshots that status writes take
\* their hash from never mix up two swaps or lose the hash.
RecordedHashIsOwn ==
    \A h \in Burns : swaps[h].status \in {"SUBMITTED", "CONFIRMED"} =>
        /\ swaps[h].mintTransactionHash # NoTx
        /\ swaps[h].mintTransactionHash.burn = h
        /\ swaps[h].mintTransactionHash.sequence = swaps[h].sequence

---------------------------------------------------------------------------
(* The inductive invariant behind them: BroadcastProofs proves it, the runs  *)
(* check it.                                                                *)

\* A transaction the leader may have made: of a registered burn, with its
\* document's sequence number and at least Threshold of its signatures.
Genuine(t) ==
    /\ t \in MintTx
    /\ t.burn \in Registered
    /\ t.sequence = swaps[t.burn].sequence
    /\ t.signers \subseteq signatures[t.burn]
    /\ Cardinality(t.signers) >= Threshold

\* No two documents share a sequence number.
UniqueSequences ==
    \A g, h \in Registered : swaps[g].sequence = swaps[h].sequence => g = h

CandidateGenuine ==
    /\ pc = "collect" => candidate.burn \in Registered
    /\ pc = "broadcast" => Genuine(candidate)

TransactionsGenuine == \A t \in mempool \cup ledger : Genuine(t)

\* The account's sequence number has passed every transaction in a block.
LedgerInTurn ==
    /\ \A t \in ledger : t.sequence < chainSequence
    /\ \A s, t \in ledger : s.sequence = t.sequence => s = t

\* "CONFIRMED" is written, or on its way, only for a burn that is minted.
ConfirmedSoFar ==
    /\ \A h \in Burns : swaps[h].status = "CONFIRMED" => h \in Minted
    /\ \A u \in updates : u.status = "CONFIRMED" => u.burn \in Minted

\* The inductive invariant: what is in a block, in a mempool or about to be
\* broadcast was made from one document and its signatures, whatever was
\* retried or lost in between.
IInv ==
    /\ TypeOK
    /\ UniqueSequences
    /\ CandidateGenuine
    /\ TransactionsGenuine
    /\ LedgerInTurn
    /\ ConfirmedSoFar

---------------------------------------------------------------------------
(* The abstract specification. *)

\* The promise of MintQueue: tickets are sequence numbers.
Queue == INSTANCE MintQueue WITH
    Tickets <- Sequences,
    FirstTicket <- FirstSequence,
    ticket <- [h \in Burns |-> IF swaps[h].status = "ABSENT" THEN {}
                               ELSE {swaps[h].sequence}],
    approvals <- signatures,
    serving <- chainSequence,
    served <- Minted,
    reported <- {h \in Burns : swaps[h].status = "CONFIRMED"}

\* The leader's asynchronous, retrying, crashing broadcast implements it.
ImplementsQueue == Queue!Spec

---------------------------------------------------------------------------
(* Liveness. *)

\* Whatever finitely many crashes and lost transactions do, every burn ends
\* up confirmed and stays so.
EventuallyConfirmed == \A h \in Burns : <>[](swaps[h].status = "CONFIRMED")
=============================================================================
