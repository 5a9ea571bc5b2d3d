------------------------------ MODULE SwapSystem ------------------------------
(***************************************************************************)
(* The whole service: server.js runs the leader's two loops in one process,  *)
(* each operator in its own, around one database and the two chains.  The   *)
(* halves are RegistrationSystem, which this module extends, and            *)
(* BroadcastSystem, B below; each stands for the other by an                *)
(* over-approximation of its own (Broadcasts there; Register and Sign        *)
(* there).  Here the real halves run together, and ImplementsBroadcast and   *)
(* ImplementsRegistration say that each still does only what its own module  *)
(* allows.                                                                  *)
(*                                                                          *)
(* The halves share the database, `done`, which a failed broadcast sets and  *)
(* the burn log loop reads, and the leader's process: whatever ends it ends  *)
(* both loops.  Each half counts the failures it suffers, so that each stays *)
(* within its bound.  stop() and stopBroadcasting() as only the tests call   *)
(* them, and updateFailedSwap, which nothing calls, are left out.            *)
(***************************************************************************)
EXTENDS RegistrationSystem

CONSTANTS TimerIds,     \* bound: statusCheck timers pending at once
          Sequences,    \* bound: the sequence numbers documents can carry
          BroadcastFaultKinds   \* what may fail in the broadcast half

ASSUME SwapAssumption ==
    /\ Threshold > 0
    /\ TimerIds # {} /\ Sequences \subseteq Nat

VARIABLES pc, broadcasting, candidate, checking, timers,   \* LeaderBroadcast's
          broadcastFaults    \* failures the broadcast half has suffered

B == INSTANCE BroadcastSystem WITH
    FaultKinds <- BroadcastFaultKinds, faults <- broadcastFaults

loopVars == <<pc, broadcasting, candidate, checking, timers>>
swapVars == <<vars, loopVars, broadcastFaults>>

SwapInit == Init /\ B!Init

---------------------------------------------------------------------------
(* What concerns one half only. *)

OnlyBroadcast == UNCHANGED <<ethVars, watchVars, run, sequenceNumber, inserts, operatorVars, faults>>
OnlyRegistration == UNCHANGED <<chainVars, loopVars, broadcastFaults>>

\* The broadcast loop, its timers, its writes, and the account's chain.
BroadcastStep ==
    /\ \/ B!LoopStep \/ B!LoopRejects
       \/ \E t \in timers : B!StatusCheck(t)
       \/ \E u \in updates : B!Apply(u)
       \/ \E t \in mempool : B!ChainStep(t)
    /\ OnlyBroadcast

\* The burn log loop and the inserts nobody waits for.
BurnLogStep ==
    /\ RunStep \/ RunReturns \/ \E i \in inserts : AnswerInsert(i)
    /\ UNCHANGED <<updates, ethVars, operatorVars>>
    /\ OnlyRegistration

OthersStep == (OperatorsStep \/ EthStep) /\ OnlyRegistration

---------------------------------------------------------------------------
(* What concerns the leader's process. *)

\* Mutant of BroadcastFails: the burn log loop is not stopped.
BroadcastFailsAlone ==
    /\ B!BroadcastFails
    /\ Fault("stop")
    /\ UNCHANGED <<ethVars, watchVars, run, sequenceNumber, inserts, operatorVars>>

\* The catch block of broadcastSignedSwaps: it ends its own loop, and with
\* stop() the other one.
BroadcastFails ==
    /\ B!BroadcastFails
    /\ StopLeader
    /\ UNCHANGED <<ethVars, operatorVars>>

\* Killed, or ended by a write that failed or by run() rejecting: server.js
\* closes the database and neither loop goes on.
ProcessEnds ==
    /\ B!Crash \/ B!UpdateFails \/ B!RunRejects
    /\ LeaderFails
    /\ UNCHANGED <<ethVars, operatorVars>>

\* The host starts it again; it sleeps (server.js:33) until no request of the
\* one before is in flight, and enters both loops.
ProcessRestarts ==
    /\ B!Restart
    /\ LeaderRestart
    /\ UNCHANGED <<ethVars, operatorVars>>

SwapNext ==
    \/ BroadcastStep
    \/ BurnLogStep
    \/ OthersStep
    \/ BroadcastFails
    \/ ProcessEnds
    \/ ProcessRestarts

SwapSpec == SwapInit /\ [][SwapNext]_swapVars

\* The fairness of the halves, each with the other's variables unchanged.
SwapFairness ==
    /\ WF_swapVars(B!LoopStep /\ OnlyBroadcast)
    /\ WF_swapVars((\E t \in mempool : B!Deliver(t) /\ UNCHANGED <<dbVars, loopVars, done>>)
                   /\ OnlyBroadcast)
    /\ \A i \in TimerIds :
          WF_swapVars((\E t \in timers : t.id = i /\ B!StatusCheck(t)) /\ OnlyBroadcast)
    /\ \A i \in WriteIds :
          WF_swapVars((\E u \in updates : u.id = i /\ B!Apply(u)) /\ OnlyBroadcast)
    /\ WF_swapVars((RunStep \/ RunReturns) /\ UNCHANGED <<updates, ethVars, operatorVars>>
                   /\ OnlyRegistration)
    /\ WF_swapVars((\E i \in inserts : AnswerInsert(i)) /\ UNCHANGED <<ethVars, operatorVars>>
                   /\ OnlyRegistration)
    /\ WF_swapVars(ProcessRestarts)
    /\ \A o \in Operators :
          /\ WF_swapVars((OperatorStep(o) \/ FetchFails(o) \/ OperatorRestart(o))
                         /\ UNCHANGED <<ethVars, runVars>> /\ OnlyRegistration)
          /\ \A h \in Burns :
                WF_swapVars(AnswerSignature(o, h) /\ UNCHANGED <<ethVars, runVars>>
                            /\ OnlyRegistration)

SwapFairSpec == SwapSpec /\ SwapFairness

---------------------------------------------------------------------------
(* Safety. *)

\* Nothing is minted that was not burnt for good, and nothing twice: from the
\* event an operator's watcher reads, over the database the leader's two loops
\* and the operators share without waiting for their writes, to the block of
\* the mint transaction.
MintedIsBurnt ==
    /\ \A t \in ledger : Final(t.burn)
    /\ \A s, t \in ledger : s.burn = t.burn => s = t

---------------------------------------------------------------------------
(* The inductive invariant: SwapProofs proves it, the run checks it. *)

\* A document the broadcast loop may have moved: it has its signatures.
Enough(h) == h \in Registered /\ Cardinality(signatures[h]) >= Threshold

\* Whatever the loop, its timers and its requests hold of a swap, and keep
\* across awaits, they hold of one with enough signatures.
MovesOnlySigned ==
    /\ \A h \in Registered : swaps[h].status # "UNSIGNED" => Enough(h)
    /\ \A x \in updates \cup checking : Enough(x.burn)
    /\ \A t \in timers : Enough(t.tx.burn)

\* An operator signs documents, and documents stay.
SignsDocuments ==
    \A o \in Operators :
        /\ signing[o] = "sign" => logBurn[o] \in Registered
        /\ signed[o] \subseteq Registered

\* As long as there is no document the account has not moved.
MovesByDocuments == Registered = {} => chainSequence = FirstSequence

SwapIInv ==
    /\ IInv
    /\ B!LeaderTypeOK /\ B!CandidateGenuine /\ B!TransactionsGenuine /\ B!LedgerInTurn
    /\ MovesOnlySigned /\ SignsDocuments /\ MovesByDocuments

---------------------------------------------------------------------------
(* The halves, implemented. *)

\* The leader's broadcast loop meets in the real registration side nothing
\* that BroadcastSystem's Register and Sign leave out.
ImplementsBroadcast == B!Spec

\* What the registration half tells apart of a document's status.
SeenStatus(status) == IF status \in {"CONFIRMED", "FAILED"} THEN "SUBMITTED" ELSE status

Registration == INSTANCE RegistrationSystem WITH
    updates <- {}, mempool <- {}, ledger <- {},
    chainSequence <- FirstSequence,
    swaps <- [h \in Burns |-> [status |-> SeenStatus(swaps[h].status),
                               sequence |-> swaps[h].sequence,
                               mintTransactionHash |-> NoTx]]

\* The burn log loop and the operators meet in the real broadcast loop nothing
\* that RegistrationSystem's Broadcasts leaves out: no status moves before the
\* swap has its signatures, and the account's number has not moved when it is
\* asked for.
ImplementsRegistration == Registration!Spec

---------------------------------------------------------------------------
(* The abstract specification of the whole. *)

Recipients == Burns \ Invalid

Promise == INSTANCE Bridge WITH
    Burns <- Recipients,
    burnt <- {h \in Recipients : Final(h)},
    approvals <- [h \in Recipients |-> signatures[h]],
    minted <- B!Minted,
    reported <- {h \in Burns : swaps[h].status = "CONFIRMED"}

\* The processes, around a database they do not wait for and two chains that
\* lose and rearrange what they are given, do what Bridge promises: a mint has
\* its final burn and its approvals, given after that burn was final.
ImplementsBridge == Promise!Spec

---------------------------------------------------------------------------
(* Liveness. *)

\* A burn with a valid recipient that has its confirmations is minted, and
\* the database ends up saying so for good, over crashes of any process, lost
\* transactions and failed commands, queries and writes of the broadcast loop,
\* unless the leader is left standing: a failed broadcast stopped it, or a query
\* ended its broadcast loop, and nothing ended the process after that.  Nothing
\* is promised where a burn can be passed over: when a command or a database
\* request of the burn log loop or of an operator fails (leader/index.js:242,
\* db.js:73, 86; RecoversFromErrors), or the chain is reorganised under the
\* leader (YieldsEachEvent).
Working == ~done /\ pc # "rejected"
EventuallyMinted ==
    (Unforgetting /\ MaxReorgDepth = 0) =>
        (<>[]Working =>
            \A h \in Burns \ Invalid :
                Final(h) ~> (h \in B!Minted /\ [](swaps[h].status = "CONFIRMED")))

---------------------------------------------------------------------------
(* What the repository says of the program and the code does not do. *)

\* README.md:88, "The leader and operators should be fault tolerant and
\* recover from errors such as network, database or blockchain connection
\* failures", and 91, "The worker will log such errors and exit, it is up to
\* the host to keep it running": once such an error is over, a burn is minted
\* as if there had been none.
RecoversFromErrors == \A h \in Burns \ Invalid : Final(h) ~> h \in B!Minted
=============================================================================
