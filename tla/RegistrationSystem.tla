-------------------------- MODULE RegistrationSystem --------------------------
(***************************************************************************)
(* The registration side: Ethereum, the leader's burn log loop and the       *)
(* operators, around the database.  The leader's broadcast loop is reduced   *)
(* to what it does to the documents these look at: once a swap has Threshold *)
(* signatures its status moves between UNSIGNED and SUBMITTED, as long as    *)
(* it likes.  (Operators tell UNSIGNED from the rest, and nothing else.)     *)
(***************************************************************************)
EXTENDS LeaderRun, OperatorRun

CONSTANTS Threshold     \* multisigThreshold

\* nbConfirmations is chosen so that no reorganisation reaches that deep
\* (common/burn_watcher.js:39-40).
ASSUME RegistrationAssumption ==
    /\ Threshold \in Nat
    /\ MaxReorgDepth <= NbConfirmations

vars == <<ethVars, watchVars, runVars, operatorVars, dbVars, chainVars, faults>>

Init ==
    /\ EthInit /\ WatchInit /\ RunInit /\ OperatorInit /\ DbInit /\ ChainInit
    /\ FaultInit

Broadcasts(h) ==
    /\ h \in Registered
    /\ Cardinality(signatures[h]) >= Threshold
    /\ \E status \in {"UNSIGNED", "SUBMITTED"} :
          swaps' = [swaps EXCEPT ![h].status = status]
    /\ NoFault
    /\ UNCHANGED <<signatures, updates, ethVars, watchVars, runVars, operatorVars, chainVars>>

LeaderStep ==
    /\ \/ RunStep \/ RunReturns \/ StopLeader \/ LeaderFails \/ LeaderRestart
       \/ \E i \in inserts : AnswerInsert(i)
    /\ UNCHANGED <<updates, ethVars, operatorVars, chainVars>>

OperatorsStep ==
    /\ \E o \in Operators :
          \/ OperatorStep(o) \/ FetchFails(o) \/ OperatorFails(o) \/ OperatorRestart(o)
          \/ \E h \in signed[o] : AnswerSignature(o, h)
    /\ UNCHANGED <<ethVars, runVars, chainVars>>

EthStep ==
    /\ \E depth \in 0..MaxReorgDepth : NewBlock(depth)
    /\ UNCHANGED <<watchVars, runVars, operatorVars, dbVars, chainVars>>

Next ==
    \/ LeaderStep
    \/ OperatorsStep
    \/ EthStep
    \/ \E h \in Burns : Broadcasts(h)

Spec == Init /\ [][Next]_vars

\* The host runs the processes and restarts them, MongoDB answers, the
\* provider answers.  Nothing is assumed of Ethereum or of the broadcast side.
Fairness ==
    /\ WF_vars((RunStep \/ RunReturns \/ LeaderRestart)
               /\ UNCHANGED <<ethVars, operatorVars, chainVars>>)
    /\ WF_vars(\E i \in inserts : AnswerInsert(i) /\ UNCHANGED <<ethVars, operatorVars, chainVars>>)
    /\ \A o \in Operators :
          /\ WF_vars((OperatorStep(o) \/ FetchFails(o) \/ OperatorRestart(o))
                     /\ UNCHANGED <<ethVars, runVars, chainVars>>)
          /\ \A h \in Burns :
                WF_vars(AnswerSignature(o, h) /\ UNCHANGED <<ethVars, runVars, chainVars>>)

FairSpec == Spec /\ Fairness

---------------------------------------------------------------------------
(* Safety. *)

TypeOK ==
    /\ EthTypeOK /\ WatchTypeOK /\ RunTypeOK /\ OperatorTypeOK /\ DbTypeOK
    /\ ChainTypeOK /\ FaultTypeOK

\* An event nbConfirmations deep, which no reorganisation can reach.
Final(h) == blockOf[h] \in 1..(height - NbConfirmations)

\* What operators sign stays burnt: a swap with a signature, applied or in
\* flight, has an event that can never leave the chain, although every
\* watcher reads the height and the events in two requests and the chain
\* reorganises in between.
SignedIsFinal ==
    \A o \in Operators, h \in Burns :
        o \in signatures[h] \/ h \in signed[o] => Final(h)

\* Every sequence number is given to one burn, among the documents and the
\* inserts nobody waits for, over every restart: the check and the insert of
\* insertUnsignedSwap are two requests.  (test/db.test.js:53-102 inserts a taken
\* number twice and expects a second document, and no error, where db.js:65-68
\* throws; the leader never offers a taken number, so that neither happens.)
Assigned ==
    {<<h, swaps[h].sequence>> : h \in Registered} \cup {<<i.burn, i.sequence>> : i \in inserts}

UniqueSequences == \A p, q \in Assigned : p[2] = q[2] => p[1] = q[1]

\* As long as nothing failed no sequence number is skipped: those given out
\* are an interval that starts at the account's.  (A number is taken before its
\* document is inserted: a failure leaves a gap nobody fills.)
NoGaps ==
    LET given == {p[2] : p \in Assigned} IN
    faults = 0 => given = FirstSequence..(FirstSequence + Cardinality(given) - 1)

\* Failures the code logs and forgets, and a run that has none of them.
Forgotten == {"cli", "db"}
Unforgetting == FaultKinds \cap Forgotten = {}

\* Consumers whose watchers no reorganisation overtakes.
Undisturbed == Operators \cup IF MaxReorgDepth = 0 THEN {Leader} ELSE {}

InHand(w, h) == logBurn[w] = h \/ \E e \in events[w] : e.burn = h

DealtWith(w, h) ==
    IF w = Leader THEN h \in Registered \/ \E i \in inserts : i.burn = h
    ELSE \/ w \in signatures[h] \/ h \in signed[w]
         \/ Cardinality(signatures[h]) >= Threshold

\* fromBlock moves past a burn before the burn is handled, and is all a
\* consumer knows of what it has done; yet, unless a failure is forgotten,
\* each burn behind it is in hand or dealt with: whoever cannot finish starts
\* again from the first block.
NoBurnPassedOver ==
    Unforgetting =>
        \A w \in Undisturbed, h \in Burns \ Invalid :
            /\ blockOf[h] \in (FromBlock..(fromBlock[w] - 1)) \ {0}
            /\ at[w] # "ended"
            => InHand(w, h) \/ DealtWith(w, h)

---------------------------------------------------------------------------
(* The inductive invariant: RegistrationProofs proves it, a run checks it. *)

\* What an operator has asked for, been given, or is working on is final.
OperatorsSeeFinal ==
    \A o \in Operators :
        /\ at[o] = "getEvents" => toBlock[o] <= height - NbConfirmations
        /\ \A e \in events[o] : Final(e.burn)
        /\ logBurn[o] # NoBurn => Final(logBurn[o])

\* The counter is ahead of every number given out; while it is read from the
\* database or the chain no insert is on its way.
CounterAhead ==
    /\ run \in {"findLast", "askChain"} => inserts = {}
    /\ run = "askChain" => Registered = {}
    /\ run \in {"watching", "generate"} => \A p \in Assigned : p[2] < sequenceNumber
    /\ run = "insert" => \A p \in Assigned : p[2] < sequenceNumber - 1

IInv == TypeOK /\ OperatorsSeeFinal /\ SignedIsFinal /\ CounterAhead /\ UniqueSequences

---------------------------------------------------------------------------
(* Liveness. *)

\* A burn with a valid recipient that has its confirmations is registered
\* and signed by enough operators, whoever reads it first and whoever crashes;
\* but for what passes a burn over, a forgotten failure or a reorganisation
\* under a leader with 0 confirmations, and but for stop().
EventuallySigned ==
    (Unforgetting /\ MaxReorgDepth = 0 /\ "stop" \notin FaultKinds) =>
        \A h \in Burns \ Invalid :
            Final(h) ~> Cardinality(signatures[h]) >= Threshold

---------------------------------------------------------------------------
(* What the repository says of the program and the code does not do. *)

\* common/burn_watcher.js:31, "Watch the chain and yield for each LogLock
\* event": the leader's watcher yields, and so run registers, every burn that
\* is in the chain for good.
YieldsEachEvent == \A h \in Burns \ Invalid : Final(h) ~> h \in Registered
=============================================================================
