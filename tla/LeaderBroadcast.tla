--------------------------- MODULE LeaderBroadcast ---------------------------
(***************************************************************************)
(* leader/index.js: broadcastSignedSwaps, the statusCheck timers it starts, *)
(* and the methods both use to write statuses.                             *)
(*                                                                          *)
(* JavaScript runs one callback at a time, so an action is the code between *)
(* two awaits: it answers one request (a query's result is the database or  *)
(* the chain at that moment) and runs on to the next await.  `pc` names the *)
(* request the loop awaits:                                                 *)
(*   findFailed      findAllByStatus(FAILED)                                *)
(*   recheckFailed   isSwapDone of a failed swap                            *)
(*   findInProgress  findAllByStatuses([FAILED, SUBMITTED])                 *)
(*   pick, collect   the two queries of findAboveThresholdUnsignedSwaps     *)
(*   broadcast       broadcastTokenSwap                                     *)
(*   findSubmitted   findAllByStatus(SUBMITTED), after the sleep            *)
(*   checkSubmitted  the isSwapDone calls of Promise.all                    *)
(*   returned, rejected   the loop is over, the process is not              *)
(*   exited          the process is gone; the host starts it again          *)
(***************************************************************************)
EXTENDS SwapDb

CONSTANTS Threshold,    \* multisigThreshold
          TimerIds      \* bound: statusCheck timers pending at once

ASSUME LeaderAssumption == Threshold \in Nat /\ TimerIds # {}

VARIABLES pc,
          broadcasting, \* this.broadcasting
          done,         \* this.done, which the burn log loop looks at
          candidate,    \* the swap being broadcast, NoTx if none
          checking,     \* snapshots of swaps whose isSwapDone is awaited
          timers        \* pending statusCheck timers

leaderVars == <<pc, broadcasting, done, candidate, checking, timers>>

LoopPC == {"findFailed", "recheckFailed", "findInProgress", "pick", "collect",
           "broadcast", "findSubmitted", "checkSubmitted"}

LeaderInit ==
    /\ pc = "findFailed"
    /\ broadcasting = TRUE
    /\ done = FALSE
    /\ candidate = NoTx
    /\ checking = {}
    /\ timers = {}

Up == pc # "exited"

\* What a query returned of the documents in found, kept by the code that
\* goes on to use it after other awaits.
Snapshot(found) ==
    {[burn |-> h, mintTransactionHash |-> swaps[h].mintTransactionHash] : h \in found}

---------------------------------------------------------------------------
(* Status writes. *)

\* updateConfirmedTransaction
UpdateConfirmedTransaction(h, mintHash) == UpdateSwapStatus(h, mintHash, "CONFIRMED")

\* Mutant of RetrySubmittedSwap: the status that no query looks for.
RetryAsSigned(h) == UpdateSwapStatus(h, NoTx, "SIGNED")

\* retrySubmittedSwap
RetrySubmittedSwap(h) == UpdateSwapStatus(h, NoTx, "UNSIGNED")

\* updateFailedSwap, which no code in the repository calls.
UpdateFailedSwap(h) ==
    /\ Up
    /\ Fault("mark")
    /\ swaps[h].status = "UNSIGNED"
    /\ UpdateSwapStatus(h, NoTx, "FAILED")
    /\ UNCHANGED <<swaps, signatures, chainVars, leaderVars>>

\* stopBroadcasting
StopBroadcasting ==
    /\ Up
    /\ broadcasting
    /\ Fault("stop")
    /\ broadcasting' = FALSE
    /\ UNCHANGED <<dbVars, chainVars, pc, done, candidate, checking, timers>>

---------------------------------------------------------------------------
(* One iteration of the loop. *)

FindFailed ==
    /\ pc = "findFailed"
    /\ checking' = Snapshot(FindAllByStatus("FAILED", 10))
    /\ pc' = IF checking' = {} THEN "findInProgress" ELSE "recheckFailed"
    /\ NoFault
    /\ UNCHANGED <<dbVars, chainVars, broadcasting, done, candidate, timers>>

\* for (const failedSwap of failedTxs), in the order of the query.  When the
\* swap is not done, the branch names an undeclared variable: the
\* ReferenceError is rethrown and rejects the loop's promise.
RecheckFailed(s) ==
    /\ pc = "recheckFailed"
    /\ s \in checking
    /\ \A r \in checking : swaps[s.burn].sequence <= swaps[r.burn].sequence
    /\ NoFault
    /\ \/ /\ IsSwapDone(s.burn)
          /\ UpdateConfirmedTransaction(s.burn, s.mintTransactionHash)
          /\ checking' = checking \ {s}
          /\ pc' = IF checking' = {} THEN "findInProgress" ELSE "recheckFailed"
       \/ /\ ~IsSwapDone(s.burn)
          /\ checking' = {}
          /\ pc' = "rejected"
          /\ UNCHANGED updates
    /\ UNCHANGED <<swaps, signatures, chainVars, broadcasting, done, candidate, timers>>

\* "only broadcast once there are none in progress"
FindInProgress ==
    /\ pc = "findInProgress"
    /\ pc' = IF FindAllByStatuses({"FAILED", "SUBMITTED"}) = {}
             THEN "pick" ELSE "findSubmitted"
    /\ NoFault
    /\ UNCHANGED <<dbVars, chainVars, broadcasting, done, candidate, checking, timers>>

\* Mutant of MintTxFor: the account's current sequence, not the swap's own.
MintTxWithChainSequence(h, signers) ==
    [burn |-> h, sequence |-> chainSequence, signers |-> signers]

\* The transaction of swap h: its own sequence number and these signatures.
MintTxFor(h, signers) ==
    [burn |-> h, sequence |-> swaps[h].sequence, signers |-> signers]

\* findAboveThresholdUnsignedSwaps(threshold, 1): the unsigned swap with the
\* lowest sequence...
Pick ==
    /\ pc = "pick"
    /\ LET lowest == FindAllByStatus("UNSIGNED", 1) IN
       \/ /\ lowest = {}
          /\ pc' = "findSubmitted"
          /\ UNCHANGED candidate
       \/ \E h \in lowest :
             /\ candidate' = MintTxFor(h, {})
             /\ pc' = "collect"
    /\ NoFault
    /\ UNCHANGED <<dbVars, chainVars, broadcasting, done, checking, timers>>

\* ... and then its signatures.
Collect ==
    /\ pc = "collect"
    /\ IF FindAboveThreshold(candidate.burn, Threshold)
       THEN /\ candidate' = MintTxFor(candidate.burn, signatures[candidate.burn])
            /\ pc' = "broadcast"
       ELSE /\ candidate' = NoTx
            /\ pc' = "findSubmitted"
    /\ NoFault
    /\ UNCHANGED <<dbVars, chainVars, broadcasting, done, checking, timers>>

FreeTimerIds == {i \in TimerIds : \A t \in timers : t.id # i}

\* The client printed a txhash.  `-b async` hands the transaction over.
BroadcastSucceeds ==
    /\ pc = "broadcast"
    /\ FreeTimerIds # {}
    /\ mempool' = mempool \cup {candidate}
    /\ UpdateSwapStatus(candidate.burn, candidate, "SUBMITTED")
    /\ timers' = timers \cup {[id |-> CHOOSE i \in FreeTimerIds : TRUE, tx |-> candidate]}
    /\ candidate' = NoTx
    /\ pc' = "findSubmitted"
    /\ NoFault
    /\ UNCHANGED <<swaps, signatures, chainSequence, ledger, broadcasting, done, checking>>

\* A command failed, before or after the transaction reached a node: retry
\* the swap, stop both loops of the leader (stop() also ends the watcher's
\* polling), and finish the iteration.
BroadcastFails ==
    /\ pc = "broadcast"
    /\ Fault("cli")
    /\ mempool' \in {mempool, mempool \cup {candidate}}
    /\ RetrySubmittedSwap(candidate.burn)
    /\ broadcasting' = FALSE
    /\ done' = TRUE
    /\ candidate' = NoTx
    /\ pc' = "findSubmitted"
    /\ UNCHANGED <<swaps, signatures, chainSequence, ledger, checking, timers>>

FindSubmitted ==
    /\ pc = "findSubmitted"
    /\ checking' = Snapshot(FindAllByStatus("SUBMITTED", 10))
    /\ pc' = "checkSubmitted"
    /\ NoFault
    /\ UNCHANGED <<dbVars, chainVars, broadcasting, done, candidate, timers>>

\* The submitted swaps are checked concurrently; an error is only logged.
CheckSubmitted(s) ==
    /\ pc = "checkSubmitted"
    /\ s \in checking
    /\ checking' = checking \ {s}
    /\ \/ /\ IsSwapDone(s.burn)
          /\ UpdateConfirmedTransaction(s.burn, s.mintTransactionHash)
          /\ NoFault
       \/ /\ ~IsSwapDone(s.burn)
          /\ RetrySubmittedSwap(s.burn)
          /\ NoFault
       \/ Fault("cli") /\ UNCHANGED updates
    /\ UNCHANGED <<swaps, signatures, chainVars, pc, broadcasting, done, candidate, timers>>

\* while (this.broadcasting)
LoopTest ==
    /\ pc = "checkSubmitted"
    /\ checking = {}
    /\ pc' = IF broadcasting THEN "findFailed" ELSE "returned"
    /\ NoFault
    /\ UNCHANGED <<dbVars, chainVars, broadcasting, done, candidate, checking, timers>>

\* No try surrounds the loop's queries, nor does anything handle the promise
\* of the loop: a failing query, or a failing isSwapDone of a failed swap,
\* ends the loop and nothing else.
LoopRejects ==
    /\ \/ pc \in {"findFailed", "findInProgress", "pick", "collect", "findSubmitted"}
          /\ Fault("db")
       \/ pc = "recheckFailed" /\ Fault("cli")
    /\ pc' = "rejected"
    /\ candidate' = NoTx
    /\ checking' = {}
    /\ UNCHANGED <<dbVars, chainVars, broadcasting, done, timers>>

LoopStep ==
    \/ FindFailed \/ FindInProgress \/ Pick \/ Collect
    \/ BroadcastSucceeds \/ FindSubmitted \/ LoopTest
    \/ \E s \in checking : RecheckFailed(s) \/ CheckSubmitted(s)

---------------------------------------------------------------------------
(* Outside the loop. *)

\* The timer of statusCheck fires.  Its callback is a `function`, whose
\* `this` is the timer, so `this.broadcasting` is undefined: it never checks
\* again, and throws into a promise nobody handles.  An isSwapDone that
\* fails is caught and counts as not done.
StatusCheck(t) ==
    /\ Up
    /\ t \in timers
    /\ timers' = timers \ {t}
    /\ \/ /\ IsSwapDone(t.tx.burn)
          /\ UpdateConfirmedTransaction(t.tx.burn, t.tx)
          /\ NoFault
       \/ ~IsSwapDone(t.tx.burn) /\ NoFault /\ UNCHANGED updates
       \/ Fault("cli") /\ UNCHANGED updates
    /\ UNCHANGED <<swaps, signatures, chainVars, pc, broadcasting, done, candidate, checking>>

\* The process exits; of the requests in flight some are still applied.  (A
\* client still handing the transaction over when the process goes may succeed
\* at it: BroadcastSucceeds, then Exit without the status request.)
Exit ==
    /\ pc' = "exited"
    /\ candidate' = NoTx
    /\ checking' = {}
    /\ timers' = {}
    /\ updates' \in SUBSET updates
    /\ UNCHANGED <<swaps, signatures, chainVars, broadcasting, done>>

Crash == Up /\ Fault("crash") /\ Exit

\* leader.run(), in the same process, rejects: the Ethereum provider, MongoDB
\* or the client failed it.  server.js closes the database connection, which
\* ends this loop as well, and nothing is left to keep the process alive.
RunRejects == Up /\ Fault("run") /\ Exit

\* updateOne fails: its callback throws and nothing catches that.
UpdateFails ==
    /\ Up
    /\ Fault("db")
    /\ Exit
    /\ updates' # updates

\* The host restarts the process; it connects and sleeps three seconds
\* (server.js) before it does anything, longer than a request stays in flight.
Restart ==
    /\ pc = "exited"
    /\ updates = {}
    /\ pc' = "findFailed"
    /\ broadcasting' = TRUE
    /\ done' = FALSE
    /\ NoFault
    /\ UNCHANGED <<dbVars, chainVars, candidate, checking, timers>>

\* Everything the leader's process does, or suffers, on this side of it.
LeaderStep ==
    \/ LoopStep
    \/ BroadcastFails
    \/ LoopRejects
    \/ \E t \in timers : StatusCheck(t)
    \/ Crash
    \/ RunRejects
    \/ UpdateFails
    \/ Restart
    \/ StopBroadcasting
    \/ \E h \in Burns : UpdateFailedSwap(h)

LeaderTypeOK ==
    /\ pc \in LoopPC \cup {"returned", "rejected", "exited"}
    /\ broadcasting \in BOOLEAN
    /\ done \in BOOLEAN
    /\ candidate \in MintTx \cup {NoTx}
    /\ pc \in {"collect", "broadcast"} => candidate \in MintTx
    /\ checking \subseteq [burn : Burns, mintTransactionHash : MintTx \cup {NoTx}]
    /\ timers \subseteq [id : TimerIds, tx : MintTx]
=============================================================================
