------------------------------ MODULE LeaderRun ------------------------------
(***************************************************************************)
(* leader/index.js: getSequence and run, the loop that stores an unsigned   *)
(* swap for every burn its watcher yields.  `run` names what it awaits:     *)
(*   findLast    getNextSequenceNumber, at the start                        *)
(*   askChain    the account's sequence number, when the database has none   *)
(*   watching    the watcher, or fetchSwap of the event it yielded          *)
(*   generate    generateTokenSwap                                          *)
(*   insert      insertUnsignedSwap's findBySequence                        *)
(*   returned    stop() was called: the loop is over, the process is not    *)
(*   exited      the process is gone; the host starts it again              *)
(* insertUnsignedSwap does not wait for its insertOne: the request is in     *)
(* `inserts` until MongoDB applies or refuses it.                           *)
(***************************************************************************)
EXTENDS SwapDb, BurnWatcher

VARIABLES run,
          sequenceNumber,  \* run's local counter
          inserts,         \* insertOne requests not applied yet
          done             \* this.done

runVars == <<run, sequenceNumber, inserts, done>>

RunInit ==
    /\ run = "findLast"
    /\ sequenceNumber = 0
    /\ inserts = {}
    /\ done = FALSE

LeaderUp == run # "exited"

\* getSequence: one more than the database's highest sequence number...
FindLastSequence ==
    /\ run = "findLast"
    /\ \/ \E h \in FindLast :
             /\ sequenceNumber' = swaps[h].sequence + 1
             /\ run' = "watching"
             /\ StartWatching(Leader)
       \/ /\ Registered = {}
          /\ run' = "askChain"
          /\ UNCHANGED <<sequenceNumber, watchVars>>
    /\ NoFault
    /\ UNCHANGED <<inserts, done, dbVars>>

\* ... or, for an account without swaps, the account's own.
AskChainSequence ==
    /\ run = "askChain"
    /\ sequenceNumber' = chainSequence
    /\ run' = "watching"
    /\ StartWatching(Leader)
    /\ NoFault
    /\ UNCHANGED <<inserts, done, dbVars>>

\* The end of an iteration: if (this.done) return.
EndOfIteration ==
    IF done THEN run' = "returned" /\ Return(Leader)
            ELSE run' = "watching" /\ Resume(Leader)

\* fetchSwap: a burn that has a document is left alone; an error is caught,
\* and the burn is left alone as well.
FetchSwap ==
    /\ run = "watching"
    /\ at[Leader] = "yielded"
    /\ \/ /\ logBurn[Leader] \notin Registered
          /\ run' = "generate"
          /\ UNCHANGED watchVars
          /\ NoFault
       \/ logBurn[Leader] \in Registered /\ EndOfIteration /\ NoFault
       \/ Fault("db") /\ EndOfIteration
    /\ UNCHANGED <<sequenceNumber, inserts, done, dbVars>>

\* Mutant of GenerateSwap: the sequence number is not taken.
GenerateOnly ==
    /\ run = "generate"
    /\ run' = "insert"
    /\ NoFault
    /\ UNCHANGED <<sequenceNumber, inserts, done, watchVars, dbVars>>

\* generateTokenSwap, then the sequence number is taken: whatever happens to
\* the insert, no later swap gets it.
GenerateSwap ==
    /\ run = "generate"
    /\ \/ /\ run' = "insert"
          /\ sequenceNumber' = sequenceNumber + 1
          /\ UNCHANGED watchVars
          /\ NoFault
       \/ Fault("cli") /\ EndOfIteration /\ UNCHANGED sequenceNumber
    /\ UNCHANGED <<inserts, done, dbVars>>

\* Mutant of InsertUnsignedSwap: the counter has moved on twice.
InsertWithNextSequence ==
    /\ run = "insert"
    /\ \/ /\ FindBySequence(sequenceNumber) = {}
          /\ inserts' = inserts \cup
                {[burn |-> logBurn[Leader], sequence |-> sequenceNumber]}
          /\ NoFault
       \/ /\ FindBySequence(sequenceNumber) # {}
          /\ NoFault /\ UNCHANGED inserts
       \/ (Fault("cli") \/ Fault("db")) /\ UNCHANGED inserts
    /\ EndOfIteration
    /\ UNCHANGED <<sequenceNumber, done, dbVars>>

\* insertUnsignedSwap: refused if the generated transaction is not one, if
\* the sequence number is taken or the query for it fails; the error is caught.
InsertUnsignedSwap ==
    /\ run = "insert"
    /\ \/ /\ FindBySequence(sequenceNumber - 1) = {}
          /\ inserts' = inserts \cup
                {[burn |-> logBurn[Leader], sequence |-> sequenceNumber - 1]}
          /\ NoFault
       \/ /\ FindBySequence(sequenceNumber - 1) # {}
          /\ NoFault /\ UNCHANGED inserts
       \/ (Fault("cli") \/ Fault("db")) /\ UNCHANGED inserts
    /\ EndOfIteration
    /\ UNCHANGED <<sequenceNumber, done, dbVars>>

\* MongoDB answers an insertOne nobody waits for: the document is stored,
\* unless its _id exists; an error is lost with the promise.
AnswerInsert(i) ==
    /\ i \in inserts
    /\ inserts' = inserts \ {i}
    /\ \/ /\ i.burn \notin Registered
          /\ ApplyInsert(i.burn, i.sequence)
          /\ NoFault
       \/ i.burn \in Registered /\ NoFault /\ UNCHANGED dbVars
       \/ Fault("db") /\ UNCHANGED dbVars
    /\ UNCHANGED <<run, sequenceNumber, done, watchVars>>

RunStep ==
    \/ FindLastSequence \/ AskChainSequence
    \/ FetchSwap \/ GenerateSwap \/ InsertUnsignedSwap
    \/ WatchStep(Leader) /\ NoFault /\ UNCHANGED <<runVars, dbVars>>

\* The generator ended: so does the for-await loop, and run returns.
RunReturns ==
    /\ run = "watching"
    /\ at[Leader] = "ended"
    /\ run' = "returned"
    /\ NoFault
    /\ UNCHANGED <<sequenceNumber, inserts, done, watchVars, dbVars>>

\* stop(), which broadcastSignedSwaps calls when a broadcast failed.
StopLeader ==
    /\ LeaderUp
    /\ Fault("stop")
    /\ done' = TRUE
    /\ StopWatching(Leader)
    /\ UNCHANGED <<run, sequenceNumber, inserts, swaps, signatures>>

\* The process exits; of the requests in flight some are still applied.  (What
\* becomes of the broadcast loop's status writes is that loop's business here
\* and in StopLeader.)
LeaderExit ==
    /\ run' = "exited"
    /\ sequenceNumber' = 0
    /\ inserts' \in SUBSET inserts
    /\ Forget(Leader)
    /\ UNCHANGED <<done, swaps, signatures>>

\* run rejects when a request of getSequence or of the watcher fails, and
\* server.js then ends the process; or it is killed.
LeaderFails ==
    /\ \/ LeaderUp /\ Fault("crash")
       \/ run \in {"findLast", "askChain"} /\ Fault("run")
       \/ at[Leader] \in {"getBlock", "getEvents"} /\ Fault("run")
    /\ LeaderExit

\* Mutant of LeaderRestart: without the sleep.
RestartAtOnce ==
    /\ run = "exited"
    /\ run' = "findLast"
    /\ done' = FALSE
    /\ NoFault
    /\ UNCHANGED <<sequenceNumber, inserts, watchVars, dbVars>>

\* The host restarts the process, which sleeps three seconds (server.js)
\* before it reads anything: longer than a request stays in flight.
LeaderRestart ==
    /\ run = "exited"
    /\ inserts = {}
    /\ run' = "findLast"
    /\ done' = FALSE
    /\ NoFault
    /\ UNCHANGED <<sequenceNumber, inserts, watchVars, dbVars>>

RunTypeOK ==
    /\ run \in {"findLast", "askChain", "watching", "generate", "insert",
                "returned", "exited"}
    /\ sequenceNumber \in Nat
    /\ run = "insert" => sequenceNumber > 0
    /\ run \in {"generate", "insert"} => at[Leader] = "yielded"
    /\ inserts \subseteq [burn : Burns, sequence : Nat]
    /\ done \in BOOLEAN
=============================================================================
