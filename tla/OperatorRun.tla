----------------------------- MODULE OperatorRun -----------------------------
(***************************************************************************)
(* operator/index.js: run, the loop of each operator.  It signs the swap of *)
(* every burn its watcher yields, if the leader registered it and its       *)
(* status is still UNSIGNED.  `signing[o]` is                               *)
(*   watching   awaiting the watcher, or fetchSwap of the event it yielded  *)
(*   sign       awaiting signTx and insertSignature's findOne               *)
(*   exited     process.exit(0), or the process was lost                    *)
(* insertSignature does not wait for its insertOne: the request is in        *)
(* `signed[o]` until MongoDB answers it.                                    *)
(***************************************************************************)
EXTENDS SwapDb, BurnWatcher

VARIABLES signing,
          signed       \* signed[o]: burns whose signature is in flight

operatorVars == <<signing, signed>>

OperatorInit ==
    /\ signing = [o \in Operators |-> "watching"]
    /\ signed = [o \in Operators |-> {}]

Start(o) ==
    /\ signing[o] = "watching"
    /\ StartWatching(o)
    /\ NoFault
    /\ UNCHANGED <<operatorVars, dbVars>>

OperatorExit(o) ==
    /\ signing' = [signing EXCEPT ![o] = "exited"]
    /\ \E sent \in SUBSET signed[o] : signed' = [signed EXCEPT ![o] = sent]
    /\ Forget(o)
    /\ UNCHANGED dbVars

\* Mutant of FetchRegistered: a burn that has no document yet is signed too.
FetchAny(o) ==
    /\ signing[o] = "watching"
    /\ at[o] = "yielded"
    /\ IF swaps[logBurn[o]].status \in {"ABSENT", "UNSIGNED"}
       THEN /\ signing' = [signing EXCEPT ![o] = "sign"]
            /\ UNCHANGED watchVars
       ELSE Resume(o) /\ UNCHANGED signing
    /\ NoFault
    /\ UNCHANGED <<signed, dbVars>>

\* fetchSwap found the document: sign it if it is unsigned, else skip it.
FetchRegistered(o) ==
    /\ signing[o] = "watching"
    /\ at[o] = "yielded"
    /\ logBurn[o] \in Registered
    /\ IF swaps[logBurn[o]].status = "UNSIGNED"
       THEN /\ signing' = [signing EXCEPT ![o] = "sign"]
            /\ UNCHANGED watchVars
       ELSE Resume(o) /\ UNCHANGED signing
    /\ NoFault
    /\ UNCHANGED <<signed, dbVars>>

\* Mutant of FetchFails: a burn without a document is passed over.
FetchFailsAndGoesOn(o) ==
    /\ signing[o] = "watching"
    /\ at[o] = "yielded"
    /\ logBurn[o] \notin Registered /\ NoFault
    /\ Resume(o)
    /\ UNCHANGED <<operatorVars, dbVars>>

\* No document, or the query failed: log, sleep ten seconds, stop() and exit.
FetchFails(o) ==
    /\ signing[o] = "watching"
    /\ at[o] = "yielded"
    /\ \/ logBurn[o] \notin Registered /\ NoFault
       \/ Fault("db")
    /\ OperatorExit(o)

\* signTx with the document's sequence number, then insertSignature.  An
\* error of either is caught and the burn is passed over.
SignTx(o) ==
    /\ signing[o] = "sign"
    /\ \/ /\ signed' = [signed EXCEPT ![o] =
                IF o \in signatures[logBurn[o]] THEN @ ELSE @ \cup {logBurn[o]}]
          /\ NoFault
       \/ (Fault("cli") \/ Fault("db")) /\ UNCHANGED signed
    /\ signing' = [signing EXCEPT ![o] = "watching"]
    /\ Resume(o)
    /\ UNCHANGED dbVars

\* MongoDB answers an insertOne nobody waits for.
AnswerSignature(o, h) ==
    /\ h \in signed[o]
    /\ signed' = [signed EXCEPT ![o] = @ \ {h}]
    /\ \/ ApplySignature(o, h) /\ NoFault
       \/ Fault("db") /\ UNCHANGED dbVars
    /\ UNCHANGED <<signing, watchVars>>

OperatorStep(o) ==
    \/ Start(o) \/ FetchRegistered(o) \/ SignTx(o)
    \/ WatchStep(o) /\ NoFault /\ UNCHANGED <<operatorVars, dbVars>>

\* run rejects when the watcher's request fails, and server.js then ends the
\* process; or it is killed.
OperatorFails(o) ==
    /\ \/ signing[o] # "exited" /\ Fault("crash")
       \/ at[o] \in {"getBlock", "getEvents"} /\ Fault("run")
    /\ OperatorExit(o)

OperatorRestart(o) ==
    /\ signing[o] = "exited"
    /\ signing' = [signing EXCEPT ![o] = "watching"]
    /\ NoFault
    /\ UNCHANGED <<signed, watchVars, dbVars>>

OperatorTypeOK ==
    /\ signing \in [Operators -> {"watching", "sign", "exited"}]
    /\ signed \in [Operators -> SUBSET Burns]
    /\ \A o \in Operators : signing[o] = "sign" => at[o] = "yielded"
=============================================================================
