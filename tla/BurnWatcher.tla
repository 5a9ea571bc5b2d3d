----------------------------- MODULE BurnWatcher -----------------------------
(***************************************************************************)
(* common/burn_watcher.js: watchBurnLog, the generator the leader and every *)
(* operator iterate over.  One watcher per process; `at` is where its       *)
(* generator stands:                                                        *)
(*   off          not started                                               *)
(*   getBlock     awaits getBlockNumber                                     *)
(*   getEvents    awaits getPastEvents                                      *)
(*   events       goes through the events of one answer                     *)
(*   yielded      suspended at a yield: the consumer has the event          *)
(*   ended        stop() was called, or the consumer returned               *)
(***************************************************************************)
EXTENDS EthChain

CONSTANTS Leader,           \* the leader's watcher; the others are operators'
          NbConfirmations,  \* the operators' nbConfirmations; the leader's is 0
          FromBlock,        \* config.fromBlock: where every process starts
          Invalid,          \* burns whose recipient isValidCosmosAddress refuses
          NoBurn            \* no event

Watchers == {Leader} \cup Operators

ASSUME WatcherAssumption ==
    /\ Leader \notin Operators
    /\ NbConfirmations \in 0..StartHeight
    /\ FromBlock \in Nat
    /\ Invalid \subseteq Burns
    /\ NoBurn \notin Burns

VARIABLES at,         \* where the generator stands
          fromBlock,  \* this.fromBlock
          toBlock,    \* computed before, used in, the request for events
          events,     \* events of the last answer not gone through yet
          logBurn,    \* the event the consumer is working on
          watching    \* this.watching

watchVars == <<at, fromBlock, toBlock, events, logBurn, watching>>

WatchInit ==
    /\ at = [w \in Watchers |-> "off"]
    /\ fromBlock = [w \in Watchers |-> FromBlock]
    /\ toBlock = [w \in Watchers |-> 0]
    /\ events = [w \in Watchers |-> {}]
    /\ logBurn = [w \in Watchers |-> NoBurn]
    /\ watching = [w \in Watchers |-> FALSE]

\* The consumer asks for the first event: the generator starts.
StartWatching(w) ==
    /\ at[w] = "off"
    /\ at' = [at EXCEPT ![w] = "getBlock"]
    /\ watching' = [watching EXCEPT ![w] = TRUE]
    /\ UNCHANGED <<fromBlock, toBlock, events, logBurn>>

\* The leader follows the latest block, an operator stays behind it.
Confirmations(w) == IF w = Leader THEN 0 ELSE NbConfirmations

\* Mutant of LastBlock: the confirmations are not waited for.
LatestBlock(w) == height

\* The last block whose events are asked for.
LastBlock(w) == height - Confirmations(w)

GetBlockNumber(w) ==
    /\ at[w] = "getBlock"
    /\ toBlock' = [toBlock EXCEPT ![w] = LastBlock(w)]
    /\ at' = [at EXCEPT ![w] = "getEvents"]
    /\ UNCHANGED <<fromBlock, events, logBurn, watching>>

GetPastEvents(w) ==
    /\ at[w] = "getEvents"
    /\ events' = [events EXCEPT ![w] = PastEvents(fromBlock[w], toBlock[w])]
    /\ toBlock' = [toBlock EXCEPT ![w] = 0]
    /\ at' = [at EXCEPT ![w] = "events"]
    /\ UNCHANGED <<fromBlock, logBurn, watching>>

\* The next event, in block order.  fromBlock moves past its block before
\* the event is handled, whether or not it is yielded.
NextEvent(w, e) ==
    /\ at[w] = "events"
    /\ e \in events[w]
    /\ \A f \in events[w] : e.block <= f.block
    /\ fromBlock' = [fromBlock EXCEPT ![w] = e.block + 1]
    /\ events' = [events EXCEPT ![w] = @ \ {e}]
    /\ IF e.burn \in Invalid
       THEN UNCHANGED <<at, logBurn>>
       ELSE /\ at' = [at EXCEPT ![w] = "yielded"]
            /\ logBurn' = [logBurn EXCEPT ![w] = e.burn]
    /\ UNCHANGED <<toBlock, watching>>

\* All events handled: sleep(pollingInterval), then while (this.watching).
PollAgain(w) ==
    /\ at[w] = "events"
    /\ events[w] = {}
    /\ at' = [at EXCEPT ![w] = IF watching[w] THEN "getBlock" ELSE "ended"]
    /\ UNCHANGED <<fromBlock, toBlock, events, logBurn, watching>>

WatchStep(w) ==
    \/ GetBlockNumber(w) \/ GetPastEvents(w) \/ PollAgain(w)
    \/ \E e \in events[w] : NextEvent(w, e)

\* What the consumer's end of the iteration does to the generator.
Resume(w) ==
    /\ at' = [at EXCEPT ![w] = "events"]
    /\ logBurn' = [logBurn EXCEPT ![w] = NoBurn]
    /\ UNCHANGED <<fromBlock, toBlock, events, watching>>

\* Mutant of Forget: how far the watcher had come survives the process.
ForgetAllButBlock(w) ==
    /\ at' = [at EXCEPT ![w] = "off"]
    /\ toBlock' = [toBlock EXCEPT ![w] = 0]
    /\ events' = [events EXCEPT ![w] = {}]
    /\ logBurn' = [logBurn EXCEPT ![w] = NoBurn]
    /\ watching' = [watching EXCEPT ![w] = FALSE]
    /\ UNCHANGED fromBlock

\* The process is gone, and with it the generator and how far it had come.
Forget(w) ==
    /\ at' = [at EXCEPT ![w] = "off"]
    /\ fromBlock' = [fromBlock EXCEPT ![w] = FromBlock]
    /\ toBlock' = [toBlock EXCEPT ![w] = 0]
    /\ events' = [events EXCEPT ![w] = {}]
    /\ logBurn' = [logBurn EXCEPT ![w] = NoBurn]
    /\ watching' = [watching EXCEPT ![w] = FALSE]

\* The consumer returned out of its loop.
Return(w) ==
    /\ at' = [at EXCEPT ![w] = "ended"]
    /\ events' = [events EXCEPT ![w] = {}]
    /\ logBurn' = [logBurn EXCEPT ![w] = NoBurn]
    /\ UNCHANGED <<fromBlock, toBlock, watching>>

\* stop()
StopWatching(w) ==
    /\ watching' = [watching EXCEPT ![w] = FALSE]
    /\ UNCHANGED <<at, fromBlock, toBlock, events, logBurn>>

WatchTypeOK ==
    /\ at \in [Watchers -> {"off", "getBlock", "getEvents", "events", "yielded", "ended"}]
    /\ fromBlock \in [Watchers -> Nat]
    /\ toBlock \in [Watchers -> Nat]
    /\ events \in [Watchers -> SUBSET [burn : Burns, block : Nat]]
    /\ logBurn \in [Watchers -> Burns \cup {NoBurn}]
    /\ watching \in [Watchers -> BOOLEAN]
    /\ \A w \in Watchers : at[w] = "yielded" => logBurn[w] \in Burns
=============================================================================
