-------------------------- MODULE RegistrationProofs --------------------------
(***************************************************************************)
(* Theorems of RegistrationSystem, for every set of burns and operators,     *)
(* every threshold, number of confirmations and bound on blocks and faults:  *)
(* type correctness, then the inductive invariant and what follows from it.  *)
(***************************************************************************)
EXTENDS RegistrationSystem, FiniteSetTheorems, TLAPS

USE DEF Status

\* What may happen to one watcher, whoever makes it happen.
WatcherMoves(w) ==
    StartWatching(w) \/ WatchStep(w) \/ Resume(w) \/ Forget(w) \/ Return(w) \/ StopWatching(w)

\* The other watchers keep all they have.
LEMMA OthersKept ==
    ASSUME WatchTypeOK, NEW w \in Watchers, WatcherMoves(w)
    PROVE  \A x \in Watchers : x # w =>
              /\ at'[x] = at[x] /\ fromBlock'[x] = fromBlock[x] /\ toBlock'[x] = toBlock[x]
              /\ events'[x] = events[x] /\ logBurn'[x] = logBurn[x]
BY DEF WatchTypeOK, WatcherMoves, StartWatching, WatchStep, GetBlockNumber, GetPastEvents,
       PollAgain, NextEvent, Resume, Forget, Return, StopWatching

\* No watcher asks for blocks that do not exist.
LEMMA LastBlockTyped ==
    ASSUME EthTypeOK, NEW w \in Watchers
    PROVE  LastBlock(w) \in Nat
BY WatcherAssumption, EthAssumption DEF EthTypeOK, LastBlock, Confirmations

LEMMA PastEventsTyped ==
    ASSUME EthTypeOK, NEW from \in Nat, NEW to \in Nat
    PROVE  PastEvents(from, to) \in SUBSET [burn : Burns, block : Nat]
BY DEF PastEvents, EthTypeOK

\* A move keeps the watchers' state well typed.
LEMMA WatchTyped ==
    ASSUME EthTypeOK, WatchTypeOK, NEW w \in Watchers, WatcherMoves(w)
    PROVE  WatchTypeOK'
<1> USE WatcherAssumption
<1>1. CASE StartWatching(w) \/ StopWatching(w)
  BY <1>1 DEF WatchTypeOK, StartWatching, StopWatching
<1>6. CASE Resume(w) \/ Return(w)
  BY <1>6 DEF WatchTypeOK, Resume, Return
<1>7. CASE Forget(w)
  BY <1>7 DEF WatchTypeOK, Forget
<1>2. CASE GetBlockNumber(w)
  BY <1>2, LastBlockTyped DEF WatchTypeOK, GetBlockNumber
<1>3. CASE GetPastEvents(w)
  <2>1. PastEvents(fromBlock[w], toBlock[w]) \in SUBSET [burn : Burns, block : Nat]
    BY PastEventsTyped DEF WatchTypeOK
  <2> QED  BY <1>3, <2>1 DEF WatchTypeOK, GetPastEvents
<1>4. CASE PollAgain(w)
  BY <1>4 DEF WatchTypeOK, PollAgain
<1>5. ASSUME NEW e \in events[w], NextEvent(w, e) PROVE WatchTypeOK'
  <2>1. e.burn \in Burns /\ e.block \in Nat
    BY DEF WatchTypeOK
  <2> QED  BY <1>5, <2>1 DEF WatchTypeOK, NextEvent
<1> QED  BY <1>1, <1>2, <1>3, <1>4, <1>5, <1>6, <1>7 DEF WatcherMoves, WatchStep

LEMMA TypeInit == Init => TypeOK
<1> SUFFICES ASSUME Init PROVE TypeOK
  OBVIOUS
<1>1. EthTypeOK /\ WatchTypeOK
  BY EthAssumption, WatcherAssumption
     DEF Init, EthInit, EthTypeOK, WatchInit, WatchTypeOK
<1>2. DbTypeOK
  <2>1. NoSwap \in Swap
    BY DEF NoSwap, Swap
  <2> QED  BY <2>1 DEF Init, DbInit, DbTypeOK
<1>3. RunTypeOK /\ OperatorTypeOK /\ ChainTypeOK /\ FaultTypeOK
  BY ChainAssumption
     DEF Init, RunInit, RunTypeOK, OperatorInit, OperatorTypeOK, ChainInit, ChainTypeOK,
         FaultInit, FaultTypeOK
<1> QED  BY <1>1, <1>2, <1>3 DEF TypeOK

LEMMA FaultsTyped ==
    ASSUME FaultTypeOK, NoFault \/ \E kind : Fault(kind)
    PROVE  FaultTypeOK'
BY DEF FaultTypeOK, NoFault, Fault

\* An inserted document is well typed.
LEMMA InsertTyped ==
    ASSUME DbTypeOK, NEW h \in Burns, NEW n \in Nat, ApplyInsert(h, n)
    PROVE  DbTypeOK'
<1>1. [status |-> "UNSIGNED", sequence |-> n, mintTransactionHash |-> NoTx] \in Swap
  BY DEF Swap
<1> QED  BY <1>1 DEF ApplyInsert, DbTypeOK

\* What a step of the leader's process does to its watcher.
LEMMA LeaderMoves ==
    ASSUME LeaderStep
    PROVE  WatcherMoves(Leader) \/ UNCHANGED watchVars
BY DEF LeaderStep, RunStep, FindLastSequence, AskChainSequence, FetchSwap, GenerateSwap,
       InsertUnsignedSwap, EndOfIteration, RunReturns, StopLeader, LeaderFails, LeaderExit,
       LeaderRestart, AnswerInsert, WatcherMoves

LEMMA LeaderTyped == ASSUME TypeOK, LeaderStep PROVE TypeOK'
<1> USE DEF TypeOK
<1> Leader \in Watchers /\ \A o \in Operators : o \in Watchers /\ o # Leader
  BY WatcherAssumption DEF Watchers
<1>1. EthTypeOK' /\ ChainTypeOK' /\ FaultTypeOK'
  <2>1. NoFault \/ \E kind : Fault(kind)
    BY DEF LeaderStep, RunStep, FindLastSequence, AskChainSequence, FetchSwap, GenerateSwap,
           InsertUnsignedSwap, RunReturns, StopLeader, LeaderFails, LeaderRestart, AnswerInsert
  <2> QED  BY <2>1, FaultsTyped DEF LeaderStep, ethVars, chainVars, EthTypeOK, ChainTypeOK
<1>2. WatchTypeOK'
  <2>1. CASE WatcherMoves(Leader)
    BY <2>1, WatchTyped
  <2>2. CASE UNCHANGED watchVars
    BY <2>2 DEF watchVars, WatchTypeOK
  <2> QED  BY <2>1, <2>2, LeaderMoves
<1>3. OperatorTypeOK'
  <2>1. \A o \in Operators : at'[o] = at[o]
    <3>1. CASE WatcherMoves(Leader)
      BY <3>1, OthersKept
    <3>2. CASE UNCHANGED watchVars
      BY <3>2 DEF watchVars
    <3> QED  BY <3>1, <3>2, LeaderMoves
  <2> QED  BY <2>1 DEF LeaderStep, operatorVars, OperatorTypeOK
<1>4. DbTypeOK' /\ RunTypeOK'
  <2>1. ASSUME NEW i \in inserts, AnswerInsert(i) PROVE DbTypeOK' /\ RunTypeOK'
    <3>1. i.burn \in Burns /\ i.sequence \in Nat
      BY DEF RunTypeOK
    <3>2. DbTypeOK'
      <4>1. CASE ApplyInsert(i.burn, i.sequence)
        BY <3>1, <4>1, InsertTyped
      <4>2. CASE UNCHANGED dbVars
        BY <4>2 DEF dbVars, DbTypeOK
      <4> QED  BY <2>1, <4>1, <4>2 DEF AnswerInsert
    <3> QED  BY <2>1, <3>2 DEF AnswerInsert, RunTypeOK, watchVars
  <2>2. ASSUME UNCHANGED <<swaps, signatures>> PROVE DbTypeOK'
    BY <2>2 DEF LeaderStep, DbTypeOK
  <2>2a. ASSUME UNCHANGED dbVars PROVE UNCHANGED <<swaps, signatures>>
    BY <2>2a DEF dbVars
  <2>3. CASE FindLastSequence
    <3>1. \A h \in FindLast : swaps[h].sequence + 1 \in Nat
      BY DEF FindLast, Registered, DbTypeOK, Swap
    <3> QED  BY <2>2, <2>2a, <2>3, <3>1 DEF FindLastSequence, RunTypeOK, watchVars
  <2>4. CASE AskChainSequence
    BY <2>2, <2>2a, <2>4 DEF AskChainSequence, RunTypeOK, ChainTypeOK
  <2>5. CASE FetchSwap
    BY <2>2, <2>2a, <2>5 DEF FetchSwap, EndOfIteration, RunTypeOK, watchVars
  <2>6. CASE GenerateSwap
    BY <2>2, <2>2a, <2>6 DEF GenerateSwap, EndOfIteration, RunTypeOK, watchVars
  <2>7. CASE InsertUnsignedSwap
    <3>1. logBurn[Leader] \in Burns /\ sequenceNumber - 1 \in Nat
      BY <2>7 DEF InsertUnsignedSwap, RunTypeOK, WatchTypeOK
    <3>2. inserts' \subseteq [burn : Burns, sequence : Nat]
      BY <2>7, <3>1 DEF InsertUnsignedSwap, RunTypeOK
    <3> QED  BY <2>2, <2>2a, <2>7, <3>2 DEF InsertUnsignedSwap, EndOfIteration, RunTypeOK
  <2>8. CASE WatchStep(Leader) /\ UNCHANGED <<runVars, dbVars>>
    <3>1. run \notin {"generate", "insert"}
      BY <2>8 DEF WatchStep, GetBlockNumber, GetPastEvents, PollAgain, NextEvent, RunTypeOK
    <3> QED  BY <2>2, <2>2a, <2>8, <3>1 DEF runVars, RunTypeOK
  <2>9. CASE RunReturns \/ LeaderRestart
    BY <2>2, <2>2a, <2>9 DEF RunReturns, LeaderRestart, RunTypeOK
  <2>10. CASE StopLeader
    BY <2>2, <2>10 DEF StopLeader, StopWatching, RunTypeOK
  <2>11. CASE LeaderFails
    BY <2>2, <2>11 DEF LeaderFails, LeaderExit, RunTypeOK
  <2> QED
    BY <2>1, <2>3, <2>4, <2>5, <2>6, <2>7, <2>8, <2>9, <2>10, <2>11 DEF LeaderStep, RunStep
<1> QED  BY <1>1, <1>2, <1>3, <1>4

\* What a step of operator o does to its watcher.
LEMMA OperatorMoves ==
    ASSUME NEW o \in Operators,
           \/ OperatorStep(o) \/ FetchFails(o) \/ OperatorFails(o) \/ OperatorRestart(o)
           \/ \E h \in signed[o] : AnswerSignature(o, h)
    PROVE  WatcherMoves(o) \/ UNCHANGED watchVars
BY DEF OperatorStep, Start, FetchRegistered, SignTx, FetchFails, OperatorFails,
       OperatorExit, OperatorRestart, AnswerSignature, WatcherMoves

LEMMA OperatorsTyped == ASSUME TypeOK, OperatorsStep PROVE TypeOK'
<1> USE DEF TypeOK
<1> PICK o \in Operators :
       \/ OperatorStep(o) \/ FetchFails(o) \/ OperatorFails(o) \/ OperatorRestart(o)
       \/ \E h \in signed[o] : AnswerSignature(o, h)
  BY DEF OperatorsStep
<1> o \in Watchers /\ Leader \in Watchers /\ o # Leader /\ \A x \in Operators : x \in Watchers
  BY WatcherAssumption DEF Watchers
<1>1. EthTypeOK' /\ ChainTypeOK' /\ FaultTypeOK'
  <2>1. NoFault \/ \E kind : Fault(kind)
    BY DEF OperatorStep, Start, FetchRegistered, SignTx, FetchFails, OperatorFails,
           OperatorRestart, AnswerSignature
  <2> QED  BY <2>1, FaultsTyped DEF OperatorsStep, ethVars, chainVars, EthTypeOK, ChainTypeOK
<1>2. WatchTypeOK'
  <2>1. CASE WatcherMoves(o)
    BY <2>1, WatchTyped
  <2>2. CASE UNCHANGED watchVars
    BY <2>2 DEF watchVars, WatchTypeOK
  <2> QED  BY <2>1, <2>2, OperatorMoves
<1>3. \A x \in Watchers : x # o => at'[x] = at[x]
  <2>1. CASE WatcherMoves(o)
    BY <2>1, OthersKept
  <2>2. CASE UNCHANGED watchVars
    BY <2>2 DEF watchVars
  <2> QED  BY <2>1, <2>2, OperatorMoves
<1>4. RunTypeOK'
  BY <1>3 DEF OperatorsStep, runVars, RunTypeOK
<1>5. DbTypeOK'
  <2>1. CASE UNCHANGED dbVars
    BY <2>1 DEF dbVars, DbTypeOK
  <2>2. ASSUME NEW h \in signed[o], ApplySignature(o, h) PROVE DbTypeOK'
    BY <2>2 DEF ApplySignature, DbTypeOK, OperatorTypeOK
  <2> QED
    BY <2>1, <2>2 DEF OperatorStep, Start, FetchRegistered, SignTx, FetchFails,
       OperatorFails, OperatorExit, OperatorRestart, AnswerSignature
<1>6. OperatorTypeOK'
  <2>1. CASE Start(o)
    BY <1>3, <2>1 DEF Start, operatorVars, OperatorTypeOK, StartWatching
  <2>2. CASE FetchRegistered(o)
    BY <1>3, <2>2 DEF FetchRegistered, OperatorTypeOK, watchVars
  <2>3. CASE SignTx(o)
    <3>1. logBurn[o] \in Burns
      BY <2>3 DEF SignTx, OperatorTypeOK, WatchTypeOK
    <3>2. signed' \in [Operators -> SUBSET Burns]
      BY <2>3, <3>1 DEF SignTx, OperatorTypeOK
    <3> QED  BY <1>3, <2>3, <3>2 DEF SignTx, OperatorTypeOK
  <2>4. CASE OperatorExit(o)
    BY <1>3, <2>4 DEF OperatorExit, OperatorTypeOK
  <2>5. CASE OperatorRestart(o)
    BY <2>5 DEF OperatorRestart, OperatorTypeOK, watchVars
  <2>6. ASSUME NEW h \in signed[o], AnswerSignature(o, h) PROVE OperatorTypeOK'
    BY <2>6 DEF AnswerSignature, OperatorTypeOK, watchVars
  <2>7. CASE WatchStep(o) /\ UNCHANGED operatorVars
    <3>1. signing[o] # "sign"
      BY <2>7 DEF WatchStep, GetBlockNumber, GetPastEvents, PollAgain, NextEvent, OperatorTypeOK
    <3> QED  BY <1>3, <2>7, <3>1 DEF operatorVars, OperatorTypeOK
  <2> QED
    BY <2>1, <2>2, <2>3, <2>4, <2>5, <2>6, <2>7
       DEF OperatorStep, FetchFails, OperatorFails
<1> QED  BY <1>1, <1>2, <1>4, <1>5, <1>6

LEMMA EthTyped == ASSUME TypeOK, EthStep PROVE TypeOK'
<1> USE DEF TypeOK
<1>1. PICK depth \in 0..MaxReorgDepth : NewBlock(depth)
  BY DEF EthStep
<1>2. EthTypeOK'
  BY <1>1, EthAssumption DEF NewBlock, EthTypeOK
<1>3. FaultTypeOK'
  BY <1>1 DEF NewBlock, FaultTypeOK, NoFault, Fault
<1>4. WatchTypeOK' /\ RunTypeOK' /\ OperatorTypeOK'
  BY DEF EthStep, watchVars, runVars, operatorVars, WatchTypeOK, RunTypeOK, OperatorTypeOK
<1>5. DbTypeOK' /\ ChainTypeOK'
  BY DEF EthStep, dbVars, chainVars, DbTypeOK, ChainTypeOK
<1> QED  BY <1>2, <1>3, <1>4, <1>5

LEMMA BroadcastsTyped == ASSUME TypeOK, NEW h \in Burns, Broadcasts(h) PROVE TypeOK'
<1> USE DEF TypeOK
<1>1. DbTypeOK'
  <2>1. PICK status \in {"UNSIGNED", "SUBMITTED"} : swaps' = [swaps EXCEPT ![h].status = status]
    BY DEF Broadcasts
  <2>2. [swaps[h] EXCEPT !.status = status] \in Swap
    BY DEF DbTypeOK, Swap
  <2> QED  BY <2>1, <2>2 DEF Broadcasts, DbTypeOK
<1>2. WatchTypeOK' /\ RunTypeOK' /\ OperatorTypeOK'
  BY DEF Broadcasts, watchVars, runVars, operatorVars, WatchTypeOK, RunTypeOK, OperatorTypeOK
<1>3. EthTypeOK' /\ ChainTypeOK' /\ FaultTypeOK'
  BY DEF Broadcasts, ethVars, chainVars, NoFault, EthTypeOK, ChainTypeOK, FaultTypeOK
<1> QED  BY <1>1, <1>2, <1>3

LEMMA TypeStep == ASSUME TypeOK, [Next]_vars PROVE TypeOK'
<1>1. CASE Next
  BY <1>1, LeaderTyped, OperatorsTyped, EthTyped, BroadcastsTyped DEF Next
<1>2. CASE UNCHANGED vars
  BY <1>2 DEF vars, ethVars, watchVars, runVars, operatorVars, dbVars, chainVars, TypeOK,
     EthTypeOK, WatchTypeOK, RunTypeOK, OperatorTypeOK, DbTypeOK, ChainTypeOK, FaultTypeOK
<1> QED  BY <1>1, <1>2

\* Every reachable state is well typed; in particular a consumer that works
\* on an event has one.
THEOREM TypeCorrect == Spec => []TypeOK
<1>1. Init => TypeOK
  BY TypeInit
<1>2. TypeOK /\ [Next]_vars => TypeOK'
  BY TypeStep
<1> QED  BY <1>1, <1>2, PTL DEF Spec

-----------------------------------------------------------------------------
(* Finality. *)

\* No reorganisation reaches an event NbConfirmations deep.
LEMMA FinalStays ==
    ASSUME TypeOK, [Next]_vars, NEW h \in Burns, Final(h)
    PROVE  Final(h)'
<1>1. CASE EthStep
  <2>1. PICK depth \in 0..MaxReorgDepth : NewBlock(depth)
    BY <1>1 DEF EthStep
  <2>2. blockOf[h] \in 1..(height - depth)
    BY RegistrationAssumption, WatcherAssumption, EthAssumption DEF Final, TypeOK, EthTypeOK
  <2>3. blockOf'[h] = blockOf[h] /\ height' = height + 1
    BY <2>1, <2>2 DEF NewBlock
  <2> QED  BY <2>3, WatcherAssumption, EthAssumption DEF Final, TypeOK, EthTypeOK
<1>2. CASE UNCHANGED ethVars
  BY <1>2 DEF ethVars, Final
<1> QED  BY <1>1, <1>2 DEF Next, LeaderStep, OperatorsStep, Broadcasts, vars

\* What OperatorsSeeFinal says of one operator.
SeesFinal(o) ==
    /\ at[o] = "getEvents" => toBlock[o] <= height - NbConfirmations
    /\ \A e \in events[o] : Final(e.burn)
    /\ logBurn[o] # NoBurn => Final(logBurn[o])

\* A move of operator o's own watcher, at a standing chain.
LEMMA MoveSeesFinal ==
    ASSUME TypeOK, NEW o \in Operators, SeesFinal(o), WatcherMoves(o), UNCHANGED ethVars
    PROVE  SeesFinal(o)'
<1> USE DEF SeesFinal, Final, ethVars, TypeOK
<1> o \in Watchers /\ o # Leader
  BY WatcherAssumption DEF Watchers
<1>1. CASE StartWatching(o) \/ PollAgain(o) \/ StopWatching(o)
  BY <1>1 DEF StartWatching, PollAgain, StopWatching, WatchTypeOK
<1>2. CASE Resume(o) \/ Return(o) \/ Forget(o)
  BY <1>2 DEF Resume, Return, Forget, WatchTypeOK
<1>3. CASE GetBlockNumber(o)
  BY <1>3, WatcherAssumption, EthAssumption
     DEF GetBlockNumber, LastBlock, Confirmations, WatchTypeOK, EthTypeOK
<1>4. CASE GetPastEvents(o)
  <2>1. fromBlock[o] \in Nat /\ toBlock[o] \in Nat /\ toBlock[o] <= height - NbConfirmations
    BY <1>4 DEF GetPastEvents, WatchTypeOK
  <2>2. \A e \in PastEvents(fromBlock[o], toBlock[o]) : Final(e.burn)
    BY <2>1, WatcherAssumption, EthAssumption DEF PastEvents, EthTypeOK
  <2> QED  BY <1>4, <2>2 DEF GetPastEvents, WatchTypeOK
<1>5. ASSUME NEW e \in events[o], NextEvent(o, e) PROVE SeesFinal(o)'
  BY <1>5 DEF NextEvent, WatchTypeOK
<1> QED  BY <1>1, <1>2, <1>3, <1>4, <1>5 DEF WatcherMoves, WatchStep

\* Whatever else happens, what an operator sees stays final.
LEMMA RestSeesFinal ==
    ASSUME TypeOK, [Next]_vars, NEW o \in Operators, SeesFinal(o),
           UNCHANGED <<at[o], toBlock[o], events[o], logBurn[o]>>
    PROVE  SeesFinal(o)'
<1>1. \A h \in Burns : Final(h) => Final(h)'
  BY FinalStays
<1>2. height' >= height /\ height \in Nat /\ height' \in Nat
  BY DEF TypeOK, EthTypeOK, Next, LeaderStep, OperatorsStep, EthStep, Broadcasts, NewBlock,
         ethVars, vars
<1>3. (\A e \in events[o] : e.burn \in Burns) /\ logBurn[o] \in Burns \cup {NoBurn}
      /\ toBlock[o] \in Nat
  BY DEF TypeOK, WatchTypeOK, Watchers
<1> QED  BY <1>1, <1>2, <1>3, WatcherAssumption, EthAssumption DEF SeesFinal

LEMMA OperatorsSeeFinalStays ==
    ASSUME TypeOK, OperatorsSeeFinal, [Next]_vars
    PROVE  OperatorsSeeFinal'
<1> SUFFICES ASSUME NEW x \in Operators PROVE SeesFinal(x)'
  BY DEF OperatorsSeeFinal, SeesFinal
<1>0. SeesFinal(x)
  BY DEF OperatorsSeeFinal, SeesFinal
<1> x \in Watchers /\ Leader \in Watchers /\ x # Leader /\ WatchTypeOK
  BY WatcherAssumption DEF Watchers, TypeOK
<1>1. CASE UNCHANGED watchVars
  BY <1>0, <1>1, RestSeesFinal DEF watchVars
<1>2. CASE WatcherMoves(Leader)
  BY <1>0, <1>2, OthersKept, RestSeesFinal
<1>3. ASSUME NEW o \in Operators, WatcherMoves(o), UNCHANGED ethVars PROVE SeesFinal(x)'
  <2>1. CASE o = x
    BY <1>0, <1>3, <2>1, MoveSeesFinal
  <2>2. CASE o # x
    BY <1>0, <1>3, <2>2, OthersKept, RestSeesFinal DEF Watchers
  <2> QED  BY <2>1, <2>2
<1>4. CASE LeaderStep
  BY <1>1, <1>2, <1>4, LeaderMoves
<1>5. CASE OperatorsStep
  BY <1>1, <1>3, <1>5, OperatorMoves DEF OperatorsStep
<1> QED  BY <1>1, <1>4, <1>5 DEF Next, EthStep, Broadcasts, vars

LEMMA SignedIsFinalStays ==
    ASSUME TypeOK, OperatorsSeeFinal, SignedIsFinal, [Next]_vars
    PROVE  SignedIsFinal'
<1>1. \A h \in Burns : Final(h) => Final(h)'
  BY FinalStays
<1>2. CASE UNCHANGED <<signatures, signed>>
  BY <1>1, <1>2 DEF SignedIsFinal
<1>3. ASSUME NEW o \in Operators, SignTx(o) PROVE SignedIsFinal'
  <2>1. logBurn[o] \in Burns /\ Final(logBurn[o])
    BY <1>3, WatcherAssumption
       DEF SignTx, TypeOK, OperatorTypeOK, WatchTypeOK, OperatorsSeeFinal, Watchers
  <2>2. UNCHANGED signatures /\ \A x \in Operators, h \in Burns :
            h \in signed'[x] => h \in signed[x] \/ h = logBurn[o]
    BY <1>3 DEF SignTx, dbVars, TypeOK, OperatorTypeOK
  <2> QED  BY <1>1, <2>1, <2>2 DEF SignedIsFinal
<1>4. ASSUME NEW o \in Operators, OperatorExit(o) PROVE SignedIsFinal'
  <2>1. UNCHANGED signatures /\ \A x \in Operators : signed'[x] \subseteq signed[x]
    BY <1>4 DEF OperatorExit, dbVars, TypeOK, OperatorTypeOK
  <2> QED  BY <1>1, <2>1 DEF SignedIsFinal
<1>5. ASSUME NEW o \in Operators, NEW g \in signed[o], AnswerSignature(o, g)
      PROVE  SignedIsFinal'
  <2>1. g \in Burns
    BY DEF TypeOK, OperatorTypeOK
  <2>2. \A x \in Operators, h \in Burns :
           /\ x \in signatures'[h] => x \in signatures[h] \/ (x = o /\ h = g)
           /\ signed'[x] \subseteq signed[x]
    BY <1>5, <2>1 DEF AnswerSignature, ApplySignature, dbVars, TypeOK, DbTypeOK, OperatorTypeOK
  <2> QED  BY <1>1, <2>1, <2>2 DEF SignedIsFinal
<1>6. CASE LeaderStep
  <2>1. UNCHANGED signatures
    BY <1>6 DEF LeaderStep, RunStep, FindLastSequence, AskChainSequence, FetchSwap,
       GenerateSwap, InsertUnsignedSwap, RunReturns, StopLeader, LeaderFails, LeaderExit,
       LeaderRestart, AnswerInsert, ApplyInsert, dbVars
  <2> QED  BY <1>2, <1>6, <2>1 DEF LeaderStep, operatorVars
<1>7. CASE OperatorsStep
  BY <1>2, <1>3, <1>4, <1>5, <1>7
     DEF OperatorsStep, OperatorStep, Start, FetchRegistered, FetchFails, OperatorFails,
         OperatorRestart, operatorVars, dbVars
<1> QED  BY <1>2, <1>6, <1>7 DEF Next, EthStep, Broadcasts, operatorVars, dbVars, vars

-----------------------------------------------------------------------------
(* Sequence numbers. *)

\* What Assigned says, burn by burn.
HasNumber(h, n) ==
    \/ h \in Registered /\ swaps[h].sequence = n
    \/ [burn |-> h, sequence |-> n] \in inserts

LEMMA AssignedNumbers ==
    ASSUME TypeOK
    PROVE  \A p : p \in Assigned <=>
               \E h \in Burns, n \in Nat : p = <<h, n>> /\ HasNumber(h, n)
<1>1. \A h \in Registered : h \in Burns /\ swaps[h].sequence \in Nat
  BY DEF TypeOK, DbTypeOK, Swap, Registered
<1>2. \A i \in inserts : i.burn \in Burns /\ i.sequence \in Nat
                         /\ i = [burn |-> i.burn, sequence |-> i.sequence]
  BY DEF TypeOK, RunTypeOK
<1>3. ASSUME NEW p \in Assigned
      PROVE  \E h \in Burns, n \in Nat : p = <<h, n>> /\ HasNumber(h, n)
  BY <1>1, <1>2, <1>3 DEF Assigned, HasNumber
<1>4. ASSUME NEW h \in Burns, NEW n \in Nat, HasNumber(h, n) PROVE <<h, n>> \in Assigned
  BY <1>4 DEF Assigned, HasNumber
<1> QED  BY <1>3, <1>4

\* The broadcast side leaves sequence numbers alone.
LEMMA BroadcastsKeepNumbers ==
    ASSUME TypeOK, NEW g \in Burns, Broadcasts(g)
    PROVE  /\ Registered' = Registered
           /\ \A h \in Burns : swaps'[h].sequence = swaps[h].sequence
BY DEF Broadcasts, Registered, TypeOK, DbTypeOK, Swap

\* Only insertUnsignedSwap gives a number out: the counter's last.
LEMMA NumbersGivenOut ==
    ASSUME TypeOK, [Next]_vars, NEW h \in Burns, NEW n \in Nat, HasNumber(h, n)'
    PROVE  \/ HasNumber(h, n)
           \/ InsertUnsignedSwap /\ h = logBurn[Leader] /\ n = sequenceNumber - 1
<1> USE DEF HasNumber
<1>1. CASE UNCHANGED <<swaps, inserts>>
  BY <1>1 DEF Registered
<1>2. CASE InsertUnsignedSwap
  BY <1>2 DEF InsertUnsignedSwap, dbVars, Registered
<1>3. ASSUME NEW i \in inserts, AnswerInsert(i) PROVE HasNumber(h, n)
  <2>1. i = [burn |-> i.burn, sequence |-> i.sequence] /\ i.burn \in Burns
    BY DEF TypeOK, RunTypeOK
  <2> QED
    BY <1>3, <2>1 DEF AnswerInsert, ApplyInsert, Registered, dbVars, TypeOK, DbTypeOK
<1>4. CASE LeaderFails
  BY <1>4 DEF LeaderFails, LeaderExit, dbVars, Registered
<1>5. CASE LeaderStep
  BY <1>1, <1>2, <1>3, <1>4, <1>5
     DEF LeaderStep, RunStep, FindLastSequence, AskChainSequence, FetchSwap, GenerateSwap,
         RunReturns, StopLeader, LeaderRestart, dbVars, runVars
<1>6. CASE OperatorsStep
  BY <1>1, <1>6
     DEF OperatorsStep, OperatorStep, Start, FetchRegistered, SignTx, FetchFails, OperatorFails,
         OperatorExit, OperatorRestart, AnswerSignature, ApplySignature, dbVars, runVars
<1>7. ASSUME NEW g \in Burns, Broadcasts(g) PROVE HasNumber(h, n)
  BY <1>7, BroadcastsKeepNumbers DEF Broadcasts, runVars
<1> QED
  BY <1>1, <1>5, <1>6, <1>7 DEF Next, EthStep, vars, dbVars, runVars

\* Numbers below a bound.
Below(k) == \A h \in Burns, n \in Nat : HasNumber(h, n) => n < k

LEMMA BelowAssigned ==
    ASSUME TypeOK, NEW k
    PROVE  (\A p \in Assigned : p[2] < k) <=> Below(k)
<1>1. ASSUME \A p \in Assigned : p[2] < k, NEW h \in Burns, NEW n \in Nat, HasNumber(h, n)
      PROVE  n < k
  <2>1. <<h, n>> \in Assigned
    BY <1>1, AssignedNumbers
  <2>2. <<h, n>>[2] < k
    BY <1>1, <2>1
  <2> QED  BY <2>2
<1>2. ASSUME Below(k), NEW p \in Assigned PROVE p[2] < k
  <2>1. PICK h \in Burns, n \in Nat : p = <<h, n>> /\ HasNumber(h, n)
    BY AssignedNumbers
  <2> QED  BY <1>2, <2>1 DEF Below
<1> QED  BY <1>1, <1>2 DEF Below

\* No number for two burns.
OneBurnEach ==
    \A g, h \in Burns, n \in Nat : HasNumber(g, n) /\ HasNumber(h, n) => g = h

LEMMA UniqueNumbers == ASSUME TypeOK PROVE UniqueSequences <=> OneBurnEach
<1>1. ASSUME UniqueSequences, NEW g \in Burns, NEW h \in Burns, NEW n \in Nat,
             HasNumber(g, n), HasNumber(h, n)
      PROVE  g = h
  <2>1. <<g, n>> \in Assigned /\ <<h, n>> \in Assigned
    BY <1>1, AssignedNumbers
  <2>2. <<g, n>>[2] = <<h, n>>[2] => <<g, n>>[1] = <<h, n>>[1]
    BY <1>1, <2>1 DEF UniqueSequences
  <2> QED  BY <2>2
<1>2. ASSUME OneBurnEach, NEW p \in Assigned, NEW q \in Assigned, p[2] = q[2]
      PROVE  p[1] = q[1]
  <2>1. PICK g \in Burns, m \in Nat : p = <<g, m>> /\ HasNumber(g, m)
    BY AssignedNumbers
  <2>2. PICK h \in Burns, n \in Nat : q = <<h, n>> /\ HasNumber(h, n)
    BY AssignedNumbers
  <2>3. m = n
    BY <1>2, <2>1, <2>2
  <2> QED  BY <1>2, <2>1, <2>2, <2>3 DEF OneBurnEach
<1> QED  BY <1>1, <1>2 DEF OneBurnEach, UniqueSequences

\* CounterAhead, number by number.
CounterAheadOfNumbers ==
    /\ run \in {"findLast", "askChain"} => inserts = {}
    /\ run = "askChain" => Registered = {}
    /\ run \in {"watching", "generate"} => Below(sequenceNumber)
    /\ run = "insert" => Below(sequenceNumber - 1)

LEMMA CounterAheadNumbers == ASSUME TypeOK PROVE CounterAhead <=> CounterAheadOfNumbers
BY BelowAssigned DEF CounterAhead, CounterAheadOfNumbers

\* Numbers below a bound stay below it, unless one is given out.
LEMMA BelowStays ==
    ASSUME TypeOK, [Next]_vars, ~InsertUnsignedSwap, NEW k, Below(k)
    PROVE  \A h \in Burns, n \in Nat : HasNumber(h, n)' => n < k
BY NumbersGivenOut DEF Below

LEMMA CounterAheadStays ==
    ASSUME TypeOK, CounterAheadOfNumbers, [Next]_vars
    PROVE  CounterAheadOfNumbers'
<1> sequenceNumber \in Nat
  BY DEF TypeOK, RunTypeOK
<1> USE DEF CounterAheadOfNumbers
<1>1. CASE FindLastSequence
  <2>1. inserts = {} /\ inserts' = {} /\ UNCHANGED dbVars
    BY <1>1 DEF FindLastSequence
  <2>2. CASE run' = "askChain"
    BY <1>1, <2>1, <2>2 DEF FindLastSequence, Registered, dbVars
  <2>3. CASE run' = "watching"
    <3>1. PICK g \in FindLast : sequenceNumber' = swaps[g].sequence + 1
      BY <1>1, <2>3 DEF FindLastSequence
    <3>2. ASSUME NEW h \in Burns, NEW n \in Nat, HasNumber(h, n)' PROVE n < sequenceNumber'
      <4>1. h \in Registered /\ swaps[h].sequence = n
        BY <2>1, <3>2 DEF HasNumber, Registered, dbVars
      <4>2. n <= swaps[g].sequence /\ swaps[g].sequence \in Nat
        BY <4>1 DEF FindLast, Registered, TypeOK, DbTypeOK, Swap
      <4> QED  BY <3>1, <4>2
    <3> QED  BY <2>3, <3>2 DEF Below
  <2> QED  BY <1>1, <2>2, <2>3 DEF FindLastSequence
<1>2. CASE AskChainSequence
  <2>1. \A h, n : ~HasNumber(h, n)'
    BY <1>2 DEF AskChainSequence, HasNumber, Registered, dbVars
  <2> QED  BY <1>2, <2>1 DEF AskChainSequence, Below
<1>3. CASE FetchSwap
  <2>1. ~InsertUnsignedSwap /\ UNCHANGED <<sequenceNumber, inserts>>
        /\ run = "watching" /\ run' \in {"generate", "watching", "returned"}
    BY <1>3 DEF FetchSwap, InsertUnsignedSwap, EndOfIteration
  <2>2. \A h \in Burns, n \in Nat : HasNumber(h, n)' => n < sequenceNumber
    BY <2>1, BelowStays
  <2> QED  BY <2>1, <2>2 DEF Below
<1>4. CASE GenerateSwap
  <2>1. /\ ~InsertUnsignedSwap /\ UNCHANGED inserts /\ run = "generate"
        /\ \/ run' = "insert" /\ sequenceNumber' = sequenceNumber + 1
           \/ run' \in {"watching", "returned"} /\ sequenceNumber' = sequenceNumber
    BY <1>4 DEF GenerateSwap, InsertUnsignedSwap, EndOfIteration
  <2>2. \A h \in Burns, n \in Nat : HasNumber(h, n)' => n < sequenceNumber
    BY <2>1, BelowStays
  <2> QED  BY <2>1, <2>2 DEF Below
<1>5. CASE InsertUnsignedSwap
  <2>1. run = "insert" /\ run' \in {"watching", "returned"} /\ UNCHANGED sequenceNumber
    BY <1>5 DEF InsertUnsignedSwap, EndOfIteration
  <2>2. ASSUME NEW h \in Burns, NEW n \in Nat, HasNumber(h, n)' PROVE n < sequenceNumber
    <3>1. HasNumber(h, n) \/ n = sequenceNumber - 1
      BY <2>2, NumbersGivenOut
    <3> QED  BY <2>1, <3>1 DEF Below
  <2> QED  BY <2>1, <2>2 DEF Below
<1>6. CASE RunReturns \/ LeaderRestart \/ LeaderFails
  BY <1>6 DEF RunReturns, LeaderRestart, LeaderFails, LeaderExit
<1>7. ASSUME UNCHANGED <<run, sequenceNumber>>, inserts' \subseteq inserts,
             run = "askChain" => Registered' = Registered
      PROVE  CounterAheadOfNumbers'
  <2>1. ~InsertUnsignedSwap
    BY <1>7 DEF InsertUnsignedSwap, EndOfIteration
  <2>2. /\ Below(sequenceNumber) => Below(sequenceNumber)'
        /\ Below(sequenceNumber - 1) => Below(sequenceNumber - 1)'
    BY <1>7, <2>1, BelowStays DEF Below
  <2> QED  BY <1>7, <2>2
<1>8. ASSUME NEW i \in inserts, AnswerInsert(i) PROVE CounterAheadOfNumbers'
  BY <1>7, <1>8 DEF AnswerInsert
<1>9. CASE UNCHANGED <<run, sequenceNumber, inserts, swaps>>
  BY <1>7, <1>9 DEF Registered
<1>10. ASSUME NEW h \in Burns, Broadcasts(h) PROVE CounterAheadOfNumbers'
  BY <1>7, <1>10, BroadcastsKeepNumbers DEF Broadcasts, runVars
<1>11. CASE LeaderStep
  BY <1>1, <1>2, <1>3, <1>4, <1>5, <1>6, <1>8, <1>9, <1>11
     DEF LeaderStep, RunStep, StopLeader, runVars, dbVars
<1>12. CASE OperatorsStep
  BY <1>9, <1>12
     DEF OperatorsStep, OperatorStep, Start, FetchRegistered, SignTx, FetchFails, OperatorFails,
         OperatorExit, OperatorRestart, AnswerSignature, ApplySignature, dbVars, runVars
<1> QED
  BY <1>9, <1>10, <1>11, <1>12 DEF Next, EthStep, vars, dbVars, runVars

\* insertUnsignedSwap gives its number to one burn, whom nobody shares it with.
LEMMA OneBurnEachStays ==
    ASSUME TypeOK, CounterAheadOfNumbers, OneBurnEach, [Next]_vars
    PROVE  OneBurnEach'
<1> SUFFICES ASSUME NEW g \in Burns, NEW h \in Burns, NEW n \in Nat,
                    HasNumber(g, n)', HasNumber(h, n)'
             PROVE  g = h
  BY DEF OneBurnEach
<1>1. CASE ~InsertUnsignedSwap
  BY <1>1, NumbersGivenOut DEF OneBurnEach
<1>2. CASE InsertUnsignedSwap
  <2>1. run = "insert" /\ sequenceNumber \in Nat
    BY <1>2 DEF InsertUnsignedSwap, TypeOK, RunTypeOK
  <2>2. n = sequenceNumber - 1 => ~HasNumber(g, n) /\ ~HasNumber(h, n)
    BY <2>1 DEF CounterAheadOfNumbers, Below
  <2>3. \A x \in {g, h} : HasNumber(x, n) \/ (x = logBurn[Leader] /\ n = sequenceNumber - 1)
    BY NumbersGivenOut
  <2> QED  BY <2>2, <2>3 DEF OneBurnEach
<1> QED  BY <1>1, <1>2

-----------------------------------------------------------------------------
(* The theorems. *)

LEMMA IInvInit == Init => IInv
<1> SUFFICES ASSUME Init PROVE IInv
  OBVIOUS
<1>1. TypeOK
  BY TypeInit
<1>2. OperatorsSeeFinal
  BY <1>1, WatcherAssumption DEF Init, WatchInit, OperatorsSeeFinal, Watchers
<1>3. SignedIsFinal
  BY DEF Init, DbInit, OperatorInit, SignedIsFinal
<1>4. CounterAhead
  BY DEF Init, RunInit, CounterAhead
<1>5. UniqueSequences
  BY DEF Init, RunInit, DbInit, NoSwap, Registered, Assigned, UniqueSequences
<1> QED  BY <1>1, <1>2, <1>3, <1>4, <1>5 DEF IInv

LEMMA IInvStep == ASSUME IInv, [Next]_vars PROVE IInv'
<1> USE DEF IInv
<1>1. TypeOK'
  BY TypeStep
<1>2. OperatorsSeeFinal' /\ SignedIsFinal'
  BY OperatorsSeeFinalStays, SignedIsFinalStays
<1>3. CounterAheadOfNumbers /\ OneBurnEach
  BY CounterAheadNumbers, UniqueNumbers
<1>4. CounterAheadOfNumbers' /\ OneBurnEach'
  BY <1>3, CounterAheadStays, OneBurnEachStays
<1>5. (CounterAhead <=> CounterAheadOfNumbers)' /\ (UniqueSequences <=> OneBurnEach)'
  BY <1>1, CounterAheadNumbers, UniqueNumbers, PTL
<1> QED  BY <1>1, <1>2, <1>4, <1>5

\* The inductive invariant holds in every reachable state: whatever operators
\* work on is final, and the counter is ahead of the numbers given out.
THEOREM Invariant == Spec => []IInv
BY IInvInit, IInvStep, PTL DEF Spec

\* An operator signs only burns that no reorganisation can undo
\* (burn_watcher.js:38-46 reads the height and the events in two requests).
THEOREM SignedAreFinal == Spec => []SignedIsFinal
<1>1. IInv => SignedIsFinal
  BY DEF IInv
<1> QED  BY <1>1, Invariant, PTL

\* No two burns get one sequence number, over any number of restarts, lost
\* inserts and failed checks (leader/index.js:61-71, 237-240).
THEOREM SequencesUnique == Spec => []UniqueSequences
<1>1. IInv => UniqueSequences
  BY DEF IInv
<1> QED  BY <1>1, Invariant, PTL
=============================================================================
