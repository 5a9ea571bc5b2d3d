----------------------------- MODULE BridgeProofs -----------------------------
(***************************************************************************)
(* SwapSystem keeps the promises of the two abstract specifications: the     *)
(* whole service implements MintQueue, as the broadcast side alone does, and  *)
(* Bridge.  And what GaplessProofs shows of the registration side holds in    *)
(* the service: nobody passes a burn over.  Theorems for every set of burns,  *)
(* invalid ones included, every set of operators, every threshold and every   *)
(* bound on blocks and faults.                                               *)
(***************************************************************************)
EXTENDS SwapProofs, GaplessProofs

-----------------------------------------------------------------------------
(* What BroadcastProofs shows holds of the broadcast side within the service. *)

\* BroadcastSystem again, as B, with its theorems.
Loop == INSTANCE BroadcastProofs WITH
    FaultKinds <- BroadcastFaultKinds, faults <- broadcastFaults

\* B and Loop name the same definitions: expanded, they are the same formula.
LEMMA SameInit == B!Init => Loop!Init
BY Zenon DEF B!Init, Loop!Init, B!DbInit, Loop!DbInit, B!ChainInit, Loop!ChainInit, B!LeaderInit,
             Loop!LeaderInit, B!FaultInit, Loop!FaultInit, B!NoSwap, Loop!NoSwap

LEMMA SameNext == [B!Next]_(B!vars) => [Loop!Next]_(Loop!vars)
BY Zenon DEF B!Apply, Loop!Apply, B!ApplyInsert, Loop!ApplyInsert, B!ApplySignature,
             Loop!ApplySignature, B!ApplyUpdate, Loop!ApplyUpdate, B!BroadcastFails,
             Loop!BroadcastFails, B!BroadcastSucceeds, Loop!BroadcastSucceeds,
             B!Cardinality, Loop!Cardinality, B!ChainStep, Loop!ChainStep, B!CheckSubmitted,
             Loop!CheckSubmitted, B!Collect, Loop!Collect, B!Crash, Loop!Crash, B!Deliver,
             Loop!Deliver, B!Drop, Loop!Drop, B!EnvironmentStep, Loop!EnvironmentStep,
             B!Exit, Loop!Exit, B!Fault, Loop!Fault, B!FindAboveThreshold,
             Loop!FindAboveThreshold, B!FindAllByStatus, Loop!FindAllByStatus,
             B!FindAllByStatuses, Loop!FindAllByStatuses, B!FindBySequence,
             Loop!FindBySequence, B!FindFailed, Loop!FindFailed, B!FindInProgress,
             Loop!FindInProgress, B!FindSubmitted, Loop!FindSubmitted, B!FreeTimerIds,
             Loop!FreeTimerIds, B!FreeWriteIds, Loop!FreeWriteIds, B!IsFiniteSet,
             Loop!IsFiniteSet, B!IsSwapDone, Loop!IsSwapDone, B!LeaderStep, Loop!LeaderStep,
             B!LoopRejects, Loop!LoopRejects, B!LoopStep, Loop!LoopStep, B!LoopTest,
             Loop!LoopTest, B!MintTx, Loop!MintTx, B!MintTxFor, Loop!MintTxFor, B!Next,
             Loop!Next, B!NoFault, Loop!NoFault, B!Pick, Loop!Pick, B!RecheckFailed,
             Loop!RecheckFailed, B!Register, Loop!Register, B!Registered, Loop!Registered,
             B!Restart, Loop!Restart, B!RetrySubmittedSwap, Loop!RetrySubmittedSwap,
             B!RunRejects, Loop!RunRejects, B!Sign, Loop!Sign, B!Snapshot, Loop!Snapshot,
             B!Status, Loop!Status, B!StatusCheck, Loop!StatusCheck, B!StopBroadcasting,
             Loop!StopBroadcasting, B!Up, Loop!Up, B!Update, Loop!Update,
             B!UpdateConfirmedTransaction, Loop!UpdateConfirmedTransaction,
             B!UpdateFailedSwap, Loop!UpdateFailedSwap, B!UpdateFails, Loop!UpdateFails,
             B!UpdateSwapStatus, Loop!UpdateSwapStatus, B!chainVars, Loop!chainVars,
             B!dbVars, Loop!dbVars, B!leaderVars, Loop!leaderVars, B!vars, Loop!vars

LEMMA SameQueue ==
    /\ Loop!Queue!Init => B!Queue!Init
    /\ [Loop!Queue!Next]_(Loop!Queue!vars) => [B!Queue!Next]_(B!Queue!vars)
BY Zenon DEF B!Queue!Init, Loop!Queue!Init, B!Queue!Next, Loop!Queue!Next,
             B!Queue!vars, Loop!Queue!vars, B!Queue!TakeTicket, Loop!Queue!TakeTicket,
             B!Queue!Approve, Loop!Queue!Approve, B!Queue!Serve, Loop!Queue!Serve,
             B!Queue!Report, Loop!Queue!Report, B!Queue!Cardinality, Loop!Queue!Cardinality,
             B!Queue!IsFiniteSet, Loop!Queue!IsFiniteSet, B!Minted, Loop!Minted

\* What BroadcastSystem assumes of its constants.
LEMMA LoopAssumptions ==
    /\ Sequences \subseteq Nat
    /\ Threshold \in Nat /\ TimerIds # {}
    /\ WriteIds # {}
    /\ FirstSequence \in Nat /\ NoTx \notin Loop!MintTx
    /\ Loop!IsFiniteSet(Operators)
    /\ MaxFaults \in Nat
BY RegistrationAssumption, SwapAssumption, WriteIdsAssumption, ChainAssumption,
   OperatorsAssumption, MaxFaultsAssumption
   DEF Loop!MintTx, MintTx, Loop!IsFiniteSet, IsFiniteSet

LEMMA LoopInit == SwapInit => Loop!IInv /\ B!Queue!Init
BY Loop!IInvInit, Loop!QueueInit, LoopAssumptions, SameInit, SameQueue DEF SwapInit

LEMMA LoopStep ==
    ASSUME Sequences = Nat, SwapIInv, Loop!IInv, [SwapNext]_swapVars
    PROVE  Loop!IInv' /\ [B!Queue!Next]_(B!Queue!vars)
<1>1. [Loop!Next]_(Loop!vars)
  BY BroadcastImplementedStep, SameNext
<1>2. Loop!IInv'
  BY <1>1, Loop!IInvStep, LoopAssumptions
<1> QED  BY <1>1, <1>2, Loop!QueueStep, LoopAssumptions, SameQueue

\* The whole service, with the real burn log loop and the real operators, is
\* the queue that the broadcast side promises: burns are served strictly in
\* turn, once, with enough approvals, and reported only afterwards.
THEOREM ServiceImplementsQueue ==
    ASSUME Sequences = Nat
    PROVE  SwapSpec => B!ImplementsQueue
<1>1. SwapInit => Loop!IInv /\ B!Queue!Init
  BY LoopInit
<1>2. SwapIInv /\ Loop!IInv /\ [SwapNext]_swapVars => Loop!IInv' /\ [B!Queue!Next]_(B!Queue!vars)
  BY LoopStep
<1> QED
  BY <1>1, <1>2, SwapInvariant, PTL DEF SwapSpec, B!ImplementsQueue, B!Queue!Spec

-----------------------------------------------------------------------------
(* A burn without a valid recipient goes no further than the watchers. *)

OnlyValid ==
    /\ \A w \in Watchers : logBurn[w] \notin Invalid
    /\ \A o \in Operators : signed[o] \cap Invalid = {}
    /\ \A h \in Invalid : signatures[h] = {}

LEMMA MoveKeepsValid ==
    ASSUME WatchTypeOK, NEW x \in Watchers, WatcherMoves(x),
           \A w \in Watchers : logBurn[w] \notin Invalid
    PROVE  \A w \in Watchers : logBurn'[w] \notin Invalid
<1>1. \A w \in Watchers : w # x => logBurn'[w] = logBurn[w]
  BY OthersKept
<1>2. logBurn'[x] \notin Invalid
  BY WatcherAssumption
     DEF WatchTypeOK, WatcherMoves, StartWatching, WatchStep, GetBlockNumber, GetPastEvents,
         PollAgain, NextEvent, Resume, Forget, Return, StopWatching
<1> QED  BY <1>1, <1>2

LEMMA OperatorsKeepValid ==
    ASSUME TypeOK, OnlyValid, OperatorsStep
    PROVE  /\ \A o \in Operators : signed'[o] \cap Invalid = {}
           /\ \A h \in Invalid : signatures'[h] = {}
<1> USE DEF TypeOK, OperatorTypeOK, DbTypeOK, OnlyValid
<1> PICK o \in Operators :
       \/ OperatorStep(o) \/ FetchFails(o) \/ OperatorFails(o) \/ OperatorRestart(o)
       \/ \E h \in signed[o] : AnswerSignature(o, h)
  BY DEF OperatorsStep
<1>1. CASE UNCHANGED <<signatures, signed>>
  BY <1>1
<1>2. CASE SignTx(o)
  <2>1. logBurn[o] \notin Invalid
    BY DEF Watchers
  <2> QED  BY <1>2, <2>1 DEF SignTx, dbVars
<1>3. CASE OperatorExit(o)
  BY <1>3 DEF OperatorExit, dbVars
<1>4. ASSUME NEW g \in signed[o], AnswerSignature(o, g)
      PROVE  /\ \A x \in Operators : signed'[x] \cap Invalid = {}
             /\ \A h \in Invalid : signatures'[h] = {}
  <2>1. g \in Burns /\ g \notin Invalid
    OBVIOUS
  <2> QED  BY <1>4, <2>1, WatcherAssumption DEF AnswerSignature, ApplySignature, dbVars
<1> QED
  BY <1>1, <1>2, <1>3, <1>4
     DEF OperatorStep, Start, FetchRegistered, FetchFails, OperatorFails, OperatorRestart,
         operatorVars, dbVars

LEMMA OnlyValidStep == ASSUME TypeOK, OnlyValid, [SwapNext]_swapVars PROVE OnlyValid'
<1>1. \A w \in Watchers : logBurn'[w] \notin Invalid
  <2>1. ASSUME LeaderStep \/ StopLeader \/ LeaderFails \/ LeaderRestart
        PROVE  WatcherMoves(Leader) \/ UNCHANGED watchVars
    BY <2>1, LeaderMoves DEF StopLeader, LeaderFails, LeaderExit, LeaderRestart, WatcherMoves
  <2>2. ASSUME OperatorsStep
        PROVE  (\E o \in Operators : WatcherMoves(o)) \/ UNCHANGED watchVars
    BY <2>2, OperatorMoves DEF OperatorsStep
  <2>3. UNCHANGED watchVars \/ \E x \in Watchers : WatcherMoves(x)
    BY <2>1, <2>2
       DEF SwapNext, BroadcastStep, OnlyBroadcast, BurnLogStep, OnlyRegistration, OthersStep,
           EthStep, BroadcastFails, ProcessEnds, ProcessRestarts, LeaderStep, swapVars, vars,
           Watchers, chainVars
  <2> QED  BY <2>3, MoveKeepsValid DEF OnlyValid, TypeOK, watchVars
<1>2. CASE OperatorsStep
  BY <1>1, <1>2, OperatorsKeepValid DEF OnlyValid
<1>3. CASE UNCHANGED <<signatures, signed>>
  BY <1>1, <1>3 DEF OnlyValid
<1> QED
  <2>1. CASE BroadcastStep
    BY <1>3, <2>1, LoopLeaves
       DEF BroadcastStep, OnlyBroadcast, operatorVars, B!Apply, B!ApplyUpdate, B!ChainStep, B!dbVars
  <2> QED
    BY <1>2, <1>3, <2>1
       DEF SwapNext, BurnLogStep, OthersStep, EthStep, BroadcastFails, ProcessEnds,
           ProcessRestarts, RunStep, FindLastSequence, AskChainSequence, FetchSwap, GenerateSwap,
           InsertUnsignedSwap, RunReturns, AnswerInsert, ApplyInsert, StopLeader, LeaderFails,
           LeaderExit, LeaderRestart, operatorVars, dbVars, swapVars, vars

-----------------------------------------------------------------------------
(* The service implements Bridge. *)

\* The three modules count alike.
LEMMA SameCount ==
    ASSUME NEW S
    PROVE  Promise!Cardinality(S) = Cardinality(S) /\ B!Queue!Cardinality(S) = Cardinality(S)
BY DEF Promise!Cardinality, B!Queue!Cardinality, Cardinality, Promise!IsFiniteSet,
       B!Queue!IsFiniteSet, IsFiniteSet

\* What an operator signed is final and names a recipient.
LEMMA ApprovedIsBurnt ==
    ASSUME IInv, OnlyValid, NEW h \in Burns, signatures[h] # {}
    PROVE  h \in Recipients /\ Final(h)
<1>1. PICK o \in signatures[h] : TRUE
  OBVIOUS
<1>2. o \in Operators
  BY <1>1 DEF IInv, TypeOK, DbTypeOK
<1> QED  BY <1>1, <1>2 DEF IInv, SignedIsFinal, OnlyValid, Recipients

\* Blocks change nothing but what is final, and that only grows.
LEMMA EthIsBurn ==
    ASSUME TypeOK, EthStep, OnlyRegistration
    PROVE  Promise!Burn
<1>1. \A h \in Burns : Final(h) => Final(h)'
  BY FinalStays DEF Next
<1>2. UNCHANGED <<swaps, signatures, ledger>>
  BY DEF EthStep, OnlyRegistration, dbVars, chainVars
<1> DEFINE burnt == {h \in Recipients : Final(h)}
<1>3. burnt' \in SUBSET Recipients /\ burnt' = burnt \cup burnt'
  BY <1>1 DEF Recipients
<1> QED  BY <1>2, <1>3 DEF Promise!Burn, B!Minted

\* Every other step leaves the chain where it is.
LEMMA QueueIsBridge ==
    ASSUME IInv, IInv', OnlyValid, OnlyValid', UNCHANGED ethVars,
           [B!Queue!Next]_(B!Queue!vars)
    PROVE  [Promise!Next]_(Promise!vars)
<1> DEFINE burnt == {h \in Recipients : Final(h)}
           approvals == [h \in Recipients |-> signatures[h]]
           reported == {h \in Burns : swaps[h].status = "CONFIRMED"}
<1>1. burnt' = burnt /\ \A h \in Burns : Final(h)' = Final(h)
  BY DEF Final, ethVars
<1>t. signatures \in [Burns -> SUBSET Operators]
  BY DEF IInv, TypeOK, DbTypeOK
<1>2. ASSUME NEW h \in Burns, B!Queue!TakeTicket(h) PROVE UNCHANGED Promise!vars
  BY <1>1, <1>2 DEF B!Queue!TakeTicket, Promise!vars
<1>3. ASSUME NEW o \in Operators, NEW h \in Burns, B!Queue!Approve(o, h) PROVE Promise!Next
  <2>1. signatures' = [signatures EXCEPT ![h] = @ \cup {o}]
        /\ UNCHANGED <<B!Minted, reported>>
    BY <1>3 DEF B!Queue!Approve
  <2>2. o \in signatures'[h]
    BY <1>t, <2>1
  <2>3. h \in burnt
    <3>1. Final(h)'
      BY <2>2 DEF IInv, SignedIsFinal
    <3>2. h \notin Invalid
      BY <2>2 DEF OnlyValid
    <3> QED  BY <1>1, <3>1, <3>2 DEF Recipients
  <2>4. approvals' = [approvals EXCEPT ![h] = @ \cup {o}]
    BY <1>t, <2>1, <2>3 DEF Recipients
  <2>5. Promise!Approve(o, h)
    BY <1>1, <2>1, <2>3, <2>4 DEF Promise!Approve
  <2> QED  BY <2>3, <2>5 DEF Promise!Next
<1>4. ASSUME NEW h \in Burns, B!Queue!Serve(h) PROVE Promise!Next
  <2>1. /\ h \notin B!Minted /\ Cardinality(signatures[h]) >= Threshold
        /\ B!Minted' = B!Minted \cup {h}
        /\ UNCHANGED <<signatures, reported>>
    BY <1>4, SameCount DEF B!Queue!Serve
  <2>2. signatures[h] # {}
    <3>1. Cardinality({}) = 0 /\ Threshold \in Nat /\ Threshold > 0
      BY FS_EmptySet, SwapAssumption, RegistrationAssumption
    <3>2. ~(Cardinality({}) >= Threshold)
      BY <3>1
    <3> QED  BY <2>1, <3>2
  <2>3. h \in burnt
    BY <2>2, ApprovedIsBurnt
  <2>4. Promise!Mint(h)
    BY <1>1, <2>1, <2>3, SameCount DEF Promise!Mint
  <2> QED  BY <2>3, <2>4 DEF Promise!Next
<1>5. ASSUME B!Queue!Report PROVE Promise!Next
  BY <1>1, <1>5 DEF B!Queue!Report, Promise!Report, Promise!Next
<1>6. ASSUME UNCHANGED B!Queue!vars PROVE UNCHANGED Promise!vars
  BY <1>1, <1>6 DEF B!Queue!vars, Promise!vars
<1> QED  BY <1>2, <1>3, <1>4, <1>5, <1>6 DEF B!Queue!Next

LEMMA BridgeStep ==
    ASSUME SwapIInv, SwapIInv', OnlyValid, OnlyValid', [SwapNext]_swapVars,
           [B!Queue!Next]_(B!Queue!vars)
    PROVE  [Promise!Next]_(Promise!vars)
<1> IInv /\ IInv' /\ TypeOK
  BY DEF SwapIInv, IInv
<1>1. CASE EthStep /\ OnlyRegistration
  BY <1>1, EthIsBurn DEF Promise!Next
<1>2. CASE UNCHANGED ethVars
  BY <1>2, QueueIsBridge
<1> QED
  BY <1>1, <1>2
     DEF SwapNext, BroadcastStep, OnlyBroadcast, BurnLogStep, OthersStep, OperatorsStep,
         BroadcastFails, ProcessEnds, ProcessRestarts, swapVars, vars

\* From end to end, over crashes, lost and late requests, reorganisations and
\* failing commands: a mint is of a burn that is final and names a recipient,
\* is approved by Threshold operators, each after the burn was final, happens
\* once, and comes before any report of it.
THEOREM ServiceImplementsBridge ==
    ASSUME Sequences = Nat
    PROVE  SwapSpec => ImplementsBridge
<1>1. SwapInit => Promise!Init /\ OnlyValid
  BY WatcherAssumption, EthAssumption
     DEF SwapInit, Init, EthInit, WatchInit, OperatorInit, DbInit, ChainInit, NoSwap, Watchers,
         Promise!Init, Final, Recipients, B!Minted, OnlyValid
<1>2. SwapInit => Loop!IInv
  BY LoopInit
<1>3. SwapIInv /\ Loop!IInv /\ [SwapNext]_swapVars => Loop!IInv' /\ [B!Queue!Next]_(B!Queue!vars)
  BY LoopStep
<1>4. SwapIInv /\ OnlyValid /\ [SwapNext]_swapVars => OnlyValid'
  BY OnlyValidStep DEF SwapIInv, IInv
<1>5. /\ SwapIInv /\ SwapIInv' /\ OnlyValid /\ OnlyValid' /\ [SwapNext]_swapVars
      /\ [B!Queue!Next]_(B!Queue!vars)
      => [Promise!Next]_(Promise!vars)
  BY BridgeStep
<1> QED
  BY <1>1, <1>2, <1>3, <1>4, <1>5, SwapInvariant, PTL DEF SwapSpec, ImplementsBridge, Promise!Spec

-----------------------------------------------------------------------------
(* Nobody in the service passes a burn over. *)

\* A status write is of a document, and leaves it one.
LEMMA ApplyKeepsRegistered ==
    ASSUME SwapIInv, NEW u \in updates, B!Apply(u)
    PROVE  Registered' = Registered /\ UNCHANGED signatures
<1> TypeOK /\ Holds
  BY HoldsFromIInv
<1>1. u.burn \in Registered /\ u.burn \in Burns /\ u.status \in Status
  BY DEF Holds, Enough, Update
<1>2. /\ UNCHANGED signatures
      /\ swaps' = [swaps EXCEPT ![u.burn].status = u.status,
                                ![u.burn].mintTransactionHash = u.mintTransactionHash]
  BY <1>1 DEF B!Apply, B!ApplyUpdate, Registered
<1>3. \A h \in Burns : h # u.burn => swaps'[h] = swaps[h]
  BY <1>1, <1>2 DEF TypeOK, DbTypeOK
<1>4. swaps'[u.burn].status = u.status
  <2>1. swaps[u.burn] \in Swap
    BY <1>1 DEF TypeOK, DbTypeOK
  <2>2. swaps'[u.burn] = [[swaps[u.burn] EXCEPT !.status = u.status]
                             EXCEPT !.mintTransactionHash = u.mintTransactionHash]
    BY <1>1, <1>2 DEF TypeOK, DbTypeOK
  <2> QED  BY <1>1, <2>1, <2>2 DEF Swap
<1>5. \A h \in Burns : h \in Registered' <=> h \in Registered
  BY <1>1, <1>3, <1>4 DEF Registered, Status
<1>6. Registered \subseteq Burns /\ Registered' \subseteq Burns
  BY DEF Registered
<1> QED  BY <1>2, <1>5, <1>6

\* What the broadcast half does leaves dealt with what was, unless it ends the
\* leader's process.
LEMMA BroadcastThorough ==
    ASSUME SwapIInv, SwapIInv', NEW w \in Undisturbed, KeepsUp(w), PassesNone(w),
           UNCHANGED <<ethVars, signatures, signed>>,
           Registered' = Registered,
           \/ UNCHANGED <<watchVars, inserts>>
           \/ StopWatching(Leader) /\ UNCHANGED inserts
           \/ Forget(Leader)
    PROVE  KeepsUp(w)' /\ PassesNone(w)'
<1>t. TypeOK /\ TypeOK' /\ w \in Watchers /\ Leader \in Watchers
  BY UndisturbedWatches DEF SwapIInv, IInv, Watchers
<1>1. w # Leader => StaysDealtWith(w)
  BY DEF StaysDealtWith, DealtWith
<1>2. UNCHANGED inserts => StaysDealtWith(w)
  BY DEF StaysDealtWith, DealtWith
<1>3. CASE UNCHANGED <<watchVars, inserts>>
  BY <1>t, <1>2, <1>3, RestThorough DEF watchVars
<1>4. CASE w = Leader /\ ~UNCHANGED <<watchVars, inserts>>
  BY <1>t, <1>2, <1>4, MoveKeepsUp, MovePassesNone DEF WatcherMoves
<1>5. CASE w # Leader /\ ~UNCHANGED <<watchVars, inserts>>
  BY <1>t, <1>1, <1>5, OthersThorough DEF WatcherMoves
<1> QED  BY <1>3, <1>4, <1>5

LEMMA ServiceThorough == Unforgetting /\ SwapIInv /\ Thorough /\ [SwapNext]_swapVars => Thorough'
<1> SUFFICES ASSUME Unforgetting, SwapIInv, Thorough, [SwapNext]_swapVars PROVE Thorough'
  OBVIOUS
<1>i. SwapIInv' /\ IInv
  BY SwapIInvStep DEF SwapIInv
<1>1. CASE BurnLogStep \/ ProcessRestarts \/ UNCHANGED swapVars
  <2>1. [Next]_vars
    BY <1>1 DEF BurnLogStep, ProcessRestarts, OnlyRegistration, LeaderStep, Next, chainVars,
       B!Restart, B!chainVars, B!dbVars, swapVars
  <2> QED  BY <1>i, <2>1, ThoroughStep
<1>2. CASE OthersStep
  BY <1>i, <1>2, ThoroughStep DEF OthersStep, Next
<1>3. SkippedAreSigned'
  BY <1>i DEF SwapIInv, MovesOnlySigned, Enough, SkippedAreSigned
<1>4. CASE BroadcastStep
  <2>1. UNCHANGED <<watchVars, inserts, ethVars, signed>>
    BY <1>4 DEF BroadcastStep, OnlyBroadcast, operatorVars
  <2>2. Registered' = Registered /\ UNCHANGED signatures
    <3>1. CASE B!LoopStep \/ B!LoopRejects \/ \E t \in timers : B!StatusCheck(t)
      BY <3>1, LoopLeaves DEF Registered
    <3>2. CASE \E t \in mempool : B!ChainStep(t)
      BY <3>2 DEF B!ChainStep, B!dbVars, Registered
    <3> QED  BY <1>4, <3>1, <3>2, ApplyKeepsRegistered DEF BroadcastStep
  <2> QED  BY <1>i, <1>3, <2>1, <2>2, BroadcastThorough DEF Thorough
<1>5. CASE BroadcastFails \/ ProcessEnds
  <2>1. UNCHANGED <<ethVars, signed>>
    BY <1>5 DEF BroadcastFails, ProcessEnds, operatorVars
  <2>2. Registered' = Registered /\ UNCHANGED signatures
    BY <1>5, LoopLeaves DEF BroadcastFails, ProcessEnds, Registered
  <2>3. (StopWatching(Leader) /\ UNCHANGED inserts) \/ Forget(Leader)
    BY <1>5 DEF BroadcastFails, ProcessEnds, StopLeader, LeaderFails, LeaderExit
  <2> QED  BY <1>i, <1>3, <2>1, <2>2, <2>3, BroadcastThorough DEF Thorough
<1> QED  BY <1>1, <1>2, <1>4, <1>5 DEF SwapNext

\* In the service as a whole nobody passes a burn over either: the broadcast
\* loop, which stops the burn log loop when a broadcast fails and ends its
\* process with its own (leader/index.js:173, server.js:47), moves only
\* statuses of swaps that have their signatures.
THEOREM ServicePassesNone == SwapSpec => []NoBurnPassedOver
<1>1. Thorough => NoBurnPassedOver
  BY DEF Thorough, PassesNone, NoBurnPassedOver
<1>2. SwapInit => Thorough
  BY ThoroughInit DEF SwapInit
<1>3. CASE Unforgetting
  BY <1>1, <1>2, <1>3, ServiceThorough, SwapInvariant, PTL DEF SwapSpec
<1>4. CASE ~Unforgetting
  <2>1. NoBurnPassedOver
    BY <1>4 DEF Unforgetting, NoBurnPassedOver
  <2> QED  BY <2>1, PTL
<1> QED  BY <1>3, <1>4
=============================================================================
