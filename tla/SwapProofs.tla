------------------------------ MODULE SwapProofs ------------------------------
(***************************************************************************)
(* Theorems of SwapSystem, for every set of burns and operators, every       *)
(* threshold and every bound on blocks, writes, timers and faults.  What     *)
(* RegistrationProofs shows of its half's steps is used as it stands; for    *)
(* the broadcast half SwapIInv says what its loop, its timers and its writes *)
(* may hold, and how that fits the documents and signatures of the other.    *)
(***************************************************************************)
EXTENDS SwapSystem, RegistrationProofs

USE DEF Status, B!Status, B!LoopPC

\* The halves speak of the same records.
LEMMA Same ==
    /\ B!MintTx = MintTx /\ B!Update = Update /\ B!Registered = Registered
    /\ B!NoSwap = NoSwap
    /\ \A S : B!Cardinality(S) = Cardinality(S)
BY DEF B!Cardinality, Cardinality, B!IsFiniteSet, IsFiniteSet, B!MintTx, MintTx, B!Update, Update, B!Registered, Registered, B!NoSwap, NoSwap

-----------------------------------------------------------------------------
(* The registration half. *)

\* What the broadcast half does to it: it moves statuses, and may end the
\* leader's process or stop its watcher.
LEMMA RegistrationKept ==
    ASSUME IInv, TypeOK',
           UNCHANGED <<ethVars, operatorVars, signatures>>,
           WatcherMoves(Leader) \/ UNCHANGED watchVars,
           Registered' = Registered,
           \A h \in Registered : swaps'[h].sequence = swaps[h].sequence,
           inserts' \subseteq inserts,
           UNCHANGED <<run, sequenceNumber>> \/ run' = "exited"
    PROVE  IInv'
<1> USE DEF IInv
<1> \A o \in Operators : o \in Watchers /\ o # Leader
  BY WatcherAssumption DEF Watchers
<1>1. \A o \in Operators : /\ at'[o] = at[o] /\ toBlock'[o] = toBlock[o]
                           /\ events'[o] = events[o] /\ logBurn'[o] = logBurn[o]
  <2>1. CASE WatcherMoves(Leader)
    BY <2>1, OthersKept DEF TypeOK, Watchers
  <2>2. CASE UNCHANGED watchVars
    BY <2>2 DEF watchVars
  <2> QED  BY <2>1, <2>2
<1>2. \A h \in Burns : Final(h)' <=> Final(h)
  BY DEF Final, ethVars
<1>3. OperatorsSeeFinal'
  <2> SUFFICES ASSUME NEW o \in Operators
               PROVE  /\ at'[o] = "getEvents" => toBlock'[o] <= height' - NbConfirmations
                      /\ \A e \in events'[o] : Final(e.burn)'
                      /\ logBurn'[o] # NoBurn => Final(logBurn[o])'
    BY <1>1 DEF OperatorsSeeFinal
  <2>1. (\A e \in events[o] : e.burn \in Burns) /\ logBurn[o] \in Burns \cup {NoBurn}
    BY DEF TypeOK, WatchTypeOK
  <2> QED  BY <1>1, <1>2, <2>1 DEF OperatorsSeeFinal, ethVars
<1>4. SignedIsFinal'
  BY <1>2 DEF SignedIsFinal, operatorVars
<1>5. Assigned' \subseteq Assigned
  BY DEF Assigned
<1>6. CounterAhead'
  BY <1>5 DEF CounterAhead
<1>7. UniqueSequences'
  BY <1>5 DEF UniqueSequences
<1> QED  BY <1>3, <1>4, <1>6, <1>7

-----------------------------------------------------------------------------
(* The broadcast half. *)

\* What the broadcast loop, its timers and its requests hold.
Holds ==
    /\ B!LeaderTypeOK
    /\ updates \subseteq Update
    /\ B!CandidateGenuine
    /\ \A x \in updates \cup checking : Enough(x.burn)
    /\ \A t \in timers : Enough(t.tx.burn)

\* Nothing it holds goes stale when others insert documents and signatures.
Grown ==
    /\ \A h \in Registered : h \in Registered' /\ swaps'[h].sequence = swaps[h].sequence
    /\ \A h \in Burns : signatures[h] \subseteq signatures'[h]

LEMMA EnoughStays ==
    ASSUME TypeOK, TypeOK', Grown, NEW h, Enough(h)
    PROVE  Enough(h)'
<1>1. h \in Burns /\ signatures[h] \subseteq signatures'[h] /\ signatures'[h] \subseteq Operators
  BY DEF Grown, Enough, Registered, TypeOK, DbTypeOK
<1>2. IsFiniteSet(signatures'[h])
  BY <1>1, OperatorsAssumption, FS_Subset
<1>3. IsFiniteSet(signatures[h])
  BY <1>1, <1>2, FS_Subset
<1>4. Cardinality(signatures[h]) <= Cardinality(signatures'[h])
      /\ Cardinality(signatures[h]) \in Nat /\ Cardinality(signatures'[h]) \in Nat
  BY <1>1, <1>2, <1>3, FS_Subset, FS_CardinalityType
<1> QED  BY <1>1, <1>4, RegistrationAssumption DEF Enough, Grown

LEMMA GenuineStays ==
    ASSUME TypeOK, Grown, NEW t, B!Genuine(t)
    PROVE  B!Genuine(t)'
BY Same DEF Grown, B!Genuine, B!Registered, Registered, B!MintTx

\* What may be minted has enough signatures.
LEMMA GenuineEnough ==
    ASSUME TypeOK, NEW t, B!Genuine(t)
    PROVE  Enough(t.burn) /\ t.burn \in Burns /\ t \in MintTx
<1>1. t \in MintTx /\ t.burn \in Registered /\ t.signers \subseteq signatures[t.burn]
      /\ Cardinality(t.signers) >= Threshold
  BY Same DEF B!Genuine
<1>2. t.burn \in Burns
  BY <1>1 DEF Registered
<1>3. IsFiniteSet(signatures[t.burn])
  BY <1>2, OperatorsAssumption, FS_Subset DEF TypeOK, DbTypeOK
<1>4. Cardinality(t.signers) <= Cardinality(signatures[t.burn])
      /\ Cardinality(t.signers) \in Nat /\ Cardinality(signatures[t.burn]) \in Nat
  BY <1>1, <1>3, FS_Subset, FS_CardinalityType
<1> QED  BY <1>1, <1>2, <1>4, RegistrationAssumption DEF Enough

\* A status request for a swap with enough signatures.
LEMMA WriteHolds ==
    ASSUME updates \subseteq Update, NEW h \in Burns, NEW x \in MintTx \cup {NoTx},
           NEW st \in Status, B!UpdateSwapStatus(h, x, st)
    PROVE  updates' \subseteq Update /\ \A u \in updates' : u \in updates \/ u.burn = h
<1>1. PICK i \in WriteIds :
        updates' = updates \cup
          {[id |-> i, burn |-> h, status |-> st, mintTransactionHash |-> x]}
  <2>1. (CHOOSE i \in B!FreeWriteIds : TRUE) \in WriteIds
    BY DEF B!UpdateSwapStatus, B!FreeWriteIds
  <2> QED  BY <2>1 DEF B!UpdateSwapStatus
<1> QED  BY <1>1 DEF Update

\* A snapshot of documents that are no longer unsigned.
LEMMA SnapshotHolds ==
    ASSUME TypeOK, MovesOnlySigned, NEW st \in Status \ {"UNSIGNED"}, NEW limit,
           checking' = B!Snapshot(B!FindAllByStatus(st, limit))
    PROVE  /\ checking' \subseteq [burn : Burns, mintTransactionHash : MintTx \cup {NoTx}]
           /\ \A s \in checking' : Enough(s.burn)
<1>1. \A h \in B!FindAllByStatus(st, limit) : h \in Registered /\ swaps[h].status # "UNSIGNED"
  BY DEF B!FindAllByStatus, Registered
<1>2. \A h \in B!FindAllByStatus(st, limit) : h \in Burns /\ Enough(h)
  BY <1>1 DEF MovesOnlySigned, Registered
<1>3. \A h \in Burns : swaps[h].mintTransactionHash \in MintTx \cup {NoTx}
  BY DEF TypeOK, DbTypeOK, Swap
<1> QED  BY <1>2, <1>3 DEF B!Snapshot

\* With the documents and signatures as they were, and nothing new held.
LEMMA HoldsNoMore ==
    ASSUME Holds, B!LeaderTypeOK', UNCHANGED <<swaps, signatures>>,
           updates' \subseteq updates, checking' \subseteq checking, timers' \subseteq timers,
           (pc' = pc /\ candidate' = candidate) \/ pc' \notin {"collect", "broadcast"}
    PROVE  Holds'
BY Same DEF Holds, Enough, B!CandidateGenuine, B!Genuine, Registered, B!Registered

\* The loop's awaits: it holds only what the queries and the signatures gave
\* it, and only a broadcast hands over a transaction.
LEMMA LoopHolds ==
    ASSUME TypeOK, Holds, MovesOnlySigned, B!LoopStep
    PROVE  Holds'
<1> USE DEF B!dbVars, B!chainVars
<1> B!LeaderTypeOK /\ updates \subseteq Update
  BY DEF Holds
<1>0. \A s \in checking : s.burn \in Burns /\ s.mintTransactionHash \in MintTx \cup {NoTx}
                           /\ Enough(s.burn)
  BY Same DEF B!LeaderTypeOK, Holds
<1>1. CASE B!FindFailed
  <2>1. checking' = B!Snapshot(B!FindAllByStatus("FAILED", 10))
    BY <1>1 DEF B!FindFailed
  <2>2. /\ checking' \subseteq [burn : Burns, mintTransactionHash : MintTx \cup {NoTx}]
        /\ \A s \in checking' : Enough(s.burn)
    BY <2>1, SnapshotHolds
  <2>3. B!LeaderTypeOK'
    BY <1>1, <2>2, Same DEF B!FindFailed, B!LeaderTypeOK
  <2> QED
    BY <1>1, <2>2, <2>3
       DEF B!FindFailed, Holds, Enough, Registered, B!CandidateGenuine
<1>2. CASE B!FindInProgress \/ B!LoopTest
  <2>1. B!LeaderTypeOK'
    BY <1>2 DEF B!FindInProgress, B!LoopTest, B!LeaderTypeOK
  <2> QED  BY <1>2, <2>1, HoldsNoMore DEF B!FindInProgress, B!LoopTest
<1>3. CASE B!Pick
  <2>1. \A h \in B!FindAllByStatus("UNSIGNED", 1) :
           h \in Registered /\ B!MintTxFor(h, {}) \in MintTx /\ B!MintTxFor(h, {}).burn = h
    BY DEF B!FindAllByStatus, Registered, B!MintTxFor, MintTx, TypeOK, DbTypeOK, Swap
  <2>2. B!LeaderTypeOK' /\ B!CandidateGenuine'
    <3>1. CASE B!FindAllByStatus("UNSIGNED", 1) = {}
      BY <1>3, <3>1 DEF B!Pick, B!LeaderTypeOK, B!CandidateGenuine
    <3>2. CASE B!FindAllByStatus("UNSIGNED", 1) # {}
      <4>1. PICK h \in B!FindAllByStatus("UNSIGNED", 1) :
                   candidate' = B!MintTxFor(h, {}) /\ pc' = "collect"
        BY <1>3, <3>2 DEF B!Pick
      <4>2. h \in B!Registered' /\ candidate'.burn = h /\ candidate' \in MintTx
        BY <1>3, <2>1, <4>1 DEF B!Pick, B!Registered, Registered
      <4> QED  BY <1>3, <4>1, <4>2, Same DEF B!Pick, B!LeaderTypeOK, B!CandidateGenuine
    <3> QED  BY <3>1, <3>2
  <2> QED  BY <1>3, <2>2 DEF B!Pick, Holds, Enough, Registered
<1>4. CASE B!Collect
  <2> DEFINE h == candidate.burn
             tx == B!MintTxFor(h, signatures[h])
  <2>1. h \in Registered /\ h \in Burns /\ signatures[h] \subseteq Operators
    BY <1>4, Same DEF B!Collect, Holds, B!CandidateGenuine, Registered, TypeOK, DbTypeOK
  <2>2. tx \in MintTx /\ tx.burn = h /\ tx.sequence = swaps[h].sequence
        /\ tx.signers = signatures[h]
    BY <2>1 DEF B!MintTxFor, MintTx, TypeOK, DbTypeOK, Swap
  <2>3. B!LeaderTypeOK' /\ B!CandidateGenuine'
    <3>1. CASE B!FindAboveThreshold(h, Threshold)
      <4>1. candidate' = tx /\ pc' = "broadcast" /\ UNCHANGED <<swaps, signatures>>
        BY <1>4, <3>1 DEF B!Collect
      <4>2. B!Genuine(candidate)'
        BY <2>1, <2>2, <3>1, <4>1, Same
           DEF B!Genuine, B!FindAboveThreshold, B!Registered, Registered, B!MintTx, MintTx
      <4> QED  BY <1>4, <2>2, <4>1, <4>2, Same DEF B!Collect, B!LeaderTypeOK, B!CandidateGenuine
    <3>2. CASE ~B!FindAboveThreshold(h, Threshold)
      BY <1>4, <3>2 DEF B!Collect, B!LeaderTypeOK, B!CandidateGenuine
    <3> QED  BY <3>1, <3>2
  <2> QED  BY <1>4, <2>3 DEF B!Collect, Holds, Enough, Registered
<1>5. CASE B!BroadcastSucceeds
  <2>1. candidate \in MintTx /\ candidate.burn \in Burns
    BY <1>5, Same DEF B!BroadcastSucceeds, B!LeaderTypeOK, MintTx
  <2>2. Enough(candidate.burn)
    <3>1. B!Genuine(candidate)
      BY <1>5 DEF B!BroadcastSucceeds, Holds, B!CandidateGenuine
    <3> QED  BY <3>1, GenuineEnough
  <2>3. updates' \subseteq Update /\ \A u \in updates' : u \in updates \/ u.burn = candidate.burn
    BY <1>5, <2>1, WriteHolds DEF B!BroadcastSucceeds
  <2>4. PICK i \in TimerIds : timers' = timers \cup {[id |-> i, tx |-> candidate]}
    <3>1. (CHOOSE i \in B!FreeTimerIds : TRUE) \in TimerIds
      BY <1>5 DEF B!BroadcastSucceeds, B!FreeTimerIds
    <3> QED  BY <1>5, <3>1 DEF B!BroadcastSucceeds
  <2>5. B!LeaderTypeOK'
    BY <1>5, <2>1, <2>4, Same DEF B!BroadcastSucceeds, B!LeaderTypeOK
  <2>6. \A h : Enough(h) => Enough(h)'
    BY <1>5 DEF B!BroadcastSucceeds, Enough, Registered
  <2> QED
    BY <1>5, <2>2, <2>3, <2>4, <2>5, <2>6
       DEF B!BroadcastSucceeds, Holds, B!CandidateGenuine
<1>6. CASE B!FindSubmitted
  <2>1. checking' = B!Snapshot(B!FindAllByStatus("SUBMITTED", 10))
    BY <1>6 DEF B!FindSubmitted
  <2>2. /\ checking' \subseteq [burn : Burns, mintTransactionHash : MintTx \cup {NoTx}]
        /\ \A s \in checking' : Enough(s.burn)
    BY <2>1, SnapshotHolds
  <2>3. B!LeaderTypeOK'
    BY <1>6, <2>2, Same DEF B!FindSubmitted, B!LeaderTypeOK
  <2> QED
    BY <1>6, <2>2, <2>3
       DEF B!FindSubmitted, Holds, Enough, Registered, B!CandidateGenuine
<1>7. ASSUME NEW s \in checking, B!RecheckFailed(s) \/ B!CheckSubmitted(s) PROVE Holds'
  <2>1. /\ checking' \subseteq checking /\ UNCHANGED <<swaps, signatures, candidate, timers>>
        /\ pc' \notin {"collect", "broadcast"}
    BY <1>7 DEF B!RecheckFailed, B!CheckSubmitted
  <2>2. updates' \subseteq Update /\ \A u \in updates' : u \in updates \/ u.burn = s.burn
    <3>1. CASE B!UpdateSwapStatus(s.burn, s.mintTransactionHash, "CONFIRMED")
      BY <1>0, <3>1, WriteHolds
    <3>2. CASE B!UpdateSwapStatus(s.burn, NoTx, "UNSIGNED")
      BY <1>0, <3>2, WriteHolds
    <3>3. CASE updates' = updates
      BY <3>3
    <3> QED
      BY <1>7, <3>1, <3>2, <3>3
         DEF B!RecheckFailed, B!CheckSubmitted, B!UpdateConfirmedTransaction, B!RetrySubmittedSwap
  <2>3. B!LeaderTypeOK'
    BY <1>7, <2>1 DEF B!RecheckFailed, B!CheckSubmitted, B!LeaderTypeOK
  <2> QED
    BY <1>0, <2>1, <2>2, <2>3 DEF Holds, Enough, Registered, B!CandidateGenuine
<1> QED  BY <1>1, <1>2, <1>3, <1>4, <1>5, <1>6, <1>7 DEF B!LoopStep

\* Outside the loop: a failed broadcast or query, a timer, the end and the
\* start of the process.
LEMMA OutsideHolds ==
    ASSUME TypeOK, Holds,
           \/ B!LoopRejects \/ B!BroadcastFails \/ \E t \in timers : B!StatusCheck(t)
           \/ B!Crash \/ B!UpdateFails \/ B!RunRejects \/ B!Restart
    PROVE  Holds'
<1> USE DEF B!dbVars, B!chainVars
<1> B!LeaderTypeOK /\ updates \subseteq Update
  BY DEF Holds
<1>1. CASE B!LoopRejects
  <2>1. B!LeaderTypeOK'
    BY <1>1 DEF B!LoopRejects, B!LeaderTypeOK
  <2> QED  BY <1>1, <2>1, HoldsNoMore DEF B!LoopRejects
<1>2. CASE B!BroadcastFails
  <2>1. candidate.burn \in Burns /\ Enough(candidate.burn)
    <3>1. B!Genuine(candidate)
      BY <1>2 DEF B!BroadcastFails, Holds, B!CandidateGenuine
    <3> QED  BY <3>1, GenuineEnough DEF Enough, Registered
  <2>2. updates' \subseteq Update /\ \A u \in updates' : u \in updates \/ u.burn = candidate.burn
    BY <1>2, <2>1, WriteHolds DEF B!BroadcastFails, B!RetrySubmittedSwap
  <2>3. B!LeaderTypeOK'
    BY <1>2 DEF B!BroadcastFails, B!LeaderTypeOK
  <2> QED
    BY <1>2, <2>1, <2>2, <2>3
       DEF B!BroadcastFails, Holds, Enough, Registered, B!CandidateGenuine
<1>3. ASSUME NEW t \in timers, B!StatusCheck(t) PROVE Holds'
  <2>1. t.tx \in MintTx /\ t.tx.burn \in Burns /\ Enough(t.tx.burn)
    BY Same DEF B!LeaderTypeOK, Holds, MintTx
  <2>2. updates' \subseteq Update /\ \A u \in updates' : u \in updates \/ u.burn = t.tx.burn
    <3>1. CASE B!UpdateSwapStatus(t.tx.burn, t.tx, "CONFIRMED")
      BY <2>1, <3>1, WriteHolds
    <3>2. CASE updates' = updates
      BY <3>2
    <3> QED  BY <1>3, <3>1, <3>2 DEF B!StatusCheck, B!UpdateConfirmedTransaction
  <2>3. B!LeaderTypeOK'
    BY <1>3 DEF B!StatusCheck, B!LeaderTypeOK
  <2>4. B!CandidateGenuine'
    BY <1>3 DEF B!StatusCheck, Holds, B!CandidateGenuine, B!Genuine, B!Registered
  <2> QED
    BY <1>3, <2>1, <2>2, <2>3, <2>4 DEF B!StatusCheck, Holds, Enough, Registered
<1>4. CASE B!Crash \/ B!UpdateFails \/ B!RunRejects
  <2>1. B!Exit
    BY <1>4 DEF B!Crash, B!UpdateFails, B!RunRejects
  <2>2. B!LeaderTypeOK'
    BY <2>1 DEF B!Exit, B!LeaderTypeOK
  <2> QED  BY <2>1, <2>2, HoldsNoMore DEF B!Exit
<1>5. CASE B!Restart
  <2>1. B!LeaderTypeOK'
    BY <1>5 DEF B!Restart, B!LeaderTypeOK
  <2> QED  BY <1>5, <2>1, HoldsNoMore DEF B!Restart
<1> QED  BY <1>1, <1>2, <1>3, <1>4, <1>5

\* None of these touches the documents, the signatures or a block.
LEMMA LoopLeaves ==
    ASSUME \/ B!LoopStep \/ B!LoopRejects \/ B!BroadcastFails
           \/ \E t \in timers : B!StatusCheck(t)
           \/ B!Crash \/ B!UpdateFails \/ B!RunRejects \/ B!Restart
    PROVE  /\ UNCHANGED <<swaps, signatures, chainSequence, ledger>>
           /\ \/ mempool' = mempool
              \/ pc = "broadcast" /\ mempool' = mempool \cup {candidate}
BY DEF B!LoopStep, B!FindFailed, B!FindInProgress, B!Pick, B!Collect, B!BroadcastSucceeds,
       B!FindSubmitted, B!LoopTest, B!RecheckFailed, B!CheckSubmitted, B!LoopRejects,
       B!BroadcastFails, B!StatusCheck, B!Crash, B!UpdateFails, B!RunRejects, B!Exit, B!Restart,
       B!dbVars, B!chainVars

\* What is in a mempool or a block, and who signs what, after such a step.
LEMMA LoopKeepsRest ==
    ASSUME SwapIInv, Holds', UNCHANGED <<swaps, signatures, chainSequence, ledger, operatorVars>>,
           \A o \in Operators : logBurn'[o] = logBurn[o],
           mempool' = mempool \/ (pc = "broadcast" /\ mempool' = mempool \cup {candidate})
    PROVE  /\ B!TransactionsGenuine' /\ B!LedgerInTurn'
           /\ MovesOnlySigned' /\ SignsDocuments' /\ MovesByDocuments'
<1> USE DEF SwapIInv
<1>1. \A t : B!Genuine(t) => B!Genuine(t)'
  BY DEF B!Genuine, B!Registered
<1>2. B!TransactionsGenuine'
  BY <1>1 DEF B!TransactionsGenuine, B!CandidateGenuine
<1>3. B!LedgerInTurn' /\ MovesByDocuments'
  BY DEF B!LedgerInTurn, MovesByDocuments, Registered
<1>4. MovesOnlySigned'
  BY DEF MovesOnlySigned, Holds, Enough, Registered
<1>5. SignsDocuments'
  BY DEF SignsDocuments, operatorVars, Registered
<1> QED  BY <1>2, <1>3, <1>4, <1>5
-----------------------------------------------------------------------------
(* The steps of the whole. *)

LEMMA HoldsFromIInv == SwapIInv => TypeOK /\ Holds /\ IInv /\ MovesOnlySigned
BY DEF SwapIInv, IInv, TypeOK, DbTypeOK, MovesOnlySigned, Holds

\* The broadcast half on its own leaves the other's types alone.
LEMMA OnlyBroadcastTyped ==
    ASSUME TypeOK, OnlyBroadcast, done' \in BOOLEAN, DbTypeOK', ChainTypeOK'
    PROVE  TypeOK'
BY DEF TypeOK, OnlyBroadcast, ethVars, watchVars, operatorVars, EthTypeOK, WatchTypeOK, RunTypeOK,
       OperatorTypeOK, FaultTypeOK

LEMMA OnlyBroadcastKeepsIInv ==
    ASSUME IInv, OnlyBroadcast, TypeOK', UNCHANGED signatures, Registered' = Registered,
           \A h \in Registered : swaps'[h].sequence = swaps[h].sequence
    PROVE  IInv'
BY RegistrationKept DEF OnlyBroadcast

\* The loop, its failures and its timers.
LEMMA LoopKeepsIInv ==
    ASSUME SwapIInv, OnlyBroadcast,
           B!LoopStep \/ B!LoopRejects \/ \E t \in timers : B!StatusCheck(t)
    PROVE  SwapIInv'
<1> TypeOK /\ Holds /\ IInv /\ MovesOnlySigned
  BY HoldsFromIInv
<1>1. Holds'
  BY LoopHolds, OutsideHolds
<1>2. /\ UNCHANGED <<swaps, signatures, chainSequence, ledger>>
      /\ mempool' = mempool \/ (pc = "broadcast" /\ mempool' = mempool \cup {candidate})
  BY LoopLeaves
<1>3. TypeOK'
  <2>1. DbTypeOK'
    BY <1>1, <1>2 DEF Holds, TypeOK, DbTypeOK
  <2>2. pc = "broadcast" => candidate \in MintTx
    BY GenuineEnough DEF Holds, B!CandidateGenuine
  <2>3. ChainTypeOK'
    BY <1>2, <2>2 DEF TypeOK, ChainTypeOK
  <2>4. done' \in BOOLEAN
    BY <1>1 DEF Holds, B!LeaderTypeOK
  <2> QED  BY <2>1, <2>3, <2>4, OnlyBroadcastTyped
<1>4. IInv'
  BY <1>2, <1>3, OnlyBroadcastKeepsIInv DEF Registered
<1>5. /\ B!TransactionsGenuine' /\ B!LedgerInTurn'
      /\ MovesOnlySigned' /\ SignsDocuments' /\ MovesByDocuments'
  BY <1>1, <1>2, LoopKeepsRest DEF OnlyBroadcast, watchVars
<1> QED  BY <1>1, <1>4, <1>5 DEF SwapIInv, Holds

\* A status write is applied.
LEMMA ApplyKeepsIInv ==
    ASSUME SwapIInv, OnlyBroadcast, NEW u \in updates, B!Apply(u)
    PROVE  SwapIInv'
<1> USE DEF B!Apply, B!ApplyUpdate, B!chainVars, B!leaderVars
<1> TypeOK /\ Holds /\ IInv /\ MovesOnlySigned
  BY HoldsFromIInv
<1>1. /\ u.burn \in Registered /\ u.burn \in Burns /\ Enough(u.burn)
      /\ u.status \in Status /\ u.mintTransactionHash \in MintTx \cup {NoTx}
  BY DEF Holds, Enough, Update
<1>2. swaps' = [swaps EXCEPT ![u.burn].status = u.status,
                           ![u.burn].mintTransactionHash = u.mintTransactionHash]
  BY <1>1 DEF Registered
<1>3. swaps[u.burn] \in Swap
  BY <1>1 DEF TypeOK, DbTypeOK
<1>4. swaps'[u.burn] \in Swap /\ swaps'[u.burn].status = u.status
      /\ swaps'[u.burn].sequence = swaps[u.burn].sequence
      /\ \A h \in Burns : h # u.burn => swaps'[h] = swaps[h]
  <2>1. swaps'[u.burn] = [[swaps[u.burn] EXCEPT !.status = u.status]
                             EXCEPT !.mintTransactionHash = u.mintTransactionHash]
        /\ \A h \in Burns : h # u.burn => swaps'[h] = swaps[h]
    BY <1>1, <1>2 DEF TypeOK, DbTypeOK
  <2> HIDE DEF B!Apply, B!ApplyUpdate
  <2>2. [[swaps[u.burn] EXCEPT !.status = u.status]
              EXCEPT !.mintTransactionHash = u.mintTransactionHash] \in Swap
    BY <1>1, <1>3 DEF Swap
  <2>3. swaps'[u.burn].status = u.status /\ swaps'[u.burn].sequence = swaps[u.burn].sequence
    BY <1>1, <1>3, <2>1 DEF Swap
  <2> QED  BY <2>1, <2>2, <2>3
<1>5. Registered' = Registered /\ \A h \in Burns : swaps'[h].sequence = swaps[h].sequence
  BY <1>1, <1>4 DEF Registered
<1>6. \A h : Enough(h)' <=> Enough(h)
  BY <1>5 DEF Enough
<1>7. \A t : B!Genuine(t) => B!Genuine(t)'
  BY <1>5, Same DEF B!Genuine, B!Registered, Registered
<1>8. TypeOK'
  <2>1. DbTypeOK'
    BY <1>2, <1>4 DEF TypeOK, DbTypeOK
  <2> QED
    BY <2>1, OnlyBroadcastTyped DEF TypeOK, ChainTypeOK, RunTypeOK
<1>9. IInv'
  BY <1>5, <1>8, OnlyBroadcastKeepsIInv DEF Registered
<1>10. B!LeaderTypeOK'
  BY DEF Holds, B!LeaderTypeOK
<1>11. B!CandidateGenuine' /\ B!TransactionsGenuine' /\ B!LedgerInTurn'
  BY <1>5, <1>7, Same
     DEF SwapIInv, B!CandidateGenuine, B!TransactionsGenuine, B!LedgerInTurn, B!Registered, Registered
<1>12. MovesOnlySigned'
  BY <1>1, <1>4, <1>5, <1>6 DEF MovesOnlySigned, Registered
<1>13. SignsDocuments' /\ MovesByDocuments'
  BY <1>5 DEF SwapIInv, SignsDocuments, MovesByDocuments, OnlyBroadcast, operatorVars, watchVars
<1> QED  BY <1>9, <1>10, <1>11, <1>12, <1>13 DEF SwapIInv

\* A block is made, or a transaction dropped.
LEMMA ChainKeepsIInv ==
    ASSUME SwapIInv, OnlyBroadcast, NEW t \in mempool, B!ChainStep(t)
    PROVE  SwapIInv'
<1> USE DEF B!ChainStep, B!dbVars, B!leaderVars
<1> TypeOK /\ Holds /\ IInv /\ MovesOnlySigned
  BY HoldsFromIInv
<1>1. B!Genuine(t) /\ t \in MintTx /\ t.burn \in Registered
  BY GenuineEnough DEF SwapIInv, B!TransactionsGenuine, Enough
<1>2. /\ mempool' \subseteq mempool
      /\ \/ UNCHANGED <<chainSequence, ledger>>
         \/ /\ t.sequence = chainSequence /\ chainSequence' = chainSequence + 1
            /\ ledger' = ledger \cup {t}
  BY DEF B!Deliver, B!Drop
<1>3. TypeOK'
  <2>1. ChainTypeOK'
    BY <1>1, <1>2 DEF TypeOK, ChainTypeOK
  <2> QED  BY <2>1, OnlyBroadcastTyped DEF TypeOK, DbTypeOK, RunTypeOK
<1>4. IInv'
  BY <1>3, OnlyBroadcastKeepsIInv DEF Registered
<1>5. B!LeaderTypeOK' /\ B!CandidateGenuine'
  BY DEF Holds, B!LeaderTypeOK, B!CandidateGenuine, B!Genuine, B!Registered
<1>6. B!TransactionsGenuine'
  BY <1>1, <1>2 DEF SwapIInv, B!TransactionsGenuine, B!Genuine, B!Registered
<1>7. B!LedgerInTurn'
  BY <1>1, <1>2 DEF SwapIInv, B!LedgerInTurn, TypeOK, ChainTypeOK, MintTx
<1>8. MovesOnlySigned' /\ SignsDocuments'
  BY DEF SwapIInv, MovesOnlySigned, SignsDocuments, Enough, Registered, OnlyBroadcast,
         operatorVars, watchVars
<1>9. MovesByDocuments'
  BY <1>1, <1>2 DEF SwapIInv, MovesByDocuments, Registered
<1> QED  BY <1>4, <1>5, <1>6, <1>7, <1>8, <1>9 DEF SwapIInv

\* The process ends, or a failed broadcast stops it.
LEMMA EndKeepsIInv ==
    ASSUME SwapIInv, BroadcastFails \/ ProcessEnds
    PROVE  SwapIInv'
<1> TypeOK /\ Holds /\ IInv /\ MovesOnlySigned
  BY HoldsFromIInv
<1> Leader \in Watchers /\ \A o \in Operators : o \in Watchers /\ o # Leader
  BY WatcherAssumption DEF Watchers
<1> UNCHANGED <<ethVars, operatorVars>>
  BY DEF BroadcastFails, ProcessEnds
<1>1. Holds'
  BY OutsideHolds DEF BroadcastFails, ProcessEnds
<1>2. /\ UNCHANGED <<swaps, signatures, chainSequence, ledger>>
      /\ mempool' = mempool \/ (pc = "broadcast" /\ mempool' = mempool \cup {candidate})
  BY LoopLeaves DEF BroadcastFails, ProcessEnds
<1>3. WatcherMoves(Leader)
  BY DEF BroadcastFails, ProcessEnds, StopLeader, LeaderFails, LeaderExit, WatcherMoves
<1>4. /\ inserts' \subseteq inserts
      /\ \/ UNCHANGED <<run, sequenceNumber>> /\ at' = at
         \/ run' = "exited" /\ sequenceNumber' = 0
  BY DEF BroadcastFails, ProcessEnds, StopLeader, StopWatching, LeaderFails, LeaderExit
<1>5. \A o \in Operators : at'[o] = at[o] /\ logBurn'[o] = logBurn[o]
  BY <1>3, OthersKept DEF TypeOK
<1>6. TypeOK'
  <2>1. EthTypeOK' /\ WatchTypeOK'
    BY <1>3, WatchTyped DEF TypeOK, EthTypeOK, ethVars
  <2>2. DbTypeOK'
    BY <1>1, <1>2 DEF Holds, TypeOK, DbTypeOK
  <2>3. ChainTypeOK'
    <3>1. pc = "broadcast" => candidate \in MintTx
      BY GenuineEnough DEF Holds, B!CandidateGenuine
    <3> QED  BY <1>2, <3>1 DEF TypeOK, ChainTypeOK
  <2>4. RunTypeOK'
    <3>1. done' \in BOOLEAN
      BY <1>1 DEF Holds, B!LeaderTypeOK
    <3> QED  BY <1>4, <3>1 DEF TypeOK, RunTypeOK
  <2>5. OperatorTypeOK'
    BY <1>5 DEF TypeOK, OperatorTypeOK, operatorVars
  <2>6. FaultTypeOK'
    <3>1. \E kind : Fault(kind)
      BY DEF BroadcastFails, ProcessEnds, StopLeader, LeaderFails
    <3> QED  BY <3>1, FaultsTyped DEF TypeOK
  <2> QED  BY <2>1, <2>2, <2>3, <2>4, <2>5, <2>6 DEF TypeOK
<1>7. IInv'
  BY <1>2, <1>3, <1>4, <1>6, RegistrationKept DEF Registered
<1>8. /\ B!TransactionsGenuine' /\ B!LedgerInTurn'
      /\ MovesOnlySigned' /\ SignsDocuments' /\ MovesByDocuments'
  BY <1>1, <1>2, <1>5, LoopKeepsRest
<1> QED  BY <1>1, <1>7, <1>8 DEF SwapIInv, Holds

\* The registration half only adds: unsigned documents, and signatures.
LEMMA OnlyAdds ==
    ASSUME TypeOK, LeaderStep \/ OperatorsStep \/ EthStep
    PROVE  /\ Grown
           /\ \A h \in Registered' : \/ h \in Registered /\ swaps'[h] = swaps[h]
                                     \/ swaps'[h].status = "UNSIGNED"
<1>1. CASE UNCHANGED <<swaps, signatures>>
  BY <1>1 DEF Grown, Registered
<1>2. ASSUME NEW i \in inserts, AnswerInsert(i)
      PROVE  /\ Grown
             /\ \A h \in Registered' : \/ h \in Registered /\ swaps'[h] = swaps[h]
                                       \/ swaps'[h].status = "UNSIGNED"
  <2>1. CASE UNCHANGED dbVars
    BY <1>1, <2>1 DEF dbVars
  <2>2. CASE i.burn \notin Registered /\ ApplyInsert(i.burn, i.sequence)
    <3>1. i.burn \in Burns
      BY DEF TypeOK, RunTypeOK
    <3>2. /\ swaps'[i.burn].status = "UNSIGNED" /\ signatures' = signatures
          /\ \A h \in Burns : h # i.burn => swaps'[h] = swaps[h]
      BY <2>2, <3>1 DEF ApplyInsert, TypeOK, DbTypeOK
    <3> QED  BY <2>2, <3>2 DEF Grown, Registered
  <2> QED  BY <1>2, <2>1, <2>2 DEF AnswerInsert
<1>3. ASSUME NEW o \in Operators, NEW g \in signed[o], AnswerSignature(o, g)
      PROVE  swaps' = swaps /\ Grown
  BY <1>3 DEF AnswerSignature, ApplySignature, dbVars, Grown, Registered, TypeOK, DbTypeOK
<1>4. CASE LeaderStep
  BY <1>1, <1>2, <1>4
     DEF LeaderStep, RunStep, FindLastSequence, AskChainSequence, FetchSwap, GenerateSwap,
         InsertUnsignedSwap, RunReturns, StopLeader, LeaderFails, LeaderExit, LeaderRestart, dbVars
<1>5. CASE OperatorsStep
  BY <1>1, <1>3, <1>5
     DEF OperatorsStep, OperatorStep, Start, FetchRegistered, SignTx, FetchFails, OperatorFails,
         OperatorExit, OperatorRestart, Registered, dbVars
<1>6. CASE EthStep
  BY <1>1, <1>6 DEF EthStep, dbVars
<1> QED  BY <1>4, <1>5, <1>6

\* An operator asks for the document before it signs.
LEMMA SignsDocumentsStays ==
    ASSUME TypeOK, SignsDocuments, LeaderStep \/ OperatorsStep \/ EthStep
    PROVE  SignsDocuments'
<1>1. Registered \subseteq Registered'
  BY OnlyAdds DEF Grown
<1> Leader \in Watchers /\ \A x \in Operators : x \in Watchers /\ x # Leader
  BY WatcherAssumption DEF Watchers
<1> SUFFICES ASSUME NEW x \in Operators
             PROVE  /\ signing'[x] = "sign" => logBurn'[x] \in Registered
                    /\ signed'[x] \subseteq Registered
  BY <1>1 DEF SignsDocuments
<1>2. /\ signing[x] = "sign" => logBurn[x] \in Registered
      /\ signed[x] \subseteq Registered
  BY DEF SignsDocuments
<1>3. CASE LeaderStep \/ EthStep
  <2>1. logBurn'[x] = logBurn[x]
    <3>1. CASE WatcherMoves(Leader)
      BY <3>1, OthersKept DEF TypeOK
    <3>2. CASE UNCHANGED watchVars
      BY <3>2 DEF watchVars
    <3> QED  BY <1>3, <3>1, <3>2, LeaderMoves DEF EthStep
  <2> QED  BY <1>2, <1>3, <2>1 DEF LeaderStep, EthStep, operatorVars
<1>4. CASE OperatorsStep
  <2> PICK o \in Operators :
         \/ OperatorStep(o) \/ FetchFails(o) \/ OperatorFails(o) \/ OperatorRestart(o)
         \/ \E h \in signed[o] : AnswerSignature(o, h)
    BY <1>4 DEF OperatorsStep
  <2> USE DEF TypeOK, OperatorTypeOK
  <2>1. CASE x # o
    <3>1. logBurn'[x] = logBurn[x]
      <4>1. CASE WatcherMoves(o)
        BY <2>1, <4>1, OthersKept
      <4>2. CASE UNCHANGED watchVars
        BY <4>2 DEF watchVars
      <4> QED  BY <4>1, <4>2, OperatorMoves
    <3>2. signing'[x] = signing[x] /\ signed'[x] = signed[x]
      BY <2>1 DEF OperatorStep, Start, FetchRegistered, SignTx, FetchFails, OperatorFails,
         OperatorExit, OperatorRestart, AnswerSignature, operatorVars
    <3> QED  BY <1>2, <3>1, <3>2
  <2>2. CASE Start(o) \/ OperatorRestart(o)
    BY <1>2, <2>1, <2>2 DEF Start, StartWatching, OperatorRestart, operatorVars, watchVars
  <2>3. CASE FetchRegistered(o)
    BY <1>2, <2>1, <2>3 DEF FetchRegistered, watchVars
  <2>4. CASE SignTx(o)
    BY <1>2, <2>1, <2>4 DEF SignTx
  <2>5. CASE OperatorExit(o)
    BY <1>2, <2>1, <2>5 DEF OperatorExit
  <2>6. ASSUME NEW h \in signed[o], AnswerSignature(o, h)
        PROVE  /\ signing'[x] = "sign" => logBurn'[x] \in Registered
               /\ signed'[x] \subseteq Registered
    BY <1>2, <2>1, <2>6 DEF AnswerSignature, watchVars
  <2>7. CASE WatchStep(o) /\ UNCHANGED operatorVars
    <3>1. signing[o] # "sign"
      BY <2>7 DEF WatchStep, GetBlockNumber, GetPastEvents, PollAgain, NextEvent
    <3> QED  BY <1>2, <2>1, <2>7, <3>1 DEF operatorVars
  <2> QED
    BY <2>2, <2>3, <2>4, <2>5, <2>6, <2>7 DEF OperatorStep, FetchFails, OperatorFails
<1> QED  BY <1>3, <1>4

\* A step of the registration half, with the broadcast half standing still.
LEMMA RegistrationKeepsIInv ==
    ASSUME SwapIInv, LeaderStep \/ OperatorsStep \/ EthStep,
           UNCHANGED <<chainVars, updates>>,
           UNCHANGED loopVars \/ B!Restart
    PROVE  SwapIInv'
<1> TypeOK /\ Holds /\ IInv /\ MovesOnlySigned
  BY HoldsFromIInv
<1>1. IInv' /\ TypeOK'
  <2>1. IInv'
    BY IInvStep DEF Next
  <2> QED  BY <2>1 DEF IInv
<1>2. /\ Grown
      /\ \A h \in Registered' : \/ h \in Registered /\ swaps'[h] = swaps[h]
                                \/ swaps'[h].status = "UNSIGNED"
  BY OnlyAdds
<1>3. \A h : Enough(h) => Enough(h)'
  BY <1>1, <1>2, EnoughStays
<1>4. \A t : B!Genuine(t) => B!Genuine(t)'
  BY <1>2, GenuineStays
<1>5. /\ checking' = checking /\ timers' = timers
      /\ candidate' = candidate
      /\ \/ pc' = pc /\ broadcasting' = broadcasting
         \/ pc' = "findFailed" /\ broadcasting' = TRUE
  BY DEF loopVars, B!Restart
<1>6. B!LeaderTypeOK'
  <2>1. done' \in BOOLEAN
    BY <1>1 DEF TypeOK, RunTypeOK
  <2> QED  BY <1>5, <2>1 DEF Holds, B!LeaderTypeOK
<1>7. B!CandidateGenuine'
  BY <1>2, <1>4, <1>5, Same DEF Holds, B!CandidateGenuine, Grown, B!Registered, Registered
<1>8. B!TransactionsGenuine' /\ B!LedgerInTurn'
  BY <1>4 DEF SwapIInv, B!TransactionsGenuine, B!LedgerInTurn, chainVars
<1>9. MovesOnlySigned'
  BY <1>2, <1>3, <1>5 DEF MovesOnlySigned, Holds
<1>10. SignsDocuments'
  BY SignsDocumentsStays DEF SwapIInv
<1>11. MovesByDocuments'
  <2>1. Registered' = {} => Registered = {}
    BY <1>2 DEF Grown
  <2> QED  BY <2>1 DEF SwapIInv, MovesByDocuments, chainVars
<1> QED  BY <1>1, <1>6, <1>7, <1>8, <1>9, <1>10, <1>11 DEF SwapIInv

LEMMA SwapInvInit == SwapInit => SwapIInv
<1> SUFFICES ASSUME SwapInit PROVE SwapIInv
  OBVIOUS
<1>1. IInv
  BY IInvInit DEF SwapInit
<1>2. B!LeaderTypeOK /\ B!CandidateGenuine
  BY DEF SwapInit, B!Init, B!LeaderInit, B!LeaderTypeOK, B!CandidateGenuine
<1>3. B!TransactionsGenuine /\ B!LedgerInTurn /\ MovesByDocuments
  BY DEF SwapInit, Init, ChainInit, B!TransactionsGenuine, B!LedgerInTurn, MovesByDocuments
<1>4. MovesOnlySigned /\ SignsDocuments
  BY DEF SwapInit, Init, DbInit, OperatorInit, B!Init, B!LeaderInit, NoSwap, Registered,
         MovesOnlySigned, SignsDocuments
<1> QED  BY <1>1, <1>2, <1>3, <1>4 DEF SwapIInv

LEMMA SwapIInvStep == ASSUME SwapIInv, [SwapNext]_swapVars PROVE SwapIInv'
<1>1. CASE BroadcastStep
  BY <1>1, LoopKeepsIInv, ApplyKeepsIInv, ChainKeepsIInv DEF BroadcastStep
<1>2. CASE BurnLogStep
  BY <1>2, RegistrationKeepsIInv DEF BurnLogStep, OnlyRegistration, LeaderStep, chainVars
<1>3. CASE OthersStep
  <2>1. UNCHANGED updates
    BY <1>3 DEF OthersStep, OperatorsStep, OperatorStep, Start, FetchRegistered, SignTx, FetchFails,
       OperatorFails, OperatorExit, OperatorRestart, AnswerSignature, ApplySignature, EthStep, dbVars
  <2> QED  BY <1>3, <2>1, RegistrationKeepsIInv DEF OthersStep, OnlyRegistration
<1>4. CASE BroadcastFails \/ ProcessEnds
  BY <1>4, EndKeepsIInv
<1>5. CASE ProcessRestarts
  BY <1>5, RegistrationKeepsIInv DEF ProcessRestarts, LeaderStep, B!Restart, chainVars, B!chainVars, B!dbVars
<1>6. CASE UNCHANGED swapVars
  <2> UNCHANGED vars /\ UNCHANGED loopVars
    BY <1>6 DEF swapVars
  <2>1. IInv'
    BY IInvStep DEF SwapIInv
  <2>2. /\ B!LeaderTypeOK' /\ B!CandidateGenuine'
        /\ B!TransactionsGenuine' /\ B!LedgerInTurn'
    BY DEF SwapIInv, vars, loopVars, runVars, dbVars, chainVars, B!LeaderTypeOK, B!CandidateGenuine,
           B!TransactionsGenuine, B!LedgerInTurn, B!Genuine, B!Registered
  <2>3. MovesOnlySigned' /\ SignsDocuments' /\ MovesByDocuments'
    BY DEF SwapIInv, vars, loopVars, watchVars, operatorVars, dbVars, chainVars, MovesOnlySigned,
           SignsDocuments, MovesByDocuments, Enough, Registered
  <2> QED  BY <2>1, <2>2, <2>3 DEF SwapIInv
<1> QED  BY <1>1, <1>2, <1>3, <1>4, <1>5, <1>6 DEF SwapNext

\* The inductive invariant of the whole service holds in every reachable
\* state: whatever the loop, its timers and its requests keep across awaits
\* is true of the documents and signatures the other half wrote meanwhile.
THEOREM SwapInvariant == SwapSpec => []SwapIInv
BY SwapInvInit, SwapIInvStep, PTL DEF SwapSpec

LEMMA IInvMintedIsBurnt == ASSUME SwapIInv PROVE MintedIsBurnt
<1> TypeOK /\ IInv
  BY HoldsFromIInv
<1>1. \A t \in ledger : /\ B!Genuine(t) /\ t \in MintTx /\ t.burn \in Registered
                        /\ t.burn \in Burns /\ t.sequence = swaps[t.burn].sequence
  BY GenuineEnough DEF SwapIInv, B!TransactionsGenuine, B!Genuine, Enough
<1>2. ASSUME NEW t \in ledger PROVE Final(t.burn)
  <2>1. t.signers \subseteq signatures[t.burn] /\ Cardinality(t.signers) >= Threshold
    BY <1>1, Same DEF B!Genuine
  <2>2. t.signers # {}
    BY <2>1, FS_EmptySet, SwapAssumption, RegistrationAssumption
  <2>3. PICK o \in t.signers : TRUE
    BY <2>2
  <2>4. o \in Operators /\ o \in signatures[t.burn]
    BY <1>1, <2>1, <2>3 DEF TypeOK, DbTypeOK
  <2> QED  BY <1>1, <2>4 DEF IInv, SignedIsFinal
<1>3. ASSUME NEW s \in ledger, NEW t \in ledger, s.burn = t.burn PROVE s = t
  BY <1>1, <1>3 DEF SwapIInv, B!LedgerInTurn
<1> QED  BY <1>2, <1>3 DEF MintedIsBurnt

\* Nothing is minted that is not burnt for good, and nothing twice, whatever
\* both halves do to each other and whichever process ends when.
THEOREM OnlyBurntIsMinted == SwapSpec => []MintedIsBurnt
BY SwapInvariant, IInvMintedIsBurnt, PTL

-----------------------------------------------------------------------------
(* The broadcast half is BroadcastSystem's, for whatever sequence numbers.   *)

\* A document or a signature of the real registration half appears as one
\* that BroadcastSystem's environment adds, or is there already.
LEMMA RegistrationIsEnvironment ==
    ASSUME Sequences = Nat, SwapIInv, LeaderStep \/ OperatorsStep \/ EthStep,
           UNCHANGED <<chainVars, loopVars, broadcastFaults, updates, done>>
    PROVE  B!EnvironmentStep \/ UNCHANGED B!vars
<1> USE DEF B!vars, B!dbVars, B!chainVars, B!leaderVars, chainVars, loopVars
<1> TypeOK /\ IInv
  BY HoldsFromIInv
<1>1. CASE UNCHANGED <<swaps, signatures>>
  BY <1>1
<1>2. ASSUME NEW i \in inserts, AnswerInsert(i)
      PROVE  B!EnvironmentStep \/ UNCHANGED B!vars
  <2>1. CASE UNCHANGED dbVars
    BY <1>1, <2>1 DEF dbVars
  <2>2. CASE i.burn \notin Registered /\ ApplyInsert(i.burn, i.sequence)
    <3>1. i.burn \in Burns /\ i.sequence \in Sequences
      BY DEF TypeOK, RunTypeOK
    <3>2. B!FindBySequence(i.sequence) = {}
      <4> SUFFICES ASSUME NEW h \in Registered, swaps[h].sequence = i.sequence PROVE FALSE
        BY Same DEF B!FindBySequence
      <4>1. <<h, i.sequence>> \in Assigned /\ <<i.burn, i.sequence>> \in Assigned
        BY DEF Assigned
      <4>2. <<h, i.sequence>>[2] = <<i.burn, i.sequence>>[2]
            => <<h, i.sequence>>[1] = <<i.burn, i.sequence>>[1]
        BY <4>1 DEF IInv, UniqueSequences
      <4> QED  BY <2>2, <4>2
    <3>3. B!Register(i.burn)
      BY <2>2, <3>1, <3>2 DEF B!Register, B!ApplyInsert, ApplyInsert, Registered, B!NoFault
    <3> QED  BY <3>1, <3>3 DEF B!EnvironmentStep
  <2> QED  BY <1>2, <2>1, <2>2 DEF AnswerInsert
<1>3. ASSUME NEW o \in Operators, NEW h \in signed[o], AnswerSignature(o, h)
      PROVE  B!EnvironmentStep \/ UNCHANGED B!vars
  <2>1. h \in Registered /\ h \in Burns
    BY DEF SwapIInv, SignsDocuments, Registered
  <2>2. CASE UNCHANGED dbVars
    BY <1>1, <2>2 DEF dbVars
  <2>3. CASE ApplySignature(o, h) /\ o \in signatures[h]
    <3>1. UNCHANGED <<swaps, signatures>>
      BY <2>1, <2>3 DEF ApplySignature, TypeOK, DbTypeOK
    <3> QED  BY <1>1, <3>1
  <2>4. CASE ApplySignature(o, h) /\ o \notin signatures[h]
    <3>1. B!Sign(o, h)
      BY <2>1, <2>4, Same DEF B!Sign, B!ApplySignature, ApplySignature, B!NoFault
    <3> QED  BY <2>1, <3>1 DEF B!EnvironmentStep
  <2> QED  BY <1>3, <2>2, <2>3, <2>4 DEF AnswerSignature
<1>4. CASE LeaderStep
  BY <1>1, <1>2, <1>4
     DEF LeaderStep, RunStep, FindLastSequence, AskChainSequence, FetchSwap, GenerateSwap,
         InsertUnsignedSwap, RunReturns, StopLeader, LeaderFails, LeaderExit, LeaderRestart, dbVars
<1>5. CASE OperatorsStep
  BY <1>1, <1>3, <1>5
     DEF OperatorsStep, OperatorStep, Start, FetchRegistered, SignTx, FetchFails, OperatorFails,
         OperatorExit, OperatorRestart, dbVars
<1>6. CASE EthStep
  BY <1>1, <1>6 DEF EthStep, dbVars
<1> QED  BY <1>4, <1>5, <1>6

LEMMA BroadcastImplementedStep ==
    ASSUME Sequences = Nat, SwapIInv, [SwapNext]_swapVars
    PROVE  [B!Next]_B!vars
<1>1. CASE BroadcastStep
  BY <1>1 DEF BroadcastStep, B!Next, B!LeaderStep, B!EnvironmentStep
<1>2. CASE BurnLogStep
  <2>1. LeaderStep
    BY <1>2 DEF BurnLogStep, LeaderStep, OnlyRegistration, chainVars
  <2>2. done' = done
    BY <1>2 DEF BurnLogStep, RunStep, FindLastSequence, AskChainSequence, FetchSwap, GenerateSwap,
       InsertUnsignedSwap, RunReturns, AnswerInsert, runVars
  <2> QED
    BY <1>2, <2>1, <2>2, RegistrationIsEnvironment DEF BurnLogStep, OnlyRegistration, B!Next
<1>3. CASE OthersStep
  <2>1. UNCHANGED updates
    BY <1>3 DEF OthersStep, OperatorsStep, OperatorStep, Start, FetchRegistered, SignTx, FetchFails,
       OperatorFails, OperatorExit, OperatorRestart, AnswerSignature, ApplySignature, EthStep, dbVars
  <2>2. done' = done
    BY <1>3 DEF OthersStep, OperatorsStep, EthStep, runVars
  <2> QED
    BY <1>3, <2>1, <2>2, RegistrationIsEnvironment DEF OthersStep, OnlyRegistration, B!Next
<1>4. CASE BroadcastFails \/ ProcessEnds \/ ProcessRestarts
  BY <1>4 DEF BroadcastFails, ProcessEnds, ProcessRestarts, B!Next, B!LeaderStep
<1>5. CASE UNCHANGED swapVars
  BY <1>5 DEF swapVars, vars, loopVars, runVars, dbVars, chainVars,
              B!vars, B!dbVars, B!chainVars, B!leaderVars
<1> QED  BY <1>1, <1>2, <1>3, <1>4, <1>5 DEF SwapNext

\* The broadcast loop in the whole service does only what BroadcastSystem
\* allows: what is shown of it there holds here.
THEOREM BroadcastImplemented ==
    ASSUME Sequences = Nat
    PROVE  SwapSpec => ImplementsBroadcast
<1>1. SwapInit => B!Init
  BY DEF SwapInit
<1>2. SwapIInv /\ [SwapNext]_swapVars => [B!Next]_B!vars
  BY BroadcastImplementedStep
<1> QED  BY <1>1, <1>2, SwapInvariant, PTL DEF SwapSpec, ImplementsBroadcast, B!Spec

-----------------------------------------------------------------------------
(* The registration half is RegistrationSystem's. *)

\* The documents as that half sees them.
Seen == [h \in Burns |-> [status |-> SeenStatus(swaps[h].status),
                          sequence |-> swaps[h].sequence,
                          mintTransactionHash |-> NoTx]]

\* Its queries have the same answers.
LEMMA SameAnswers ==
    /\ Registration!Registered = Registered
    /\ Registration!FindLast = FindLast
    /\ \A n : Registration!FindBySequence(n) = FindBySequence(n)
    /\ \A S : Registration!Cardinality(S) = Cardinality(S)
    /\ \A h \in Burns : /\ Seen[h].sequence = swaps[h].sequence
                        /\ Seen[h].status = "UNSIGNED" <=> swaps[h].status = "UNSIGNED"
<1>1. Registration!Registered = Registered
  BY DEF Registration!Registered, Registered, SeenStatus
<1>2. Registration!FindLast = FindLast
  BY <1>1 DEF Registration!FindLast, FindLast, Registered
<1>3. \A n : Registration!FindBySequence(n) = FindBySequence(n)
  BY <1>1 DEF Registration!FindBySequence, FindBySequence, Registered
<1>4. \A S : Registration!Cardinality(S) = Cardinality(S)
  BY DEF Registration!Cardinality, Cardinality, Registration!IsFiniteSet, IsFiniteSet
<1>5. \A h \in Burns : /\ Seen[h].sequence = swaps[h].sequence
                       /\ Seen[h].status = "UNSIGNED" <=> swaps[h].status = "UNSIGNED"
  BY DEF Seen, SeenStatus
<1> QED  BY <1>1, <1>2, <1>3, <1>4, <1>5

\* Its watchers are the same watchers.
LEMMA SameWatchers ==
    /\ \A w : /\ Registration!StartWatching(w) <=> StartWatching(w)
              /\ Registration!Resume(w) <=> Resume(w)
              /\ Registration!Return(w) <=> Return(w)
              /\ Registration!Forget(w) <=> Forget(w)
              /\ Registration!StopWatching(w) <=> StopWatching(w)
    /\ \A w : WatchStep(w) => Registration!WatchStep(w)
<1>1. \A w : /\ Registration!StartWatching(w) <=> StartWatching(w)
             /\ Registration!Resume(w) <=> Resume(w)
             /\ Registration!Return(w) <=> Return(w)
             /\ Registration!Forget(w) <=> Forget(w)
             /\ Registration!StopWatching(w) <=> StopWatching(w)
  BY DEF Registration!StartWatching, StartWatching, Registration!Resume, Resume,
         Registration!Return, Return, Registration!Forget, Forget,
         Registration!StopWatching, StopWatching
<1>2. ASSUME NEW w, GetBlockNumber(w) \/ GetPastEvents(w) \/ PollAgain(w)
      PROVE  Registration!WatchStep(w)
  BY <1>2 DEF Registration!WatchStep,
       Registration!GetBlockNumber, GetBlockNumber, Registration!LastBlock, LastBlock,
       Registration!Confirmations, Confirmations, Registration!GetPastEvents, GetPastEvents,
       Registration!PastEvents, PastEvents, Registration!PollAgain, PollAgain
<1>3. ASSUME NEW w, NEW e \in events[w], NextEvent(w, e) PROVE Registration!WatchStep(w)
  BY <1>3 DEF Registration!WatchStep, Registration!NextEvent, NextEvent
<1> QED  BY <1>1, <1>2, <1>3 DEF WatchStep

LEMMA SameFaults ==
    /\ Registration!NoFault <=> NoFault
    /\ \A kind : Registration!Fault(kind) <=> Fault(kind)
BY DEF Registration!NoFault, NoFault, Registration!Fault, Fault

\* A document it inserts is seen as it is.
LEMMA SameInsert ==
    ASSUME TypeOK, NEW h \in Burns, NEW n, ApplyInsert(h, n)
    PROVE  Registration!ApplyInsert(h, n)
BY DEF ApplyInsert, Registration!ApplyInsert, SeenStatus, TypeOK, DbTypeOK

\* The leader's burn log loop, and what ends and starts its process.
LEMMA SameLeaderStep ==
    ASSUME SwapIInv, UNCHANGED <<ethVars, operatorVars>>,
           \/ RunStep \/ RunReturns \/ StopLeader \/ LeaderFails \/ LeaderRestart
           \/ \E i \in inserts : AnswerInsert(i)
    PROVE  Registration!LeaderStep
<1> USE DEF Registration!dbVars, Registration!runVars, Registration!watchVars
<1> TypeOK /\ IInv
  BY HoldsFromIInv
<1> UNCHANGED <<Registration!ethVars, Registration!operatorVars, Registration!chainVars>>
  BY DEF ethVars, operatorVars, Registration!ethVars, Registration!operatorVars,
         Registration!chainVars
<1>0. UNCHANGED <<swaps, signatures>> => UNCHANGED Registration!dbVars
  OBVIOUS
<1>1. CASE FindLastSequence
  <2>1. \A h \in FindLast : Seen[h].sequence = swaps[h].sequence
    BY SameAnswers DEF FindLast, Registered
  <2>2. Registration!FindLastSequence
    BY <1>0, <1>1, <2>1, SameAnswers, SameWatchers, SameFaults
       DEF FindLastSequence, Registration!FindLastSequence, Seen, dbVars, watchVars
  <2> QED  BY <2>2 DEF Registration!RunStep, Registration!LeaderStep
<1>2. CASE AskChainSequence
  <2>1. chainSequence = FirstSequence
    BY <1>2 DEF AskChainSequence, SwapIInv, IInv, CounterAhead, MovesByDocuments
  <2>2. Registration!AskChainSequence
    BY <1>0, <1>2, <2>1, SameWatchers, SameFaults
       DEF AskChainSequence, Registration!AskChainSequence, dbVars
  <2> QED  BY <2>2 DEF Registration!RunStep, Registration!LeaderStep
<1>3. EndOfIteration => Registration!EndOfIteration
  BY SameWatchers DEF EndOfIteration, Registration!EndOfIteration
<1>4. CASE FetchSwap
  <2>1. Registration!FetchSwap
    BY <1>0, <1>3, <1>4, SameAnswers, SameFaults
       DEF FetchSwap, Registration!FetchSwap, dbVars, watchVars
  <2> QED  BY <2>1 DEF Registration!RunStep, Registration!LeaderStep
<1>5. CASE GenerateSwap
  <2>1. Registration!GenerateSwap
    BY <1>0, <1>3, <1>5, SameFaults DEF GenerateSwap, Registration!GenerateSwap, dbVars, watchVars
  <2> QED  BY <2>1 DEF Registration!RunStep, Registration!LeaderStep
<1>6. CASE InsertUnsignedSwap
  <2>1. Registration!InsertUnsignedSwap
    BY <1>0, <1>3, <1>6, SameAnswers, SameFaults
       DEF InsertUnsignedSwap, Registration!InsertUnsignedSwap, dbVars
  <2> QED  BY <2>1 DEF Registration!RunStep, Registration!LeaderStep
<1>7. CASE WatchStep(Leader) /\ NoFault /\ UNCHANGED <<runVars, dbVars>>
  <2>1. Registration!WatchStep(Leader) /\ Registration!NoFault
        /\ UNCHANGED <<Registration!runVars, Registration!dbVars>>
    BY <1>0, <1>7, SameWatchers, SameFaults DEF runVars, dbVars
  <2> QED  BY <2>1 DEF Registration!RunStep, Registration!LeaderStep
<1>8. CASE RunReturns \/ StopLeader \/ LeaderFails \/ LeaderRestart
  <2>1. CASE RunReturns
    BY <1>0, <2>1, SameFaults DEF RunReturns, Registration!RunReturns, dbVars, watchVars,
       Registration!LeaderStep
  <2>2. CASE StopLeader
    BY <1>0, <2>2, SameFaults, SameWatchers DEF StopLeader, Registration!StopLeader,
       LeaderUp, Registration!LeaderUp, Registration!LeaderStep
  <2>3. CASE LeaderFails
    BY <1>0, <2>3, SameFaults, SameWatchers DEF LeaderFails, Registration!LeaderFails, LeaderExit,
       Registration!LeaderExit, LeaderUp, Registration!LeaderUp, Registration!LeaderStep
  <2>4. CASE LeaderRestart
    BY <1>0, <2>4, SameFaults DEF LeaderRestart, Registration!LeaderRestart, dbVars, watchVars,
       Registration!LeaderStep
  <2> QED  BY <1>8, <2>1, <2>2, <2>3, <2>4
<1>9. ASSUME NEW i \in inserts, AnswerInsert(i) PROVE Registration!LeaderStep
  <2>1. i.burn \in Burns
    BY DEF TypeOK, RunTypeOK
  <2>2. ApplyInsert(i.burn, i.sequence) => Registration!ApplyInsert(i.burn, i.sequence)
    BY <2>1, SameInsert
  <2>3. Registration!AnswerInsert(i)
    BY <1>0, <1>9, <2>2, SameAnswers, SameFaults
       DEF AnswerInsert, Registration!AnswerInsert, dbVars, watchVars
  <2> QED  BY <2>3 DEF Registration!LeaderStep
<1> QED  BY <1>1, <1>2, <1>4, <1>5, <1>6, <1>7, <1>8, <1>9 DEF RunStep

\* The operators.
LEMMA SameOperatorsStep ==
    ASSUME SwapIInv, OperatorsStep
    PROVE  Registration!OperatorsStep
<1> USE DEF Registration!dbVars, Registration!runVars, Registration!watchVars,
            Registration!operatorVars
<1> TypeOK /\ IInv
  BY HoldsFromIInv
<1> UNCHANGED <<Registration!ethVars, Registration!runVars, Registration!chainVars>>
  BY DEF OperatorsStep, ethVars, runVars, Registration!ethVars, Registration!chainVars
<1> PICK o \in Operators :
       \/ OperatorStep(o) \/ FetchFails(o) \/ OperatorFails(o) \/ OperatorRestart(o)
       \/ \E h \in signed[o] : AnswerSignature(o, h)
  BY DEF OperatorsStep
<1>0. UNCHANGED <<swaps, signatures>> => UNCHANGED Registration!dbVars
  OBVIOUS
<1>1. CASE Start(o) \/ OperatorRestart(o)
  <2>1. Registration!Start(o) \/ Registration!OperatorRestart(o)
    BY <1>0, <1>1, SameFaults, SameWatchers
       DEF Start, OperatorRestart, Registration!Start, Registration!OperatorRestart, dbVars,
           watchVars, operatorVars
  <2> QED  BY <2>1 DEF Registration!OperatorStep, Registration!OperatorsStep
<1>2. CASE FetchRegistered(o)
  <2>1. logBurn[o] \in Burns
    BY <1>2 DEF FetchRegistered, Registered
  <2>2. Seen[logBurn[o]].status = "UNSIGNED" <=> swaps[logBurn[o]].status = "UNSIGNED"
    BY <2>1, SameAnswers
  <2>3. Registration!FetchRegistered(o)
    BY <1>0, <1>2, <2>2, SameAnswers, SameFaults, SameWatchers
       DEF FetchRegistered, Registration!FetchRegistered, Seen, dbVars, watchVars
  <2> QED  BY <2>3 DEF Registration!OperatorStep, Registration!OperatorsStep
<1>3. CASE SignTx(o)
  <2>1. Registration!SignTx(o)
    BY <1>0, <1>3, SameFaults, SameWatchers DEF SignTx, Registration!SignTx, dbVars
  <2> QED  BY <2>1 DEF Registration!OperatorStep, Registration!OperatorsStep
<1>4. CASE WatchStep(o) /\ NoFault /\ UNCHANGED <<operatorVars, dbVars>>
  <2>1. Registration!WatchStep(o) /\ Registration!NoFault
        /\ UNCHANGED <<Registration!operatorVars, Registration!dbVars>>
    BY <1>0, <1>4, SameFaults, SameWatchers DEF operatorVars, dbVars
  <2> QED  BY <2>1 DEF Registration!OperatorStep, Registration!OperatorsStep
<1>5. OperatorExit(o) => Registration!OperatorExit(o)
  BY <1>0, SameWatchers DEF OperatorExit, Registration!OperatorExit, dbVars
<1>6. CASE FetchFails(o)
  <2>1. Registration!FetchFails(o)
    BY <1>5, <1>6, SameAnswers, SameFaults DEF FetchFails, Registration!FetchFails
  <2> QED  BY <2>1 DEF Registration!OperatorsStep
<1>7. CASE OperatorFails(o)
  <2>1. Registration!OperatorFails(o)
    BY <1>5, <1>7, SameFaults DEF OperatorFails, Registration!OperatorFails
  <2> QED  BY <2>1 DEF Registration!OperatorsStep
<1>8. ASSUME NEW h \in signed[o], AnswerSignature(o, h) PROVE Registration!OperatorsStep
  <2>1. Registration!AnswerSignature(o, h)
    BY <1>0, <1>8, SameFaults
       DEF AnswerSignature, Registration!AnswerSignature, ApplySignature,
           Registration!ApplySignature, dbVars, watchVars
  <2> QED  BY <2>1 DEF Registration!OperatorsStep
<1> QED  BY <1>1, <1>2, <1>3, <1>4, <1>6, <1>7, <1>8 DEF OperatorStep

\* A status write is seen as one of Broadcasts, or not at all.
LEMMA SameBroadcasts ==
    ASSUME SwapIInv, OnlyBroadcast, NEW u \in updates, B!Apply(u)
    PROVE  \E h \in Burns : Registration!Broadcasts(h)
<1> TypeOK /\ Holds
  BY HoldsFromIInv
<1>1. /\ u.burn \in Registered /\ u.burn \in Burns /\ Enough(u.burn)
      /\ u.status \in Status
  BY DEF Holds, Enough, Registered, Update
<1>2. /\ swaps' = [swaps EXCEPT ![u.burn].status = u.status,
                           ![u.burn].mintTransactionHash = u.mintTransactionHash]
      /\ UNCHANGED signatures
  BY <1>1 DEF B!Apply, B!ApplyUpdate, Registered
<1>3. /\ swaps'[u.burn].status = u.status
      /\ swaps'[u.burn].sequence = swaps[u.burn].sequence
      /\ \A h \in Burns : h # u.burn => swaps'[h] = swaps[h]
  <2>1. swaps'[u.burn] = [[swaps[u.burn] EXCEPT !.status = u.status]
                             EXCEPT !.mintTransactionHash = u.mintTransactionHash]
        /\ \A h \in Burns : h # u.burn => swaps'[h] = swaps[h]
    BY <1>1, <1>2 DEF TypeOK, DbTypeOK
  <2>2. swaps[u.burn] \in Swap
    BY <1>1 DEF TypeOK, DbTypeOK
  <2> QED  BY <2>1, <2>2 DEF Swap
<1>4. SeenStatus(u.status) \in {"UNSIGNED", "SUBMITTED"}
  BY <1>1 DEF SeenStatus
<1>5. Seen' = [Seen EXCEPT ![u.burn].status = SeenStatus(u.status)]
  BY <1>1, <1>3 DEF Seen
<1>6. Registration!Broadcasts(u.burn)
  BY <1>1, <1>2, <1>4, <1>5, SameAnswers, SameFaults
     DEF Registration!Broadcasts, Seen, Enough, OnlyBroadcast, Registration!ethVars, ethVars,
         Registration!watchVars, watchVars, Registration!runVars, Registration!operatorVars,
         operatorVars, Registration!chainVars, B!Apply, B!leaderVars, NoFault
<1> QED  BY <1>1, <1>6

LEMMA SameEthStep ==
    ASSUME EthStep
    PROVE  Registration!EthStep
BY SameFaults
   DEF EthStep, Registration!EthStep, NewBlock, Registration!NewBlock, watchVars, runVars,
       operatorVars, dbVars, Registration!watchVars, Registration!runVars,
       Registration!operatorVars, Registration!dbVars, Registration!chainVars

LEMMA RegistrationImplementedStep ==
    ASSUME SwapIInv, [SwapNext]_swapVars
    PROVE  [Registration!Next]_Registration!vars
<1> USE DEF Registration!vars, Registration!ethVars, Registration!watchVars, Registration!runVars,
            Registration!operatorVars, Registration!dbVars, Registration!chainVars
<1> TypeOK
  BY HoldsFromIInv
<1>1. CASE BroadcastStep
  <2>1. OnlyBroadcast
    BY <1>1 DEF BroadcastStep
  <2>2. ASSUME NEW u \in updates, B!Apply(u) PROVE Registration!Next
    BY <2>1, <2>2, SameBroadcasts DEF Registration!Next
  <2>3. CASE UNCHANGED <<swaps, signatures, done>>
    BY <2>1, <2>3 DEF OnlyBroadcast, ethVars, watchVars, operatorVars
  <2>4. CASE B!LoopStep \/ B!LoopRejects \/ \E t \in timers : B!StatusCheck(t)
    <3>1. done' = done
      BY <2>4 DEF B!LoopStep, B!FindFailed, B!FindInProgress, B!Pick, B!Collect, B!BroadcastSucceeds,
         B!FindSubmitted, B!LoopTest, B!RecheckFailed, B!CheckSubmitted, B!LoopRejects, B!StatusCheck
    <3> QED  BY <2>3, <2>4, <3>1, LoopLeaves
  <2>5. CASE \E t \in mempool : B!ChainStep(t)
    BY <2>3, <2>5 DEF B!ChainStep, B!dbVars, B!leaderVars
  <2> QED  BY <1>1, <2>2, <2>4, <2>5 DEF BroadcastStep
<1>2. CASE BurnLogStep
  BY <1>2, SameLeaderStep DEF BurnLogStep, Registration!Next
<1>3. CASE OthersStep
  BY <1>3, SameOperatorsStep, SameEthStep DEF OthersStep, Registration!Next
<1>4. CASE BroadcastFails \/ ProcessEnds \/ ProcessRestarts
  BY <1>4, SameLeaderStep DEF BroadcastFails, ProcessEnds, ProcessRestarts, Registration!Next
<1>5. CASE UNCHANGED swapVars
  BY <1>5 DEF swapVars, vars, ethVars, watchVars, runVars, operatorVars, dbVars, chainVars
<1> QED  BY <1>1, <1>2, <1>3, <1>4, <1>5 DEF SwapNext

\* The burn log loop and the operators in the whole service do only what
\* RegistrationSystem allows: no status moves before its swap is signed, and
\* the account is where it started when the loop asks for its number.
THEOREM RegistrationImplemented == SwapSpec => ImplementsRegistration
<1>1. SwapInit => Registration!Init
  BY DEF SwapInit, Init, EthInit, WatchInit, RunInit, OperatorInit, DbInit, ChainInit, FaultInit,
         NoSwap, SeenStatus, Watchers, Registration!Init, Registration!EthInit,
         Registration!WatchInit, Registration!RunInit, Registration!OperatorInit,
         Registration!DbInit, Registration!ChainInit, Registration!FaultInit,
         Registration!NoSwap, Registration!Watchers
<1>2. SwapIInv /\ [SwapNext]_swapVars => [Registration!Next]_Registration!vars
  BY RegistrationImplementedStep
<1> QED
  BY <1>1, <1>2, SwapInvariant, PTL DEF SwapSpec, ImplementsRegistration, Registration!Spec
=============================================================================
