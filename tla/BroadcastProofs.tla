--------------------------- MODULE BroadcastProofs ---------------------------
(***************************************************************************)
(* Theorems of BroadcastSystem, for every set of burns, operators and       *)
(* sequence numbers, every threshold and every bound on faults, writes and  *)
(* timers.  TypeCorrect comes first; the inductive invariant IInv is shown  *)
(* relative to it, one lemma per group of actions that touch the same       *)
(* state; the safety properties follow from IInv.                           *)
(***************************************************************************)
EXTENDS BroadcastSystem, FiniteSetTheorems, TLAPS

USE DEF Status, LoopPC

\* The request an updateSwapStatus call leaves behind is well typed.
LEMMA UpdateSwapStatusTyped ==
    ASSUME DbTypeOK, NEW h \in Burns, NEW x \in MintTx \cup {NoTx},
           NEW st \in Status, UpdateSwapStatus(h, x, st)
    PROVE  updates' \subseteq Update
<1>1. PICK i \in WriteIds :
        updates' = updates \cup
          {[id |-> i, burn |-> h, status |-> st, mintTransactionHash |-> x]}
  <2>1. (CHOOSE i \in FreeWriteIds : TRUE) \in WriteIds
    BY DEF UpdateSwapStatus, FreeWriteIds
  <2> QED  BY <2>1 DEF UpdateSwapStatus
<1> QED  BY <1>1 DEF DbTypeOK, Update

\* A snapshot of documents found by a query is well typed.
LEMMA SnapshotTyped ==
    ASSUME DbTypeOK, NEW found \in SUBSET Burns
    PROVE  Snapshot(found) \subseteq [burn : Burns, mintTransactionHash : MintTx \cup {NoTx}]
BY DEF Snapshot, DbTypeOK, Swap

\* The transaction made for a document is well typed.
LEMMA MintTxForTyped ==
    ASSUME DbTypeOK, NEW h \in Burns, NEW signers \in SUBSET Operators
    PROVE  MintTxFor(h, signers) \in MintTx
BY DEF MintTxFor, MintTx, DbTypeOK, Swap

LEMMA TypeInit == Init => TypeOK
<1> SUFFICES ASSUME Init PROVE TypeOK
  OBVIOUS
<1>1. DbTypeOK
  <2>1. NoSwap \in Swap
    BY DEF NoSwap, Swap
  <2> QED  BY <2>1 DEF Init, DbInit, DbTypeOK
<1>2. ChainTypeOK
  BY ChainAssumption DEF Init, ChainInit, ChainTypeOK
<1>3. LeaderTypeOK /\ FaultTypeOK
  BY DEF Init, LeaderInit, LeaderTypeOK, FaultInit, FaultTypeOK
<1> QED  BY <1>1, <1>2, <1>3 DEF TypeOK

LEMMA FaultsTyped ==
    ASSUME FaultTypeOK, NoFault \/ \E kind : Fault(kind)
    PROVE  FaultTypeOK'
BY DEF FaultTypeOK, NoFault, Fault

\* A status write that changes nothing else of the database.
LEMMA WriteTyped ==
    ASSUME DbTypeOK, NEW h \in Burns, NEW x \in MintTx \cup {NoTx},
           NEW st \in Status, UpdateSwapStatus(h, x, st),
           UNCHANGED <<swaps, signatures>>
    PROVE  DbTypeOK'
BY UpdateSwapStatusTyped DEF DbTypeOK

\* The actions of the loop.
LEMMA LoopTyped == ASSUME TypeOK, LoopStep PROVE TypeOK'
<1> USE DEF TypeOK
<1>1. ASSUME FindFailed PROVE TypeOK'
  <2>1. FindAllByStatus("FAILED", 10) \subseteq Burns  BY DEF FindAllByStatus
  <2>2. LeaderTypeOK'
    BY <1>1, <2>1, SnapshotTyped DEF FindFailed, LeaderTypeOK
  <2> QED  BY <1>1, <2>2
           DEF FindFailed, DbTypeOK, ChainTypeOK, FaultTypeOK, NoFault, dbVars, chainVars
<1>2. ASSUME FindInProgress PROVE TypeOK'
  BY <1>2 DEF FindInProgress, DbTypeOK, ChainTypeOK, LeaderTypeOK, FaultTypeOK,
              NoFault, dbVars, chainVars
<1>3. ASSUME Pick PROVE TypeOK'
  <2>1. FindAllByStatus("UNSIGNED", 1) \subseteq Burns  BY DEF FindAllByStatus
  <2>2. LeaderTypeOK'
    <3>1. CASE FindAllByStatus("UNSIGNED", 1) = {}
      BY <1>3, <3>1 DEF Pick, LeaderTypeOK
    <3>2. CASE FindAllByStatus("UNSIGNED", 1) # {}
      BY <1>3, <2>1, <3>2, MintTxForTyped DEF Pick, LeaderTypeOK
    <3> QED  BY <3>1, <3>2
  <2> QED  BY <1>3, <2>2
           DEF Pick, DbTypeOK, ChainTypeOK, FaultTypeOK, NoFault, dbVars, chainVars
<1>4. ASSUME Collect PROVE TypeOK'
  <2>1. MintTxFor(candidate.burn, signatures[candidate.burn]) \in MintTx
    <3>1. candidate.burn \in Burns
      BY <1>4 DEF Collect, LeaderTypeOK, MintTx
    <3> QED  BY <3>1, MintTxForTyped DEF DbTypeOK
  <2>2. LeaderTypeOK'
    BY <1>4, <2>1 DEF Collect, LeaderTypeOK
  <2> QED  BY <1>4, <2>2
           DEF Collect, DbTypeOK, ChainTypeOK, FaultTypeOK, NoFault, dbVars, chainVars
<1>5. ASSUME BroadcastSucceeds PROVE TypeOK'
  <2>1. candidate \in MintTx /\ candidate.burn \in Burns
    BY <1>5 DEF BroadcastSucceeds, LeaderTypeOK, MintTx
  <2>2. DbTypeOK'
    BY <1>5, <2>1, WriteTyped DEF BroadcastSucceeds
  <2>3. timers' \subseteq [id : TimerIds, tx : MintTx]
    <3>1. (CHOOSE i \in FreeTimerIds : TRUE) \in TimerIds
      BY <1>5 DEF BroadcastSucceeds, FreeTimerIds
    <3>2. PICK i \in TimerIds : timers' = timers \cup {[id |-> i, tx |-> candidate]}
      BY <1>5, <3>1 DEF BroadcastSucceeds
    <3> QED  BY <2>1, <3>2 DEF LeaderTypeOK
  <2>4. LeaderTypeOK'
    BY <1>5, <2>3 DEF BroadcastSucceeds, LeaderTypeOK
  <2> QED  BY <1>5, <2>1, <2>2, <2>4 DEF BroadcastSucceeds, ChainTypeOK, FaultTypeOK, NoFault
<1>6. ASSUME FindSubmitted PROVE TypeOK'
  <2>1. FindAllByStatus("SUBMITTED", 10) \subseteq Burns  BY DEF FindAllByStatus
  <2>2. LeaderTypeOK'
    BY <1>6, <2>1, SnapshotTyped DEF FindSubmitted, LeaderTypeOK
  <2> QED  BY <1>6, <2>2
           DEF FindSubmitted, DbTypeOK, ChainTypeOK, FaultTypeOK, NoFault, dbVars, chainVars
<1>7. ASSUME LoopTest PROVE TypeOK'
  BY <1>7 DEF LoopTest, DbTypeOK, ChainTypeOK, LeaderTypeOK, FaultTypeOK,
              NoFault, dbVars, chainVars
<1>8. ASSUME NEW s \in checking, RecheckFailed(s) PROVE TypeOK'
  <2>1. s.burn \in Burns /\ s.mintTransactionHash \in MintTx \cup {NoTx}
    BY DEF LeaderTypeOK
  <2>2. DbTypeOK'
    <3>1. CASE updates' = updates
      BY <1>8, <3>1 DEF RecheckFailed, DbTypeOK
    <3>2. CASE UpdateConfirmedTransaction(s.burn, s.mintTransactionHash)
      BY <1>8, <2>1, <3>2, WriteTyped DEF RecheckFailed, UpdateConfirmedTransaction
    <3> QED  BY <1>8, <3>1, <3>2 DEF RecheckFailed
  <2>3. LeaderTypeOK'
    BY <1>8 DEF RecheckFailed, LeaderTypeOK
  <2> QED  BY <1>8, <2>2, <2>3 DEF RecheckFailed, ChainTypeOK, FaultTypeOK, NoFault, chainVars
<1>9. ASSUME NEW s \in checking, CheckSubmitted(s) PROVE TypeOK'
  <2>1. s.burn \in Burns /\ s.mintTransactionHash \in MintTx \cup {NoTx}
    BY DEF LeaderTypeOK
  <2>2. DbTypeOK'
    <3>1. CASE updates' = updates
      BY <1>9, <3>1 DEF CheckSubmitted, DbTypeOK
    <3>2. CASE UpdateConfirmedTransaction(s.burn, s.mintTransactionHash)
      BY <1>9, <2>1, <3>2, WriteTyped DEF CheckSubmitted, UpdateConfirmedTransaction
    <3>3. CASE RetrySubmittedSwap(s.burn)
      BY <1>9, <2>1, <3>3, WriteTyped DEF CheckSubmitted, RetrySubmittedSwap
    <3> QED  BY <1>9, <3>1, <3>2, <3>3 DEF CheckSubmitted
  <2>3. LeaderTypeOK'
    BY <1>9 DEF CheckSubmitted, LeaderTypeOK
  <2> QED  BY <1>9, <2>2, <2>3
           DEF CheckSubmitted, ChainTypeOK, FaultTypeOK, NoFault, Fault, chainVars
<1> QED  BY <1>1, <1>2, <1>3, <1>4, <1>5, <1>6, <1>7, <1>8, <1>9 DEF LoopStep

\* The actions outside the loop.
LEMMA OutsideTyped ==
    ASSUME TypeOK, LeaderStep, ~LoopStep
    PROVE  TypeOK'
<1> USE DEF TypeOK
<1>1. ASSUME BroadcastFails PROVE TypeOK'
  <2>1. candidate \in MintTx /\ candidate.burn \in Burns
    BY <1>1 DEF BroadcastFails, LeaderTypeOK, MintTx
  <2>2. DbTypeOK'
    BY <1>1, <2>1, WriteTyped DEF BroadcastFails, RetrySubmittedSwap
  <2>3. LeaderTypeOK'
    BY <1>1 DEF BroadcastFails, LeaderTypeOK
  <2> QED  BY <1>1, <2>1, <2>2, <2>3 DEF BroadcastFails, ChainTypeOK, FaultTypeOK, Fault
<1>2. ASSUME LoopRejects PROVE TypeOK'
  <2>1. LeaderTypeOK'
    BY <1>2 DEF LoopRejects, LeaderTypeOK
  <2> QED  BY <1>2, <2>1
           DEF LoopRejects, DbTypeOK, ChainTypeOK, FaultTypeOK, Fault, dbVars, chainVars
<1>3. ASSUME Exit, FaultTypeOK' PROVE TypeOK'
  <2>1. DbTypeOK'
    BY <1>3 DEF Exit, DbTypeOK
  <2>2. LeaderTypeOK'
    BY <1>3 DEF Exit, LeaderTypeOK
  <2> QED  BY <1>3, <2>1, <2>2 DEF Exit, ChainTypeOK, chainVars
<1>4. ASSUME Crash \/ RunRejects \/ UpdateFails PROVE TypeOK'
  <2>1. FaultTypeOK'
    BY <1>4 DEF Crash, RunRejects, UpdateFails, FaultTypeOK, Fault
  <2> QED  BY <1>3, <1>4, <2>1 DEF Crash, RunRejects, UpdateFails
<1>5. ASSUME Restart PROVE TypeOK'
  <2>1. LeaderTypeOK'
    BY <1>5 DEF Restart, LeaderTypeOK
  <2> QED  BY <1>5, <2>1
           DEF Restart, DbTypeOK, ChainTypeOK, FaultTypeOK, NoFault, dbVars, chainVars
<1>6. ASSUME StopBroadcasting PROVE TypeOK'
  <2>1. LeaderTypeOK'
    BY <1>6 DEF StopBroadcasting, LeaderTypeOK
  <2> QED  BY <1>6, <2>1
           DEF StopBroadcasting, DbTypeOK, ChainTypeOK, FaultTypeOK, Fault, dbVars, chainVars
<1>7. ASSUME NEW t \in timers, StatusCheck(t) PROVE TypeOK'
  <2>1. t.tx \in MintTx /\ t.tx.burn \in Burns
    BY DEF LeaderTypeOK, MintTx
  <2>2. DbTypeOK'
    <3>1. CASE updates' = updates
      BY <1>7, <3>1 DEF StatusCheck, DbTypeOK
    <3>2. CASE UpdateConfirmedTransaction(t.tx.burn, t.tx)
      BY <1>7, <2>1, <3>2, WriteTyped DEF StatusCheck, UpdateConfirmedTransaction
    <3> QED  BY <1>7, <3>1, <3>2 DEF StatusCheck
  <2>3. LeaderTypeOK'
    BY <1>7 DEF StatusCheck, LeaderTypeOK
  <2> QED  BY <1>7, <2>2, <2>3
           DEF StatusCheck, ChainTypeOK, FaultTypeOK, NoFault, Fault, chainVars
<1>8. ASSUME NEW h \in Burns, UpdateFailedSwap(h) PROVE TypeOK'
  <2>1. DbTypeOK'
    BY <1>8, WriteTyped DEF UpdateFailedSwap
  <2> QED  BY <1>8, <2>1
           DEF UpdateFailedSwap, ChainTypeOK, LeaderTypeOK, FaultTypeOK, Fault,
               chainVars, leaderVars
<1> QED  BY <1>1, <1>2, <1>4, <1>5, <1>6, <1>7, <1>8 DEF LeaderStep

\* The environment: the database, the chain and the two writers.
LEMMA EnvironmentTyped ==
    ASSUME TypeOK, EnvironmentStep
    PROVE  TypeOK'
<1> USE DEF TypeOK
<1>1. ASSUME NEW h \in Burns, Register(h) PROVE TypeOK'
  <2>1. DbTypeOK'
    <3>1. PICK n \in Nat : ApplyInsert(h, n)
      BY <1>1, SequencesAssumption DEF Register
    <3>2. [status |-> "UNSIGNED", sequence |-> n, mintTransactionHash |-> NoTx] \in Swap
      BY DEF Swap
    <3> QED  BY <3>1, <3>2 DEF ApplyInsert, DbTypeOK
  <2> QED  BY <1>1, <2>1
           DEF Register, ChainTypeOK, LeaderTypeOK, FaultTypeOK, NoFault, chainVars, leaderVars
<1>2. ASSUME NEW o \in Operators, NEW h \in Burns, Sign(o, h) PROVE TypeOK'
  <2>1. DbTypeOK'
    BY <1>2 DEF Sign, ApplySignature, DbTypeOK
  <2> QED  BY <1>2, <2>1
           DEF Sign, ChainTypeOK, LeaderTypeOK, FaultTypeOK, NoFault, chainVars, leaderVars
<1>3. ASSUME NEW u \in updates, Apply(u) PROVE TypeOK'
  <2>1. DbTypeOK'
    <3>1. u \in Update
      BY DEF DbTypeOK
    <3>2. u.burn \in Burns /\ u.status \in Status /\ u.mintTransactionHash \in MintTx \cup {NoTx}
      BY <3>1 DEF Update
    <3>3. swaps[u.burn] \in Swap
      BY <3>2 DEF DbTypeOK
    <3>4. [[swaps[u.burn] EXCEPT !.status = u.status]
              EXCEPT !.mintTransactionHash = u.mintTransactionHash] \in Swap
      BY <3>2, <3>3 DEF Swap
    <3>5. swaps' \in [Burns -> Swap]
      BY <1>3, <3>2, <3>4 DEF Apply, ApplyUpdate, DbTypeOK
    <3> QED  BY <1>3, <3>5 DEF Apply, ApplyUpdate, DbTypeOK
  <2> QED  BY <1>3, <2>1
           DEF Apply, ChainTypeOK, LeaderTypeOK, FaultTypeOK, NoFault, chainVars, leaderVars
<1>4. ASSUME NEW t \in mempool, ChainStep(t) PROVE TypeOK'
  <2>1. ChainTypeOK'
    BY <1>4 DEF ChainStep, Deliver, Drop, ChainTypeOK
  <2>2. FaultTypeOK'
    BY <1>4 DEF ChainStep, Deliver, Drop, FaultTypeOK, NoFault, Fault
  <2> QED  BY <1>4, <2>1, <2>2 DEF ChainStep, DbTypeOK, LeaderTypeOK, dbVars, leaderVars
<1> QED  BY <1>1, <1>2, <1>3, <1>4 DEF EnvironmentStep

LEMMA TypeStep == ASSUME TypeOK, [Next]_vars PROVE TypeOK'
<1>1. CASE Next
  BY <1>1, LoopTyped, OutsideTyped, EnvironmentTyped DEF Next
<1>2. CASE UNCHANGED vars
  BY <1>2 DEF vars, dbVars, chainVars, leaderVars, TypeOK, DbTypeOK, ChainTypeOK,
              LeaderTypeOK, FaultTypeOK
<1> QED  BY <1>1, <1>2

\* Every reachable state is well typed: the database, the chain and the
\* leader only ever hold documents, transactions and requests of their kind.
THEOREM TypeCorrect == Spec => []TypeOK
<1>1. Init => TypeOK
  BY TypeInit
<1>2. TypeOK /\ [Next]_vars => TypeOK'
  BY TypeStep
<1> QED  BY <1>1, <1>2, PTL DEF Spec

-----------------------------------------------------------------------------
(* The inductive invariant. *)

\* updateSwapStatus adds one request and loses none.
LEMMA WriteAddsOne ==
    ASSUME NEW h, NEW x, NEW st, UpdateSwapStatus(h, x, st)
    PROVE  \A u \in updates' : u \in updates \/ (u.burn = h /\ u.status = st)
BY DEF UpdateSwapStatus

\* What the leader's steps leave alone, what they may hand to the chain, and
\* when they write "CONFIRMED".
LEMMA LeaderFrame ==
    ASSUME LeaderStep
    PROVE  /\ UNCHANGED <<swaps, signatures, chainSequence, ledger>>
           /\ \/ mempool' = mempool
              \/ pc = "broadcast" /\ mempool' = mempool \cup {candidate}
           /\ \A u \in updates' :
                 u \in updates \/ u.status # "CONFIRMED" \/ u.burn \in Minted
<1> DEFINE Frame == /\ UNCHANGED <<swaps, signatures, chainSequence, ledger>>
                    /\ \/ mempool' = mempool
                       \/ pc = "broadcast" /\ mempool' = mempool \cup {candidate}
           Justified == \A u \in updates' :
                 u \in updates \/ u.status # "CONFIRMED" \/ u.burn \in Minted
<1>1. Frame
  BY DEF LeaderStep, LoopStep, FindFailed, FindInProgress, Pick, Collect,
         BroadcastSucceeds, FindSubmitted, LoopTest, RecheckFailed, CheckSubmitted,
         BroadcastFails, LoopRejects, StatusCheck, Crash, RunRejects, UpdateFails,
         Exit, Restart, StopBroadcasting, UpdateFailedSwap, dbVars, chainVars
<1>2. Justified
  <2>0. \A h : IsSwapDone(h) => h \in Minted
    BY DEF IsSwapDone, Minted
  <2>1. CASE \E s \in checking : RecheckFailed(s) \/ CheckSubmitted(s)
    BY <2>0, <2>1, WriteAddsOne
       DEF RecheckFailed, CheckSubmitted, UpdateConfirmedTransaction, RetrySubmittedSwap
  <2>2. CASE \E t \in timers : StatusCheck(t)
    BY <2>0, <2>2, WriteAddsOne DEF StatusCheck, UpdateConfirmedTransaction
  <2>3. CASE BroadcastSucceeds \/ BroadcastFails \/ \E h \in Burns : UpdateFailedSwap(h)
    BY <2>3, WriteAddsOne
       DEF BroadcastSucceeds, BroadcastFails, UpdateFailedSwap, RetrySubmittedSwap
  <2>4. CASE updates' \subseteq updates
    BY <2>4
  <2> QED
    BY <2>1, <2>2, <2>3, <2>4
       DEF LeaderStep, LoopStep, FindFailed, FindInProgress, Pick, Collect,
           FindSubmitted, LoopTest, LoopRejects, Crash, RunRejects, UpdateFails, Exit, Restart,
           StopBroadcasting, dbVars
<1> QED  BY <1>1, <1>2

\* Documents keep their sequence number, signatures are only added, blocks
\* only grow.
LEMMA Monotone ==
    ASSUME TypeOK, [Next]_vars
    PROVE  /\ \A h \in Registered :
                 h \in Registered' /\ swaps'[h].sequence = swaps[h].sequence
           /\ \A h \in Burns : signatures[h] \subseteq signatures'[h]
           /\ ledger \subseteq ledger'
<1> USE DEF TypeOK, DbTypeOK, Registered
<1> DEFINE Kept == \A h \in Registered :
                      h \in Registered' /\ swaps'[h].sequence = swaps[h].sequence
           Added == \A h \in Burns : signatures[h] \subseteq signatures'[h]
           Grows == ledger \subseteq ledger'
<1> SUFFICES Kept /\ Added /\ Grows
  OBVIOUS
<1>1. CASE LeaderStep \/ UNCHANGED vars
  BY <1>1, LeaderFrame DEF vars, dbVars, chainVars
<1>2. ASSUME NEW g \in Burns, Register(g) PROVE Kept /\ Added /\ Grows
  BY <1>2 DEF Register, ApplyInsert, chainVars
<1>3. ASSUME NEW o \in Operators, NEW g \in Burns, Sign(o, g) PROVE Kept /\ Added /\ Grows
  BY <1>3 DEF Sign, ApplySignature, chainVars
<1>4. ASSUME NEW u \in updates, Apply(u) PROVE Kept /\ Added /\ Grows
  <2>1. u.burn \in Burns /\ u.status \in Status
    BY DEF Update
  <2>2. \A h \in Registered : swaps[h] \in Swap
    OBVIOUS
  <2>3. Kept
    BY <1>4, <2>1, <2>2 DEF Apply, ApplyUpdate, Swap
  <2> QED  BY <1>4, <2>3 DEF Apply, ApplyUpdate, chainVars
<1>5. ASSUME NEW t \in mempool, ChainStep(t) PROVE Kept /\ Added /\ Grows
  BY <1>5 DEF ChainStep, Deliver, Drop, dbVars
<1> QED  BY <1>1, <1>2, <1>3, <1>4, <1>5 DEF Next, EnvironmentStep

\* A genuine transaction stays genuine.
LEMMA GenuineStays ==
    ASSUME TypeOK, [Next]_vars, NEW t, Genuine(t)
    PROVE  Genuine(t)'
BY Monotone DEF Genuine, Registered

\* A minted burn stays minted.
LEMMA DoneStays ==
    ASSUME TypeOK, [Next]_vars, NEW h \in Minted
    PROVE  h \in Minted'
BY Monotone DEF Minted

LEMMA IInvInit == Init => IInv
BY TypeInit
   DEF Init, IInv, DbInit, ChainInit, LeaderInit, Registered, NoSwap, UniqueSequences,
       CandidateGenuine, TransactionsGenuine, LedgerInTurn, ConfirmedSoFar

LEMMA LeaderKeepsIInv == ASSUME IInv, LeaderStep, TypeOK' PROVE IInv'
<1> USE DEF IInv
<1>0. [Next]_vars
  BY DEF Next
<1>1. UniqueSequences'
  BY LeaderFrame DEF UniqueSequences, Registered
<1>2. CandidateGenuine'
  <2>1. CASE Pick
    <3>1. \A h \in FindAllByStatus("UNSIGNED", 1) : h \in Registered
      BY DEF FindAllByStatus, Registered
    <3>2. ASSUME NEW h \in FindAllByStatus("UNSIGNED", 1), candidate' = MintTxFor(h, {}),
                 pc' = "collect"
          PROVE  CandidateGenuine'
      <4>1. candidate'.burn = h
        BY <3>2 DEF MintTxFor
      <4> QED  BY <2>1, <3>1, <3>2, <4>1, LeaderFrame DEF CandidateGenuine, Registered
    <3> QED  BY <2>1, <3>2 DEF Pick, CandidateGenuine
  <2>2. CASE Collect
    <3> DEFINE b == candidate.burn
    <3>1. b \in Registered /\ signatures[b] \in SUBSET Operators
      BY <2>2 DEF Collect, CandidateGenuine, Registered, TypeOK, DbTypeOK
    <3>2. FindAboveThreshold(b, Threshold) => Genuine(MintTxFor(b, signatures[b]))
      <4>1. MintTxFor(b, signatures[b]) \in MintTx
        BY <3>1, MintTxForTyped DEF TypeOK, Registered
      <4> QED  BY <3>1, <4>1 DEF FindAboveThreshold, MintTxFor, Genuine
    <3>3. \A t : Genuine(t) => Genuine(t)'
      BY <1>0, GenuineStays
    <3> QED  BY <2>2, <3>2, <3>3 DEF Collect, CandidateGenuine
  <2>3. CASE pc' \notin {"collect", "broadcast"}
    BY <2>3 DEF CandidateGenuine
  <2>4. CASE pc' = pc /\ candidate' = candidate
    BY <2>4, <1>0, GenuineStays, LeaderFrame DEF CandidateGenuine, Registered
  <2> QED
    BY <2>1, <2>2, <2>3, <2>4
       DEF LeaderStep, LoopStep, FindFailed, FindInProgress, BroadcastSucceeds,
           FindSubmitted, LoopTest, RecheckFailed, CheckSubmitted, BroadcastFails,
           LoopRejects, StatusCheck, Crash, RunRejects, UpdateFails, Exit, Restart,
           StopBroadcasting, UpdateFailedSwap, leaderVars
<1>3. TransactionsGenuine'
  <2>1. \A t \in (mempool \cup ledger)' : Genuine(t)
    BY LeaderFrame DEF TransactionsGenuine, CandidateGenuine
  <2> QED  BY <1>0, <2>1, GenuineStays DEF TransactionsGenuine
<1>4. LedgerInTurn'
  BY LeaderFrame DEF LedgerInTurn
<1>5. ConfirmedSoFar'
  BY LeaderFrame DEF ConfirmedSoFar, Minted
<1> QED  BY <1>1, <1>2, <1>3, <1>4, <1>5

LEMMA EnvironmentKeepsIInv == ASSUME IInv, EnvironmentStep, TypeOK' PROVE IInv'
<1> USE DEF IInv
<1>0. [Next]_vars
  BY DEF Next
<1>g. \A t : Genuine(t) => Genuine(t)'
  BY <1>0, GenuineStays
<1>1. ASSUME NEW g \in Burns, Register(g) PROVE IInv'
  <2>1. PICK n \in Sequences : FindBySequence(n) = {} /\ ApplyInsert(g, n)
    BY <1>1 DEF Register
  <2>2. UniqueSequences'
    BY <2>1 DEF UniqueSequences, FindBySequence, ApplyInsert, Registered, TypeOK, DbTypeOK
  <2>3. CandidateGenuine'
    BY <1>1, <1>g, <1>0, Monotone DEF Register, CandidateGenuine, leaderVars
  <2>4. TransactionsGenuine' /\ LedgerInTurn'
    BY <1>1, <1>g DEF Register, TransactionsGenuine, LedgerInTurn, chainVars
  <2>5. ConfirmedSoFar'
    BY <1>1, <2>1
       DEF Register, ApplyInsert, ConfirmedSoFar, Minted, chainVars, TypeOK, DbTypeOK
  <2> QED  BY <2>2, <2>3, <2>4, <2>5
<1>2. ASSUME NEW o \in Operators, NEW g \in Burns, Sign(o, g) PROVE IInv'
  <2>1. UniqueSequences' /\ LedgerInTurn' /\ ConfirmedSoFar'
    BY <1>2 DEF Sign, ApplySignature, UniqueSequences, LedgerInTurn, ConfirmedSoFar,
                Registered, Minted, chainVars
  <2>2. CandidateGenuine' /\ TransactionsGenuine'
    BY <1>2, <1>g, <1>0, Monotone
       DEF Sign, CandidateGenuine, TransactionsGenuine, leaderVars, chainVars
  <2> QED  BY <2>1, <2>2
<1>3. ASSUME NEW u \in updates, Apply(u) PROVE IInv'
  <2>1. u.burn \in Burns
    BY DEF TypeOK, DbTypeOK, Update
  <2>2. \A h \in Burns : /\ h \in Registered <=> h \in Registered'
                         /\ swaps'[h].sequence = swaps[h].sequence
    <3>1. u.status \in Status /\ \A h \in Burns : swaps[h] \in Swap
      BY DEF TypeOK, DbTypeOK, Update
    <3> QED  BY <1>3, <2>1, <3>1
             DEF Apply, ApplyUpdate, Registered, TypeOK, DbTypeOK, Swap
  <2>3. UniqueSequences'
    BY <2>2 DEF UniqueSequences, Registered
  <2>4. CandidateGenuine' /\ TransactionsGenuine' /\ LedgerInTurn'
    BY <1>3, <1>g, <1>0, Monotone
       DEF Apply, CandidateGenuine, TransactionsGenuine, LedgerInTurn, leaderVars, chainVars
  <2>5. ConfirmedSoFar'
    BY <1>3, <2>1
       DEF Apply, ApplyUpdate, ConfirmedSoFar, Minted, chainVars, TypeOK, DbTypeOK, Swap
  <2> QED  BY <2>3, <2>4, <2>5
<1>4. ASSUME NEW t \in mempool, ChainStep(t) PROVE IInv'
  <2>1. UniqueSequences'
    BY <1>4 DEF ChainStep, UniqueSequences, Registered, dbVars
  <2>2. CandidateGenuine' /\ TransactionsGenuine'
    BY <1>4, <1>g, <1>0, Monotone
       DEF ChainStep, Deliver, Drop, CandidateGenuine, TransactionsGenuine, leaderVars
  <2>3. LedgerInTurn'
    <3>1. CASE Deliver(t)
      <4>1. t.sequence = chainSequence /\ chainSequence \in Nat
        BY <3>1 DEF Deliver, TypeOK, ChainTypeOK
      <4>2. \A s \in ledger : s.sequence \in Nat
        BY DEF TypeOK, ChainTypeOK, MintTx
      <4> QED  BY <3>1, <4>1, <4>2 DEF Deliver, LedgerInTurn
    <3>2. CASE Drop(t)
      BY <3>2 DEF Drop, LedgerInTurn
    <3> QED  BY <1>4, <3>1, <3>2 DEF ChainStep
  <2>4. ConfirmedSoFar'
    <3>1. \A h : h \in Minted => h \in Minted'
      BY <1>0, DoneStays
    <3> QED  BY <1>4, <3>1 DEF ChainStep, ConfirmedSoFar, dbVars
  <2> QED  BY <2>1, <2>2, <2>3, <2>4
<1> QED  BY <1>1, <1>2, <1>3, <1>4 DEF EnvironmentStep

LEMMA IInvStep == ASSUME IInv, [Next]_vars PROVE IInv'
<1>1. TypeOK'
  BY TypeStep DEF IInv
<1>2. CASE Next
  BY <1>1, <1>2, LeaderKeepsIInv, EnvironmentKeepsIInv DEF Next
<1>3. CASE UNCHANGED vars
  BY <1>1, <1>3
     DEF vars, dbVars, chainVars, leaderVars, IInv, UniqueSequences, CandidateGenuine,
         TransactionsGenuine, Genuine, LedgerInTurn, ConfirmedSoFar, Registered, Minted
<1> QED  BY <1>2, <1>3

\* The inductive invariant holds in every reachable state.
THEOREM Invariant == Spec => []IInv
<1>1. Init => IInv
  BY IInvInit
<1>2. IInv /\ [Next]_vars => IInv'
  BY IInvStep
<1> QED  BY <1>1, <1>2, PTL DEF Spec

-----------------------------------------------------------------------------
(* The safety properties follow. *)

LEMMA IInvMintedOnce == IInv => MintedOnce
BY DEF IInv, TransactionsGenuine, Genuine, LedgerInTurn, MintedOnce

\* No burn is minted twice, however the leader retries, crashes or races its
\* own status writes (leader/index.js broadcastSignedSwaps).
THEOREM BurnsMintedOnce == Spec => []MintedOnce
BY Invariant, IInvMintedOnce, PTL

\* No burn is minted without Threshold signatures of its own
\* (Db.findAboveThresholdUnsignedSwaps).
THEOREM BurnsMintedByThreshold == Spec => []MintedByThreshold
<1>1. IInv => MintedByThreshold
  BY DEF IInv, TransactionsGenuine, Genuine, MintedByThreshold
<1> QED  BY <1>1, Invariant, PTL

\* A swap the database calls confirmed is minted, although the status is
\* written late, by three different callbacks (updateConfirmedTransaction).
THEOREM ConfirmedAreMinted == Spec => []ConfirmedIsMinted
<1>1. IInv => ConfirmedIsMinted
  BY DEF IInv, ConfirmedSoFar, ConfirmedIsMinted
<1> QED  BY <1>1, Invariant, PTL

-----------------------------------------------------------------------------
(* The broadcast system implements MintQueue. *)

\* A smaller set of signers has no more members.
LEMMA SignersCounted ==
    ASSUME TypeOK, NEW t, Genuine(t)
    PROVE  Cardinality(signatures[t.burn]) >= Threshold
<1>1. t.burn \in Burns /\ signatures[t.burn] \subseteq Operators
  BY DEF Genuine, Registered, TypeOK, DbTypeOK
<1>2. IsFiniteSet(signatures[t.burn])
  BY <1>1, OperatorsAssumption, FS_Subset
<1>3. Cardinality(t.signers) <= Cardinality(signatures[t.burn])
  BY <1>2, FS_Subset DEF Genuine
<1>4. Cardinality(t.signers) \in Nat /\ Cardinality(signatures[t.burn]) \in Nat
  BY <1>2, FS_Subset, FS_CardinalityType DEF Genuine
<1> QED  BY <1>3, <1>4, LeaderAssumption DEF Genuine

LEMMA QueueInit == Init => Queue!Init
BY DEF Init, Queue!Init, DbInit, ChainInit, NoSwap, Minted

LEMMA QueueLeaderStep == ASSUME IInv, LeaderStep PROVE UNCHANGED Queue!vars
BY LeaderFrame DEF Queue!vars, Minted

LEMMA QueueRegister ==
    ASSUME IInv, NEW h \in Burns, Register(h) PROVE Queue!TakeTicket(h)
<1> DEFINE T == [g \in Burns |-> IF swaps[g].status = "ABSENT" THEN {}
                                 ELSE {swaps[g].sequence}]
<1>1. PICK n \in Sequences : FindBySequence(n) = {} /\ ApplyInsert(h, n)
  BY DEF Register
<1>2. swaps[h].status = "ABSENT"
  BY DEF Register
<1>3. \A g \in Burns : n \notin T[g]
  BY <1>1 DEF FindBySequence, Registered
<1>4. T' = [T EXCEPT ![h] = {n}]
  BY <1>1 DEF ApplyInsert, IInv, TypeOK, DbTypeOK
<1>5. {g \in Burns : swaps'[g].status = "CONFIRMED"} = {g \in Burns : swaps[g].status = "CONFIRMED"}
  BY <1>1, <1>2 DEF ApplyInsert, IInv, TypeOK, DbTypeOK
<1>6. UNCHANGED <<signatures, chainSequence, ledger>>
  BY <1>1 DEF Register, ApplyInsert, chainVars
<1> QED  BY <1>2, <1>3, <1>4, <1>5, <1>6 DEF Queue!TakeTicket, Minted

LEMMA QueueSign ==
    ASSUME IInv, NEW o \in Operators, NEW h \in Burns, Sign(o, h)
    PROVE  Queue!Approve(o, h)
BY DEF Sign, ApplySignature, Queue!Approve, Registered, Minted, chainVars

LEMMA QueueApply ==
    ASSUME IInv, NEW u \in updates, Apply(u), IInv' PROVE Queue!Report
<1> DEFINE T == [g \in Burns |-> IF swaps[g].status = "ABSENT" THEN {}
                                 ELSE {swaps[g].sequence}]
<1>1. u.burn \in Burns /\ u.status \in Status /\ \A h \in Burns : swaps[h] \in Swap
  BY DEF IInv, TypeOK, DbTypeOK, Update
<1>2. T' = T
  BY <1>1 DEF Apply, ApplyUpdate, IInv, TypeOK, DbTypeOK, Swap
<1>3. UNCHANGED <<signatures, chainSequence, ledger>>
  BY DEF Apply, ApplyUpdate, chainVars
<1>4. {h \in Burns : swaps'[h].status = "CONFIRMED"} \subseteq Minted
  BY <1>3 DEF IInv, ConfirmedSoFar, Minted
<1> QED  BY <1>2, <1>3, <1>4 DEF Queue!Report, Minted

\* A burn already served has its transaction in the ledger, whose sequence
\* number the account has passed: it cannot be delivered again.
LEMMA QueueDeliver ==
    ASSUME IInv, NEW t \in mempool, Deliver(t), UNCHANGED <<dbVars, leaderVars>>
    PROVE  Queue!Serve(t.burn) /\ t.burn \in Burns
<1>1. Genuine(t) /\ t.burn \in Burns /\ t.sequence = chainSequence
  BY DEF IInv, TransactionsGenuine, Genuine, Registered, Deliver
<1>2. t.burn \notin Minted
  <2>1. ASSUME NEW s \in ledger, s.burn = t.burn PROVE FALSE
    <3>1. s.sequence = t.sequence /\ s.sequence < chainSequence /\ chainSequence \in Nat
      BY <1>1, <2>1 DEF IInv, TransactionsGenuine, Genuine, LedgerInTurn, TypeOK, ChainTypeOK
    <3> QED  BY <1>1, <3>1
  <2> QED  BY <2>1 DEF Minted
<1>3. swaps[t.burn].status # "ABSENT" /\ swaps[t.burn].sequence = chainSequence
  BY <1>1 DEF Genuine, Registered
<1>4. Cardinality(signatures[t.burn]) >= Threshold
  BY <1>1, SignersCounted DEF IInv
<1>5. Minted' = Minted \cup {t.burn}
  BY DEF Deliver, Minted
<1>6. chainSequence' = chainSequence + 1 /\ UNCHANGED <<swaps, signatures>>
  BY DEF Deliver, dbVars
<1> DEFINE T == [g \in Burns |-> IF swaps[g].status = "ABSENT" THEN {}
                                 ELSE {swaps[g].sequence}]
           C == {g \in Burns : swaps[g].status = "CONFIRMED"}
<1>7. T[t.burn] = {chainSequence}
  BY <1>1, <1>3
<1>8. T' = T /\ C' = C
  BY <1>6
<1> SUFFICES /\ t.burn \notin Minted
             /\ T[t.burn] = {chainSequence}
             /\ Cardinality(signatures[t.burn]) >= Threshold
             /\ Minted' = Minted \cup {t.burn}
             /\ chainSequence' = chainSequence + 1
             /\ UNCHANGED <<T, signatures, C>>
  BY <1>1 DEF Queue!Serve, Queue!Cardinality, Cardinality
<1> HIDE DEF T, C
<1> QED  BY <1>2, <1>4, <1>5, <1>6, <1>7, <1>8

LEMMA QueueStep ==
    ASSUME IInv, [Next]_vars, IInv' PROVE [Queue!Next]_(Queue!vars)
<1>1. CASE LeaderStep
  BY <1>1, QueueLeaderStep
<1>2. ASSUME NEW h \in Burns, Register(h) PROVE Queue!Next
  BY <1>2, QueueRegister DEF Queue!Next
<1>3. ASSUME NEW o \in Operators, NEW h \in Burns, Sign(o, h) PROVE Queue!Next
  BY <1>3, QueueSign DEF Queue!Next
<1>4. ASSUME NEW u \in updates, Apply(u) PROVE Queue!Next
  BY <1>4, QueueApply DEF Queue!Next
<1>5. ASSUME NEW t \in mempool, ChainStep(t) PROVE [Queue!Next]_(Queue!vars)
  <2>1. CASE Deliver(t)
    BY <1>5, <2>1, QueueDeliver DEF ChainStep, Queue!Next
  <2>2. CASE Drop(t)
    BY <1>5, <2>2 DEF ChainStep, Drop, dbVars, Queue!vars, Minted
  <2> QED  BY <1>5, <2>1, <2>2 DEF ChainStep
<1>6. CASE UNCHANGED vars
  BY <1>6 DEF vars, dbVars, chainVars, Queue!vars, Minted
<1> QED  BY <1>1, <1>2, <1>3, <1>4, <1>5, <1>6 DEF Next, EnvironmentStep

\* The asynchronous, retrying, crashing broadcast is the queue the service
\* promises: burns are served strictly in turn, once, with enough approvals,
\* and reported as confirmed only afterwards.
THEOREM BroadcastImplementsQueue == Spec => ImplementsQueue
<1>1. Init => Queue!Init
  BY QueueInit
<1>2. IInv /\ [Next]_vars /\ IInv' => [Queue!Next]_(Queue!vars)
  BY QueueStep
<1> QED  BY <1>1, <1>2, Invariant, PTL DEF Spec, ImplementsQueue, Queue!Spec

-----------------------------------------------------------------------------
(* The hashes that the documents name.  updateFailedSwap clears the hash of  *)
(* a swap whose recheck then confirms it, so this is about the leader as it  *)
(* is, where nobody calls that method: no swap is ever FAILED.               *)

\* x is a mint transaction of h and carries h's sequence number.
Own(x, h) ==
    /\ x # NoTx
    /\ x.burn = h
    /\ h \in Registered
    /\ x.sequence = swaps[h].sequence

Recorded == {"SUBMITTED", "CONFIRMED"}

\* Whatever still holds a hash to be written, a request in flight, a snapshot
\* or a timer, holds it for the swap whose transaction it is.
HashesOwn ==
    /\ pc # "recheckFailed"
    /\ \A h \in Burns : /\ swaps[h].status # "FAILED"
                        /\ swaps[h].status \in Recorded => Own(swaps[h].mintTransactionHash, h)
    /\ \A u \in updates : /\ u.status # "FAILED"
                          /\ u.status \in Recorded => Own(u.mintTransactionHash, u.burn)
    /\ \A s \in checking : Own(s.mintTransactionHash, s.burn)
    /\ \A t \in timers : Own(t.tx, t.tx.burn)

\* A request that updateSwapStatus leaves behind carries what it was given.
LEMMA WriteCarries ==
    ASSUME NEW h, NEW x, NEW st, UpdateSwapStatus(h, x, st)
    PROVE  \A u \in updates' :
              \/ u \in updates
              \/ u.burn = h /\ u.status = st /\ u.mintTransactionHash = x
BY DEF UpdateSwapStatus

\* A hash stays its swap's own.
LEMMA OwnStays ==
    ASSUME TypeOK, [Next]_vars, NEW x, NEW h, Own(x, h)
    PROVE  Own(x, h)'
BY Monotone DEF Own

\* The pieces of HashesOwn that a leader's step is shown to keep.
LEMMA LeaderKeepsHashes ==
    ASSUME IInv, HashesOwn, LeaderStep, "mark" \notin FaultKinds PROVE HashesOwn'
<1> DEFINE Idle == pc # "recheckFailed"
           Docs == \A h \in Burns :
                      /\ swaps[h].status # "FAILED"
                      /\ swaps[h].status \in Recorded => Own(swaps[h].mintTransactionHash, h)
           Writes == \A u \in updates :
                      /\ u.status # "FAILED"
                      /\ u.status \in Recorded => Own(u.mintTransactionHash, u.burn)
           Snapshots == \A s \in checking : Own(s.mintTransactionHash, s.burn)
           Timers == \A t \in timers : Own(t.tx, t.tx.burn)
<1>k. UNCHANGED swaps
  BY LeaderFrame
<1>o. \A x, h : Own(x, h)' <=> Own(x, h)
  BY <1>k DEF Own, Registered
<1>m. \A h \in Burns : ~UpdateFailedSwap(h)
  BY DEF UpdateFailedSwap, Fault
<1>r. \A s \in checking : ~RecheckFailed(s)
  BY DEF HashesOwn, RecheckFailed
<1>c. pc = "broadcast" => Own(candidate, candidate.burn)
  BY ChainAssumption DEF IInv, CandidateGenuine, Genuine, Own
<1>1. Docs'
  BY <1>k, <1>o DEF HashesOwn
<1>2. Idle' /\ Snapshots'
  <2>1. CASE FindFailed
    <3>1. FindAllByStatus("FAILED", 10) = {}
      BY DEF HashesOwn, FindAllByStatus
    <3>2. checking' = {}
      BY <2>1, <3>1 DEF FindFailed, Snapshot
    <3> QED  BY <2>1, <3>2 DEF FindFailed
  <2>2. CASE FindSubmitted
    <3>1. \A h \in FindAllByStatus("SUBMITTED", 10) :
             h \in Burns /\ swaps[h].status = "SUBMITTED"
      BY DEF FindAllByStatus
    <3>2. \A s \in checking' : Own(s.mintTransactionHash, s.burn)
      BY <2>2, <3>1 DEF FindSubmitted, Snapshot, HashesOwn, Recorded
    <3> QED  BY <2>2, <3>2, <1>o DEF FindSubmitted
  <2>3. CASE pc' # "recheckFailed" /\ checking' \subseteq checking
    BY <2>3, <1>o DEF HashesOwn
  <2> QED
    BY <2>1, <2>2, <2>3, <1>m, <1>r
       DEF HashesOwn, LeaderStep, LoopStep, FindInProgress, Pick, Collect,
           BroadcastSucceeds, LoopTest, CheckSubmitted, BroadcastFails, LoopRejects,
           StatusCheck, Crash, RunRejects, UpdateFails, Exit, Restart, StopBroadcasting
<1>3. Timers'
  <2>1. CASE BroadcastSucceeds
    BY <2>1, <1>c, <1>o DEF BroadcastSucceeds, HashesOwn
  <2>2. CASE timers' \subseteq timers
    BY <2>2, <1>o DEF HashesOwn
  <2> QED
    BY <2>1, <2>2, <1>m, <1>r
       DEF LeaderStep, LoopStep, FindFailed, FindInProgress, Pick, Collect,
           FindSubmitted, LoopTest, CheckSubmitted, BroadcastFails, LoopRejects,
           StatusCheck, Crash, RunRejects, UpdateFails, Exit, Restart, StopBroadcasting
<1>4. Writes'
  <2>0. ASSUME NEW h, NEW x, NEW st \in {"SUBMITTED", "CONFIRMED", "UNSIGNED"},
               UpdateSwapStatus(h, x, st), st = "UNSIGNED" \/ Own(x, h)
        PROVE  Writes'
    <3>1. \A u \in updates' : /\ u.status # "FAILED"
                              /\ u.status \in Recorded => Own(u.mintTransactionHash, u.burn)
      BY <2>0, WriteCarries DEF HashesOwn, Recorded
    <3> QED  BY <3>1, <1>o
  <2>1. CASE BroadcastSucceeds
    BY <2>0, <2>1, <1>c DEF BroadcastSucceeds
  <2>2. CASE BroadcastFails
    BY <2>0, <2>2 DEF BroadcastFails, RetrySubmittedSwap
  <2>3. ASSUME NEW s \in checking, CheckSubmitted(s) PROVE Writes'
    <3>1. Own(s.mintTransactionHash, s.burn)
      BY DEF HashesOwn
    <3>2. CASE UpdateConfirmedTransaction(s.burn, s.mintTransactionHash)
      BY <2>0, <3>1, <3>2 DEF UpdateConfirmedTransaction
    <3>3. CASE RetrySubmittedSwap(s.burn)
      BY <2>0, <3>3 DEF RetrySubmittedSwap
    <3>4. CASE updates' = updates
      BY <3>4, <1>o DEF HashesOwn
    <3> QED  BY <2>3, <3>2, <3>3, <3>4 DEF CheckSubmitted
  <2>4. ASSUME NEW t \in timers, StatusCheck(t) PROVE Writes'
    <3>1. Own(t.tx, t.tx.burn)
      BY DEF HashesOwn
    <3>2. CASE UpdateConfirmedTransaction(t.tx.burn, t.tx)
      BY <2>0, <3>1, <3>2 DEF UpdateConfirmedTransaction
    <3>3. CASE updates' = updates
      BY <3>3, <1>o DEF HashesOwn
    <3> QED  BY <2>4, <3>2, <3>3 DEF StatusCheck
  <2>5. CASE updates' \subseteq updates
    BY <2>5, <1>o DEF HashesOwn
  <2> QED
    BY <2>1, <2>2, <2>3, <2>4, <2>5, <1>m, <1>r
       DEF LeaderStep, LoopStep, FindFailed, FindInProgress, Pick, Collect,
           FindSubmitted, LoopTest, LoopRejects, Crash, RunRejects, UpdateFails,
           Exit, Restart, StopBroadcasting, dbVars
<1> QED  BY <1>1, <1>2, <1>3, <1>4 DEF HashesOwn

LEMMA EnvironmentKeepsHashes ==
    ASSUME IInv, HashesOwn, EnvironmentStep PROVE HashesOwn'
<1>o. \A x, h : Own(x, h) => Own(x, h)'
  BY OwnStays DEF IInv, Next
<1>s. UNCHANGED leaderVars
  BY DEF EnvironmentStep, Register, Sign, Apply, ChainStep
<1>l. pc' # "recheckFailed" /\ (\A s \in checking' : Own(s.mintTransactionHash, s.burn)')
                           /\ (\A t \in timers' : Own(t.tx, t.tx.burn)')
  BY <1>o, <1>s DEF HashesOwn, leaderVars
<1> DEFINE Docs == \A h \in Burns :
                      /\ swaps[h].status # "FAILED"
                      /\ swaps[h].status \in Recorded => Own(swaps[h].mintTransactionHash, h)
           Writes == \A u \in updates :
                      /\ u.status # "FAILED"
                      /\ u.status \in Recorded => Own(u.mintTransactionHash, u.burn)
<1>1. Writes'
  <2>1. updates' \subseteq updates
    BY DEF EnvironmentStep, Register, ApplyInsert, Sign, ApplySignature, Apply, ApplyUpdate,
           ChainStep, dbVars
  <2> QED  BY <2>1, <1>o DEF HashesOwn
<1>2. Docs'
  <2>1. ASSUME NEW g \in Burns, Register(g) PROVE Docs'
    <3>1. PICK n \in Sequences : ApplyInsert(g, n)
      BY <2>1 DEF Register
    <3>2. \A h \in Burns : swaps'[h] = swaps[h] \/ swaps'[h].status = "UNSIGNED"
      BY <3>1 DEF ApplyInsert, IInv, TypeOK, DbTypeOK
    <3> QED  BY <3>2, <1>o DEF HashesOwn, Recorded
  <2>2. ASSUME NEW u \in updates, Apply(u) PROVE Docs'
    <3>1. \A h \in Burns :
             \/ swaps'[h] = swaps[h]
             \/ /\ h = u.burn
                /\ swaps'[h].status = u.status
                /\ swaps'[h].mintTransactionHash = u.mintTransactionHash
      <4>1. \A h \in Burns : swaps[h] \in Swap
        BY DEF IInv, TypeOK, DbTypeOK
      <4> QED  BY <2>2, <4>1 DEF Apply, ApplyUpdate, IInv, TypeOK, DbTypeOK, Swap
    <3>2. u.status # "FAILED" /\ (u.status \in Recorded => Own(u.mintTransactionHash, u.burn))
      BY DEF HashesOwn
    <3> QED  BY <3>1, <3>2, <1>o DEF HashesOwn
  <2>3. CASE UNCHANGED swaps
    BY <2>3, <1>o DEF HashesOwn
  <2> QED
    BY <2>1, <2>2, <2>3 DEF EnvironmentStep, Sign, ApplySignature, ChainStep, dbVars
<1> QED  BY <1>l, <1>1, <1>2 DEF HashesOwn

LEMMA HashesStep ==
    ASSUME "mark" \notin FaultKinds, IInv, HashesOwn, [Next]_vars PROVE HashesOwn'
<1>1. CASE LeaderStep
  BY <1>1, LeaderKeepsHashes
<1>2. CASE EnvironmentStep
  BY <1>2, EnvironmentKeepsHashes
<1>3. CASE UNCHANGED vars
  BY <1>3 DEF vars, dbVars, chainVars, leaderVars, HashesOwn, Own, Registered
<1> QED  BY <1>1, <1>2, <1>3 DEF Next

\* A submitted or confirmed swap names a mint transaction of its own, although
\* three callbacks write it from snapshots and timers of earlier states, and
\* their writes are applied in any order (Db.updateSwapStatus): as long as
\* updateFailedSwap is not called, and nothing in the repository calls it.
THEOREM RecordedHashesAreOwn ==
    ASSUME "mark" \notin FaultKinds
    PROVE  Spec => []RecordedHashIsOwn
<1>1. Init => HashesOwn
  BY DEF Init, DbInit, LeaderInit, NoSwap, HashesOwn, Recorded
<1>2. IInv /\ HashesOwn /\ [Next]_vars => HashesOwn'
  BY HashesStep
<1>3. HashesOwn => RecordedHashIsOwn
  BY DEF HashesOwn, RecordedHashIsOwn, Own, Recorded
<1> QED  BY <1>1, <1>2, <1>3, Invariant, PTL DEF Spec
=============================================================================
