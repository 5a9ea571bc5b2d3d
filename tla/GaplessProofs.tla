----------------------------- MODULE GaplessProofs -----------------------------
(***************************************************************************)
(* RegistrationSystem leaves nothing out, for every value of its constants.  *)
(* No number: NoGaps rests on the counter (CounterAhead, proved with the     *)
(* other invariants), and on the leader's watcher yielding a burn once per    *)
(* process, so that no insert is refused for its _id: both hold until        *)
(* something fails.  And no burn: NoBurnPassedOver rests on what a watcher    *)
(* has before it being complete, and on exits that forget how far it was.    *)
(***************************************************************************)
EXTENDS RegistrationProofs

\* The burns that have a document or an insert on its way.
Taken == Registered \cup {i.burn : i \in inserts}

\* The burns taken lie behind the leader's watcher; what it still has to go
\* through is in the block it was found in, and not taken.
YieldedOnce ==
    /\ \A h \in Burns : blockOf[h] <= height
    /\ \A h \in Taken : blockOf[h] \in 1..(fromBlock[Leader] - 1)
    /\ \A e \in events[Leader] :
          /\ e.burn \notin Taken
          /\ e.block = blockOf[e.burn] /\ e.block # 0 /\ fromBlock[Leader] <= e.block + 1
    /\ at[Leader] = "yielded" =>
          /\ logBurn[Leader] \notin Taken
          /\ blockOf[logBurn[Leader]] \in 1..(fromBlock[Leader] - 1)
          /\ \A e \in events[Leader] : e.burn # logBurn[Leader]

\* No two inserts have one _id, nor one that exists.
InsertsAccepted ==
    /\ \A i \in inserts : i.burn \notin Registered
    /\ \A i, j \in inserts : i.burn = j.burn => i = j

Numbered(n) == \E h \in Burns : HasNumber(h, n)

\* The number of the next insert.
NextNumber ==
    IF run \in {"findLast", "askChain"} THEN FirstSequence
    ELSE IF run = "insert" THEN sequenceNumber - 1
    ELSE sequenceNumber

InTurn ==
    /\ run # "exited"
    /\ NextNumber >= FirstSequence
    /\ \A n \in Nat : Numbered(n) <=> n \in FirstSequence..(NextNumber - 1)

Untroubled == YieldedOnce /\ InsertsAccepted /\ InTurn

\* The inductive invariant.
Gapless ==
    /\ chainSequence = FirstSequence
    /\ faults = 0 => Untroubled

-----------------------------------------------------------------------------
(* Ethereum and everybody else. *)

\* What the leader's side of it consists of.
leaderSide == <<run, sequenceNumber, inserts, Registered,
                [h \in Burns |-> swaps[h].sequence],
                at[Leader], fromBlock[Leader], events[Leader], logBurn[Leader]>>

\* A step that leaves the leader's side and the blocks of events alone.
LEMMA QuietStep ==
    ASSUME TypeOK, Untroubled, UNCHANGED leaderSide,
           height' \in Nat, height' >= height, UNCHANGED blockOf
    PROVE  Untroubled'
<1>1. /\ UNCHANGED <<run, sequenceNumber, inserts, Registered>>
      /\ UNCHANGED <<at[Leader], fromBlock[Leader], events[Leader], logBurn[Leader]>>
      /\ \A h \in Burns : swaps'[h].sequence = swaps[h].sequence
  BY DEF leaderSide
<1>2. YieldedOnce'
  <2>1. \A h \in Burns : blockOf'[h] <= height'
    BY DEF Untroubled, YieldedOnce, TypeOK, EthTypeOK
  <2>2. Taken' = Taken
    BY <1>1 DEF Taken
  <2> QED  BY <1>1, <2>1, <2>2 DEF Untroubled, YieldedOnce
<1>3. InsertsAccepted'
  BY <1>1 DEF Untroubled, InsertsAccepted
<1>4. InTurn'
  <2>1. \A h \in Burns, n \in Nat : HasNumber(h, n)' <=> HasNumber(h, n)
    BY <1>1 DEF HasNumber
  <2>2. NextNumber' = NextNumber
    BY <1>1 DEF NextNumber
  <2> QED  BY <1>1, <2>1, <2>2 DEF Untroubled, InTurn, Numbered
<1> QED  BY <1>2, <1>3, <1>4 DEF Untroubled

\* Without a reorganisation an event stays where it is.
LEMMA EthUntroubled ==
    ASSUME TypeOK, Untroubled, EthStep, \A kind : ~Fault(kind), TypeOK'
    PROVE  Untroubled'
<1>1. NewBlock(0)
  BY DEF EthStep, NewBlock
<1>2. height \in Nat /\ height' = height + 1 /\ blockOf \in [Burns -> Nat]
      /\ blockOf' \in [Burns -> Nat]
  BY <1>1 DEF NewBlock, TypeOK, EthTypeOK
<1>3. \A h \in Burns : blockOf[h] # 0 => blockOf'[h] = blockOf[h]
  BY <1>1, <1>2 DEF NewBlock, Untroubled, YieldedOnce
<1>4. \A h \in Burns : blockOf'[h] <= height'
  BY <1>1, <1>2 DEF NewBlock, Untroubled, YieldedOnce
<1>5. UNCHANGED <<watchVars, runVars, dbVars>>
  BY DEF EthStep
<1>6. Taken' = Taken /\ Taken \subseteq Burns
  BY <1>5 DEF Taken, Registered, runVars, dbVars, TypeOK, RunTypeOK
<1>7. Leader \in Watchers
  BY DEF Watchers
<1>8. YieldedOnce'
  <2>1. \A h \in Taken' : blockOf'[h] \in 1..(fromBlock'[Leader] - 1)
    BY <1>3, <1>5, <1>6 DEF Untroubled, YieldedOnce, watchVars
  <2>2. \A e \in events[Leader] : e.burn \in Burns /\ blockOf[e.burn] # 0
    BY <1>7 DEF Untroubled, YieldedOnce, TypeOK, WatchTypeOK
  <2>3. \A e \in events'[Leader] :
           /\ e.burn \notin Taken'
           /\ e.block = blockOf'[e.burn] /\ e.block # 0 /\ fromBlock'[Leader] <= e.block + 1
    BY <1>3, <1>5, <1>6, <2>2 DEF Untroubled, YieldedOnce, watchVars
  <2>4. at'[Leader] = "yielded" =>
           /\ logBurn'[Leader] \notin Taken'
           /\ blockOf'[logBurn'[Leader]] \in 1..(fromBlock'[Leader] - 1)
           /\ \A e \in events'[Leader] : e.burn # logBurn'[Leader]
    <3>1. at[Leader] = "yielded" => logBurn[Leader] \in Burns
      BY <1>7 DEF TypeOK, WatchTypeOK
    <3> QED  BY <1>3, <1>5, <1>6, <3>1 DEF Untroubled, YieldedOnce, watchVars
  <2> QED  BY <1>4, <2>1, <2>3, <2>4 DEF YieldedOnce
<1>9. InsertsAccepted' /\ InTurn'
  BY <1>5 DEF Untroubled, InsertsAccepted, InTurn, Numbered, HasNumber, NextNumber, Registered,
              runVars, dbVars
<1> QED  BY <1>8, <1>9 DEF Untroubled

LEMMA OperatorsQuiet ==
    ASSUME TypeOK, OperatorsStep
    PROVE  UNCHANGED leaderSide /\ UNCHANGED ethVars
<1> PICK o \in Operators :
       \/ OperatorStep(o) \/ FetchFails(o) \/ OperatorFails(o) \/ OperatorRestart(o)
       \/ \E h \in signed[o] : AnswerSignature(o, h)
  BY DEF OperatorsStep
<1> o \in Watchers /\ Leader \in Watchers /\ o # Leader
  BY WatcherAssumption DEF Watchers
<1>1. UNCHANGED <<at[Leader], fromBlock[Leader], events[Leader], logBurn[Leader]>>
  <2>1. CASE WatcherMoves(o)
    BY <2>1 DEF TypeOK, WatchTypeOK, WatcherMoves, StartWatching, WatchStep, GetBlockNumber,
                GetPastEvents, PollAgain, NextEvent, Resume, Forget, Return, StopWatching
  <2>2. CASE UNCHANGED watchVars
    BY <2>2 DEF watchVars
  <2> QED  BY <2>1, <2>2, OperatorMoves
<1>2. UNCHANGED <<swaps, ethVars, runVars>>
  BY DEF OperatorsStep, OperatorStep, Start, FetchRegistered, SignTx, FetchFails, OperatorFails,
         OperatorExit, OperatorRestart, AnswerSignature, ApplySignature, dbVars
<1> QED  BY <1>1, <1>2 DEF leaderSide, Registered, runVars

LEMMA BroadcastsQuiet ==
    ASSUME TypeOK, NEW g \in Burns, Broadcasts(g)
    PROVE  UNCHANGED leaderSide /\ UNCHANGED ethVars
<1>1. UNCHANGED <<watchVars, runVars, ethVars>>
  BY DEF Broadcasts
<1> QED  BY <1>1, BroadcastsKeepNumbers DEF leaderSide, watchVars, runVars

-----------------------------------------------------------------------------
(* The leader. *)

\* The steps of the leader's watcher.
LEMMA WatchUntroubled ==
    ASSUME TypeOK, TypeOK', Untroubled, WatchStep(Leader), UNCHANGED <<runVars, dbVars, ethVars>>
    PROVE  Untroubled'
<1>1. InsertsAccepted' /\ InTurn'
  BY DEF Untroubled, InsertsAccepted, InTurn, Numbered, HasNumber, NextNumber, Registered,
         runVars, dbVars
<1>2. Taken' = Taken /\ UNCHANGED <<height, blockOf>>
  BY DEF Taken, Registered, runVars, dbVars, ethVars
<1>t. /\ Leader \in Watchers /\ WatchTypeOK /\ blockOf \in [Burns -> Nat]
      /\ fromBlock[Leader] \in Nat /\ toBlock[Leader] \in Nat
      /\ Taken \subseteq Burns
  BY DEF Watchers, TypeOK, WatchTypeOK, EthTypeOK, Taken, Registered, RunTypeOK
<1>3. CASE GetBlockNumber(Leader) \/ PollAgain(Leader)
  <2>1. UNCHANGED <<fromBlock, events, logBurn>> /\ at'[Leader] # "yielded"
    BY <1>3, <1>t DEF GetBlockNumber, PollAgain, WatchTypeOK
  <2>2. YieldedOnce'
    BY <1>2, <2>1 DEF Untroubled, YieldedOnce
  <2> QED  BY <1>1, <2>2 DEF Untroubled
<1>4. CASE GetPastEvents(Leader)
  <2>1. /\ UNCHANGED fromBlock /\ at'[Leader] = "events"
        /\ events'[Leader] = PastEvents(fromBlock[Leader], toBlock[Leader])
    BY <1>4, <1>t DEF GetPastEvents, WatchTypeOK
  <2>2. \A e \in PastEvents(fromBlock[Leader], toBlock[Leader]) :
           /\ e.burn \in Burns /\ e.block = blockOf[e.burn] /\ e.block # 0
           /\ e.block \in Nat /\ fromBlock[Leader] <= e.block
    BY <1>t DEF PastEvents
  <2>3. \A e \in events'[Leader] :
           /\ e.burn \notin Taken
           /\ e.block = blockOf[e.burn] /\ e.block # 0 /\ fromBlock[Leader] <= e.block + 1
    BY <1>t, <2>1, <2>2 DEF Untroubled, YieldedOnce
  <2>4. YieldedOnce'
    BY <1>2, <2>1, <2>3 DEF Untroubled, YieldedOnce
  <2> QED  BY <1>1, <2>4 DEF Untroubled
<1>5. ASSUME NEW e \in events[Leader], NextEvent(Leader, e) PROVE Untroubled'
  <2>1. /\ e.burn \in Burns /\ e.block \in Nat
        /\ e.burn \notin Taken /\ e.block = blockOf[e.burn] /\ e.block # 0
        /\ fromBlock[Leader] <= e.block + 1
    BY <1>t DEF Untroubled, YieldedOnce, WatchTypeOK
  <2>2. /\ fromBlock'[Leader] = e.block + 1
        /\ events'[Leader] = events[Leader] \ {e}
        /\ \A f \in events[Leader] : e.block <= f.block
        /\ at[Leader] = "events"
    BY <1>5, <1>t DEF NextEvent, WatchTypeOK
  <2>3. \A h \in Taken : blockOf[h] \in 1..(fromBlock'[Leader] - 1)
    BY <1>t, <2>1, <2>2 DEF Untroubled, YieldedOnce
  <2>4. \A f \in events'[Leader] :
           /\ f.burn \notin Taken
           /\ f.block = blockOf[f.burn] /\ f.block # 0 /\ fromBlock'[Leader] <= f.block + 1
           /\ f.burn # e.burn
    <3>1. ASSUME NEW f \in events'[Leader] PROVE f.burn # e.burn
      <4>1. f \in events[Leader] /\ f # e /\ f.block = blockOf[f.burn]
        BY <2>2 DEF Untroubled, YieldedOnce
      <4>2. f \in [burn : Burns, block : Nat] /\ e \in [burn : Burns, block : Nat]
        BY <1>t, <4>1 DEF WatchTypeOK
      <4> QED  BY <2>1, <4>1, <4>2
    <3>2. \A f \in events'[Leader] : f.block \in Nat
      BY <1>t, <2>2 DEF WatchTypeOK
    <3> QED  BY <2>1, <2>2, <3>1, <3>2 DEF Untroubled, YieldedOnce
  <2>5. at'[Leader] = "yielded" => logBurn'[Leader] = e.burn
    BY <1>5, <1>t, <2>2 DEF NextEvent, WatchTypeOK
  <2>6. YieldedOnce'
    BY <1>2, <2>1, <2>2, <2>3, <2>4, <2>5 DEF Untroubled, YieldedOnce
  <2> QED  BY <1>1, <2>6 DEF Untroubled
<1> QED  BY <1>3, <1>4, <1>5 DEF WatchStep

\* The leader's watcher at the end of an iteration.
LEMMA ResumeYieldedOnce ==
    ASSUME TypeOK, YieldedOnce, EndOfIteration, UNCHANGED ethVars,
           \A h \in Taken' : h \in Taken \/ h = logBurn[Leader],
           at[Leader] = "yielded"
    PROVE  YieldedOnce'
<1>1. Leader \in Watchers /\ WatchTypeOK
  BY DEF Watchers, TypeOK
<1>2. /\ UNCHANGED <<fromBlock, height, blockOf>>
      /\ events'[Leader] \subseteq events[Leader]
      /\ at'[Leader] # "yielded"
  BY <1>1 DEF EndOfIteration, Resume, Return, WatchTypeOK, ethVars
<1> QED  BY <1>2 DEF YieldedOnce

LEMMA StartUntroubled ==
    ASSUME IInv, Untroubled, chainSequence = FirstSequence, UNCHANGED ethVars,
           FindLastSequence \/ AskChainSequence
    PROVE  Untroubled'
<1>1. FirstSequence \in Nat /\ Leader \in Watchers
  BY ChainAssumption DEF Watchers
<1>2. run \in {"findLast", "askChain"} /\ inserts = {} /\ UNCHANGED <<inserts, swaps>>
  BY DEF FindLastSequence, AskChainSequence, IInv, CounterAhead, dbVars
<1>3. Registered = {}
  <2>1. ASSUME NEW h \in Registered PROVE FALSE
    <3>1. h \in Burns /\ swaps[h].sequence \in Nat
      BY DEF Registered, IInv, TypeOK, DbTypeOK, Swap
    <3>2. Numbered(swaps[h].sequence)
      BY <3>1 DEF Numbered, HasNumber
    <3> QED  BY <1>1, <1>2, <3>1, <3>2 DEF Untroubled, InTurn, NextNumber
  <2> QED  BY <2>1
<1>4. ~\E h \in FindLast : TRUE
  BY <1>3 DEF FindLast
<1>5. run' # "exited" /\ NextNumber' = FirstSequence
  <2>1. CASE FindLastSequence
    BY <1>4, <2>1 DEF FindLastSequence, NextNumber
  <2>2. CASE AskChainSequence
    BY <2>2 DEF AskChainSequence, NextNumber
  <2> QED  BY <2>1, <2>2
<1>6. Taken = {} /\ Taken' = {} /\ UNCHANGED <<height, blockOf>>
  BY <1>2, <1>3 DEF Taken, Registered, ethVars
<1>7. YieldedOnce'
  <2>1. \/ UNCHANGED watchVars
        \/ UNCHANGED <<fromBlock, events, logBurn>> /\ at'[Leader] # "yielded"
    BY <1>1 DEF FindLastSequence, AskChainSequence, StartWatching, IInv, TypeOK, WatchTypeOK
  <2> QED  BY <1>6, <2>1 DEF Untroubled, YieldedOnce, watchVars
<1>8. InsertsAccepted'
  BY <1>2 DEF InsertsAccepted
<1>9. InTurn'
  <2>1. \A n \in Nat : ~Numbered(n)'
    BY <1>2, <1>3 DEF Numbered, HasNumber, Registered
  <2> QED  BY <1>1, <1>5, <2>1 DEF InTurn
<1> QED  BY <1>7, <1>8, <1>9 DEF Untroubled

LEMMA FetchUntroubled ==
    ASSUME TypeOK, Untroubled, UNCHANGED ethVars, \A kind : ~Fault(kind),
           FetchSwap \/ GenerateSwap
    PROVE  Untroubled'
<1>1. UNCHANGED <<inserts, swaps>>
  BY DEF FetchSwap, GenerateSwap, dbVars
<1>2. Taken' = Taken /\ Registered' = Registered
  BY <1>1 DEF Taken, Registered
<1>3. at[Leader] = "yielded"
  BY DEF FetchSwap, GenerateSwap, TypeOK, RunTypeOK
<1>4. YieldedOnce'
  <2>1. CASE UNCHANGED watchVars
    BY <1>2, <2>1 DEF Untroubled, YieldedOnce, watchVars, ethVars
  <2>2. CASE EndOfIteration
    BY <1>2, <1>3, <2>2, ResumeYieldedOnce DEF Untroubled
  <2> QED  BY <2>1, <2>2 DEF FetchSwap, GenerateSwap
<1>5. InsertsAccepted'
  BY <1>1, <1>2 DEF Untroubled, InsertsAccepted
<1>6. run' # "exited" /\ NextNumber' = NextNumber
  BY DEF FetchSwap, GenerateSwap, EndOfIteration, NextNumber, TypeOK, RunTypeOK
<1>7. \A n \in Nat : Numbered(n)' <=> Numbered(n)
  BY <1>1, <1>2 DEF Numbered, HasNumber
<1> QED  BY <1>4, <1>5, <1>6, <1>7 DEF Untroubled, InTurn

\* No document has the number that the counter took last.
LEMMA NumberIsFree ==
    ASSUME TypeOK, CounterAhead, run = "insert"
    PROVE  FindBySequence(sequenceNumber - 1) = {}
<1>1. \A h \in Registered : h \in Burns /\ swaps[h].sequence \in Nat
  BY DEF Registered, TypeOK, DbTypeOK, Swap
<1>2. sequenceNumber \in Nat
  BY DEF TypeOK, RunTypeOK
<1>3. \A h \in Registered : swaps[h].sequence < sequenceNumber - 1
  BY <1>1, CounterAheadNumbers DEF CounterAheadOfNumbers, Below, HasNumber
<1>4. \A h \in Registered : swaps[h].sequence # sequenceNumber - 1
  BY <1>1, <1>2, <1>3
<1> QED  BY <1>4 DEF FindBySequence

\* The insert takes the counter's last number for a burn that has none.
LEMMA InsertUntroubled ==
    ASSUME IInv, Untroubled, UNCHANGED ethVars, \A kind : ~Fault(kind), InsertUnsignedSwap
    PROVE  Untroubled'
<1> DEFINE new == [burn |-> logBurn[Leader], sequence |-> sequenceNumber - 1]
<1>t. /\ run = "insert" /\ sequenceNumber \in Nat /\ sequenceNumber > 0
      /\ at[Leader] = "yielded" /\ logBurn[Leader] \in Burns
      /\ FirstSequence \in Nat /\ TypeOK
  BY ChainAssumption DEF InsertUnsignedSwap, IInv, TypeOK, RunTypeOK, WatchTypeOK, Watchers
<1>1. FindBySequence(sequenceNumber - 1) = {}
  BY <1>t, NumberIsFree DEF IInv
<1>2. inserts' = inserts \cup {new} /\ UNCHANGED <<swaps, sequenceNumber>> /\ EndOfIteration
  BY <1>1 DEF InsertUnsignedSwap, dbVars
<1>3. Registered' = Registered /\ Taken' = Taken \cup {logBurn[Leader]}
  <2>1. Registered' = Registered
    BY <1>2 DEF Registered
  <2>2. new.burn = logBurn[Leader]
    OBVIOUS
  <2> HIDE DEF new
  <2>3. {i.burn : i \in inserts'} = {i.burn : i \in inserts} \cup {logBurn[Leader]}
    BY <1>2, <2>2
  <2> QED  BY <2>1, <2>3 DEF Taken
<1>4. YieldedOnce'
  BY <1>t, <1>2, <1>3, ResumeYieldedOnce DEF Untroubled
<1>5. InsertsAccepted'
  <2>1. logBurn[Leader] \notin Taken
    BY <1>t DEF Untroubled, YieldedOnce
  <2> QED  BY <1>2, <1>3, <2>1 DEF Untroubled, InsertsAccepted, Taken
<1>6. run' \notin {"exited", "findLast", "askChain", "insert"}
  BY <1>2 DEF EndOfIteration
<1>7. NextNumber' = NextNumber + 1 /\ NextNumber = sequenceNumber - 1
  BY <1>t, <1>2, <1>6 DEF NextNumber
<1>8. ASSUME NEW n \in Nat PROVE Numbered(n)' <=> Numbered(n) \/ n = sequenceNumber - 1
  <2>1. \A h \in Burns : HasNumber(h, n)' <=>
           HasNumber(h, n) \/ (h = logBurn[Leader] /\ n = sequenceNumber - 1)
    BY <1>2, <1>3 DEF HasNumber
  <2> QED  BY <1>t, <2>1 DEF Numbered
<1>9. InTurn'
  BY <1>t, <1>6, <1>7, <1>8 DEF Untroubled, InTurn
<1> QED  BY <1>4, <1>5, <1>9 DEF Untroubled

\* Until something fails every insert is applied, and keeps its number.
LEMMA AnswerUntroubled ==
    ASSUME TypeOK, Untroubled, UNCHANGED ethVars, \A kind : ~Fault(kind),
           NEW i \in inserts, AnswerInsert(i)
    PROVE  Untroubled'
<1>1. /\ i.burn \in Burns /\ i.sequence \in Nat /\ i.burn \notin Registered
      /\ i = [burn |-> i.burn, sequence |-> i.sequence]
  BY DEF Untroubled, InsertsAccepted, TypeOK, RunTypeOK
<1>2. /\ ApplyInsert(i.burn, i.sequence) /\ inserts' = inserts \ {i}
      /\ UNCHANGED <<run, sequenceNumber, watchVars, height, blockOf>>
  BY <1>1 DEF AnswerInsert, ethVars
<1>3. /\ swaps'[i.burn].sequence = i.sequence
      /\ \A h \in Burns : h # i.burn => swaps'[h] = swaps[h]
      /\ Registered' = Registered \cup {i.burn}
  BY <1>1, <1>2 DEF ApplyInsert, Registered, TypeOK, DbTypeOK
<1>4. Taken' = Taken
  BY <1>2, <1>3 DEF Taken
<1>5. YieldedOnce'
  BY <1>2, <1>4 DEF Untroubled, YieldedOnce, watchVars
<1>6. InsertsAccepted'
  <2>1. \A j \in inserts' : j \in inserts /\ j # i
    BY <1>2
  <2>2. \A j \in inserts' : j.burn # i.burn /\ j.burn \notin Registered
    BY <2>1 DEF Untroubled, InsertsAccepted
  <2> QED  BY <1>3, <2>1, <2>2 DEF Untroubled, InsertsAccepted
<1>7. ASSUME NEW h \in Burns, NEW n \in Nat PROVE HasNumber(h, n)' <=> HasNumber(h, n)
  <2>1. CASE h # i.burn
    <3>1. [burn |-> h, sequence |-> n] # i
      BY <1>1, <2>1
    <3> QED  BY <1>2, <1>3, <2>1, <3>1 DEF HasNumber
  <2>2. CASE h = i.burn
    <3>1. [burn |-> h, sequence |-> n] \in inserts <=> n = i.sequence
      <4>1. [burn |-> h, sequence |-> n] \in inserts => [burn |-> h, sequence |-> n] = i
        <5>1. [burn |-> h, sequence |-> n].burn = i.burn
          BY <2>2
        <5> QED  BY <5>1 DEF Untroubled, InsertsAccepted
      <4>2. [burn |-> h, sequence |-> n] = i <=> n = i.sequence
        BY <1>1, <2>2
      <4> QED  BY <4>1, <4>2
    <3>2. [burn |-> h, sequence |-> n] \notin inserts'
      BY <1>1, <1>2, <2>2, <3>1
    <3> QED  BY <1>1, <1>3, <2>2, <3>1, <3>2 DEF HasNumber
  <2> QED  BY <2>1, <2>2
<1>8. InTurn'
  <2>1. \A n \in Nat : Numbered(n)' <=> Numbered(n)
    BY <1>7 DEF Numbered
  <2>2. NextNumber' = NextNumber
    BY <1>2 DEF NextNumber
  <2> QED  BY <1>2, <2>1, <2>2 DEF Untroubled, InTurn
<1> QED  BY <1>5, <1>6, <1>8 DEF Untroubled

LEMMA LeaderUntroubled ==
    ASSUME IInv, TypeOK', Untroubled, chainSequence = FirstSequence, LeaderStep,
           \A kind : ~Fault(kind)
    PROVE  Untroubled'
<1>0. TypeOK /\ UNCHANGED ethVars
  BY DEF IInv, LeaderStep
<1>1. CASE WatchStep(Leader) /\ UNCHANGED <<runVars, dbVars>>
  BY <1>0, <1>1, WatchUntroubled
<1>2. CASE FindLastSequence \/ AskChainSequence
  BY <1>0, <1>2, StartUntroubled
<1>3. CASE FetchSwap \/ GenerateSwap
  BY <1>0, <1>3, FetchUntroubled
<1>4. CASE InsertUnsignedSwap
  BY <1>0, <1>4, InsertUntroubled
<1>5. ASSUME NEW i \in inserts, AnswerInsert(i) PROVE Untroubled'
  BY <1>0, <1>5, AnswerUntroubled
<1>6. CASE RunReturns
  BY <1>0, <1>6
     DEF RunReturns, Untroubled, YieldedOnce, InsertsAccepted, InTurn, Numbered, HasNumber,
         NextNumber, Taken, Registered, watchVars, dbVars, ethVars
<1>7. ~StopLeader /\ ~LeaderFails /\ ~LeaderRestart
  BY DEF StopLeader, LeaderFails, LeaderRestart, Untroubled, InTurn
<1> QED  BY <1>1, <1>2, <1>3, <1>4, <1>5, <1>6, <1>7 DEF LeaderStep, RunStep

-----------------------------------------------------------------------------
(* The theorem. *)

LEMMA GaplessInit == Init => Gapless
<1> SUFFICES ASSUME Init PROVE Gapless
  OBVIOUS
<1>1. /\ inserts = {} /\ Registered = {} /\ Taken = {} /\ run = "findLast"
      /\ chainSequence = FirstSequence /\ FirstSequence \in Nat
  BY ChainAssumption DEF Init, RunInit, DbInit, NoSwap, Registered, Taken, ChainInit
<1>2. /\ height \in Nat /\ \A h \in Burns : blockOf[h] = 0
      /\ events[Leader] = {} /\ at[Leader] # "yielded"
  BY EthAssumption DEF Init, EthInit, WatchInit, Watchers
<1>3. YieldedOnce
  BY <1>1, <1>2 DEF YieldedOnce
<1>4. InsertsAccepted
  BY <1>1 DEF InsertsAccepted
<1>5. InTurn
  <2>1. \A n \in Nat : ~Numbered(n)
    BY <1>1 DEF Numbered, HasNumber
  <2>2. NextNumber = FirstSequence
    BY <1>1 DEF NextNumber
  <2> QED  BY <1>1, <2>1, <2>2 DEF InTurn
<1> QED  BY <1>1, <1>3, <1>4, <1>5 DEF Gapless, Untroubled

LEMMA GaplessStep == IInv /\ Gapless /\ [Next]_vars => Gapless'
<1> SUFFICES ASSUME IInv, Gapless, [Next]_vars PROVE Gapless'
  OBVIOUS
<1>1. chainSequence' = FirstSequence
  BY DEF Gapless, Next, LeaderStep, OperatorsStep, EthStep, Broadcasts, chainVars, vars
<1>2. ASSUME faults' = 0 PROVE Untroubled'
  <2>1. \A kind : ~Fault(kind)
    BY <1>2 DEF Fault, IInv, TypeOK, FaultTypeOK
  <2>2. faults = 0
    BY <2>1, <1>2
       DEF Next, LeaderStep, RunStep, FindLastSequence, AskChainSequence, FetchSwap,
           GenerateSwap, InsertUnsignedSwap, RunReturns, StopLeader, LeaderFails, LeaderRestart,
           AnswerInsert, OperatorsStep, OperatorStep, Start, FetchRegistered, SignTx, FetchFails,
           OperatorFails, OperatorRestart, AnswerSignature, EthStep, NewBlock, Broadcasts,
           NoFault, vars
  <2>3. Untroubled /\ chainSequence = FirstSequence /\ TypeOK /\ TypeOK'
    BY <2>2, TypeStep DEF Gapless, IInv
  <2>4. CASE LeaderStep
    BY <2>1, <2>3, <2>4, LeaderUntroubled
  <2>5. CASE EthStep
    BY <2>1, <2>3, <2>5, EthUntroubled
  <2>6. CASE UNCHANGED leaderSide /\ UNCHANGED ethVars
    BY <2>3, <2>6, QuietStep DEF ethVars, TypeOK, EthTypeOK
  <2>7. CASE UNCHANGED vars
    BY <2>6, <2>7 DEF vars, leaderSide, Registered, watchVars, runVars, dbVars
  <2> QED
    BY <2>3, <2>4, <2>5, <2>6, <2>7, OperatorsQuiet, BroadcastsQuiet DEF Next
<1> QED  BY <1>1, <1>2 DEF Gapless

\* An interval of numbers tells how many they are.
LEMMA InTurnNoGaps == ASSUME TypeOK, InTurn PROVE NoGaps
<1> DEFINE given == {p[2] : p \in Assigned}
<1>1. FirstSequence \in Nat /\ NextNumber \in Nat /\ NextNumber >= FirstSequence
  BY ChainAssumption DEF InTurn, NextNumber, TypeOK, RunTypeOK
<1>2. \A n : n \in given <=> n \in Nat /\ Numbered(n)
  <2>1. ASSUME NEW n \in given PROVE n \in Nat /\ Numbered(n)
    <3>1. PICK p \in Assigned : n = p[2]
      BY <2>1
    <3>2. PICK h \in Burns, m \in Nat : p = <<h, m>> /\ HasNumber(h, m)
      BY AssignedNumbers
    <3> QED  BY <3>1, <3>2 DEF Numbered
  <2>2. ASSUME NEW n \in Nat, Numbered(n) PROVE n \in given
    <3>1. PICK h \in Burns : HasNumber(h, n)
      BY <2>2 DEF Numbered
    <3>2. <<h, n>> \in Assigned /\ <<h, n>>[2] = n
      BY <3>1, AssignedNumbers
    <3> QED  BY <3>2
  <2> QED  BY <2>1, <2>2
<1>3. given = FirstSequence..(NextNumber - 1)
  <2>1. \A n \in Nat : Numbered(n) <=> n \in FirstSequence..(NextNumber - 1)
    BY DEF InTurn
  <2>2. \A n \in FirstSequence..(NextNumber - 1) : n \in Nat
    BY <1>1
  <2> HIDE DEF given
  <2> QED  BY <1>2, <2>1, <2>2
<1>4. FirstSequence + Cardinality(given) - 1 = NextNumber - 1
  <2>1. Cardinality(FirstSequence..(NextNumber - 1)) = NextNumber - FirstSequence
    <3>1. FirstSequence \in Int /\ NextNumber - 1 \in Int
      BY <1>1
    <3>2. Cardinality(FirstSequence..(NextNumber - 1)) =
             IF FirstSequence > NextNumber - 1 THEN 0 ELSE (NextNumber - 1) - FirstSequence + 1
      BY <3>1, FS_Interval
    <3> QED  BY <1>1, <3>2
  <2> HIDE DEF given
  <2> QED  BY <1>1, <1>3, <2>1
<1> QED  BY <1>3, <1>4 DEF NoGaps

\* As long as nothing failed no sequence number is skipped: every number the
\* counter took has its document, or an insert on its way that will not be
\* refused (leader/index.js:61-71, 216-245).
THEOREM NoNumberSkipped == Spec => []NoGaps
<1>1. IInv /\ Gapless => NoGaps
  BY InTurnNoGaps DEF Gapless, Untroubled, NoGaps, IInv
<1> QED  BY <1>1, GaplessInit, GaplessStep, Invariant, PTL DEF Spec

-----------------------------------------------------------------------------
(* Nobody passes a burn over. *)

\* What watcher w goes through lies between fromBlock and the last block it
\* asked for, complete and where the chain has it.
KeepsUp(w) ==
    /\ fromBlock[w] = FromBlock \/ fromBlock[w] - 1 \in 1..LastBlock(w)
    /\ at[w] = "getEvents" => toBlock[w] <= LastBlock(w)
    /\ at[w] \in {"off", "getBlock", "getEvents"} => events[w] = {}
    /\ at[w] # "yielded" => logBurn[w] = NoBurn
    /\ \A e \in events[w] :
          /\ e.block = blockOf[e.burn]
          /\ e.block \in 1..LastBlock(w) /\ fromBlock[w] <= e.block + 1
          /\ \A h \in Burns :
                blockOf[h] # 0 /\ blockOf[h] \in fromBlock[w]..e.block
                => \E f \in events[w] : f.burn = h

\* NoBurnPassedOver for one watcher.
PassesNone(w) ==
    \A h \in Burns \ Invalid :
        /\ blockOf[h] \in (FromBlock..(fromBlock[w] - 1)) \ {0}
        /\ at[w] # "ended"
        => InHand(w, h) \/ DealtWith(w, h)

\* An operator skips a swap that is not unsigned: it has its signatures.
SkippedAreSigned ==
    \A h \in Registered :
        swaps[h].status = "UNSIGNED" \/ Cardinality(signatures[h]) >= Threshold

\* The inductive invariant.
Thorough == SkippedAreSigned /\ \A w \in Undisturbed : KeepsUp(w) /\ PassesNone(w)

LEMMA UndisturbedWatches == Undisturbed \subseteq Watchers
BY DEF Undisturbed, Watchers

\* What w dealt with stays dealt with.
StaysDealtWith(w) == \A h \in Burns \ Invalid : DealtWith(w, h) => DealtWith(w, h)'

\* A move of w's own watcher, at a standing chain.
LEMMA MoveKeepsUp ==
    ASSUME TypeOK, NEW w \in Watchers, KeepsUp(w), WatcherMoves(w), UNCHANGED ethVars
    PROVE  KeepsUp(w)'
<1>t. /\ WatchTypeOK /\ LastBlock(w) \in Nat /\ blockOf \in [Burns -> Nat]
      /\ fromBlock[w] \in Nat /\ toBlock[w] \in Nat /\ FromBlock \in Nat
      /\ NoBurn \notin Burns
  BY LastBlockTyped, WatcherAssumption DEF TypeOK, EthTypeOK, WatchTypeOK
<1>u. UNCHANGED blockOf /\ LastBlock(w)' = LastBlock(w)
  BY DEF ethVars, LastBlock
<1>1. CASE StartWatching(w) \/ StopWatching(w) \/ PollAgain(w)
  BY <1>t, <1>u, <1>1 DEF KeepsUp, StartWatching, StopWatching, PollAgain, WatchTypeOK
<1>2. CASE Resume(w) \/ Forget(w) \/ Return(w)
  BY <1>t, <1>u, <1>2 DEF KeepsUp, Resume, Forget, Return, WatchTypeOK
<1>3. CASE GetBlockNumber(w)
  BY <1>t, <1>u, <1>3 DEF KeepsUp, GetBlockNumber, WatchTypeOK
<1>4. CASE GetPastEvents(w)
  <2>1. /\ events'[w] = PastEvents(fromBlock[w], toBlock[w]) /\ at'[w] = "events"
        /\ UNCHANGED <<fromBlock, logBurn>> /\ at[w] = "getEvents"
    BY <1>t, <1>4 DEF GetPastEvents, WatchTypeOK
  <2>2. toBlock[w] <= LastBlock(w)
    BY <2>1 DEF KeepsUp
  <2>3. \A e \in PastEvents(fromBlock[w], toBlock[w]) :
           /\ e.block = blockOf[e.burn] /\ e.block \in 1..LastBlock(w)
           /\ fromBlock[w] <= e.block + 1 /\ e.block <= toBlock[w]
    BY <1>t, <2>2 DEF PastEvents
  <2>4. ASSUME NEW h \in Burns, blockOf[h] # 0, blockOf[h] \in fromBlock[w]..toBlock[w]
        PROVE  \E f \in PastEvents(fromBlock[w], toBlock[w]) : f.burn = h
    <3> DEFINE f == [burn |-> h, block |-> blockOf[h]]
    <3>1. f \in PastEvents(fromBlock[w], toBlock[w]) /\ f.burn = h
      BY <2>4 DEF PastEvents
    <3> QED  BY <3>1
  <2>5. \A e \in events'[w], h \in Burns :
           blockOf[h] # 0 /\ blockOf[h] \in fromBlock[w]..e.block
           => \E f \in events'[w] : f.burn = h
    BY <1>t, <2>1, <2>3, <2>4
  <2> QED  BY <1>u, <2>1, <2>3, <2>5 DEF KeepsUp
<1>5. ASSUME NEW e \in events[w], NextEvent(w, e) PROVE KeepsUp(w)'
  <2>1. /\ fromBlock'[w] = e.block + 1 /\ events'[w] = events[w] \ {e}
        /\ \A f \in events[w] : e.block <= f.block
        /\ at[w] = "events" /\ at'[w] \in {"events", "yielded"}
        /\ at'[w] # "yielded" => logBurn'[w] = logBurn[w]
    BY <1>t, <1>5 DEF NextEvent, WatchTypeOK
  <2>2. /\ e.block \in 1..LastBlock(w) /\ e.block = blockOf[e.burn]
        /\ \A f \in events[w] : f.block \in Nat
    BY <1>t DEF KeepsUp, WatchTypeOK
  <2>3. ASSUME NEW g \in events'[w], NEW h \in Burns,
               blockOf[h] # 0, blockOf[h] \in fromBlock'[w]..g.block
        PROVE  \E f \in events'[w] : f.burn = h
    <3>1. blockOf[h] \in Nat /\ blockOf[h] > e.block /\ fromBlock[w] <= e.block + 1
      BY <1>t, <2>1, <2>2, <2>3 DEF KeepsUp
    <3>2. g \in events[w] /\ g.block \in Nat /\ blockOf[h] \in fromBlock[w]..g.block
      BY <1>t, <2>1, <2>2, <2>3, <3>1
    <3>3. PICK f \in events[w] : f.burn = h
      BY <2>3, <3>2 DEF KeepsUp
    <3>4. f # e
      BY <2>2, <3>1, <3>3
    <3> QED  BY <2>1, <3>3, <3>4
  <2>4. fromBlock'[w] - 1 \in 1..LastBlock(w)
    BY <1>t, <2>1, <2>2
  <2>5. at'[w] # "yielded" => logBurn'[w] = NoBurn
    BY <2>1 DEF KeepsUp
  <2>6. \A g \in events'[w] :
           /\ g.block = blockOf[g.burn]
           /\ g.block \in 1..LastBlock(w) /\ fromBlock'[w] <= g.block + 1
    BY <1>t, <2>1, <2>2 DEF KeepsUp
  <2> QED  BY <1>u, <2>1, <2>3, <2>4, <2>5, <2>6 DEF KeepsUp
<1> QED  BY <1>1, <1>2, <1>3, <1>4, <1>5 DEF WatcherMoves, WatchStep

\* The moves that are the watcher's own, or end it, lose no burn.
LEMMA MovePassesNone ==
    ASSUME TypeOK, NEW w \in Watchers, KeepsUp(w), PassesNone(w), UNCHANGED ethVars,
           \/ StartWatching(w) \/ WatchStep(w) \/ StopWatching(w)
           \/ Forget(w) \/ Return(w),
           Forget(w) \/ StaysDealtWith(w)
    PROVE  PassesNone(w)'
<1>t. /\ WatchTypeOK /\ blockOf \in [Burns -> Nat]
      /\ fromBlock[w] \in Nat /\ FromBlock \in Nat /\ NoBurn \notin Burns
  BY WatcherAssumption DEF TypeOK, EthTypeOK, WatchTypeOK
<1>u. UNCHANGED blockOf
  BY DEF ethVars
<1>s. SUFFICES ASSUME NEW h \in Burns \ Invalid,
                      blockOf'[h] \in (FromBlock..(fromBlock'[w] - 1)) \ {0},
                      at'[w] # "ended"
               PROVE  InHand(w, h)' \/ DealtWith(w, h)'
  BY DEF PassesNone
<1>1. CASE Forget(w) \/ Return(w)
  BY <1>t, <1>u, <1>s, <1>1 DEF Forget, Return, WatchTypeOK
<1> SUFFICES ASSUME ~Forget(w), ~Return(w), StaysDealtWith(w)
             PROVE  InHand(w, h)' \/ DealtWith(w, h)'
  BY <1>1
<1>2. ASSUME blockOf[h] \in FromBlock..(fromBlock[w] - 1), at[w] # "ended"
      PROVE  InHand(w, h) \/ DealtWith(w, h)'
  BY <1>u, <1>s, <1>2 DEF PassesNone, StaysDealtWith
<1>3. CASE StartWatching(w) \/ StopWatching(w) \/ GetBlockNumber(w) \/ PollAgain(w)
  <2>1. UNCHANGED <<fromBlock, events, logBurn>> /\ at[w] # "ended"
    BY <1>s, <1>3 DEF StartWatching, StopWatching, GetBlockNumber, PollAgain
  <2> QED  BY <1>u, <1>s, <1>2, <2>1 DEF InHand
<1>4. CASE GetPastEvents(w)
  <2>1. at[w] = "getEvents" /\ UNCHANGED fromBlock
    BY <1>4 DEF GetPastEvents
  <2>2. ~InHand(w, h)
    BY <1>t, <2>1 DEF KeepsUp, InHand
  <2> QED  BY <1>u, <1>s, <1>2, <2>1, <2>2
<1>5. ASSUME NEW e \in events[w], NextEvent(w, e) PROVE InHand(w, h)' \/ DealtWith(w, h)'
  <2>1. /\ fromBlock'[w] = e.block + 1 /\ events'[w] = events[w] \ {e}
        /\ at[w] = "events" /\ logBurn[w] = NoBurn
        /\ e.burn \notin Invalid => logBurn'[w] = e.burn
    BY <1>t, <1>5 DEF NextEvent, WatchTypeOK, KeepsUp
  <2>2. e.block \in Nat /\ blockOf[h] \in Nat /\ blockOf[h] # 0
    BY <1>t, <1>u, <1>s DEF WatchTypeOK
  <2>3. (\E f \in events[w] : f.burn = h) \/ DealtWith(w, h)'
    <3>1. CASE blockOf[h] < fromBlock[w]
      BY <1>t, <1>u, <1>s, <1>2, <2>1, <2>2, <3>1 DEF InHand
    <3>2. CASE blockOf[h] >= fromBlock[w]
      <4>1. blockOf[h] \in fromBlock[w]..e.block
        BY <1>t, <1>u, <1>s, <2>1, <2>2, <3>2
      <4> QED  BY <2>2, <4>1 DEF KeepsUp
    <3> QED  BY <1>t, <2>2, <3>1, <3>2
  <2> QED  BY <1>s, <2>1, <2>3 DEF InHand
<1> QED  BY <1>3, <1>4, <1>5 DEF WatchStep

\* Nor does the end of an iteration, if the burn has been dealt with.
LEMMA ResumePassesNone ==
    ASSUME TypeOK, NEW w \in Watchers, PassesNone(w), Resume(w), UNCHANGED ethVars,
           at[w] = "yielded", StaysDealtWith(w),
           \A h \in Burns : h = logBurn[w] => DealtWith(w, h)'
    PROVE  PassesNone(w)'
BY DEF Resume, PassesNone, StaysDealtWith, InHand, ethVars

\* Blocks that an undisturbed watcher may have asked for stay as they are.
LEMMA SettledBlocks ==
    ASSUME TypeOK, EthStep, NEW w \in Undisturbed
    PROVE  /\ LastBlock(w) \in Nat /\ LastBlock(w)' = LastBlock(w) + 1
           /\ \A h \in Burns :
                 blockOf[h] \in 1..LastBlock(w) \/ blockOf'[h] \in 1..LastBlock(w)
                 => blockOf'[h] = blockOf[h]
<1>1. PICK depth \in 0..MaxReorgDepth : NewBlock(depth)
  BY DEF EthStep
<1>2. /\ height \in Nat /\ height >= StartHeight /\ depth \in Nat /\ height' = height + 1
      /\ MaxReorgDepth \in Nat /\ NbConfirmations \in Nat /\ NbConfirmations <= height
      /\ MaxReorgDepth <= NbConfirmations /\ depth <= MaxReorgDepth
      /\ blockOf \in [Burns -> Nat] /\ blockOf' \in [Burns -> Nat]
  BY <1>1, EthAssumption, WatcherAssumption, RegistrationAssumption
     DEF NewBlock, TypeOK, EthTypeOK
<1>3. /\ LastBlock(w) = height - Confirmations(w) /\ LastBlock(w)' = height' - Confirmations(w)
      /\ Confirmations(w) \in Nat /\ Confirmations(w) <= height
      /\ depth <= Confirmations(w)
  <2>1. CASE w = Leader
    <3>1. MaxReorgDepth = 0
      BY <2>1, WatcherAssumption DEF Undisturbed
    <3> QED  BY <1>2, <2>1, <3>1 DEF LastBlock, Confirmations
  <2>2. CASE w # Leader
    BY <1>2, <2>2 DEF LastBlock, Confirmations
  <2> QED  BY <2>1, <2>2
<1>4. ASSUME NEW h \in Burns,
             blockOf[h] \in 1..LastBlock(w) \/ blockOf'[h] \in 1..LastBlock(w)
      PROVE  blockOf'[h] = blockOf[h]
  <2>1. CASE blockOf[h] \in 1..(height - depth)
    BY <1>1, <2>1 DEF NewBlock
  <2>2. CASE blockOf[h] \notin 1..(height - depth)
    <3>1. blockOf'[h] \in {0} \cup (height - depth + 1)..(height + 1)
      BY <1>1, <2>2 DEF NewBlock
    <3> QED  BY <1>2, <1>3, <1>4, <2>2, <3>1
  <2> QED  BY <2>1, <2>2
<1> QED  BY <1>2, <1>3, <1>4

\* What others do, and new blocks, disturb no such watcher.
LEMMA RestThorough ==
    ASSUME TypeOK, TypeOK', NEW w \in Undisturbed, KeepsUp(w), PassesNone(w),
           StaysDealtWith(w), UNCHANGED ethVars \/ EthStep,
           UNCHANGED <<at[w], fromBlock[w], toBlock[w], events[w], logBurn[w]>>
    PROVE  KeepsUp(w)' /\ PassesNone(w)'
<1>t. /\ WatchTypeOK /\ blockOf \in [Burns -> Nat] /\ blockOf' \in [Burns -> Nat]
      /\ w \in Watchers /\ fromBlock[w] \in Nat /\ toBlock[w] \in Nat
      /\ LastBlock(w) \in Nat /\ FromBlock \in Nat
  BY UndisturbedWatches, LastBlockTyped, WatcherAssumption DEF TypeOK, EthTypeOK, WatchTypeOK
<1>1. /\ LastBlock(w)' \in Nat /\ LastBlock(w)' >= LastBlock(w)
      /\ \A h \in Burns :
            blockOf[h] \in 1..LastBlock(w) \/ blockOf'[h] \in 1..LastBlock(w)
            => blockOf'[h] = blockOf[h]
  <2>1. CASE EthStep
    BY <1>t, <2>1, SettledBlocks
  <2>2. CASE UNCHANGED ethVars
    BY <1>t, <2>2 DEF ethVars, LastBlock
  <2> QED  BY <2>1, <2>2
<1>2. \A e \in events[w] : e.burn \in Burns /\ e.block \in Nat
  BY <1>t DEF WatchTypeOK
<1>3. \A e \in events'[w] :
         /\ e.block = blockOf'[e.burn]
         /\ e.block \in 1..LastBlock(w)' /\ fromBlock'[w] <= e.block + 1
  BY <1>t, <1>1, <1>2 DEF KeepsUp
<1>4. ASSUME NEW e \in events'[w], NEW h \in Burns,
             blockOf'[h] # 0, blockOf'[h] \in fromBlock'[w]..e.block
      PROVE  \E f \in events'[w] : f.burn = h
  <2>1. e \in events[w] /\ e.block \in 1..LastBlock(w)
    BY <1>4 DEF KeepsUp
  <2>2. blockOf'[h] \in 1..LastBlock(w)
    BY <1>t, <1>4, <2>1
  <2>3. blockOf[h] # 0 /\ blockOf[h] \in fromBlock[w]..e.block
    BY <1>1, <1>4, <2>2
  <2> QED  BY <2>1, <2>3 DEF KeepsUp
<1>5. KeepsUp(w)'
  <2>1. fromBlock'[w] = FromBlock \/ fromBlock'[w] - 1 \in 1..LastBlock(w)'
    BY <1>t, <1>1 DEF KeepsUp
  <2>2. at'[w] = "getEvents" => toBlock'[w] <= LastBlock(w)'
    BY <1>t, <1>1 DEF KeepsUp
  <2> QED  BY <1>3, <1>4, <2>1, <2>2 DEF KeepsUp
<1>6. PassesNone(w)'
  <2> SUFFICES ASSUME NEW h \in Burns \ Invalid,
                      blockOf'[h] \in (FromBlock..(fromBlock'[w] - 1)) \ {0},
                      at'[w] # "ended"
               PROVE  InHand(w, h)' \/ DealtWith(w, h)'
    BY DEF PassesNone
  <2>1. fromBlock[w] - 1 \in 1..LastBlock(w)
    BY <1>t DEF KeepsUp
  <2>2. blockOf'[h] \in 1..LastBlock(w)
    BY <1>t, <2>1
  <2>3. blockOf[h] = blockOf'[h]
    BY <1>1, <2>2
  <2>4. InHand(w, h) \/ DealtWith(w, h)
    BY <2>3 DEF PassesNone
  <2> QED  BY <2>4 DEF InHand, StaysDealtWith
<1> QED  BY <1>5, <1>6

-----------------------------------------------------------------------------
(* The leader and the operators, one by one. *)

LEMMA NothingForgotten == ASSUME Unforgetting PROVE ~Fault("cli") /\ ~Fault("db")
BY DEF Unforgetting, Forgotten, Fault

\* A step of the leader's process: its own watcher.
LEMMA LeaderThorough ==
    ASSUME IInv, Unforgetting, Leader \in Undisturbed, KeepsUp(Leader), PassesNone(Leader),
           LeaderStep
    PROVE  KeepsUp(Leader)' /\ PassesNone(Leader)'
<1>t. TypeOK /\ TypeOK' /\ Leader \in Watchers /\ UNCHANGED ethVars
  BY LeaderTyped DEF IInv, Watchers, LeaderStep
<1>n. ~Fault("cli") /\ ~Fault("db")
  BY NothingForgotten
<1>1. ASSUME StaysDealtWith(Leader), UNCHANGED watchVars
      PROVE  KeepsUp(Leader)' /\ PassesNone(Leader)'
  BY <1>t, <1>1, RestThorough DEF watchVars
<1>2. ASSUME UNCHANGED <<swaps, inserts>> PROVE StaysDealtWith(Leader)
  BY <1>2 DEF StaysDealtWith, DealtWith, Registered
<1>3. ASSUME EndOfIteration, StaysDealtWith(Leader), at[Leader] = "yielded",
             \A h \in Burns : h = logBurn[Leader] => DealtWith(Leader, h)'
      PROVE  KeepsUp(Leader)' /\ PassesNone(Leader)'
  <2>1. Resume(Leader) \/ Return(Leader)
    BY <1>3 DEF EndOfIteration
  <2> QED
    BY <1>t, <1>3, <2>1, MoveKeepsUp, MovePassesNone, ResumePassesNone DEF WatcherMoves
<1>4. ASSUME \/ StartWatching(Leader) \/ WatchStep(Leader) \/ StopWatching(Leader)
             \/ Forget(Leader),
             Forget(Leader) \/ UNCHANGED <<swaps, inserts>>
      PROVE  KeepsUp(Leader)' /\ PassesNone(Leader)'
  BY <1>t, <1>2, <1>4, MoveKeepsUp, MovePassesNone DEF WatcherMoves
<1>5. CASE FindLastSequence \/ AskChainSequence
  <2>1. UNCHANGED <<swaps, inserts>> /\ (UNCHANGED watchVars \/ StartWatching(Leader))
    BY <1>5 DEF FindLastSequence, AskChainSequence, dbVars
  <2> QED  BY <1>1, <1>2, <1>4, <2>1
<1>6. CASE FetchSwap
  <2>1. UNCHANGED <<swaps, inserts>> /\ at[Leader] = "yielded"
    BY <1>6 DEF FetchSwap, dbVars
  <2>2. CASE UNCHANGED watchVars
    BY <1>1, <1>2, <2>1, <2>2
  <2>3. CASE logBurn[Leader] \in Registered /\ EndOfIteration
    <3>1. \A h \in Burns : h = logBurn[Leader] => DealtWith(Leader, h)'
      BY <2>1, <2>3 DEF DealtWith, Registered
    <3> QED  BY <1>2, <1>3, <2>1, <2>3, <3>1
  <2> QED  BY <1>6, <1>n, <2>2, <2>3 DEF FetchSwap
<1>7. CASE GenerateSwap
  BY <1>1, <1>2, <1>7, <1>n DEF GenerateSwap, dbVars
<1>8. CASE InsertUnsignedSwap
  <2>1. FindBySequence(sequenceNumber - 1) = {} /\ at[Leader] = "yielded"
    BY <1>t, <1>8, NumberIsFree DEF InsertUnsignedSwap, IInv, TypeOK, RunTypeOK
  <2>2. /\ EndOfIteration /\ UNCHANGED swaps
        /\ inserts' = inserts \cup
              {[burn |-> logBurn[Leader], sequence |-> sequenceNumber - 1]}
    BY <1>8, <1>n, <2>1 DEF InsertUnsignedSwap, dbVars
  <2>3. StaysDealtWith(Leader)
    BY <2>2 DEF StaysDealtWith, DealtWith, Registered
  <2>4. \E i \in inserts' : i.burn = logBurn[Leader]
    <3> DEFINE i == [burn |-> logBurn[Leader], sequence |-> sequenceNumber - 1]
    <3>1. i \in inserts' /\ i.burn = logBurn[Leader]
      BY <2>2
    <3> QED  BY <3>1
  <2>5. \A h \in Burns : h = logBurn[Leader] => DealtWith(Leader, h)'
    BY <2>4 DEF DealtWith
  <2> QED  BY <1>3, <2>1, <2>2, <2>3, <2>5
<1>9. ASSUME NEW i \in inserts, AnswerInsert(i)
      PROVE  KeepsUp(Leader)' /\ PassesNone(Leader)'
  <2>1. i.burn \in Burns /\ swaps \in [Burns -> Swap]
    BY <1>t DEF TypeOK, RunTypeOK, DbTypeOK
  <2>2. /\ inserts' = inserts \ {i} /\ UNCHANGED watchVars
        /\ i.burn \in Registered' /\ Registered \subseteq Registered'
    BY <1>9, <1>n, <2>1 DEF AnswerInsert, ApplyInsert, Registered, dbVars
  <2>3. StaysDealtWith(Leader)
    BY <2>2 DEF StaysDealtWith, DealtWith
  <2> QED  BY <1>1, <2>2, <2>3
<1>10. CASE RunReturns \/ LeaderRestart
  BY <1>1, <1>2, <1>10 DEF RunReturns, LeaderRestart, dbVars
<1>11. CASE StopLeader
  BY <1>4, <1>11 DEF StopLeader
<1>12. CASE LeaderFails
  BY <1>4, <1>12 DEF LeaderFails, LeaderExit
<1>13. CASE WatchStep(Leader) /\ UNCHANGED <<runVars, dbVars>>
  BY <1>4, <1>13 DEF runVars, dbVars
<1> QED
  BY <1>5, <1>6, <1>7, <1>8, <1>9, <1>10, <1>11, <1>12, <1>13 DEF LeaderStep, RunStep

\* Signatures are never deleted.
LEMMA SignaturesKept ==
    ASSUME TypeOK, [Next]_vars
    PROVE  \A h \in Burns : signatures[h] \subseteq signatures'[h]
<1>1. CASE UNCHANGED signatures
  BY <1>1
<1>2. ASSUME NEW o \in Operators, NEW g \in signed[o], AnswerSignature(o, g)
      PROVE  \A h \in Burns : signatures[h] \subseteq signatures'[h]
  BY <1>2 DEF AnswerSignature, ApplySignature, dbVars, TypeOK, DbTypeOK
<1> QED
  BY <1>1, <1>2
     DEF Next, LeaderStep, RunStep, FindLastSequence, AskChainSequence, FetchSwap, GenerateSwap,
         InsertUnsignedSwap, RunReturns, StopLeader, LeaderFails, LeaderExit, LeaderRestart,
         AnswerInsert, ApplyInsert, OperatorsStep, OperatorStep, Start, FetchRegistered, SignTx,
         FetchFails, OperatorFails, OperatorExit, OperatorRestart, EthStep, Broadcasts, dbVars,
         vars

LEMMA SignaturesSuffice ==
    ASSUME TypeOK, TypeOK', [Next]_vars, NEW h \in Burns,
           Cardinality(signatures[h]) >= Threshold
    PROVE  Cardinality(signatures[h])' >= Threshold
<1>1. signatures[h] \subseteq signatures'[h] /\ signatures'[h] \subseteq Operators
  BY SignaturesKept DEF TypeOK, DbTypeOK
<1>2. IsFiniteSet(signatures'[h])
  BY <1>1, OperatorsAssumption, FS_Subset
<1>3. /\ Cardinality(signatures[h]) <= Cardinality(signatures'[h])
      /\ Cardinality(signatures[h]) \in Nat /\ Cardinality(signatures'[h]) \in Nat
  BY <1>1, <1>2, FS_Subset, FS_CardinalityType
<1> QED  BY <1>3, RegistrationAssumption

\* An operator's work is kept by every step but the end of its process.
LEMMA SigningStays ==
    ASSUME TypeOK, TypeOK', [Next]_vars, NEW w \in Operators,
           \A h \in signed[w] : h \in signed'[w] \/ w \in signatures'[h]
    PROVE  StaysDealtWith(w)
<1>1. w # Leader
  BY WatcherAssumption
<1>2. \A h \in Burns \ Invalid : w \in signatures[h] => w \in signatures'[h]
  BY SignaturesKept
<1> QED  BY <1>1, <1>2, SignaturesSuffice DEF StaysDealtWith, DealtWith

\* A step of an operator: its own watcher.
LEMMA OperatorThorough ==
    ASSUME TypeOK, TypeOK', SkippedAreSigned, Unforgetting, OperatorsStep,
           NEW o \in Operators, KeepsUp(o), PassesNone(o),
           \/ OperatorStep(o) \/ FetchFails(o) \/ OperatorFails(o) \/ OperatorRestart(o)
           \/ \E h \in signed[o] : AnswerSignature(o, h)
    PROVE  KeepsUp(o)' /\ PassesNone(o)'
<1>t. /\ o \in Watchers /\ o \in Undisturbed /\ o # Leader /\ UNCHANGED ethVars
      /\ [Next]_vars
  BY WatcherAssumption DEF Watchers, Undisturbed, OperatorsStep, Next
<1>n. ~Fault("cli") /\ ~Fault("db")
  BY NothingForgotten
<1>1. ASSUME UNCHANGED signed PROVE StaysDealtWith(o)
  BY <1>1, <1>t, SigningStays
<1>2. ASSUME StaysDealtWith(o), UNCHANGED watchVars
      PROVE  KeepsUp(o)' /\ PassesNone(o)'
  BY <1>t, <1>2, RestThorough DEF watchVars
<1>3. ASSUME Resume(o), StaysDealtWith(o), at[o] = "yielded",
             \A h \in Burns : h = logBurn[o] => DealtWith(o, h)'
      PROVE  KeepsUp(o)' /\ PassesNone(o)'
  BY <1>t, <1>3, MoveKeepsUp, ResumePassesNone DEF WatcherMoves
<1>4. CASE Start(o)
  BY <1>t, <1>1, <1>4, MoveKeepsUp, MovePassesNone DEF Start, operatorVars, WatcherMoves
<1>5. CASE WatchStep(o) /\ UNCHANGED operatorVars
  BY <1>t, <1>1, <1>5, MoveKeepsUp, MovePassesNone DEF operatorVars, WatcherMoves
<1>6. CASE OperatorExit(o)
  BY <1>t, <1>6, MoveKeepsUp, MovePassesNone DEF OperatorExit, WatcherMoves
<1>7. CASE OperatorRestart(o)
  BY <1>1, <1>2, <1>7 DEF OperatorRestart
<1>8. CASE FetchRegistered(o)
  <2>1. CASE swaps[logBurn[o]].status = "UNSIGNED"
    BY <1>1, <1>2, <1>8, <2>1 DEF FetchRegistered
  <2>2. CASE swaps[logBurn[o]].status # "UNSIGNED"
    <3>1. /\ Resume(o) /\ UNCHANGED <<signed, signatures>> /\ at[o] = "yielded"
          /\ logBurn[o] \in Registered
      BY <1>8, <2>2 DEF FetchRegistered, dbVars
    <3>2. Cardinality(signatures[logBurn[o]]) >= Threshold
      BY <2>2, <3>1 DEF SkippedAreSigned
    <3>3. \A h \in Burns : h = logBurn[o] => DealtWith(o, h)'
      BY <1>t, <3>1, <3>2 DEF DealtWith
    <3> QED  BY <1>1, <1>3, <3>1, <3>3
  <2> QED  BY <2>1, <2>2
<1>9. CASE SignTx(o)
  <2>1. /\ Resume(o) /\ UNCHANGED signatures /\ at[o] = "yielded"
        /\ signed[o] \subseteq signed'[o]
        /\ o \in signatures[logBurn[o]] \/ logBurn[o] \in signed'[o]
    BY <1>9, <1>n DEF SignTx, dbVars, TypeOK, OperatorTypeOK
  <2>2. StaysDealtWith(o)
    BY <1>t, <2>1, SigningStays
  <2>3. \A h \in Burns : h = logBurn[o] => DealtWith(o, h)'
    BY <1>t, <2>1 DEF DealtWith
  <2> QED  BY <1>3, <2>1, <2>2, <2>3
<1>10. ASSUME NEW g \in signed[o], AnswerSignature(o, g)
       PROVE  KeepsUp(o)' /\ PassesNone(o)'
  <2>1. g \in Burns
    BY DEF TypeOK, OperatorTypeOK
  <2>2. /\ UNCHANGED watchVars /\ signed'[o] = signed[o] \ {g}
        /\ o \in signatures'[g]
    BY <1>10, <1>n, <2>1 DEF AnswerSignature, ApplySignature, TypeOK, OperatorTypeOK, DbTypeOK
  <2>3. StaysDealtWith(o)
    BY <1>t, <2>2, SigningStays
  <2> QED  BY <1>2, <2>2, <2>3
<1> QED
  BY <1>n, <1>4, <1>5, <1>6, <1>7, <1>8, <1>9, <1>10
     DEF OperatorStep, FetchFails, OperatorFails

\* A watcher that another process's step, or nobody's, leaves alone.
LEMMA OthersThorough ==
    ASSUME TypeOK, TypeOK', NEW w \in Undisturbed, KeepsUp(w), PassesNone(w),
           NEW x \in Watchers, x # w, WatcherMoves(x) \/ UNCHANGED watchVars,
           StaysDealtWith(w), UNCHANGED ethVars \/ EthStep
    PROVE  KeepsUp(w)' /\ PassesNone(w)'
<1>1. WatchTypeOK /\ w \in Watchers
  BY UndisturbedWatches DEF TypeOK
<1>2. UNCHANGED <<at[w], fromBlock[w], toBlock[w], events[w], logBurn[w]>>
  <2>1. CASE WatcherMoves(x)
    BY <1>1, <2>1, OthersKept
  <2>2. CASE UNCHANGED watchVars
    BY <2>2 DEF watchVars
  <2> QED  BY <2>1, <2>2
<1> QED  BY <1>2, RestThorough

\* What a step leaves dealt with, when it is not w's own.
LEMMA OthersDealtWith ==
    ASSUME TypeOK, TypeOK', [Next]_vars, NEW w \in Watchers,
           IF w = Leader THEN ~LeaderStep ELSE UNCHANGED signed[w]
    PROVE  StaysDealtWith(w)
<1>1. CASE w = Leader
  <2>1. Registered' = Registered /\ UNCHANGED inserts
    <3>1. CASE OperatorsStep
      BY <3>1 DEF OperatorsStep, OperatorStep, Start, FetchRegistered, SignTx, FetchFails,
         OperatorFails, OperatorExit, OperatorRestart, AnswerSignature, ApplySignature,
         Registered, runVars, dbVars
    <3>2. CASE EthStep \/ UNCHANGED vars
      BY <3>2 DEF EthStep, Registered, runVars, dbVars, vars
    <3>3. ASSUME NEW h \in Burns, Broadcasts(h) PROVE Registered' = Registered /\ UNCHANGED inserts
      BY <3>3, BroadcastsKeepNumbers DEF Broadcasts, runVars
    <3> QED  BY <1>1, <3>1, <3>2, <3>3 DEF Next
  <2> QED  BY <1>1, <2>1 DEF StaysDealtWith, DealtWith
<1>2. CASE w # Leader
  BY <1>2, SigningStays DEF Watchers
<1> QED  BY <1>1, <1>2

LEMMA SkippedAreSignedStays ==
    ASSUME TypeOK, TypeOK', SkippedAreSigned, [Next]_vars
    PROVE  SkippedAreSigned'
<1> SUFFICES ASSUME NEW h \in Registered', swaps'[h].status # "UNSIGNED"
             PROVE  Cardinality(signatures[h])' >= Threshold
  BY DEF SkippedAreSigned
<1>t. h \in Burns /\ swaps \in [Burns -> Swap]
  BY DEF Registered, TypeOK, DbTypeOK
<1>1. CASE UNCHANGED swaps
  <2>1. Cardinality(signatures[h]) >= Threshold
    BY <1>1 DEF SkippedAreSigned, Registered
  <2> QED  BY <1>t, <2>1, SignaturesSuffice
<1>2. ASSUME NEW i \in inserts, ApplyInsert(i.burn, i.sequence)
      PROVE  Cardinality(signatures[h])' >= Threshold
  <2>1. swaps'[h] = swaps[h] /\ h \in Registered
    BY <1>t, <1>2 DEF ApplyInsert, Registered
  <2>2. Cardinality(signatures[h]) >= Threshold
    BY <2>1 DEF SkippedAreSigned
  <2> QED  BY <1>t, <2>2, SignaturesSuffice
<1>3. ASSUME NEW g \in Burns, Broadcasts(g) PROVE Cardinality(signatures[h])' >= Threshold
  <2>1. CASE g = h
    BY <1>t, <1>3, <2>1, SignaturesSuffice DEF Broadcasts
  <2>2. CASE g # h
    <3>1. swaps'[h] = swaps[h] /\ h \in Registered
      BY <1>t, <1>3, <2>2 DEF Broadcasts, Registered
    <3>2. Cardinality(signatures[h]) >= Threshold
      BY <3>1 DEF SkippedAreSigned
    <3> QED  BY <1>t, <3>2, SignaturesSuffice
  <2> QED  BY <2>1, <2>2
<1> QED
  BY <1>1, <1>2, <1>3
     DEF Next, LeaderStep, RunStep, FindLastSequence, AskChainSequence, FetchSwap, GenerateSwap,
         InsertUnsignedSwap, RunReturns, StopLeader, LeaderFails, LeaderExit, LeaderRestart,
         AnswerInsert, OperatorsStep, OperatorStep, Start, FetchRegistered, SignTx,
         FetchFails, OperatorFails, OperatorExit, OperatorRestart, AnswerSignature,
         ApplySignature, EthStep, dbVars, vars

-----------------------------------------------------------------------------

LEMMA ThoroughInit == Init => Thorough
<1> SUFFICES ASSUME Init PROVE Thorough
  OBVIOUS
<1>1. Registered = {}
  BY DEF Init, DbInit, NoSwap, Registered
<1>2. ASSUME NEW w \in Watchers PROVE KeepsUp(w) /\ PassesNone(w)
  <2>1. /\ at[w] = "off" /\ fromBlock[w] = FromBlock /\ events[w] = {} /\ logBurn[w] = NoBurn
        /\ FromBlock \in Nat
    BY WatcherAssumption DEF Init, WatchInit
  <2> QED  BY <2>1 DEF KeepsUp, PassesNone
<1> QED  BY <1>1, <1>2, UndisturbedWatches DEF Thorough, SkippedAreSigned

LEMMA ThoroughStep == Unforgetting /\ IInv /\ Thorough /\ [Next]_vars => Thorough'
<1> SUFFICES ASSUME Unforgetting, IInv, Thorough, [Next]_vars PROVE Thorough'
  OBVIOUS
<1>t. TypeOK /\ TypeOK' /\ Leader \in Watchers /\ Operators \subseteq Watchers
  BY TypeStep DEF IInv, Watchers
<1>1. SkippedAreSigned'
  BY <1>t, SkippedAreSignedStays DEF Thorough
<1>2. ASSUME NEW w \in Undisturbed PROVE KeepsUp(w)' /\ PassesNone(w)'
  <2>1. w \in Watchers /\ KeepsUp(w) /\ PassesNone(w) /\ SkippedAreSigned
    BY UndisturbedWatches DEF Thorough
  <2>2. CASE LeaderStep
    <3>1. CASE w = Leader
      BY <2>1, <2>2, <3>1, LeaderThorough
    <3>2. CASE w # Leader
      <4>1. UNCHANGED signed[w] /\ UNCHANGED ethVars
        BY <2>2 DEF LeaderStep, operatorVars
      <4> QED
        BY <1>t, <2>1, <2>2, <3>2, <4>1, LeaderMoves, OthersDealtWith, OthersThorough
    <3> QED  BY <3>1, <3>2
  <2>3. CASE OperatorsStep /\ ~LeaderStep
    <3>1. PICK o \in Operators :
             \/ OperatorStep(o) \/ FetchFails(o) \/ OperatorFails(o) \/ OperatorRestart(o)
             \/ \E h \in signed[o] : AnswerSignature(o, h)
      BY <2>3 DEF OperatorsStep
    <3>2. CASE w = o
      BY <1>t, <2>1, <2>3, <3>1, <3>2, OperatorThorough
    <3>3. CASE w # o
      <4>1. w # Leader => UNCHANGED signed[w]
        BY <1>t, <3>1, <3>3 DEF Undisturbed, TypeOK, OperatorTypeOK, OperatorStep, Start,
           FetchRegistered, SignTx, FetchFails, OperatorFails, OperatorExit, OperatorRestart,
           AnswerSignature, operatorVars
      <4>2. StaysDealtWith(w) /\ UNCHANGED ethVars
        BY <1>t, <2>1, <2>3, <4>1, OthersDealtWith DEF OperatorsStep
      <4> QED  BY <1>t, <2>1, <3>1, <3>3, <4>2, OperatorMoves, OthersThorough
    <3> QED  BY <3>2, <3>3
  <2>4. CASE ~LeaderStep /\ ~OperatorsStep
    <3>1. /\ UNCHANGED <<watchVars, signed>>
          /\ UNCHANGED ethVars \/ EthStep
      BY <2>4 DEF Next, EthStep, Broadcasts, operatorVars, vars
    <3>2. StaysDealtWith(w)
      BY <1>t, <2>1, <2>4, <3>1, OthersDealtWith
    <3> QED  BY <1>t, <2>1, <3>1, <3>2, RestThorough DEF watchVars
  <2> QED  BY <2>2, <2>3, <2>4
<1> QED  BY <1>1, <1>2 DEF Thorough

\* Unless a failure is logged and forgotten, nobody passes a burn over:
\* fromBlock moves on before the burn is handled (burn_watcher.js:51-66), but a
\* consumer that cannot handle it exits (operator/index.js:57-64), and the
\* next process starts from the first block again.
THEOREM NonePassedOver == Spec => []NoBurnPassedOver
<1>1. Thorough => NoBurnPassedOver
  BY DEF Thorough, PassesNone, NoBurnPassedOver
<1>2. CASE Unforgetting
  BY <1>1, <1>2, ThoroughInit, ThoroughStep, Invariant, PTL DEF Spec
<1>3. CASE ~Unforgetting
  <2>1. NoBurnPassedOver
    BY <1>3 DEF Unforgetting, NoBurnPassedOver
  <2> QED  BY <2>1, PTL
<1> QED  BY <1>2, <1>3
=============================================================================
