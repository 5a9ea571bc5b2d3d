----------------------------- MODULE ClientProofs -----------------------------
(***************************************************************************)
(* Theorems of SwapClient, for every set of burns and every bound on calls,  *)
(* prompts and faults: type correctness, and that a call reads its own       *)
(* command's output.  Two things carry the latter.  A command run by         *)
(* spawnNoPassword is run once, before its promise is settled, so that none  *)
(* but the awaited one ever writes; and one run by spawnAndInputPassword,    *)
(* which may run again at any time, writes a file of a burn that this        *)
(* process calls for once.                                                  *)
(***************************************************************************)
EXTENDS SwapClient, TLAPS

-----------------------------------------------------------------------------
(* The inductive invariant. *)

\* Of one shell.  A command's first run is the first thing it reads, and what
\* settles its promise comes after that; spawnNoPassword never types it again.
ShellInTurn(s) ==
    /\ shell[s] = "off" => status[s] = "none" /\ promise[s] = "none"
    /\ shell[s] = "idle" /\ status[s] = "none" => tty[s] # <<>> /\ Head(tty[s]) = "toRun"
    /\ shell[s] = "exited" => status[s] # "none"
    /\ promise[s] = "rejected" => status[s] # "none"
    /\ promise[s] = "resolved" => status[s] = "ok" /\ shell[s] = "gone"
    /\ \A i \in DOMAIN chunks[s] : "ERROR" \in chunks[s][i] => status[s] # "none"
    /\ ~Interactive(s) =>
          /\ shell[s] \in {"running", "asking", "refused"} => status[s] = "none"
          /\ \A i \in DOMAIN tty[s] :
                tty[s][i] = "toRun" => i = 1 /\ shell[s] = "idle" /\ status[s] = "none"

Live(s) == shell[s] \notin {"off", "gone"}

MethodCommands == [generateTokenSwap |-> {"swap"}, signTx |-> {"signTx"},
                   broadcastTokenSwap |-> {"multisign", "broadcast"}]

\* Of the shells and the calls they belong to: those of other calls than the
\* current one have run their command, or work for another burn.
CallsInTurn ==
    /\ command \in MethodCommands[method]
    /\ step = "write" => command = FirstCommand[method]
    /\ step # "idle" => Current > 0 /\ about[Current] \in recent
    /\ \A s \in Shells : shell[s] # "off" =>
          s.call <= Current /\ s.command \in MethodCommands[method]
    /\ \A s \in Shells : Live(s) =>
          /\ about[s.call] \in recent
          /\ ~Interactive(s) /\ status[s] = "none" => step = "command" /\ s = Awaited
          /\ /\ method # "broadcastTokenSwap" /\ step # "idle"
             /\ about[s.call] = about[Current]
             => s.call = Current

\* What the current call's commands read.
Inputs ==
    /\ step \in {"command", "read"} /\ method # "generateTokenSwap" =>
          files[Input([call |-> Current, command |-> FirstCommand[method]])] = Current
    /\ step \in {"command", "read"} /\ command = "broadcast" =>
          files[Input(Awaited)] = Current

\* And what they have made of it.
FilesInTurn ==
    /\ Inputs
    /\ step = "command" /\ status[Awaited] = "ok" => files[Output(Awaited)] = Current
    /\ step = "read" => shell[Awaited] = "gone" /\ files[Output(Awaited)] = Current

IInv ==
    /\ TypeOK
    /\ \A s \in Shells : ShellInTurn(s)
    /\ CallsInTurn
    /\ Safe => FilesInTurn

-----------------------------------------------------------------------------
(* Types. *)

Terminals ==
    /\ tty \in [Shells -> Seq(Lines)]
    /\ shell \in [Shells -> {"off", "idle", "running", "asking", "refused", "exited", "gone"}]
    /\ status \in [Shells -> {"none", "ok", "failed"}]
    /\ prompts \in [Shells -> Nat]
    /\ chunks \in [Shells -> Seq(SUBSET Words)]
    /\ timers \in [Shells -> Nat]
    /\ promise \in [Shells -> {"none", "pending", "resolved", "rejected"}]

LEMMA SpawnTyped ==
    ASSUME Terminals, NEW s \in Shells, Spawn(s) PROVE Terminals'
<1>1. <<"toRun">> \in Seq(Lines) /\ <<{}>> \in Seq(SUBSET Words)
  BY DEF Lines, Words
<1> QED  BY <1>1 DEF Terminals, Spawn

LEMMA ListenersTyped ==
    ASSUME Terminals, NEW s \in Shells, OnData(s) \/ TypeExit(s) \/ OnExit(s)
    PROVE  Terminals'
<1>1. CASE OnData(s)
  <2>1. chunks' \in [Shells -> Seq(SUBSET Words)]
    BY <1>1 DEF OnData, Terminals
  <2>2. promise' \in [Shells -> {"none", "pending", "resolved", "rejected"}]
    BY <1>1 DEF OnData, DataPassword, DataNoPassword, OnError, Callback, Terminals
  <2>3. timers' \in [Shells -> Nat]
    <3>1. timers \in [Shells -> Nat] /\ timers[s] + 1 \in Nat
      BY DEF Terminals
    <3> QED  BY <1>1, <3>1 DEF OnData, DataPassword, DataNoPassword
  <2>4. tty' \in [Shells -> Seq(Lines)]
    <3>1. ASSUME NEW l \in Seq(Lines), Type(s, l) PROVE tty' \in [Shells -> Seq(Lines)]
      BY <3>1 DEF Type, Terminals
    <3>2. \A c : ((IF "failed" \in c THEN <<"toRun">> ELSE <<>>)
                  \o (IF "prompt" \in c THEN <<"password", "exit">> ELSE <<>>)) \in Seq(Lines)
      <4>1. /\ <<"toRun">> \in Seq(Lines) /\ <<"password", "exit">> \in Seq(Lines)
            /\ <<>> \in Seq(Lines)
        BY DEF Lines
      <4> QED  BY <4>1
    <3> QED  BY <1>1, <3>1, <3>2 DEF OnData, DataPassword, DataNoPassword, Terminals
  <2> QED  BY <1>1, <2>1, <2>2, <2>3, <2>4 DEF OnData, Terminals
<1>2. CASE TypeExit(s)
  <2>1. <<"exit">> \in Seq(Lines)
    BY DEF Lines
  <2> QED  BY <1>2, <2>1 DEF TypeExit, Type, Terminals
<1>3. CASE OnExit(s)
  BY <1>3 DEF OnExit, Callback, Terminals
<1> QED  BY <1>1, <1>2, <1>3

LEMMA PrintsTyped ==
    ASSUME Terminals, NEW s \in Shells, NEW c \in SUBSET Words, Prints(s, c)
    PROVE  chunks' \in [Shells -> Seq(SUBSET Words)]
BY DEF Terminals, Prints

LEMMA BashTyped ==
    ASSUME Terminals, NEW s \in Shells,
           \/ ReadExit(s) \/ ReadLine(s) \/ Prompt(s) \/ ReadPassphrase(s)
           \/ Succeeds(s) \/ Fails(s)
    PROVE  Terminals'
<1>1. CASE ReadExit(s)
  <2>1. <<>> \in Seq(Lines)
    OBVIOUS
  <2> QED  BY <1>1, <2>1 DEF ReadExit, Terminals
<1>t. tty[s] # <<>> => Tail(tty[s]) \in Seq(Lines)
  BY DEF Terminals
<1>2. CASE ReadLine(s)
  <2>1. chunks' \in [Shells -> Seq(SUBSET Words)]
    BY <1>2, PrintsTyped DEF ReadLine, Terminals
  <2>2. tty' \in [Shells -> Seq(Lines)]
    BY <1>2, <1>t DEF ReadLine, Terminals
  <2>3. /\ shell' \in [Shells -> {"off", "idle", "running", "asking", "refused", "exited", "gone"}]
        /\ status' \in [Shells -> {"none", "ok", "failed"}]
    BY <1>2 DEF ReadLine, Terminals
  <2>4. prompts' \in [Shells -> Nat]
    BY <1>2 DEF ReadLine, Terminals
  <2> QED  BY <1>2, <2>1, <2>2, <2>3, <2>4 DEF ReadLine, Terminals
<1>3. CASE Prompt(s)
  <2>1. chunks' \in [Shells -> Seq(SUBSET Words)]
    BY <1>3, PrintsTyped DEF Prompt, Words
  <2>2. prompts' \in [Shells -> Nat]
    <3>1. prompts \in [Shells -> Nat] /\ prompts[s] + 1 \in Nat
      BY DEF Terminals
    <3> QED  BY <1>3, <3>1 DEF Prompt
  <2>3. shell' \in [Shells -> {"off", "idle", "running", "asking", "refused", "exited", "gone"}]
    BY <1>3 DEF Prompt, Terminals
  <2> QED  BY <1>3, <2>1, <2>2, <2>3 DEF Prompt, Terminals
<1>4. CASE ReadPassphrase(s)
  BY <1>4, <1>t DEF ReadPassphrase, Terminals
<1>5. CASE Succeeds(s)
  <2>1. chunks' \in [Shells -> Seq(SUBSET Words)]
    BY <1>5, PrintsTyped DEF Succeeds
  <2> QED  BY <1>5, <2>1 DEF Succeeds, Terminals
<1>6. CASE Fails(s)
  <2>1. chunks' \in [Shells -> Seq(SUBSET Words)]
    <3>1. PICK c \in SUBSET {"failed", "ERROR"} : Prints(s, c)
      BY <1>6 DEF Fails
    <3> QED  BY <3>1, PrintsTyped DEF Words
  <2> QED  BY <1>6, <2>1 DEF Fails, Terminals
<1> QED  BY <1>1, <1>2, <1>3, <1>4, <1>5, <1>6

\* A shell that was spawned works on files there are.
LEMMA FilesNamed ==
    ASSUME TypeOK, NEW s \in Shells, s.call <= Current
    PROVE  /\ about[s.call] \in Burns
           /\ Output(s) \in Files
           /\ s.command # "swap" => Input(s) \in Files
           /\ Made(s) \in 0..MaxCalls
<1>1. about \in Seq(Burns) /\ s.call \in Nat /\ s.call > 0 /\ s.call \in 0..MaxCalls
  BY PtyAssumption DEF TypeOK, Shells, Calls
<1>2. about[s.call] \in Burns
  BY <1>1 DEF Current
<1>3. s.command \in Commands
  BY DEF Shells
<1>4. \A n \in Names : File(n, about[s.call]) \in Files
  BY <1>2 DEF File, Files
<1>5. OutputName[s.command] \in Names /\ (s.command # "swap" => InputName[s.command] \in Names)
  BY <1>3 DEF Commands, OutputName, InputName, Names
<1>6. Output(s) \in Files /\ (s.command # "swap" => Input(s) \in Files)
  BY <1>4, <1>5 DEF Output, Input
<1>7. Made(s) \in 0..MaxCalls
  BY <1>1, <1>6 DEF Made, TypeOK, PtyTypeOK
<1> QED  BY <1>2, <1>6, <1>7

LEMMA AwaitedShell ==
    ASSUME TypeOK, CallsInTurn, step # "idle"
    PROVE  Awaited \in Shells /\ Current \in 1..MaxCalls
<1>1. Current \in Nat /\ Current > 0 /\ Current <= MaxCalls
  BY DEF TypeOK, CallsInTurn, Current
<1> QED  BY <1>1, PtyAssumption DEF TypeOK, Awaited, Shells, Calls

LEMMA ShellStepTyped ==
    ASSUME TypeOK, CallsInTurn, NEW s \in Shells, PtyStep(s), UNCHANGED <<clientVars, keyring>>
    PROVE  TypeOK'
<1>1. Terminals
  BY DEF TypeOK, PtyTypeOK, Terminals
<1>2. Terminals'
  BY <1>1, ListenersTyped, BashTyped DEF PtyStep
<1>3. files' \in [Files -> 0..MaxCalls]
  <2>0. files \in [Files -> 0..MaxCalls]
    BY DEF TypeOK, PtyTypeOK
  <2>1. CASE Succeeds(s)
    <3>1. s.call <= Current
      BY <2>1 DEF Succeeds, CallsInTurn
    <3> QED  BY <2>0, <2>1, <3>1, FilesNamed DEF Succeeds
  <2>2. CASE UNCHANGED files
    BY <2>0, <2>2
  <2>3. CASE ReadLine(s)
    BY <2>0, <2>3, PtyAssumption DEF ReadLine
  <2> QED  BY <2>1, <2>2, <2>3 DEF PtyStep, ReadExit, Prompt, ReadPassphrase, Fails
<1>4. FaultTypeOK'
  BY DEF PtyStep, Succeeds, Fails, NoFault, Fault, TypeOK, FaultTypeOK
<1> QED  BY <1>2, <1>3, <1>4 DEF TypeOK, PtyTypeOK, Terminals, clientVars

LEMMA ClientStepTyped ==
    ASSUME TypeOK, CallsInTurn, (\E h \in Burns : Call(h)) \/ ClientStep \/ Crash
    PROVE  TypeOK'
<1>1. Terminals
  BY DEF TypeOK, PtyTypeOK, Terminals
<1>2. ASSUME UNCHANGED ptyVars PROVE Terminals'
  BY <1>1, <1>2 DEF ptyVars, Terminals
<1>3. FaultTypeOK'
  BY DEF Call, ClientStep, WriteInput, Settle, ReadOutput, Crash, NoFault, Fault, TypeOK, FaultTypeOK
<1>4. ASSUME NEW h \in Burns, Call(h) PROVE TypeOK'
  <2>1. about' \in Seq(Burns) /\ Len(about') <= MaxCalls /\ Len(about) + 1 \in Calls
    BY <1>4, PtyAssumption DEF Call, TypeOK, Calls
  <2>2. Terminals'
    <3>1. [call |-> Len(about) + 1, command |-> "swap"] \in Shells
      BY <2>1 DEF Shells, Commands
    <3> QED  BY <1>1, <1>2, <1>4, <3>1, SpawnTyped DEF Call
  <2>3. command' \in Commands
    BY <1>4 DEF Call, FirstCommand, TypeOK, Methods, Commands
  <2> QED  BY <1>3, <1>4, <2>1, <2>2, <2>3 DEF Call, TypeOK, PtyTypeOK, Terminals
<1>5. CASE WriteInput
  <2>1. Awaited \in Shells /\ Current \in 1..MaxCalls
    BY <1>5, AwaitedShell DEF WriteInput
  <2>2. files' \in [Files -> 0..MaxCalls]
    <3>1. files \in [Files -> 0..MaxCalls] /\ Current \in 0..MaxCalls
      BY <2>1 DEF TypeOK, PtyTypeOK
    <3> QED  BY <1>5, <3>1 DEF WriteInput
  <2>3. Terminals'
    BY <1>1, <1>2, <1>5, <2>1, SpawnTyped DEF WriteInput
  <2> QED  BY <1>3, <1>5, <2>2, <2>3 DEF WriteInput, TypeOK, PtyTypeOK, Terminals
<1>6. CASE Settle
  <2>1. [call |-> Current, command |-> "broadcast"] \in Shells
    BY <1>6, AwaitedShell DEF Settle, Shells, Calls, Commands
  <2>2. Terminals'
    BY <1>1, <1>2, <1>6, <2>1, SpawnTyped DEF Settle
  <2>3. step' \in {"idle", "write", "command", "read"} /\ command' \in Commands
    BY <1>6 DEF Settle, TypeOK, Commands
  <2> QED  BY <1>3, <1>6, <2>2, <2>3 DEF Settle, TypeOK, PtyTypeOK, Terminals
<1>7. CASE ReadOutput
  BY <1>2, <1>3, <1>7 DEF ReadOutput, TypeOK, PtyTypeOK, Terminals
<1>8. CASE Crash
  <2>1. <<>> \in Seq(Lines) /\ <<>> \in Seq(SUBSET Words)
    OBVIOUS
  <2>2. Terminals'
    BY <1>1, <1>8, <2>1 DEF Crash, Terminals
  <2> QED  BY <1>3, <1>8, <2>2 DEF Crash, TypeOK, PtyTypeOK, Terminals
<1> QED  BY <1>4, <1>5, <1>6, <1>7, <1>8 DEF ClientStep

LEMMA TypeStep == ASSUME TypeOK, CallsInTurn, [Next]_vars PROVE TypeOK'
<1>1. CASE UNCHANGED vars
  BY <1>1 DEF vars, ptyVars, clientVars, TypeOK, PtyTypeOK, FaultTypeOK
<1> QED  BY <1>1, ShellStepTyped, ClientStepTyped DEF Next

-----------------------------------------------------------------------------
(* What one shell does, and that it leaves the others alone. *)

Untouched(t) ==
    /\ shell'[t] = shell[t] /\ tty'[t] = tty[t] /\ status'[t] = status[t]
    /\ prompts'[t] = prompts[t] /\ chunks'[t] = chunks[t] /\ timers'[t] = timers[t]
    /\ promise'[t] = promise[t]

LEMMA OthersUntouched ==
    ASSUME Terminals, NEW s \in Shells, PtyStep(s) \/ Spawn(s), NEW t \in Shells, t # s
    PROVE  Untouched(t)
<1>1. CASE OnData(s)
  BY <1>1 DEF OnData, DataPassword, DataNoPassword, OnError, Callback, Type, Terminals, Untouched
<1>2. CASE TypeExit(s)
  BY <1>2 DEF TypeExit, Type, Terminals, Untouched
<1>3. CASE OnExit(s)
  BY <1>3 DEF OnExit, Callback, Terminals, Untouched
<1>4. CASE ReadExit(s)
  BY <1>4 DEF ReadExit, Terminals, Untouched
<1>5. CASE ReadLine(s)
  BY <1>5 DEF ReadLine, Prints, Terminals, Untouched
<1>6. CASE Prompt(s)
  BY <1>6 DEF Prompt, Prints, Terminals, Untouched
<1>7. CASE ReadPassphrase(s)
  BY <1>7 DEF ReadPassphrase, Terminals, Untouched
<1>8. CASE Succeeds(s)
  BY <1>8 DEF Succeeds, Prints, Terminals, Untouched
<1>9. CASE Fails(s)
  BY <1>9 DEF Fails, Prints, Terminals, Untouched
<1>10. CASE Spawn(s)
  BY <1>10 DEF Spawn, Terminals, Untouched
<1> QED
  BY <1>1, <1>2, <1>3, <1>4, <1>5, <1>6, <1>7, <1>8, <1>9, <1>10 DEF PtyStep

LEMMA UntouchedInTurn ==
    ASSUME NEW t \in Shells, Untouched(t), UNCHANGED keyring, ShellInTurn(t)
    PROVE  ShellInTurn(t)'
BY DEF Untouched, ShellInTurn, Interactive

LEMMA SpawnedInTurn ==
    ASSUME Terminals, NEW s \in Shells, ShellInTurn(s), Spawn(s), UNCHANGED keyring
    PROVE  ShellInTurn(s)'
<1>1. /\ shell'[s] = "idle" /\ tty'[s] = <<"toRun">> /\ chunks'[s] = <<{}>>
      /\ promise'[s] = "pending" /\ status'[s] = "none"
  BY DEF Spawn, Terminals, ShellInTurn
<1> QED  BY <1>1 DEF ShellInTurn, Interactive

LEMMA HeadKept ==
    ASSUME NEW q \in Seq(Lines), q # <<>>, NEW l \in Seq(Lines)
    PROVE  q \o l # <<>> /\ Head(q \o l) = Head(q)
<1>1. q \o l \in Seq(Lines) /\ Len(q \o l) = Len(q) + Len(l) /\ Len(q) > 0 /\ Len(l) >= 0
  OBVIOUS
<1>2. (q \o l)[1] = q[1]
  BY <1>1
<1> QED  BY <1>1, <1>2

LEMMA ErrorAppended ==
    ASSUME NEW q \in Seq(SUBSET Words), NEW c \in SUBSET Words,
           NEW i \in DOMAIN Append(q, c), "ERROR" \in Append(q, c)[i]
    PROVE  "ERROR" \in c \/ \E j \in DOMAIN q : "ERROR" \in q[j]
<1>1. i \in 1..Len(q) + 1 /\ Len(q) \in Nat
  OBVIOUS
<1>2. CASE i = Len(q) + 1
  BY <1>2
<1>3. CASE i \in 1..Len(q)
  BY <1>3
<1> QED  BY <1>1, <1>2, <1>3

LEMMA ListenerInTurn ==
    ASSUME Terminals, NEW s \in Shells, ShellInTurn(s), UNCHANGED keyring,
           OnData(s) \/ TypeExit(s) \/ OnExit(s)
    PROVE  ShellInTurn(s)'
<1>0. chunks[s] \in Seq(SUBSET Words) /\ tty[s] \in Seq(Lines)
  BY DEF Terminals
<1>1. CASE OnData(s)
  <2>1. chunks[s] # <<>> /\ chunks'[s] = Tail(chunks[s]) /\ UNCHANGED <<shell, status>>
    BY <1>1 DEF OnData, Terminals
  <2>2. "ERROR" \in Head(chunks[s]) => status[s] # "none"
    BY <1>0, <2>1 DEF ShellInTurn
  <2>3. \A i \in DOMAIN chunks'[s] : "ERROR" \in chunks'[s][i] => status[s] # "none"
    BY <1>0, <2>1 DEF ShellInTurn
  <2>4. \/ promise'[s] = promise[s]
        \/ promise'[s] = "rejected" /\ "ERROR" \in Head(chunks[s]) /\ promise[s] = "pending"
    BY <1>1 DEF OnData, DataPassword, DataNoPassword, OnError, Callback, Terminals
  <2>5. \/ tty'[s] = tty[s]
        \/ Interactive(s) /\ \E l \in Seq(Lines) : tty'[s] = tty[s] \o l
    <3>1. CASE Interactive(s)
      <4>1. \A c : ((IF "failed" \in c THEN <<"toRun">> ELSE <<>>)
                    \o (IF "prompt" \in c THEN <<"password", "exit">> ELSE <<>>)) \in Seq(Lines)
        <5>1. /\ <<"toRun">> \in Seq(Lines) /\ <<"password", "exit">> \in Seq(Lines)
              /\ <<>> \in Seq(Lines)
          BY DEF Lines
        <5> QED  BY <5>1
      <4> QED  BY <1>1, <3>1, <4>1 DEF OnData, DataPassword, Type, Terminals
    <3>2. CASE ~Interactive(s)
      BY <1>1, <3>2 DEF OnData, DataNoPassword
    <3> QED  BY <3>1, <3>2
  <2>6. tty[s] # <<>> /\ Head(tty[s]) = "toRun" => tty'[s] # <<>> /\ Head(tty'[s]) = "toRun"
    BY <1>0, <2>5, HeadKept
  <2>7. ~Interactive(s) => tty'[s] = tty[s]
    BY <2>5
  <2> QED  BY <2>1, <2>2, <2>3, <2>4, <2>6, <2>7 DEF ShellInTurn, Interactive
<1>2. CASE TypeExit(s)
  <2>1. /\ UNCHANGED <<shell, status, chunks, promise>>
        /\ tty'[s] = tty[s] \/ tty'[s] = tty[s] \o <<"exit">>
    BY <1>2 DEF TypeExit, Type, Terminals
  <2>2. tty[s] # <<>> /\ Head(tty[s]) = "toRun" => tty'[s] # <<>> /\ Head(tty'[s]) = "toRun"
    BY <1>0, <2>1
  <2>3. \A i \in DOMAIN tty'[s] : tty'[s][i] = "toRun" => i \in DOMAIN tty[s] /\ tty[s][i] = "toRun"
    <3> DEFINE q == tty[s]
               r == tty[s] \o <<"exit">>
    <3>1. q \in Seq(Lines)
      BY <1>0
    <3>2. DOMAIN r = 1..(Len(q) + 1) /\ r[Len(q) + 1] = "exit" /\ \A i \in 1..Len(q) : r[i] = q[i]
      BY <3>1
    <3>3. \A i \in DOMAIN r : r[i] = "toRun" => i \in DOMAIN q /\ q[i] = "toRun"
      BY <3>1, <3>2
    <3> QED  BY <2>1, <3>3
  <2> QED  BY <2>1, <2>2, <2>3 DEF ShellInTurn, Interactive
<1>3. CASE OnExit(s)
  <2>1. /\ shell[s] = "exited" /\ shell'[s] = "gone" /\ UNCHANGED <<tty, status, chunks>>
        /\ \/ promise'[s] = promise[s]
           \/ promise'[s] = "rejected" /\ status[s] = "failed"
           \/ promise'[s] = "resolved" /\ status[s] # "failed"
    BY <1>3 DEF OnExit, Callback, Terminals
  <2>2. status[s] \in {"ok", "failed"}
    BY <2>1 DEF ShellInTurn, Terminals
  <2> QED  BY <2>1, <2>2 DEF ShellInTurn, Interactive
<1> QED  BY <1>1, <1>2, <1>3

LEMMA BashInTurn ==
    ASSUME Terminals, NEW s \in Shells, ShellInTurn(s), UNCHANGED keyring,
           \/ ReadExit(s) \/ ReadLine(s) \/ Prompt(s) \/ ReadPassphrase(s)
           \/ Succeeds(s) \/ Fails(s)
    PROVE  ShellInTurn(s)'
<1>0. chunks[s] \in Seq(SUBSET Words) /\ tty[s] \in Seq(Lines)
  BY DEF Terminals
<1>p. UNCHANGED promise
  BY DEF ReadExit, ReadLine, Prompt, ReadPassphrase, Succeeds, Fails
<1>t. tty[s] # <<>> => \A i \in DOMAIN Tail(tty[s]) :
                          i + 1 \in DOMAIN tty[s] /\ i + 1 # 1 /\ Tail(tty[s])[i] = tty[s][i + 1]
  BY <1>0
<1>1. CASE ReadExit(s)
  <2>1. /\ shell[s] = "idle" /\ tty[s] # <<>> /\ Head(tty[s]) = "exit"
        /\ shell'[s] = "exited" /\ tty'[s] = <<>> /\ UNCHANGED <<status, chunks>>
    BY <1>1 DEF ReadExit, Terminals
  <2> QED  BY <1>p, <2>1 DEF ShellInTurn, Interactive
<1>2. CASE ReadLine(s)
  <2>1. shell[s] = "idle" /\ tty[s] # <<>> /\ tty'[s] = Tail(tty[s])
    BY <1>2 DEF ReadLine, Terminals
  <2>2. ~Interactive(s) => \A i \in DOMAIN tty'[s] : tty'[s][i] # "toRun"
    BY <1>0, <1>t, <2>1 DEF ShellInTurn
  <2>3. CASE Head(tty[s]) = "toRun"
    <3>1. shell'[s] = "running" /\ UNCHANGED <<status, chunks>>
      BY <1>2, <2>3 DEF ReadLine, Terminals
    <3>2. ~Interactive(s) => status[s] = "none"
      BY <1>0, <2>1, <2>3 DEF ShellInTurn
    <3> QED  BY <1>p, <2>1, <2>2, <3>1, <3>2 DEF ShellInTurn, Interactive
  <2>4. CASE Head(tty[s]) = "password"
    <3>1. shell'[s] = "idle" /\ status'[s] = "failed" /\ chunks'[s] = Append(chunks[s], {})
      BY <1>2, <2>1, <2>4 DEF ReadLine, Prints, Terminals
    <3> QED  BY <1>p, <2>1, <2>2, <3>1 DEF ShellInTurn, Interactive
  <2> QED  BY <1>2, <2>3, <2>4 DEF ReadLine
<1>r. shell[s] \in {"running", "asking", "refused"} =>
         promise[s] # "resolved" /\ (~Interactive(s) => \A i \in DOMAIN tty[s] : tty[s][i] # "toRun")
  BY DEF ShellInTurn
<1>3. CASE Prompt(s)
  <2>1. /\ shell[s] = "running" /\ shell'[s] = "asking" /\ UNCHANGED <<tty, status>>
        /\ chunks'[s] = Append(chunks[s], {"prompt"})
    BY <1>3 DEF Prompt, Prints, Terminals
  <2>2. \A i \in DOMAIN chunks'[s] : "ERROR" \in chunks'[s][i] => status[s] # "none"
    BY <1>0, <2>1, ErrorAppended DEF ShellInTurn, Words
  <2> QED  BY <1>p, <1>r, <2>1, <2>2 DEF ShellInTurn, Interactive
<1>4. CASE ReadPassphrase(s)
  <2>1. /\ shell[s] = "asking" /\ shell'[s] \in {"running", "refused"} /\ UNCHANGED <<chunks, status>>
        /\ tty[s] # <<>> /\ tty'[s] = Tail(tty[s])
    BY <1>4 DEF ReadPassphrase, Terminals
  <2>2. ~Interactive(s) => \A i \in DOMAIN tty'[s] : tty'[s][i] # "toRun"
    BY <1>t, <1>r, <2>1
  <2> QED  BY <1>p, <1>r, <2>1, <2>2 DEF ShellInTurn, Interactive
<1>5. CASE Succeeds(s)
  <2>1. /\ shell[s] = "running" /\ shell'[s] = "idle" /\ status'[s] = "ok" /\ UNCHANGED tty
    BY <1>5 DEF Succeeds, Terminals
  <2> QED  BY <1>p, <1>r, <2>1 DEF ShellInTurn, Interactive
<1>6. CASE Fails(s)
  <2>1. /\ shell[s] \in {"running", "refused"} /\ shell'[s] = "idle" /\ status'[s] = "failed"
        /\ UNCHANGED tty
    BY <1>6 DEF Fails, Terminals
  <2> QED  BY <1>p, <1>r, <2>1 DEF ShellInTurn, Interactive
<1> QED  BY <1>1, <1>2, <1>3, <1>4, <1>5, <1>6

LEMMA ShellStepInTurn ==
    ASSUME Terminals, \A t \in Shells : ShellInTurn(t), NEW s \in Shells, PtyStep(s),
           UNCHANGED keyring
    PROVE  (\A t \in Shells : ShellInTurn(t))'
<1> SUFFICES ASSUME NEW t \in Shells PROVE ShellInTurn(t)'
  OBVIOUS
<1>1. CASE t = s
  BY <1>1, ListenerInTurn, BashInTurn DEF PtyStep
<1>2. CASE t # s
  BY <1>2, OthersUntouched, UntouchedInTurn
<1> QED  BY <1>1, <1>2

LEMMA SpawnInTurn ==
    ASSUME Terminals, \A t \in Shells : ShellInTurn(t), UNCHANGED keyring,
           UNCHANGED ptyVars \/ \E s \in Shells : Spawn(s)
    PROVE  (\A t \in Shells : ShellInTurn(t))'
<1> SUFFICES ASSUME NEW t \in Shells PROVE ShellInTurn(t)'
  OBVIOUS
<1>1. CASE UNCHANGED ptyVars
  BY <1>1 DEF ptyVars, ShellInTurn, Interactive
<1>2. ASSUME NEW s \in Shells, Spawn(s) PROVE ShellInTurn(t)'
  <2>1. CASE t = s
    BY <1>2, <2>1, SpawnedInTurn
  <2>2. CASE t # s
    BY <1>2, <2>2, OthersUntouched, UntouchedInTurn
  <2> QED  BY <2>1, <2>2
<1> QED  BY <1>1, <1>2

LEMMA CrashInTurn ==
    ASSUME Terminals, \A t \in Shells : ShellInTurn(t), Crash
    PROVE  (\A t \in Shells : ShellInTurn(t))'
<1> SUFFICES ASSUME NEW t \in Shells PROVE ShellInTurn(t)'
  OBVIOUS
<1>1. /\ shell'[t] \in {"off", "gone"} /\ (shell'[t] = "off" => shell[t] = "off")
      /\ tty'[t] = <<>> /\ chunks'[t] = <<>> /\ UNCHANGED <<status, promise, keyring>>
  BY DEF Crash, Terminals
<1> QED  BY <1>1 DEF ShellInTurn, Interactive

-----------------------------------------------------------------------------
(* Calls in turn. *)

\* No shell comes to life again, and none forgets that its command has ended.
LEMMA ShellStepQuiet ==
    ASSUME Terminals, NEW s \in Shells, PtyStep(s), NEW t \in Shells
    PROVE  /\ shell'[t] # "off" => shell[t] # "off"
           /\ Live(t)' => Live(t)
           /\ shell[t] = "gone" => shell'[t] = "gone"
           /\ status'[t] = "none" => status[t] = "none"
<1>1. CASE OnData(s) \/ TypeExit(s)
  BY <1>1 DEF OnData, TypeExit, Live
<1>2. CASE OnExit(s)
  BY <1>2 DEF OnExit, Terminals, Live
<1>3. CASE ReadExit(s)
  BY <1>3 DEF ReadExit, Terminals, Live
<1>4. CASE ReadLine(s)
  BY <1>4 DEF ReadLine, Terminals, Live
<1>5. CASE Prompt(s)
  BY <1>5 DEF Prompt, Terminals, Live
<1>6. CASE ReadPassphrase(s)
  BY <1>6 DEF ReadPassphrase, Terminals, Live
<1>7. CASE Succeeds(s)
  BY <1>7 DEF Succeeds, Terminals, Live
<1>8. CASE Fails(s)
  BY <1>8 DEF Fails, Terminals, Live
<1> QED  BY <1>1, <1>2, <1>3, <1>4, <1>5, <1>6, <1>7, <1>8 DEF PtyStep

LEMMA ShellStepCalls ==
    ASSUME Terminals, CallsInTurn, NEW s \in Shells, PtyStep(s), UNCHANGED <<clientVars, keyring>>
    PROVE  CallsInTurn'
<1>1. UNCHANGED <<method, step, command, recent, about, Current, Awaited>>
  BY DEF clientVars, Current, Awaited
<1>2. \A t \in Shells : Interactive(t)' <=> Interactive(t)
  BY DEF Interactive
<1>3. \A t \in Shells : /\ shell'[t] # "off" => shell[t] # "off"
                        /\ Live(t)' => Live(t)
                        /\ status'[t] = "none" => status[t] = "none"
  BY ShellStepQuiet
<1> QED  BY <1>1, <1>2, <1>3 DEF CallsInTurn

LEMMA CallCalls ==
    ASSUME TypeOK, CallsInTurn, NEW h \in Burns, Call(h) PROVE CallsInTurn'
<1>0. Terminals /\ about \in Seq(Burns) /\ Current \in Nat /\ Current + 1 \in Calls
  BY PtyAssumption DEF Call, TypeOK, PtyTypeOK, Terminals, Current, Calls
<1>1. /\ Current' = Current + 1 /\ about'[Current + 1] = h
      /\ \A n \in 1..Current : about'[n] = about[n]
  BY <1>0 DEF Call, Current
<1>2. /\ UNCHANGED <<method, keyring>> /\ recent' = recent \cup {h} /\ step = "idle"
      /\ command' = FirstCommand[method] /\ step' \in {"command", "write"}
  BY DEF Call
<1>3. command' \in MethodCommands[method]'
  BY <1>2 DEF TypeOK, Methods, FirstCommand, MethodCommands
<1>4. ASSUME NEW s \in Shells, shell[s] # "off", Untouched(s)
      PROVE  /\ s.call <= Current' /\ s.command \in MethodCommands[method]'
             /\ Live(s)' => /\ about'[s.call] \in recent'
                            /\ ~(~Interactive(s) /\ status[s] = "none")
                            /\ method # "broadcastTokenSwap" => about'[s.call] # h
  <2>1. s.call \in 1..Current /\ s.command \in MethodCommands[method]
    BY <1>0, <1>4 DEF CallsInTurn, Shells, Calls
  <2>2. about'[s.call] = about[s.call]
    BY <1>1, <2>1
  <2>3. Live(s)' => Live(s)
    BY <1>4 DEF Untouched, Live
  <2>4. Live(s) => about[s.call] \in recent /\ ~(~Interactive(s) /\ status[s] = "none")
    BY <1>2 DEF CallsInTurn
  <2>5. method # "broadcastTokenSwap" => h \notin recent
    BY DEF Call
  <2> QED  BY <1>0, <1>1, <1>2, <2>1, <2>2, <2>3, <2>4, <2>5
<1>5. CASE method = "generateTokenSwap"
  <2> DEFINE n == [call |-> Current + 1, command |-> "swap"]
  <2>1. n \in Shells /\ Spawn(n) /\ step' = "command"
    BY <1>0, <1>5 DEF Call, Current, Shells, Commands
  <2>2. Awaited' = n /\ n.call = Current' /\ n.command \in MethodCommands[method]'
    BY <1>1, <1>2, <1>5 DEF Awaited, FirstCommand, MethodCommands
  <2>3. \A s \in Shells : s # n => Untouched(s)
    BY <1>0, <2>1, OthersUntouched
  <2>4. ASSUME NEW s \in Shells, shell'[s] # "off", s # n PROVE shell[s] # "off" /\ Untouched(s)
    BY <2>3, <2>4 DEF Untouched
  <2>5. \A s \in Shells : s # n => (Interactive(s)' <=> Interactive(s)) /\ status'[s] = status[s]
    BY <1>2, <2>3 DEF Interactive, Untouched
  <2> HIDE DEF n
  <2>6. about'[n.call] = h /\ about'[Current'] = h /\ h \in recent'
    BY <1>1, <1>2, <2>2
  <2>7. \A s \in Shells : shell'[s] # "off" =>
          s.call <= Current' /\ s.command \in MethodCommands[method]'
    <3>1. n.call <= Current'
      BY <1>0, <1>1, <2>2
    <3> QED  BY <1>4, <2>2, <2>4, <3>1
  <2>8. ASSUME NEW s \in Shells, Live(s)'
        PROVE  /\ about'[s.call] \in recent'
               /\ ~Interactive(s)' /\ status'[s] = "none" => step' = "command" /\ s = Awaited'
               /\ /\ method' # "broadcastTokenSwap" /\ step' # "idle"
                  /\ about'[s.call] = about'[Current']
                  => s.call = Current'
    <3>1. CASE s = n
      BY <2>1, <2>2, <2>6, <3>1
    <3>2. CASE s # n
      <4>1. shell[s] # "off" /\ Untouched(s)
        BY <2>4, <2>8, <3>2 DEF Live
      <4> QED  BY <1>2, <1>4, <2>5, <2>6, <2>8, <3>2, <4>1
    <3> QED  BY <3>1, <3>2
  <2> QED  BY <1>1, <1>2, <1>3, <2>1, <2>6, <2>7, <2>8, <1>0 DEF CallsInTurn
<1>6. CASE method # "generateTokenSwap"
  <2>1. UNCHANGED ptyVars /\ step' = "write"
    BY <1>6 DEF Call
  <2>2. \A s \in Shells : Untouched(s) /\ (Interactive(s)' <=> Interactive(s))
    BY <1>2, <2>1 DEF ptyVars, Untouched, Interactive
  <2>3. \A s \in Shells : shell'[s] # "off" =>
          s.call <= Current' /\ s.command \in MethodCommands[method]'
    BY <1>4, <2>2 DEF Untouched
  <2>4. ASSUME NEW s \in Shells, Live(s)'
        PROVE  /\ about'[s.call] \in recent'
               /\ ~(~Interactive(s)' /\ status'[s] = "none")
               /\ method' # "broadcastTokenSwap" => about'[s.call] # about'[Current']
    <3>1. shell[s] # "off" /\ Untouched(s)
      BY <2>2, <2>4 DEF Live, Untouched
    <3> QED  BY <1>1, <1>2, <1>4, <2>2, <2>4, <3>1 DEF Untouched
  <2> QED  BY <1>0, <1>1, <1>2, <1>3, <2>1, <2>3, <2>4 DEF CallsInTurn
<1> QED  BY <1>5, <1>6

\* A shell is spawned for the current call, and awaited from then on, while no
\* other still runs a command that spawnNoPassword was given.
LEMMA SpawnCalls ==
    ASSUME TypeOK, CallsInTurn, NEW n \in Shells, Spawn(n), step # "idle",
           n = Awaited', step' = "command", n.call = Current, command' \in MethodCommands[method],
           \A s \in Shells : Live(s) /\ ~Interactive(s) => status[s] # "none",
           UNCHANGED <<method, recent, about, keyring>>
    PROVE  CallsInTurn'
<1>0. Terminals
  BY DEF TypeOK, PtyTypeOK, Terminals
<1>1. \A s \in Shells : s # n => Untouched(s) /\ (Interactive(s)' <=> Interactive(s))
  BY <1>0, OthersUntouched DEF Interactive
<1>2. Current' = Current /\ Current > 0 /\ Current \in Nat /\ about[Current] \in recent
  BY DEF Current, CallsInTurn, TypeOK
<1>3. n.command \in MethodCommands[method]
  BY DEF Awaited
<1>4. \A s \in Shells : shell'[s] # "off" =>
        s.call <= Current' /\ s.command \in MethodCommands[method]'
  BY <1>1, <1>2, <1>3 DEF Untouched, CallsInTurn
<1>5. ASSUME NEW s \in Shells, Live(s)'
      PROVE  /\ about'[s.call] \in recent'
             /\ ~Interactive(s)' /\ status'[s] = "none" => step' = "command" /\ s = Awaited'
             /\ /\ method' # "broadcastTokenSwap" /\ step' # "idle"
                /\ about'[s.call] = about'[Current']
                => s.call = Current'
  <2>1. CASE s = n
    BY <1>2, <2>1
  <2>2. CASE s # n
    BY <1>1, <1>2, <1>5, <2>2 DEF Untouched, Live, CallsInTurn
  <2> QED  BY <2>1, <2>2
<1> QED  BY <1>2, <1>4, <1>5 DEF CallsInTurn

\* Nothing is spawned, and nothing is awaited any more.
LEMMA StopCalls ==
    ASSUME TypeOK, CallsInTurn, UNCHANGED ptyVars, step' \in {"idle", "read"},
           step' = "read" => step # "idle",
           \A s \in Shells : Live(s) /\ ~Interactive(s) => status[s] # "none",
           UNCHANGED <<method, command, recent, about, keyring>>
    PROVE  CallsInTurn'
<1>1. \A s \in Shells : Untouched(s) /\ (Interactive(s)' <=> Interactive(s))
  BY DEF ptyVars, Untouched, Interactive
<1>2. UNCHANGED Current
  BY DEF Current
<1>3. ASSUME NEW s \in Shells, Live(s)'
      PROVE  /\ about'[s.call] \in recent'
             /\ ~(~Interactive(s)' /\ status'[s] = "none")
             /\ /\ method' # "broadcastTokenSwap" /\ step' # "idle"
                /\ about'[s.call] = about'[Current']
                => s.call = Current'
  BY <1>1, <1>2, <1>3 DEF Untouched, Live, CallsInTurn
<1>4. \A s \in Shells : shell'[s] # "off" =>
        s.call <= Current' /\ s.command \in MethodCommands[method]'
  BY <1>1, <1>2 DEF Untouched, CallsInTurn
<1> QED  BY <1>2, <1>3, <1>4 DEF CallsInTurn

LEMMA ClientStepCalls ==
    ASSUME TypeOK, \A s \in Shells : ShellInTurn(s), CallsInTurn, ClientStep \/ Crash
    PROVE  CallsInTurn'
<1>1. CASE step # "command" /\ (WriteInput \/ ReadOutput)
  <2>1. \A s \in Shells : Live(s) /\ ~Interactive(s) => status[s] # "none"
    BY <1>1 DEF CallsInTurn
  <2>2. UNCHANGED <<method, command, recent, about, keyring>> /\ step # "idle"
    BY <1>1 DEF WriteInput, ReadOutput
  <2>3. \/ UNCHANGED ptyVars /\ step' = "idle"
        \/ Spawn(Awaited) /\ step' = "command"
    BY <1>1 DEF WriteInput, ReadOutput
  <2>4. Awaited \in Shells /\ Awaited' = Awaited /\ Awaited.call = Current
    BY <2>2, AwaitedShell DEF Awaited, Current
  <2>5. command' \in MethodCommands[method]
    BY <2>2 DEF CallsInTurn
  <2> QED  BY <2>1, <2>2, <2>3, <2>4, <2>5, StopCalls, SpawnCalls
<1>2. CASE Settle
  <2>0. /\ step = "command" /\ Awaited \in Shells /\ Current \in Calls
        /\ UNCHANGED <<method, recent, about, keyring>> /\ promise[Awaited] \in {"rejected", "resolved"}
    BY <1>2, AwaitedShell DEF Settle, Calls
  <2>1. status[Awaited] # "none"
    BY <2>0 DEF ShellInTurn
  <2>2. \A s \in Shells : Live(s) /\ ~Interactive(s) => status[s] # "none"
    BY <2>1 DEF CallsInTurn
  <2>3. \/ UNCHANGED <<command, ptyVars>> /\ step' \in {"idle", "read"}
        \/ /\ command = "multisign" /\ command' = "broadcast" /\ step' = "command"
           /\ Spawn([call |-> Current, command |-> "broadcast"])
    BY <1>2, <2>0 DEF Settle
  <2>4. CASE UNCHANGED <<command, ptyVars>> /\ step' \in {"idle", "read"}
    BY <2>0, <2>2, <2>4, StopCalls
  <2>5. CASE /\ command = "multisign" /\ command' = "broadcast" /\ step' = "command"
             /\ Spawn([call |-> Current, command |-> "broadcast"])
    <3>1. /\ [call |-> Current, command |-> "broadcast"] \in Shells
          /\ [call |-> Current, command |-> "broadcast"].call = Current
      BY <2>0 DEF Shells, Commands
    <3>2. [call |-> Current, command |-> "broadcast"] = Awaited'
      BY <2>0, <2>5 DEF Awaited, Current
    <3>3. command' \in MethodCommands[method]
      BY <2>5 DEF CallsInTurn, TypeOK, Methods, MethodCommands
    <3> QED  BY <2>0, <2>2, <2>5, <3>1, <3>2, <3>3, SpawnCalls
  <2> QED  BY <2>3, <2>4, <2>5
<1>3. CASE Crash
  <2>1. /\ \A s \in Shells : shell'[s] \in {"off", "gone"} /\ (shell'[s] = "off" <=> shell[s] = "off")
        /\ UNCHANGED <<method, command, about>> /\ step' = "idle"
    BY <1>3 DEF Crash, TypeOK, PtyTypeOK
  <2> QED  BY <2>1 DEF CallsInTurn, Live, Current
<1> QED  BY <1>1, <1>2, <1>3 DEF ClientStep, WriteInput, ReadOutput

-----------------------------------------------------------------------------
(* Files in turn. *)

LEMMA OneName == \A m, n, g, h : File(m, g) = File(n, h) => m = n
BY DEF File

LEMMA OneBurn == \A g, h : File("signature", g) = File("signature", h) => g = h
BY DEF File, Shared

\* No command's output is the file a call's first command reads, and the only
\* one that is read by a later command is the one that multisign writes.
LEMMA InputsKept ==
    ASSUME TypeOK, CallsInTurn, Inputs, NEW s \in Shells, s.call <= Current, NEW v,
           files' = [files EXCEPT ![Output(s)] = v], command = "broadcast" => s.command # "multisign",
           UNCHANGED <<method, step, command, about>>
    PROVE  Inputs'
<1>1. UNCHANGED <<Current, Awaited>>
  BY DEF Current, Awaited
<1>2. \A t : UNCHANGED Input(t)
  BY DEF Input
<1>3. Output(s) \in Files /\ s.command \in Commands
  BY FilesNamed DEF Shells
<1>4. \A f : f # Output(s) => files'[f] = files[f]
  BY DEF TypeOK, PtyTypeOK
<1>5. ASSUME step \in {"command", "read"}, method # "generateTokenSwap"
      PROVE  Input([call |-> Current, command |-> FirstCommand[method]]) # Output(s)
  <2>1. InputName[FirstCommand[method]] \in {"toSign", "unsigned"}
    BY <1>5 DEF TypeOK, Methods, FirstCommand, InputName
  <2>2. OutputName[s.command] \notin {"toSign", "unsigned"}
    BY <1>3 DEF Commands, OutputName
  <2> QED  BY <2>1, <2>2, OneName DEF Input, Output
<1>6. ASSUME command = "broadcast" PROVE Input(Awaited) # Output(s)
  <2>1. InputName[command] = "signed" /\ OutputName[s.command] # "signed"
    BY <1>3, <1>6 DEF Commands, InputName, OutputName
  <2> QED  BY <2>1, OneName DEF Input, Output, Awaited
<1> QED  BY <1>1, <1>2, <1>4, <1>5, <1>6 DEF Inputs

\* The awaited command works on what was written for it.
LEMMA MakesCurrent ==
    ASSUME TypeOK, CallsInTurn, Inputs, step = "command" PROVE Made(Awaited) = Current
<1>1. CASE command = "swap"
  BY <1>1 DEF Made, Awaited
<1>2. CASE command = "broadcast"
  BY <1>2 DEF Made, Inputs, Awaited
<1>3. CASE command \notin {"swap", "broadcast"}
  <2>1. method # "generateTokenSwap" /\ command = FirstCommand[method]
    BY <1>3 DEF CallsInTurn, TypeOK, Methods, MethodCommands, FirstCommand
  <2> QED  BY <1>3, <2>1 DEF Made, Inputs, Awaited
<1> QED  BY <1>1, <1>2, <1>3

\* With spawnNoPassword's commands, the awaited one is alone in running.
LEMMA NoOtherRuns ==
    ASSUME CallsInTurn, NEW s \in Shells, ShellInTurn(s), ~Interactive(s),
           \/ shell[s] = "running"
           \/ shell[s] = "idle" /\ tty[s] # <<>> /\ Head(tty[s]) = "toRun" /\ tty[s] \in Seq(Lines)
    PROVE  step = "command" /\ s = Awaited /\ status[s] = "none"
<1>1. status[s] = "none"
  BY DEF ShellInTurn
<1> QED  BY <1>1 DEF CallsInTurn, Live

LEMMA ShellStepFiles ==
    ASSUME TypeOK, \A t \in Shells : ShellInTurn(t), CallsInTurn, FilesInTurn, Safe,
           NEW s \in Shells, PtyStep(s), UNCHANGED <<clientVars, keyring>>
    PROVE  FilesInTurn'
<1>0. Terminals /\ tty[s] \in Seq(Lines)
  BY DEF TypeOK, PtyTypeOK, Terminals
<1>1. UNCHANGED <<method, step, command, about, Current, Awaited>> /\ UNCHANGED Output(Awaited)
  BY DEF clientVars, Current, Awaited, Output
<1>2. step # "idle" => Awaited \in Shells /\ Current \in 1..MaxCalls
  BY AwaitedShell
<1>3. \A t \in Shells : shell[t] = "gone" => shell'[t] = "gone"
  BY <1>0, ShellStepQuiet
<1>4. ASSUME ~Succeeds(s), UNCHANGED files PROVE FilesInTurn'
  <2>1. Inputs'
    BY <1>1, <1>4 DEF FilesInTurn, Inputs, Input
  <2>2. \A t \in Shells : status'[t] = "ok" => status[t] = "ok"
    BY <1>0, <1>4 DEF PtyStep, OnData, TypeExit, OnExit, ReadExit, ReadLine, Prompt,
                      ReadPassphrase, Fails, Terminals
  <2> QED  BY <1>1, <1>2, <1>3, <1>4, <2>1, <2>2 DEF FilesInTurn
<1>5. ASSUME step = "command", s = Awaited, NEW v, files' = [files EXCEPT ![Output(s)] = v],
             status'[s] = "ok" => v = Current
      PROVE  FilesInTurn'
  <2>1. s.call <= Current /\ (command = "broadcast" => s.command # "multisign")
    BY <1>2, <1>5 DEF Awaited
  <2>2. Inputs'
    BY <1>1, <1>5, <2>1, InputsKept DEF FilesInTurn
  <2>3. files'[Output(Awaited)] = v
    BY <1>5, <2>1, FilesNamed DEF TypeOK, PtyTypeOK
  <2> QED  BY <1>1, <1>5, <2>2, <2>3 DEF FilesInTurn
<1>6. CASE ReadLine(s) /\ Head(tty[s]) = "toRun" /\ Redirects(s)
  <2>1. ~Interactive(s)
    <3>1. shell[s] # "off"
      BY <1>6 DEF ReadLine
    <3>2. s.command \in MethodCommands[method] /\ s.command # "signTx"
      BY <1>6, <3>1 DEF CallsInTurn, Redirects
    <3> QED  BY <3>2 DEF Interactive, Safe, TypeOK, Methods, MethodCommands
  <2>2. step = "command" /\ s = Awaited /\ status[s] = "none"
    BY <1>0, <1>6, <2>1, NoOtherRuns DEF ReadLine
  <2>3. files' = [files EXCEPT ![Output(s)] = 0] /\ status'[s] = "none"
    BY <1>6, <2>2 DEF ReadLine
  <2> QED  BY <1>5, <2>2, <2>3
<1>7. CASE Succeeds(s) /\ ~Interactive(s)
  <2>1. step = "command" /\ s = Awaited
    BY <1>7, NoOtherRuns DEF Succeeds
  <2>2. Made(s) = Current
    BY <2>1, MakesCurrent DEF FilesInTurn
  <2> QED  BY <1>5, <1>7, <2>1, <2>2 DEF Succeeds
<1>8. CASE Succeeds(s) /\ Interactive(s)
  <2>1. shell[s] = "running" /\ files' = [files EXCEPT ![Output(s)] = Made(s)]
    BY <1>8 DEF Succeeds
  <2>2. s.call <= Current /\ s.command = "signTx" /\ method = "signTx"
    <3>1. s.call <= Current /\ s.command \in MethodCommands[method]
      BY <2>1 DEF CallsInTurn
    <3> QED  BY <1>8, <3>1 DEF Interactive, Safe, TypeOK, Methods, MethodCommands
  <2>3. Inputs'
    BY <1>1, <2>1, <2>2, InputsKept DEF FilesInTurn
  <2>4. command = "signTx"
    BY <2>2 DEF CallsInTurn, MethodCommands
  <2>5. CASE s = Awaited
    <3>1. step # "read"
      BY <2>1, <2>5 DEF FilesInTurn
    <3>2. step = "command" => Made(s) = Current
      BY <2>5, MakesCurrent DEF FilesInTurn
    <3>3. step = "command" => FilesInTurn'
      BY <1>5, <2>1, <2>5, <3>2
    <3> QED  BY <1>1, <2>3, <3>1, <3>3 DEF FilesInTurn
  <2>6. CASE s # Awaited
    <3>1. ASSUME step # "idle" PROVE Output(Awaited) # Output(s)
      <4>1. s.call # Current
        BY <2>2, <2>4, <2>6 DEF Awaited, Shells
      <4>2. about[s.call] # about[Current]
        BY <2>1, <2>2, <3>1, <4>1 DEF CallsInTurn, Live
      <4> QED  BY <2>2, <2>4, <4>2, OneBurn DEF Output, Awaited, OutputName
    <3>2. step # "idle" => files'[Output(Awaited)] = files[Output(Awaited)]
      BY <2>1, <3>1 DEF TypeOK, PtyTypeOK
    <3>3. step # "idle" => status'[Awaited] = status[Awaited]
      BY <1>2, <1>8, <2>6 DEF Succeeds, TypeOK, PtyTypeOK
    <3> QED  BY <1>1, <1>2, <1>3, <2>3, <3>2, <3>3 DEF FilesInTurn
  <2> QED  BY <2>5, <2>6
<1> QED
  BY <1>4, <1>6, <1>7, <1>8 DEF PtyStep, ReadExit, ReadLine, Prompt, ReadPassphrase, Fails

LEMMA ClientStepFiles ==
    ASSUME TypeOK, \A t \in Shells : ShellInTurn(t), CallsInTurn, Safe => FilesInTurn,
           (\E h \in Burns : Call(h)) \/ ClientStep \/ Crash, Safe
    PROVE  FilesInTurn'
<1>0. files \in [Files -> 0..MaxCalls] /\ Terminals
  BY DEF TypeOK, PtyTypeOK, Terminals
<1>n. \A n \in Shells : Spawn(n) => status'[n] = "none"
  BY DEF Spawn, ShellInTurn
<1>1. ASSUME NEW h \in Burns, Call(h) PROVE FilesInTurn'
  <2>1. CASE method = "generateTokenSwap"
    <3> DEFINE n == [call |-> Len(about) + 1, command |-> "swap"]
    <3>1. Len(about) \in Nat /\ about' = Append(about, h) /\ Len(about) + 1 \in Calls
      BY <1>1, PtyAssumption DEF Call, TypeOK, Calls
    <3>2. Current' = Len(about) + 1
      BY <3>1 DEF Current, TypeOK
    <3>3. command' = "swap" /\ step' = "command" /\ method' = "generateTokenSwap" /\ Spawn(n)
      BY <1>1, <2>1 DEF Call, FirstCommand
    <3>4. n \in Shells /\ Awaited' = n
      BY <3>1, <3>2, <3>3 DEF Awaited, Shells, Commands
    <3>5. status'[Awaited'] = "none"
      BY <1>n, <3>3, <3>4
    <3> QED  BY <3>3, <3>5 DEF FilesInTurn, Inputs
  <2>2. CASE method # "generateTokenSwap"
    BY <1>1, <2>2 DEF Call, FilesInTurn, Inputs
  <2> QED  BY <2>1, <2>2
<1>2. CASE WriteInput /\ step' = "idle"
  BY <1>2 DEF FilesInTurn, Inputs
<1>3. CASE WriteInput /\ step' # "idle"
  <2>1. /\ step = "write" /\ files' = [files EXCEPT ![Input(Awaited)] = Current]
        /\ Spawn(Awaited) /\ step' = "command" /\ UNCHANGED <<method, command, about>>
    BY <1>3 DEF WriteInput
  <2>2. Awaited \in Shells /\ Awaited.call <= Current /\ command = FirstCommand[method]
    BY <2>1, AwaitedShell DEF CallsInTurn, Awaited, TypeOK, Current
  <2>3. UNCHANGED <<Current, Awaited>> /\ \A t : UNCHANGED Input(t)
    BY <2>1 DEF Current, Awaited, Input
  <2>4. command # "broadcast" /\ (method # "generateTokenSwap" => command # "swap")
    BY <2>2 DEF FirstCommand, TypeOK, Methods
  <2>5. method # "generateTokenSwap" => files'[Input(Awaited)] = Current
    BY <1>0, <2>1, <2>2, <2>4, FilesNamed DEF Awaited
  <2>6. status'[Awaited] = "none"
    BY <1>n, <2>1, <2>2
  <2>7. method # "generateTokenSwap" =>
          files'[Input([call |-> Current, command |-> FirstCommand[method]])] = Current
    BY <2>2, <2>5 DEF Awaited
  <2> QED  BY <2>1, <2>3, <2>4, <2>6, <2>7 DEF FilesInTurn, Inputs, Input
<1>4. CASE Settle
  <2>1. /\ step = "command" /\ UNCHANGED <<method, about, files>> /\ Awaited \in Shells
        /\ UNCHANGED Current /\ Current \in Calls
    BY <1>4, AwaitedShell DEF Settle, Current, Calls
  <2>2. FilesInTurn /\ Inputs
    BY DEF FilesInTurn
  <2>3. promise[Awaited] = "resolved" =>
          shell[Awaited] = "gone" /\ files[Output(Awaited)] = Current
    BY <2>1, <2>2 DEF ShellInTurn, FilesInTurn
  <2>4. CASE step' = "idle"
    BY <2>4 DEF FilesInTurn, Inputs
  <2>5. CASE /\ promise[Awaited] = "resolved" /\ command # "multisign" /\ step' = "read"
             /\ UNCHANGED <<command, ptyVars>>
    BY <2>1, <2>2, <2>3, <2>5 DEF FilesInTurn, Inputs, Awaited, Current, Input, Output, ptyVars
  <2>6. CASE /\ promise[Awaited] = "resolved" /\ command = "multisign" /\ command' = "broadcast"
             /\ UNCHANGED step /\ Spawn([call |-> Current, command |-> "broadcast"])
    <3>1. [call |-> Current, command |-> "broadcast"] \in Shells
      BY <2>1 DEF Shells, Commands
    <3>2. Awaited' = [call |-> Current, command |-> "broadcast"]
      BY <2>1, <2>6 DEF Awaited
    <3>3. status'[Awaited'] = "none"
      BY <1>n, <2>6, <3>1, <3>2
    <3>4. files'[Input(Awaited)'] = Current
      <4>1. Input(Awaited)' = Output(Awaited)
        BY <2>1, <2>6, <3>2 DEF Input, Output, InputName, OutputName, Awaited
      <4> QED  BY <2>1, <2>3, <2>6, <4>1
    <3>5. method # "generateTokenSwap" =>
            files'[Input([call |-> Current, command |-> FirstCommand[method]])'] = Current
      BY <2>1, <2>2 DEF Inputs, Input
    <3> QED  BY <2>1, <2>6, <3>3, <3>4, <3>5 DEF FilesInTurn, Inputs
  <2> QED  BY <1>4, <2>4, <2>5, <2>6 DEF Settle
<1>5. CASE ReadOutput \/ Crash
  BY <1>5 DEF ReadOutput, Crash, FilesInTurn, Inputs
<1> QED  BY <1>1, <1>2, <1>3, <1>4, <1>5 DEF ClientStep

-----------------------------------------------------------------------------
(* The theorems. *)

LEMMA InitInv == Init => IInv
<1> SUFFICES ASSUME Init PROVE IInv
  OBVIOUS
<1>1. <<>> \in Seq(Lines) /\ <<>> \in Seq(SUBSET Words) /\ <<>> \in Seq(Burns) /\ Len(<<>>) = 0
  OBVIOUS
<1>2. Terminals
  BY <1>1 DEF Init, PtyInit, Terminals
<1>3. TypeOK
  <2>1. command \in Commands /\ method \in Methods
    BY DEF Init, Methods, FirstCommand, Commands
  <2> QED
    BY <1>1, <1>2, <2>1, PtyAssumption DEF Init, PtyInit, FaultInit, TypeOK, PtyTypeOK, FaultTypeOK, Terminals
<1>4. \A s \in Shells : ShellInTurn(s)
  BY DEF Init, PtyInit, ShellInTurn
<1>5. CallsInTurn
  <2>1. command \in MethodCommands[method]
    BY DEF Init, Methods, FirstCommand, MethodCommands
  <2> QED  BY <2>1 DEF Init, PtyInit, CallsInTurn, Live
<1>6. FilesInTurn
  BY DEF Init, FilesInTurn, Inputs
<1> QED  BY <1>3, <1>4, <1>5, <1>6 DEF IInv

LEMMA StepInv == IInv /\ [Next]_vars => IInv'
<1> SUFFICES ASSUME IInv, [Next]_vars PROVE IInv'
  OBVIOUS
<1>0. TypeOK /\ Terminals /\ (\A s \in Shells : ShellInTurn(s)) /\ CallsInTurn /\ (Safe => FilesInTurn)
  BY DEF IInv, TypeOK, PtyTypeOK, Terminals
<1>1. TypeOK'
  BY <1>0, TypeStep
<1>2. ASSUME NEW s \in Shells, PtyStep(s), UNCHANGED <<clientVars, keyring>> PROVE IInv'
  <2>1. (\A t \in Shells : ShellInTurn(t))' /\ CallsInTurn'
    BY <1>0, <1>2, ShellStepInTurn, ShellStepCalls
  <2>2. Safe' => Safe
    BY <1>2 DEF Safe, clientVars
  <2>3. Safe' => FilesInTurn'
    BY <1>0, <1>2, <2>2, ShellStepFiles
  <2> QED  BY <1>1, <2>1, <2>3 DEF IInv
<1>3. CASE (\E h \in Burns : Call(h)) \/ ClientStep \/ Crash
  <2>1. UNCHANGED <<method, keyring>>
    BY <1>3 DEF Call, ClientStep, WriteInput, Settle, ReadOutput, Crash
  <2>2. (\A t \in Shells : ShellInTurn(t))'
    <3>1. ASSUME NEW h \in Burns, Call(h)
          PROVE  UNCHANGED ptyVars \/ \E s \in Shells : Spawn(s)
      <4>1. [call |-> Len(about) + 1, command |-> "swap"] \in Shells
        BY <1>0, <3>1, PtyAssumption DEF Call, TypeOK, Shells, Calls, Commands
      <4> QED  BY <3>1, <4>1 DEF Call
    <3>2. CASE ClientStep
      <4>1. ASSUME step # "idle"
            PROVE  Awaited \in Shells /\ [call |-> Current, command |-> "broadcast"] \in Shells
        BY <1>0, <4>1, AwaitedShell DEF Shells, Calls, Commands
      <4> QED  BY <3>2, <4>1, <1>0, <2>1, SpawnInTurn DEF ClientStep, WriteInput, Settle, ReadOutput
    <3> QED  BY <1>0, <1>3, <2>1, <3>1, <3>2, SpawnInTurn, CrashInTurn
  <2>3. CallsInTurn'
    BY <1>0, <1>3, CallCalls, ClientStepCalls
  <2>4. Safe' => FilesInTurn'
    BY <1>0, <1>3, <2>1, ClientStepFiles DEF Safe
  <2> QED  BY <1>1, <2>2, <2>3, <2>4 DEF IInv
<1>4. CASE UNCHANGED vars
  <2>1. (\A t \in Shells : ShellInTurn(t))'
    BY <1>0, <1>4, SpawnInTurn DEF vars
  <2>2. CallsInTurn'
    BY <1>0, <1>4 DEF vars, ptyVars, clientVars, CallsInTurn, Current, Awaited, Live, Interactive
  <2>3. Safe' => FilesInTurn'
    BY <1>0, <1>4 DEF vars, ptyVars, clientVars, FilesInTurn, Inputs, Input, Output, Current,
                      Awaited, Safe
  <2> QED  BY <1>1, <2>1, <2>2, <2>3 DEF IInv
<1> QED  BY <1>2, <1>3, <1>4 DEF Next

LEMMA Invariance == Spec => []IInv
BY InitInv, StepInv, PTL DEF Spec

\* What process.js and the client's methods keep has its type, whatever the
\* terminals print and in whatever order their events come.
THEOREM TypeCorrect == Spec => []TypeOK
<1>1. IInv => TypeOK
  BY DEF IInv
<1> QED  BY <1>1, Invariance, PTL

\* A call reads what its own command has written, whole: no shell that an
\* earlier call has left behind, and no file of another process, comes between.
THEOREM OwnOutputRead == Spec => []ReadsOwnOutput
<1>1. IInv => ReadsOwnOutput
  BY DEF IInv, ReadsOwnOutput, FilesInTurn
<1> QED  BY <1>1, Invariance, PTL

-----------------------------------------------------------------------------
(* Nobody waits for nothing. *)

\* ExitsAreDue of one terminal: only what runs or has left owes no exit.
LeavesLater(s) == shell[s] \in {"idle", "asking"} => ExitDue(s)

LEMMA ListenerLeavesLater ==
    ASSUME Terminals, NEW s \in Shells, ~Interactive(s), LeavesLater(s),
           OnData(s) \/ TypeExit(s) \/ OnExit(s)
    PROVE  LeavesLater(s)'
<1>t. /\ chunks \in [Shells -> Seq(SUBSET Words)] /\ timers \in [Shells -> Nat]
      /\ tty \in [Shells -> Seq(Lines)] /\ shell \in [Shells -> {"off", "idle", "running", "asking", "refused", "exited", "gone"}]
  BY DEF Terminals
<1>1. CASE OnData(s)
  \* The chunk is gone, its sleep has begun.
  <2>1. UNCHANGED shell
    BY <1>1 DEF OnData
  <2>2. Open(s) => timers'[s] = timers[s] + 1
    BY <1>t, <1>1 DEF OnData, DataNoPassword
  <2>3. shell[s] \in {"idle", "asking"} => Open(s)
    BY DEF Open
  <2>4. timers[s] \in Nat /\ timers[s] + 1 > 0
    BY <1>t
  <2> QED  BY <2>1, <2>2, <2>3, <2>4 DEF LeavesLater, ExitDue
<1>2. CASE TypeExit(s)
  <2>1. UNCHANGED shell
    BY <1>2 DEF TypeExit
  <2>2. ASSUME shell[s] \in {"idle", "asking"} PROVE \E i \in DOMAIN tty'[s] : tty'[s][i] = "exit"
    <3>1. tty[s] \in Seq(Lines) /\ tty'[s] = tty[s] \o <<"exit">>
      BY <1>t, <1>2, <2>2 DEF TypeExit, Type, Open
    <3>2. Len(tty[s]) + 1 \in DOMAIN tty'[s] /\ tty'[s][Len(tty[s]) + 1] = "exit"
      BY <3>1
    <3> QED  BY <3>2
  <2> QED  BY <2>1, <2>2 DEF LeavesLater, ExitDue
<1>3. CASE OnExit(s)
  BY <1>t, <1>3 DEF OnExit, LeavesLater
<1> QED  BY <1>1, <1>2, <1>3

\* Who reads a line goes on to run, or has something printed.
LEMMA BashLeavesLater ==
    ASSUME Terminals, NEW s \in Shells, LeavesLater(s),
           \/ ReadExit(s) \/ ReadLine(s) \/ Prompt(s) \/ ReadPassphrase(s)
           \/ Succeeds(s) \/ Fails(s)
    PROVE  LeavesLater(s)'
<1>t. chunks \in [Shells -> Seq(SUBSET Words)]
      /\ shell \in [Shells -> {"off", "idle", "running", "asking", "refused", "exited", "gone"}]
  BY DEF Terminals
<1>1. ASSUME NEW c, Prints(s, c) PROVE chunks'[s] # <<>>
  <2>1. chunks'[s] = Append(chunks[s], c) /\ chunks[s] \in Seq(SUBSET Words)
    BY <1>t, <1>1 DEF Prints
  <2> QED  BY <2>1
<1>2. CASE ReadExit(s) \/ ReadPassphrase(s)
  BY <1>t, <1>2 DEF ReadExit, ReadPassphrase, LeavesLater
<1>3. CASE ReadLine(s)
  BY <1>t, <1>1, <1>3 DEF ReadLine, LeavesLater, ExitDue
<1>4. CASE Prompt(s) \/ Succeeds(s) \/ Fails(s)
  BY <1>1, <1>4 DEF Prompt, Succeeds, Fails, LeavesLater, ExitDue
<1> QED  BY <1>2, <1>3, <1>4

\* bash prints its prompt, for which the first exit is typed.
LEMMA SpawnLeavesLater ==
    ASSUME Terminals, NEW s \in Shells, Spawn(s) PROVE LeavesLater(s)' /\ Open(s)'
BY DEF Spawn, Terminals, LeavesLater, ExitDue, Open

Waits(s) == step = "command" /\ promise[s] = "pending"

LEMMA ExitsDueStep == IInv /\ IInv' /\ ExitsAreDue /\ [Next]_vars => ExitsAreDue'
<1> SUFFICES ASSUME IInv, IInv', ExitsAreDue, [Next]_vars, Unattended'
             PROVE  /\ \A s \in Shells : LeavesLater(s)'
                    /\ Waits(Awaited)' => Live(Awaited)'
  BY DEF ExitsAreDue, LeavesLater, Waits, Live, Open
<1>0. TypeOK /\ Terminals /\ CallsInTurn /\ \A s \in Shells : ShellInTurn(s)
  BY DEF IInv, TypeOK, PtyTypeOK, Terminals
<1>1. Unattended
  <2>1. UNCHANGED <<method, keyring>>
    BY DEF Next, Call, ClientStep, WriteInput, Settle, ReadOutput, Crash, clientVars, vars
  <2> QED  BY <2>1 DEF Unattended
<1>2. (\A s \in Shells : LeavesLater(s)) /\ (Waits(Awaited) => Live(Awaited))
  BY <1>1 DEF ExitsAreDue, LeavesLater, Waits, Live, Open
<1>3. ASSUME NEW s \in Shells, shell[s] # "off" PROVE ~Interactive(s)
  <2>1. s.command \in MethodCommands[method] /\ method \in Methods
    BY <1>0, <1>3 DEF CallsInTurn, TypeOK
  <2> QED  BY <1>1, <2>1 DEF Unattended, Interactive, MethodCommands, Methods
<1>4. ASSUME NEW s \in Shells, Untouched(s), LeavesLater(s) PROVE LeavesLater(s)'
  BY <1>4 DEF Untouched, LeavesLater, ExitDue
<1>5. ASSUME NEW s \in Shells, PtyStep(s), UNCHANGED <<clientVars, keyring>>
      PROVE  (\A t \in Shells : LeavesLater(t)') /\ (Waits(Awaited)' => Live(Awaited)')
  <2>1. LeavesLater(s)'
    <3>1. CASE OnData(s) \/ TypeExit(s) \/ OnExit(s)
      <4>1. shell[s] = "off" => UNCHANGED shell \/ LeavesLater(s)'
        BY <3>1 DEF OnData, TypeExit, OnExit
      <4>2. shell[s] = "off" => LeavesLater(s)'
        BY <4>1 DEF LeavesLater
      <4> QED  BY <1>0, <1>2, <1>3, <3>1, <4>2, ListenerLeavesLater
    <3> QED  BY <1>0, <1>2, <1>5, <3>1, BashLeavesLater DEF PtyStep
  <2>2. \A t \in Shells : t # s => Untouched(t)
    BY <1>0, <1>5, OthersUntouched
  <2>3. \A t \in Shells : LeavesLater(t)'
    BY <1>2, <1>4, <2>1, <2>2
  <2>4. ASSUME Waits(Awaited)' PROVE Live(Awaited)'
    <3>1. Awaited' = Awaited /\ step = "command" /\ Awaited \in Shells
      BY <1>0, <1>5, <2>4, AwaitedShell DEF Awaited, Current, clientVars, Waits
    <3>2. CASE Awaited # s
      BY <1>2, <2>2, <2>4, <3>1, <3>2 DEF Untouched, Waits, Live
    <3>3. CASE Awaited = s
      <4>1. promise'[s] = "pending" => promise[s] = "pending" /\ ~OnExit(s)
        BY <1>0, <1>5 DEF PtyStep, OnData, DataPassword, DataNoPassword, OnError, Callback,
                          TypeExit, OnExit, ReadExit, ReadLine, Prompt, ReadPassphrase, Succeeds,
                          Fails, Terminals
      <4>2. promise'[s] = "pending"
        BY <2>4, <3>1, <3>3 DEF Waits
      <4>3. Live(s)
        BY <1>2, <3>1, <3>3, <4>1, <4>2 DEF Waits
      <4>4. Live(s)'
        BY <1>0, <1>5, <4>1, <4>2, <4>3
           DEF PtyStep, OnData, TypeExit, ReadExit, ReadLine, Prompt, ReadPassphrase, Succeeds,
               Fails, Terminals, Live
      <4> QED  BY <3>1, <3>3, <4>4
    <3> QED  BY <3>2, <3>3
  <2> QED  BY <2>3, <2>4
<1>6. ASSUME NEW s \in Shells, Spawn(s) PROVE \A t \in Shells : LeavesLater(t)'
  BY <1>0, <1>2, <1>4, <1>6, OthersUntouched, SpawnLeavesLater
<1>7. ASSUME UNCHANGED ptyVars PROVE \A t \in Shells : LeavesLater(t)'
  BY <1>2, <1>7 DEF ptyVars, LeavesLater, ExitDue
<1>8. ASSUME NEW s \in Shells, Spawn(s), Awaited' = s
      PROVE  (\A t \in Shells : LeavesLater(t)') /\ (Waits(Awaited)' => Live(Awaited)')
  <2>1. Open(s)'
    BY <1>0, <1>8, SpawnLeavesLater
  <2> QED  BY <1>6, <1>8, <2>1 DEF Live, Open
<1>9. ASSUME NEW h \in Burns, Call(h)
      PROVE  (\A t \in Shells : LeavesLater(t)') /\ (Waits(Awaited)' => Live(Awaited)')
  <2>1. about' = Append(about, h) /\ about \in Seq(Burns) /\ Len(about) + 1 \in Calls
    BY <1>0, <1>9, PtyAssumption DEF Call, TypeOK, Calls
  <2>2. Current' = Len(about) + 1
    BY <2>1 DEF Current
  <2>3. CASE method = "generateTokenSwap"
    <3> DEFINE s == [call |-> Len(about) + 1, command |-> "swap"]
    <3>1. s \in Shells /\ Spawn(s) /\ Awaited' = s
      BY <1>9, <2>1, <2>2, <2>3 DEF Call, Shells, Commands, Awaited, FirstCommand
    <3> QED  BY <1>8, <3>1
  <2>4. CASE method # "generateTokenSwap"
    BY <1>7, <1>9, <2>4 DEF Call, Waits
  <2> QED  BY <2>3, <2>4
<1>10. CASE WriteInput
  <2>1. Awaited \in Shells /\ Awaited' = Awaited
    BY <1>0, <1>10, AwaitedShell DEF WriteInput, Awaited, Current
  <2> QED  BY <1>7, <1>8, <1>10, <2>1 DEF WriteInput, Waits
<1>11. CASE Settle
  <2>1. [call |-> Current, command |-> "broadcast"] \in Shells
    BY <1>0, <1>11, AwaitedShell DEF Settle, Shells, Calls, Commands
  <2>2. command' = "broadcast" => Awaited' = [call |-> Current, command |-> "broadcast"]
    BY <1>11 DEF Settle, Awaited, Current
  <2> QED  BY <1>7, <1>8, <1>11, <2>1, <2>2 DEF Settle, Waits
<1>12. CASE ReadOutput \/ Crash
  <2>1. step' = "idle"
    BY <1>12 DEF ReadOutput, Crash
  <2>2. \A t \in Shells : LeavesLater(t)'
    BY <1>7, <1>12 DEF ReadOutput, Crash, LeavesLater
  <2> QED  BY <2>1, <2>2 DEF Waits
<1>13. CASE UNCHANGED vars
  BY <1>2, <1>7, <1>13 DEF vars, ptyVars, clientVars, Waits, Live, Awaited, Current
<1> QED  BY <1>5, <1>9, <1>10, <1>11, <1>12, <1>13 DEF Next, ClientStep

\* Nobody waits for nothing: where nothing runs an `exit` is due, and a call
\* awaits a terminal that has not left without answering (process.js:24-51).
THEOREM ExitsDue == Spec => []ExitsAreDue
<1>1. Init => ExitsAreDue
  BY DEF Init, PtyInit, ExitsAreDue
<1> QED  BY <1>1, Invariance, ExitsDueStep, PTL DEF Spec
=============================================================================
