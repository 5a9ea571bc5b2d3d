--------------------------------- MODULE Pty ---------------------------------
(***************************************************************************)
(* common/process.js: a chain client command is typed into a bash of its own *)
(* on a pseudo-terminal, and what the terminal prints and how bash exits     *)
(* decide the promise.  bash, the client and the terminal are external:      *)
(* `tty` holds the typed lines nobody has read, and whoever is in front      *)
(* reads the next one, bash as a command, a prompting client as a            *)
(* passphrase.  `shell[s]` is                                               *)
(*   off       not spawned                                                  *)
(*   idle      bash reads                                                   *)
(*   running   the client runs                                              *)
(*   asking    the client reads a passphrase                                *)
(*   refused   the client was given another passphrase; it will fail        *)
(*   exited    bash is gone, the exit event is not delivered yet            *)
(*   gone      the exit event is delivered, or the process was lost         *)
(* What is typed after bash has left, nobody reads.  A chunk is the set of   *)
(* the words in it that its listener looks for.  Chunks are delivered in     *)
(* order, the exit event before or after those that are left: node-pty's    *)
(* order of the two is not relied upon.                                     *)
(***************************************************************************)
EXTENDS Naturals, Sequences, Faults

CONSTANTS Burns,
          MaxCalls,     \* bound: calls of the client's methods
          MaxPrompts    \* bound: prompts of one run of a command

ASSUME PtyAssumption == MaxCalls \in Nat /\ MaxPrompts \in Nat

Calls == 1..MaxCalls
Commands == {"swap", "signTx", "multisign", "broadcast"}
Shells == [call : Calls, command : Commands]

VARIABLES keyring,    \* config.keyringBackend: "test", or one with a password
          about,      \* about[n]: the burn that call n concerns
          files,      \* files[f]: the call whose data file f holds, 0 if none
          tty, shell,
          status,     \* status[s]: bash's $?, "none" before the first command
          prompts,    \* prompts[s]: prompts of the run so far
          chunks,     \* chunks[s]: printed, not delivered
          timers,     \* timers[s]: sleep(200)s at whose end 'exit' is typed
          promise     \* promise[s]: "none", "pending", "resolved", "rejected"

ptyVars == <<tty, shell, status, prompts, chunks, timers, promise>>

PtyInit ==
    /\ keyring \in {"test", "os"}
    /\ tty = [s \in Shells |-> <<>>]
    /\ shell = [s \in Shells |-> "off"]
    /\ status = [s \in Shells |-> "none"]
    /\ prompts = [s \in Shells |-> 0]
    /\ chunks = [s \in Shells |-> <<>>]
    /\ timers = [s \in Shells |-> 0]
    /\ promise = [s \in Shells |-> "none"]

Open(s) == shell[s] \notin {"off", "exited", "gone"}

\* Run by spawnAndInputPassword; every other command by spawnNoPassword.
Interactive(s) == keyring # "test" /\ s.command \in {"swap", "signTx"}

---------------------------------------------------------------------------
(* The files a command names.  NoFile stands for the arguments of `swap`.     *)

Names == {"request", "toSign", "signature", "unsigned", "signed", "txhash"}
\* unsigned.json and unsigned_operator.json are one file for all burns.
Shared == {"request", "toSign"}
Files == [name : Names, burns : {Burns} \cup {{h} : h \in Burns}]
File(name, h) == [name |-> name, burns |-> IF name \in Shared THEN Burns ELSE {h}]

InputName == [signTx |-> "toSign", multisign |-> "unsigned", broadcast |-> "signed"]
OutputName == [swap |-> "request", signTx |-> "signature", multisign |-> "signed",
               broadcast |-> "txhash"]

Input(s) == File(InputName[s.command], about[s.call])
Output(s) == File(OutputName[s.command], about[s.call])

\* appendOutputFile: `> file` empties the file when the command starts.
Redirects(s) == s.command # "signTx"

\* What the command makes its output of: its arguments, or its input file.
Made(s) == IF s.command = "swap" THEN s.call ELSE files[Input(s)]

---------------------------------------------------------------------------
(* process.js. *)

\* spawnProcess, the handlers, and write(toRun).  bash prints its prompt.
Spawn(s) ==
    /\ shell[s] = "off"
    /\ shell' = [shell EXCEPT ![s] = "idle"]
    /\ tty' = [tty EXCEPT ![s] = <<"toRun">>]
    /\ chunks' = [chunks EXCEPT ![s] = <<{}>>]
    /\ promise' = [promise EXCEPT ![s] = "pending"]
    /\ UNCHANGED <<status, prompts, timers>>

\* The callback of util.promisify: only its first call counts.
Callback(s, outcome) ==
    promise' = IF promise[s] = "pending" THEN [promise EXCEPT ![s] = outcome] ELSE promise

Type(s, lines) == tty' = IF Open(s) THEN [tty EXCEPT ![s] = @ \o lines] ELSE tty

OnError(s, chunk) ==
    IF "ERROR" \in chunk THEN Callback(s, "rejected") ELSE UNCHANGED promise

\* Mutant of DataNoPassword: `exit` is for the commands that failed.
DataExitOnError(s, chunk) ==
    /\ OnError(s, chunk)
    /\ timers' = IF Open(s) /\ "ERROR" \in chunk THEN [timers EXCEPT ![s] = @ + 1] ELSE timers
    /\ UNCHANGED tty

\* onData of spawnNoPassword: every chunk starts a sleep(200).
DataNoPassword(s, chunk) ==
    /\ OnError(s, chunk)
    /\ timers' = IF Open(s) THEN [timers EXCEPT ![s] = @ + 1] ELSE timers
    /\ UNCHANGED tty

\* onData of spawnAndInputPassword.
DataPassword(s, chunk) ==
    /\ OnError(s, chunk)
    /\ Type(s, (IF "failed" \in chunk THEN <<"toRun">> ELSE <<>>)
               \o (IF "prompt" \in chunk THEN <<"password", "exit">> ELSE <<>>))
    /\ UNCHANGED timers

OnData(s) ==
    /\ chunks[s] # <<>>
    /\ chunks' = [chunks EXCEPT ![s] = Tail(@)]
    /\ IF Interactive(s) THEN DataPassword(s, Head(chunks[s]))
                         ELSE DataNoPassword(s, Head(chunks[s]))
    /\ UNCHANGED <<shell, status, prompts>>

\* Mutant of TypeExit: a sleep that has ended is not forgotten.
TypeExitAgain(s) ==
    /\ Open(s) /\ shell[s] = "idle"
    /\ timers' = [timers EXCEPT ![s] = @ - 1]
    /\ Type(s, <<"exit">>)
    /\ UNCHANGED <<shell, status, prompts, chunks, promise>>

\* Mutant of TypeExit: a call that is settled has nothing left to type.
TypeExitWhilePending(s) ==
    /\ timers[s] > 0
    /\ timers' = [timers EXCEPT ![s] = @ - 1]
    /\ IF promise[s] = "pending" THEN Type(s, <<"exit">>) ELSE UNCHANGED tty
    /\ UNCHANGED <<shell, status, prompts, chunks, promise>>

\* A sleep(200) is over.
TypeExit(s) ==
    /\ timers[s] > 0
    /\ timers' = [timers EXCEPT ![s] = @ - 1]
    /\ Type(s, <<"exit">>)
    /\ UNCHANGED <<shell, status, prompts, chunks, promise>>

\* Mutant of OnExit: the exit code is not looked at.
OnAnyExit(s) ==
    /\ shell[s] = "exited"
    /\ shell' = [shell EXCEPT ![s] = "gone"]
    /\ Callback(s, "resolved")
    /\ UNCHANGED <<tty, status, prompts, chunks, timers>>

\* onExit of both.
OnExit(s) ==
    /\ shell[s] = "exited"
    /\ shell' = [shell EXCEPT ![s] = "gone"]
    /\ Callback(s, IF status[s] = "failed" THEN "rejected" ELSE "resolved")
    /\ UNCHANGED <<tty, status, prompts, chunks, timers>>

---------------------------------------------------------------------------
(* bash and the client. *)

Prints(s, chunk) == chunks' = [chunks EXCEPT ![s] = Append(@, chunk)]

\* bash reads `exit`, and leaves with $?.
ReadExit(s) ==
    /\ shell[s] = "idle"
    /\ tty[s] # <<>> /\ Head(tty[s]) = "exit"
    /\ shell' = [shell EXCEPT ![s] = "exited"]
    /\ tty' = [tty EXCEPT ![s] = <<>>]
    /\ timers' = [timers EXCEPT ![s] = 0]
    /\ prompts' = [prompts EXCEPT ![s] = 0]
    /\ UNCHANGED <<status, chunks, promise, files>>

\* bash reads a line: it runs the command, or knows no command of that name.
ReadLine(s) ==
    /\ shell[s] = "idle"
    /\ tty[s] # <<>>
    /\ tty' = [tty EXCEPT ![s] = Tail(@)]
    /\ \/ /\ Head(tty[s]) = "toRun"
          /\ shell' = [shell EXCEPT ![s] = "running"]
          /\ prompts' = [prompts EXCEPT ![s] = 0]
          /\ files' = IF Redirects(s) THEN [files EXCEPT ![Output(s)] = 0] ELSE files
          /\ UNCHANGED <<status, chunks>>
       \/ /\ Head(tty[s]) = "password"
          /\ status' = [status EXCEPT ![s] = "failed"]
          /\ Prints(s, {})
          /\ UNCHANGED <<shell, prompts, files>>
    /\ UNCHANGED <<timers, promise>>

\* The client needs a key (`broadcast` needs none) of a keyring with a password.
Prompt(s) ==
    /\ shell[s] = "running"
    /\ keyring # "test" /\ s.command # "broadcast"
    /\ prompts[s] < MaxPrompts
    /\ prompts' = [prompts EXCEPT ![s] = @ + 1]
    /\ shell' = [shell EXCEPT ![s] = "asking"]
    /\ Prints(s, {"prompt"})
    /\ UNCHANGED <<tty, status, timers, promise, files>>

ReadPassphrase(s) ==
    /\ shell[s] = "asking"
    /\ tty[s] # <<>>
    /\ tty' = [tty EXCEPT ![s] = Tail(@)]
    /\ shell' = [shell EXCEPT ![s] = IF Head(tty[s]) = "password" THEN "running" ELSE "refused"]
    /\ UNCHANGED <<status, prompts, chunks, timers, promise, files>>

Succeeds(s) ==
    /\ shell[s] = "running"
    /\ Made(s) # 0
    /\ files' = [files EXCEPT ![Output(s)] = Made(s)]
    /\ status' = [status EXCEPT ![s] = "ok"]
    /\ shell' = [shell EXCEPT ![s] = "idle"]
    /\ Prints(s, {})
    /\ NoFault
    /\ UNCHANGED <<tty, prompts, timers, promise>>

\* It fails and says so in words of its own; it has written nothing.
Fails(s) ==
    /\ \/ shell[s] = "refused" /\ NoFault
       \/ shell[s] = "running" /\ Made(s) = 0 /\ NoFault
       \/ shell[s] = "running" /\ Fault("cli")
    /\ status' = [status EXCEPT ![s] = "failed"]
    /\ shell' = [shell EXCEPT ![s] = "idle"]
    /\ \E chunk \in SUBSET (IF Interactive(s) THEN {"failed", "ERROR"} ELSE {"ERROR"}) :
          Prints(s, chunk)
    /\ UNCHANGED <<tty, prompts, timers, promise, files>>

PtyStep(s) ==
    \/ (OnData(s) \/ TypeExit(s) \/ OnExit(s)) /\ NoFault /\ UNCHANGED files
    \/ (ReadExit(s) \/ ReadLine(s) \/ Prompt(s) \/ ReadPassphrase(s)) /\ NoFault
    \/ Succeeds(s) \/ Fails(s)

Lines == {"toRun", "password", "exit"}
Words == {"failed", "ERROR", "prompt"}

PtyTypeOK ==
    /\ keyring \in {"test", "os"}
    /\ files \in [Files -> 0..MaxCalls]
    /\ tty \in [Shells -> Seq(Lines)]
    /\ shell \in [Shells -> {"off", "idle", "running", "asking", "refused", "exited", "gone"}]
    /\ status \in [Shells -> {"none", "ok", "failed"}]
    /\ prompts \in [Shells -> Nat]
    /\ chunks \in [Shells -> Seq(SUBSET Words)]
    /\ timers \in [Shells -> Nat]
    /\ promise \in [Shells -> {"none", "pending", "resolved", "rejected"}]
=============================================================================
