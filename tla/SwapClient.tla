----------------------------- MODULE SwapClient -----------------------------
(***************************************************************************)
(* common/cli_swap_client.js: the methods that run commands and exchange     *)
(* files with them.  A process calls one of them at a time, for one burn     *)
(* after the other (the leader's two loops use different files and are two   *)
(* instances).  `step` is what the call awaits:                             *)
(*   idle      no call                                                      *)
(*   write     writeFile of what the first command reads                    *)
(*   command   the promise of `command`                                     *)
(*   read      readFile of the last command's output                        *)
(* A promise rejected because of an ERROR leaves its shell behind, which     *)
(* goes on while the next call is at work.                                  *)
(***************************************************************************)
EXTENDS Pty

VARIABLES method,     \* the method this process calls
          step,
          command,    \* the command that is awaited, or was last
          recent      \* burns called for since the process started

clientVars == <<method, step, command, recent, about>>

vars == <<ptyVars, clientVars, keyring, files, faults>>

Methods == {"generateTokenSwap", "signTx", "broadcastTokenSwap"}

FirstCommand == [generateTokenSwap |-> "swap", signTx |-> "signTx",
                 broadcastTokenSwap |-> "multisign"]

Init ==
    /\ PtyInit
    /\ FaultInit
    /\ files = [f \in Files |-> 0]
    /\ about = <<>>
    /\ method \in Methods
    /\ step = "idle"
    /\ command = FirstCommand[method]
    /\ recent = {}

Current == Len(about)
Awaited == [call |-> Current, command |-> command]

\* A call for burn h.  The watcher yields a burn once per process, so that it
\* is generated or signed once; it is broadcast as often as the leader retries.
\* generateTokenSwap has nothing to write first.
Call(h) ==
    /\ step = "idle"
    /\ Len(about) < MaxCalls
    /\ method # "broadcastTokenSwap" => h \notin recent
    /\ about' = Append(about, h)
    /\ recent' = recent \cup {h}
    /\ command' = FirstCommand[method]
    /\ IF method = "generateTokenSwap"
       THEN /\ step' = "command"
            /\ Spawn([call |-> Len(about) + 1, command |-> "swap"])
       ELSE step' = "write" /\ UNCHANGED ptyVars
    /\ NoFault
    /\ UNCHANGED <<method, keyring, files>>

\* writeFile of the unsigned transaction (and of the signatures), then the
\* first command; or the file cannot be written and the call rejects.
WriteInput ==
    /\ step = "write"
    /\ \/ /\ files' = [files EXCEPT ![Input(Awaited)] = Current]
          /\ Spawn(Awaited)
          /\ step' = "command"
          /\ NoFault
       \/ /\ Fault("file")
          /\ step' = "idle"
          /\ UNCHANGED <<files, ptyVars>>
    /\ UNCHANGED <<method, command, recent, about, keyring>>

\* The promise of the command is settled.
Settle ==
    /\ step = "command"
    /\ \/ /\ promise[Awaited] = "rejected"
          /\ step' = "idle"
          /\ UNCHANGED <<command, ptyVars>>
       \/ /\ promise[Awaited] = "resolved"
          /\ command = "multisign"
          /\ command' = "broadcast"
          /\ Spawn([call |-> Current, command |-> "broadcast"])
          /\ UNCHANGED step
       \/ /\ promise[Awaited] = "resolved"
          /\ command # "multisign"
          /\ step' = "read"
          /\ UNCHANGED <<command, ptyVars>>
    /\ NoFault
    /\ UNCHANGED <<method, recent, about, keyring, files>>

\* readFile, and the call returns what the file holds, or rejects.
ReadOutput ==
    /\ step = "read"
    /\ NoFault \/ Fault("file")
    /\ step' = "idle"
    /\ UNCHANGED <<method, command, recent, about, keyring, files, ptyVars>>

\* The process is lost, and with its terminals every shell; another is started.
Crash ==
    /\ Fault("crash")
    /\ step' = "idle"
    /\ recent' = {}
    /\ shell' = [s \in Shells |-> IF shell[s] = "off" THEN "off" ELSE "gone"]
    /\ tty' = [s \in Shells |-> <<>>]
    /\ chunks' = [s \in Shells |-> <<>>]
    /\ timers' = [s \in Shells |-> 0]
    /\ UNCHANGED <<status, prompts, promise, method, command, about, keyring, files>>

ClientStep == WriteInput \/ Settle \/ ReadOutput

Next ==
    \/ \E h \in Burns : Call(h)
    \/ ClientStep
    \/ \E s \in Shells : PtyStep(s) /\ UNCHANGED <<clientVars, keyring>>
    \/ Crash

Spec == Init /\ [][Next]_vars

\* Timers fire, events are delivered, bash reads, the client comes to an end.
FairSpec ==
    /\ Spec
    /\ WF_vars(ClientStep)
    /\ \A s \in Shells :
          /\ WF_vars((OnData(s) \/ OnExit(s)) /\ NoFault
                     /\ UNCHANGED <<clientVars, keyring, files>>)
          /\ WF_vars(TypeExit(s) /\ NoFault /\ UNCHANGED <<clientVars, keyring, files>>)
          /\ WF_vars((ReadExit(s) \/ ReadLine(s) \/ ReadPassphrase(s) \/ Succeeds(s) \/ Fails(s))
                     /\ NoFault /\ UNCHANGED <<clientVars, keyring>>)

TypeOK ==
    /\ PtyTypeOK /\ FaultTypeOK
    /\ method \in Methods
    /\ step \in {"idle", "write", "command", "read"}
    /\ command \in Commands
    /\ recent \subseteq Burns
    /\ about \in Seq(Burns) /\ Len(about) <= MaxCalls

---------------------------------------------------------------------------

\* What a call is about to read was written by its own command, whole, however
\* many shells of earlier calls are still open, and whatever files a process
\* before it left behind.  (Not so for generateTokenSwap with a password: a
\* shell left behind by 'ERROR' and 'failed' in one chunk runs its command
\* again, into the file that all burns share.)
Safe == method = "generateTokenSwap" => keyring = "test"
ReadsOwnOutput == Safe /\ step = "read" => files[Output(Awaited)] = Current

\* The commands that spawnNoPassword runs: its `exit` does not wait for a
\* prompt, as that of spawnAndInputPassword does.
Unattended == method = "broadcastTokenSwap" \/ keyring = "test"

\* No call that runs such commands waits for ever: one chunk is enough for the
\* `exit` behind which bash leaves, however the command came out.
CallsEnd == Unattended => []<>(step = "idle")

\* Nor does a shell stay open behind a call that was rejected early: its
\* pseudo-terminal is given back.
ShellsEnd == Unattended => <>[](\A s \in Shells : ~Open(s))

\* What both rest on: a terminal that is read by bash, or by a client that asks
\* for a passphrase, has an `exit` before it, on its way, or due for what was
\* printed, although a prompt may swallow one and only output types the next
\* (process.js:41-49); and a call does not await a terminal that is gone.
ExitDue(s) ==
    \/ chunks[s] # <<>> \/ timers[s] > 0
    \/ \E i \in DOMAIN tty[s] : tty[s][i] = "exit"

ExitsAreDue ==
    Unattended =>
        /\ \A s \in Shells : shell[s] \in {"idle", "asking"} => ExitDue(s)
        /\ step = "command" /\ promise[Awaited] = "pending" =>
              Open(Awaited) \/ shell[Awaited] = "exited"
=============================================================================
