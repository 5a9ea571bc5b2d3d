# Formal model of scrt-swap

scrt-swap lets the holder of an ERC20 token burn it on Ethereum and be given
native coins on the Secret Network.  A burn is a call of `EngSwap.burnFunds`,
whose `LogBurn` event names the recipient.  A *leader* turns every such event
into an unsigned multisig transaction and stores it in MongoDB; *operators*
check that the burn is deep enough in the chain and store their signatures;
the leader broadcasts the transaction once there are `multisigThreshold`
signatures and follows it until the Secret Network knows the burn.

There is no transaction, no lock and almost no acknowledged write anywhere in
this service: its correctness rests on one number, the sequence number of the
multisig account that a swap document is given once and that every transaction
made for it carries.  The modules here say what follows from that, and what
does not.

## 1. Inventory

| Component | State | Operations | Correct when |
|---|---|---|---|
| Leader, broadcast loop (`leader/index.js:100-200`) | `broadcasting`; results of queries held across awaits; `statusCheck` timers | recheck failed swaps, look for swaps in progress, pick a candidate, broadcast, verify, retry; `stopBroadcasting`, `updateFailedSwap` | a burn is minted at most once, with enough signatures; CONFIRMED means minted; everything is confirmed in the end |
| Leader, burn log loop (`leader/index.js:61-71, 202-250`) | the local `sequenceNumber`, `done` | `getSequence`, per event: `fetchSwap`, `generateTokenSwap`, `insertUnsignedSwap`; `stop` | every burn gets one document, no two get one sequence number, none is skipped |
| Operator (`operator/index.js`) | `done` | per event: `fetchSwap`, `signTx`, `insertSignature`; exit on error | only final burns are signed; every final burn is |
| Burn watcher (`common/burn_watcher.js`) | `fromBlock`, `watching`, where the generator is suspended | poll, yield, stop | every event is yielded, and not before it has its confirmations |
| Database (`common/db.js`) | the collections `swap` and `signature`; requests in flight | queries; `updateSwapStatus`, `insertUnsignedSwap`, `insertSignature` | what callers believe written is written, in their order |
| Chain client (`common/cli_swap_client.js`) | files in a directory, some shared by all burns | `isSwapDone`, `broadcastTokenSwap`, `signTx`, `generateTokenSwap`, account queries | a call returns what its own command wrote |
| Command runner (`common/process.js`) | pseudo-terminals with a shell each, `sleep(200)` timers, callbacks | spawn a command, with or without a password | every command is answered once, and its shell ends |
| Server process (`server.js`) | a process | start, sleep three seconds, run one role, tear down | errors end the process, so that the host restarts it |
| `EngSwap` contract (`contracts/EngSwap.sol`) | `burnNonce`, `totalBurnt`; the token's balances and allowances | `burnFunds` | a burn moves exactly its amount and has a nonce of its own |
| Web client (`client/src/App.js`) | the form, `loading`, errors, balance | edit, submit (approve, then burn), account and network switches | what is burnt is what was submitted |
| Configuration, logger, helpers, migrations, tests | static | none that changes state | |

The parts share only the database and the two chains.  The leader's two loops
share a process (and die together) but no variable except that a failed
broadcast calls `stop()`.  Nothing tells an operator that a burn was
registered, or the leader that it was signed: they poll.

What is hard here, with the lines, is listed under `hazards` in
`PROJECT.json`.  The main ones:

* **Writes nobody waits for.**  `updateSwapStatus`, `insertUnsignedSwap` and
  `insertSignature` resolve before MongoDB has the request.  Status writes of
  the verification, of a late timer and of the next round overtake each other.
* **State read before an await and used after it.**  Snapshots of swaps, the
  candidate and its signatures, the block height and the events.
* **Retries of what was already done.**  A submitted swap is retried after one
  interval, whether or not its transaction is on its way.
* **Crashes.**  `fromBlock` is in memory, so a restart replays every event.
* **Shells that outlive their calls.**  A command is typed into a bash; a chunk
  that says ERROR rejects the call while the shell goes on, and the next call
  writes files of the same names.
* **One form, many calls.**  Every call of `initiateSwap` reads the form,
  the allowance and the balance at moments of its own, while the user types, the
  wallet switches accounts and another call is at work.
* **Errors caught one level too low, or nowhere.**  The burn log loop logs and
  goes on; the broadcast loop's promise has no handler.

## 2. Modules

| Module | Models | Kind |
|---|---|---|
| `Parties`, `Faults` | burns and operators; the failures a run admits, bounded by `MaxFaults` | parameters |
| `SecretChain` | the multisig account: `chainSequence`, `mempool`, `ledger` | external |
| `EthChain` | block height, the block of each event, reorganisations | external |
| `SwapDb` | `common/db.js`: `swaps`, `signatures`, `updates` in flight | component |
| `LeaderBroadcast` | `broadcastSignedSwaps`, `statusCheck`, the status methods, the process they run in | component |
| `BroadcastSystem` | the above with the database, the Secret Network and the two writers that feed it | composition, properties |
| `MintQueue` | what the broadcast side promises: tickets served in turn, once, with enough approvals | abstract specification |
| `BurnWatcher` | `watchBurnLog`, one instance per process | component |
| `LeaderRun` | `getSequence`, `run`, `stop`, `insertUnsignedSwap` in flight | component |
| `OperatorRun` | `Operator.run`, `stop`, `insertSignature` in flight | component |
| `RegistrationSystem` | watcher, burn log loop, operators, Ethereum, database | composition, properties |
| `SwapSystem` | the service: both halves in one specification, the leader's loops in one process | composition, properties |
| `Bridge` | what the whole service promises, from the burn to the report of the mint | abstract specification |
| `Pty` | `common/process.js`: shells, listeners, timers, promises; bash and the client are external | component |
| `SwapClient` | the methods of `cli_swap_client.js` that run commands, and their files | component, properties |
| `EngSwap` | `burnFunds` and the token it moves, `uint256` of `Width` bits | component |
| `SwapForm` | the form: fields, wallet events, balance queries, `initiateSwap` | component |
| `FormSystem` | the form, the contracts, their other callers | composition, properties |
| `MCBroadcast`, `MCRegistration`, `MCForm`, `MCSwap` | instances for TLC, with symmetry sets | model checking |
| `BroadcastProofs`, `RegistrationProofs`, `GaplessProofs`, `SwapProofs`, `BridgeProofs`, `ClientProofs`, `FormProofs` | theorems about the module of that name; `GaplessProofs` about `RegistrationSystem`, `BridgeProofs` about `SwapSystem` | proofs |
| `SumProofs` | lemmas about `EngSwap`'s sums, for `FormProofs` | proofs |

**Actions and code.**  JavaScript runs one callback at a time, so an action is
the code between two awaits: it answers the request the code was waiting for
(with the state of the database or a chain at that moment) and runs on to the
next one.  `pc` in `LeaderBroadcast`, `run` in `LeaderRun`, `signing` in
`OperatorRun`, `at` in `BurnWatcher` and in a submission of `SwapForm` name the
await.  A request that is not
awaited is an element of a set (`updates`, `inserts`, `signed`) until some later
action applies it, in any order.  Each module's header says which value is
which await.

**Process exits.**  When a process ends, an arbitrary part of its requests in
flight still reaches MongoDB.  A restarted process waits three seconds
(`server.js:33`) before it reads anything; `Restart` and `LeaderRestart`
therefore wait for those requests.  This is an assumption about MongoDB, and it
matters: the mutant `RestartAtOnce`, which drops it, gives one sequence number
to two burns.

**Unhandled rejections.**  The repository asks for Node 12 (`README.md:21`),
where a rejected promise nobody handles prints a warning and the process goes on.  That is what `LoopRejects`,
`StatusCheck` and lost inserts assume.  (With the later default, such a
rejection ends the process: `Crash`.)

**Abstractions.**  A burn is its Ethereum transaction hash.  A mint transaction
is the record of what it contains (burn, sequence, signers); its `txhash` is a
digest of just that, so the record stands for the hash as well.  Amounts, file
names and JSON do not occur in the service's modules: no decision depends on them.  A command or a
request that goes wrong is a fault of its kind at the place where the code meets
it; what the code then does is modelled exactly.  The account number is
constant and is left out of queries.

**The client.**  An Ethereum transaction is one step, which succeeds or reverts,
and its receipt arrives in the same step; the code does nothing in between but
print.  What `initiateSwap` destructures is kept in its submission; what it
reads later, it reads in the step in which the code does.  Amounts are small
numbers of grains, 0 for what is no amount.  Others may call `burnFunds`, move
tokens and pause them (`OthersStep`).  The burns that `FormSystem` logs are the
events `EthChain` starts from.

**The two halves of the service.**  `BroadcastSystem` over-approximates the
registration side (documents appear with any distinct sequence numbers,
signatures in any order), `RegistrationSystem` over-approximates the broadcast
side (a swap with enough signatures moves between UNSIGNED and SUBMITTED at
will, which is all an operator distinguishes).  `SwapSystem` puts the real halves
around one database and one leader process: whatever ends the process ends both
loops (`ProcessEnds`), a failed broadcast also stops the burn log loop
(`BroadcastFails`), and a restart starts both (`ProcessRestarts`).
`ImplementsBroadcast` and `ImplementsRegistration` say that each half does there
only what its own module allows, and both are proved.  So nothing is lost by
looking at the halves one at a time, which is what the larger runs do.

**Commands.**  A shell of `Pty` is one pseudo-terminal.  `tty` holds the typed
lines nobody has read; whoever is in front reads the next one, bash as a command,
a prompting client as a passphrase.  A chunk of output is the set of the words in
it that a listener looks for, so "ERROR" and "failed" may come together or apart.
A file holds the number of the call whose data it was made from (0 when it is
empty or missing), so that a request of one burn passed off as another's shows.
The client that asks for a passphrase, or fails, is external: any command may.

**Deliberate over-approximations.**  The Secret Network's token swap module may
itself refuse a burn hash it has seen; that is not visible in the repository, so
`SecretChain` has only the account's sequence number as protection.

## 3. Properties and runs

Passing runs (`tlc -config <cfg> <module>`):

| Run | Instance | Checks |
|---|---|---|
| `BroadcastSafety.cfg` | 2 burns, 2 operators, threshold 2; 2 faults of six kinds | `TypeOK`, `IInv`, `ConfirmedIsMinted`, `RecordedHashIsOwn`, refinement `ImplementsQueue` |
| `BroadcastResign.cfg` | 1 burn, 3 operators, threshold 2; 3 faults, `updateFailedSwap` included | `MintedOnce`, `MintedByThreshold` |
| `BroadcastLive.cfg` | 2 burns, 1 operator; 2 crashes or lost transactions; `FairSpec` | `EventuallyConfirmed` |
| `RegistrationSafety.cfg` | 3 burns, one invalid, 1 operator, 4 blocks, reorganisation depth 1; 1 fault of six kinds | `TypeOK`, `IInv`, `SignedIsFinal`, `UniqueSequences`, `NoGaps` |
| `RegistrationLive.cfg` | 2 burns, one invalid, 2 operators, threshold 2; 1 crash or rejected run; `FairSpec` | `NoBurnPassedOver`, `EventuallySigned` |
| `SwapSystem.cfg` | 1 burn, 1 operator, 3 blocks; 1 fault in each half: crash, rejected run or a failed broadcast's `stop()` in the registration half; crash, rejected run, failed command, query or write, lost transaction in the broadcast half; `SwapFairSpec` | `MintedIsBurnt`, `SwapIInv`, `NoBurnPassedOver`, `EventuallyMinted`, refinements `ImplementsBridge`, `ImplementsBroadcast`, `ImplementsRegistration` |
| `Commands.cfg` | 2 burns, 2 calls of each method, both kinds of keyring, 1 prompt a run; 2 faults of three kinds; `FairSpec` | `TypeOK`, `ReadsOwnOutput`, `ExitsAreDue`, `CallsEnd`, `ShellsEnd` |
| `FormSafety.cfg` | 2 holders, 2 submissions, supply 2; 1 of five faults | `TypeOK`, `BurntAsSubmitted`, `AllowanceSubmitted` |
| `FormLive.cfg` | 1 holder, 2 submissions, 2 refusals or burns by others, nonces of 2 bits; `FairSpec` | `NoncesInTurn`, `TokensAccounted`, `LoadingIsOwed`, `FormFreed` |

What they show:

* `MintedOnce`, `MintedByThreshold`: although a swap may be broadcast again and
  again, by a restarted leader, with other signatures, while earlier
  transactions are on their way, one is minted, because all carry the sequence
  number of the swap's document.  The mutant that takes the account's current
  number instead mints twice.
* `ConfirmedIsMinted`, `RecordedHashIsOwn`: whichever of the loop, a timer or a
  request from before a crash writes last, CONFIRMED means minted, and the hash
  is one of this swap's transactions.  (Not always the minted one: see below.)
* `ImplementsQueue`: seen through the refinement mapping, the leader does no
  more than `MintQueue`: serve tickets in turn, once, with enough approvals, and
  report what was served.  Reports may be withdrawn: a late UNSIGNED write can
  overwrite CONFIRMED.
* `EventuallyConfirmed`: such regressions, lost transactions and crashes do not
  last; the verification brings every burn to CONFIRMED and it stays there.
* `SignedIsFinal`: height and events are read by two requests; between them the
  chain may grow or be reorganised.  Operators still never sign an event that a
  reorganisation of the assumed depth can undo.
* `UniqueSequences`, `NoGaps`: the check and the insert are two requests and the
  insert is not awaited, yet no number is given out twice; and without failures
  none is skipped.
* `EventuallySigned`: operators that overtake the leader exit, restart and
  replay, until the burn is signed; under the same exclusions, and without `stop()`.
* `NoBurnPassedOver`: the safety side of that.  `fromBlock` moves past a burn
  before the burn is handled (`burn_watcher.js:54`) and is never moved back, so
  all depends on who cannot finish forgetting it.  Everybody does who exits; the
  mutant `FetchFailsAndGoesOn`, an operator that logs a burn the leader has not
  registered yet and goes on, signs too little for ever.  The property leaves out
  what the code does pass over: burns whose database or chain request failed
  (`SwapRecovery.cfg`), and, for the leader, burns that a reorganisation moves
  behind it (`RegistrationReorg.cfg`).
* `MintedIsBurnt`: from the event an operator reads to the block of the mint
  transaction, over a database nobody waits for, nothing is minted that a
  reorganisation could still undo on the other chain, and nothing twice.
* `ImplementsBridge`: seen from outside (which burns are final, who approved
  them, what is in a block, what the database reports) every step of the service
  is a step of `Bridge` or none: an approval is given to a burn that is final
  already and names a recipient, a mint has such a burn and enough of
  those approvals and happens once, a report is of something minted, and nothing
  final, approved or minted is ever taken back.
* `ImplementsBroadcast`, `ImplementsRegistration`: the real documents and
  signatures are among those `BroadcastSystem` considers (an operator signs no
  burn without a document; the mutant that does breaks it), and no status moves
  before its swap has its signatures.
* `EventuallyMinted`: one crash, lost transaction or failed request of the
  broadcast loop later, the burn is minted and confirmed for good, unless the leader is left standing: a
  failed broadcast has stopped it, or a query has ended its broadcast loop, and
  nothing ended the process after that.  Such a leader mints nothing more, so the
  property asks for a leader that works in the end (`Working`).  It also excludes,
  as `NoBurnPassedOver` does, every failed command and database request of the
  burn log loop and of the operators (`Unforgetting`), and reorganisations under
  the leader: those pass a burn over for good, with a leader that goes on working
  (`SwapRecovery.cfg`, `RegistrationReorg.cfg`).
* `ReadsOwnOutput`: all burns share the file of the request, shells of earlier
  calls are still open, and files of earlier processes lie about; a call still
  reads what its own command wrote.  It rests on the redirection that empties the
  file when the command starts, and on the exit code.  One case is excluded,
  because it fails: with a password, a shell whose chunk says both "ERROR" and
  "failed" has its call rejected and its command typed again, and
  `generateTokenSwap` of the next burn may read that rerun's output.
* `CallsEnd`, `ShellsEnd`, and their safety side `ExitsAreDue`: for the commands that are run without a password
  (the default keyring `test`, `config.js:36-41`, and `broadcastTokenSwap`
  always).  With a password `exit` is typed only after a prompt: a command that
  prints none is never answered, and its caller waits for ever.
* `BurntAsSubmitted`, `AllowanceSubmitted`: the button can be pressed again
  before `loading` is set, and the allowance is read long before it is used; two
  submissions still burn no account and no amount but their own, and leave no
  allowance above one submission's amount.  The mutants that read the amount from
  the form, as the code does with the recipient, and that add to the allowance,
  break them.
* `NoncesInTurn`, `TokensAccounted`: `availableNonce` and SafeMath stop the
  contract at the last nonce, and a refused transfer undoes nonce and total.
* `FormFreed`, `LoadingIsOwed`: however a submission ends (burnt, reverted,
  refused), the form becomes usable again; and whenever it is not, a balance query
  or a call at the wallet is under way that will make it so, although any answer
  resets `loading` whoever set it.  A balance query that fails is the exception: nobody
  handles it and `loading` stays set, which is why this run has no such fault.

Violation runs, each a disagreement between the repository's own words and its
code (details under `findings`):

| Run | Claim | What happens |
|---|---|---|
| `SwapRecovery.cfg` | the leader recovers from database failures, or logs them and exits (`README.md:88`, `91`) | one failed request, logged: the burn is passed over and never minted, and the leader goes on |
| `FormRecipient.cfg` | `_recipient` is the intended recipient's address (`EngSwap.sol:54`) | the recipient is read after the awaits: the field may have been edited, to no address at all |
| `RegistrationReorg.cfg` | the watcher yields each event (`burn_watcher.js:31`) | the leader, with 0 confirmations, is past the block where the burn is mined again |

Disagreements that the modules contain without a run of their own:

* `mintTransactionHash` is said to be the mint transaction's hash
  (`leader/index.js:17`, `db.js:108`).  A retry with one more signature is a
  different transaction; the first one may be minted and the second one's hash
  recorded (`leader/index.js:190-192`).
* Errors are said to end the worker (`README.md:91`).  An error of the broadcast
  loop ends that loop; the process stays (`server.js:43`, `LoopRejects`).
* The branch that rechecks a failed swap throws (`leader/index.js:138`,
  `RecheckFailed`).
* `test/db.test.js:53-102` expects `insertUnsignedSwap` to take a sequence number
  twice: a document that is there already is ignored, and another burn with
  account number 0 and sequence 0 becomes a second UNSIGNED document.
  `db.js:65-68` throws in both cases (`yarn test` does not run that file,
  `package.json:32`).  The modules follow the code.  The service does not depend on
  which is meant: one leader at a time never offers a number that is taken
  (`CounterAhead`, `NumberIsFree`), so `UniqueSequences` holds because of the
  leader's counter, with that check never refusing an insert.  A caller that
  behaved as the test does would break it if the test's expectation were the code.
* "only broadcast once there are none in progress" (`leader/index.js:145`): the
  write that shows another swap in progress may still be in flight.
* "retry incase 2 commands are trying to sign at the same time"
  (`process.js:66`): after a prompt the repeated command stands behind the `exit`
  that was typed with the password, and is never read.
* A gap in the sequence numbers (`leader/index.js:237`, or two inserts in flight
  of which a crash loses the first, `db.js:73`) is never filled, and the account
  accepts no number behind it.  `NoGaps` holds as long as nothing failed.

**Bounds.**  `MaxFaults` bounds failures per behaviour; two suffice for a fault
in the recovery from a fault, three are used where the instance is small.
`WriteIds` and `TimerIds` bound the status writes and timers outstanding at
once: two writes are enough for one to overtake the other, and a call that finds
no free identifier waits, which only delays it.  `Sequences` gives one number
per burn.  `MaxHeight` leaves a block for every burn to be mined, moved by a
reorganisation and confirmed.  Two burns make one wait for the other; three
operators with threshold two are what it takes for two transactions of one burn
to differ.  The service as a whole is checked with
one burn and one operator, because its halves are checked with more, and the
refinements, which carry those results over, are proved for any number: the run is
there to tell quickly that the composition and the formulas are right, and for
`EventuallyMinted`.  Its faults are counted in each half, so two may meet.  Two
calls and two burns are enough for a shell to outlive its call and for a shared
file to hold another burn's request; one prompt is enough for the password and
the `exit` behind it to be read by the client, by bash, or by nobody.
A uint256 of two bits has four values: the nonces run out at the fourth
burn, while the supply (2) fits, as the real one does.  One balance query per
account in flight when another starts, besides those that burns start, is enough
for an old account's answer to come last.  `CHECK_DEADLOCK FALSE` stands where the code really may stop: a
leader whose broadcast loop has ended, a client that nobody calls.

**Fairness.**  `FairSpec` assumes that the host schedules and restarts the
processes, that MongoDB answers, that timers fire, that blocks include the next
valid transaction and, on the broadcast side, that burns are registered and
signed.  `SwapFairSpec`
assumes of each half what its own module assumes, and nothing of signatures and
documents, which are now the code's business.  In `SwapClient` timers fire,
events are delivered, bash reads what is typed and a running command comes to an
end; that the client prompts is not assumed.  On the web client's side it assumes that the provider answers and that the
wallet signs or refuses; nothing of the user.  All are weak fairness.  No fault is fair, and faults are finitely many.
Nothing is assumed of Ethereum, of the order in which writes are applied, or of
the broadcast loop's abstraction in `RegistrationSystem`.

Every property of a passing run has a mutant in `PROJECT.json`: a plausible bug
of the code (defined next to the definition it replaces) that breaks it.

## 4. Proofs

All theorems hold for every value of the constants that meets the named
assumptions: any sets of burns and operators (finite operators), any threshold,
any kinds and number of faults, any number of writes and timers, any heights.

* `BroadcastProofs`: `TypeCorrect`; `Invariant` (`IInv`); from it
  `BurnsMintedOnce`, `BurnsMintedByThreshold`, `ConfirmedAreMinted`; and
  `BroadcastImplementsQueue`, the refinement of `MintQueue`.
* `RegistrationProofs`: `TypeCorrect`; `Invariant` (`IInv`); from it
  `SignedAreFinal` and `SequencesUnique`.
* `GaplessProofs`, on top of that invariant: `NoNumberSkipped` and
  `NonePassedOver`.
* `ClientProofs`: `TypeCorrect`, `OwnOutputRead` and `ExitsDue`, for any number of burns,
  calls, prompts and failures.
* `SwapProofs`: `SwapInvariant` (`SwapIInv`); from it `OnlyBurntIsMinted`,
  `BroadcastImplemented` (with `Sequences` the naturals) and
  `RegistrationImplemented`.
* `BridgeProofs`: `ServiceImplementsQueue` and `ServiceImplementsBridge` (with
  `Sequences` the naturals), the refinements of the two abstract specifications
  by the whole service; and `ServicePassesNone`.
* `FormProofs`: `TypeCorrect`; `NoncesUnique`; `TokensConserved`;
  `AllowancesSubmitted`; `LoadingOwed`; `BurntAsWasSubmitted`, for any
  holders (finitely many), supply, width and number of submissions.
* `SumProofs`: the lemmas about sums that `TokensConserved` rests on.

*The broadcast invariant.*  `MintedOnce` alone is not inductive: a step could
put a second transaction of a burn in a block.  `IInv` adds where transactions
come from.  `TransactionsGenuine` and `CandidateGenuine` say that every
transaction in the mempool, in a block or about to be broadcast belongs to a
registered burn, carries its document's sequence number and at least `Threshold`
of its signatures; documents keep their numbers and signatures are never
deleted, so this is stable.  `UniqueSequences` makes the number determine the
burn.  `LedgerInTurn` says that minted numbers are below the account's, so
that the next block's transaction cannot repeat one.  `ConfirmedSoFar` carries
`ConfirmedIsMinted` through the writes in flight.

*The recorded hash.*  `RecordedHashesAreOwn` is about a run without
`updateFailedSwap` (`"mark" \notin FaultKinds`, an assumption of the theorem): that
method clears the hash that the recheck then confirms.  Its invariant
`HashesOwn` follows a hash from the broadcast to the database: the snapshot a loop
works on, the timers and the writes in flight hold transactions of their own
swap, and no document is or becomes FAILED.

*The refinement.*  Leader steps stutter; `Register`, `Sign` and `Deliver` are
`TakeTicket`, `Approve` and `Serve`; applying a status write is `Report`.  That
`Deliver` is a `Serve` needs the whole invariant.

*The registration invariant.*  `SignedIsFinal` needs `OperatorsSeeFinal`: what
an operator has asked for, been given or is working on is `NbConfirmations`
deep.  A reorganisation of at most that depth (`RegistrationAssumption`) leaves
such blocks alone (`FinalStays`).  `UniqueSequences` needs `CounterAhead`: the
leader's counter is above every number in a document or an insert in flight,
and no insert is in flight while it is read from the database.

*No gaps.*  `NoNumberSkipped` needs that a number is taken only with an insert
that arrives.  `Gapless` says so for as long as nothing has failed: the watcher
yields a burn once (`YieldedOnce`), so that no insert is refused for being there
already (`InsertsAccepted`), and documents and inserts in flight together are the
numbers below the leader's counter (`InTurn`).

*Nothing passed over.*  `NonePassedOver` follows a watcher by what it has behind
it.  `KeepsUp` says that `fromBlock` and what the watcher has read or asked for
stay within the blocks it may read, and that the events it has read are all there
are in their blocks; `PassesNone` that a burn behind `fromBlock` is in hand or
dealt with.  Blocks an operator has behind it are out of a reorganisation's reach
(`SettledBlocks`); the leader's are only if there are none, hence `Undisturbed`.
An operator also leaves a burn alone when it has enough signatures or is
no longer unsigned; that it then has enough is `SkippedAreSigned`, and stays so
since signatures are never deleted.  That a burn whose insert is refused has a document
already is `NumberIsFree`.  In `SwapSystem` a failed broadcast also stops the burn log loop; `ServicePassesNone`
adds only that this, and the broadcast half's other steps, take nothing back
(`BroadcastThorough`).

*The service.*  `SwapIInv` is the registration invariant, what
`BroadcastSystem` says of candidate, transactions and ledger, and what ties the two
together: `MovesOnlySigned` (whatever the loop, a timer or a request in flight
holds is of a swap with enough signatures), `SignsDocuments` (an operator signs
only burns with a document) and `MovesByDocuments` (without a document the account
has not moved).  Each follows the awaits: a snapshot or a candidate was true when
it was read, and documents and signatures only grow (`EnoughStays`,
`GenuineStays`).  The steps of the registration half keep their own invariant by
`RegistrationProofs!IInvStep`, used as it stands; those of the broadcast half do
nothing to it but move statuses and end a process (`RegistrationKept`).
`MintedIsBurnt` then joins the halves: a transaction in a block has signatures
(`Threshold > 0`, assumed), each of them of a final burn, and one per number.
For `ImplementsBroadcast` an insert is a `Register` because no two documents and
inserts share a number, a signature is a `Sign` because of `SignsDocuments`.  For
`ImplementsRegistration` a status write is a `Broadcasts` because of
`MovesOnlySigned`, and the account's number is the first one when it is asked for
because of `MovesByDocuments` (no document, no number taken).

*From end to end.*  The refinements form a chain: `SwapSystem` implements
`BroadcastSystem` step by step, that implements `MintQueue`, and so `LoopStep`
has each step of the service as a step of the queue or none, by the theorems of
`BroadcastProofs` instantiated as they stand.  `QueueIsBridge` then takes a queue
step with the registration invariant, which the queue knows nothing of, to a step
of `Bridge`: an approval is of a final burn (`SignedIsFinal`) with a recipient
(`OnlyValid`: no watcher hands an invalid burn to anybody), a `Serve` has at least
one such approval because `Threshold > 0`.  A block of Ethereum is `Burn`, because
no reorganisation undoes what is final (`EthIsBurn`).  `Sequences = Nat` is the
hypothesis of these theorems, as of `BroadcastImplemented`: the code's sequence numbers have no bound, and with one
`BroadcastSystem` would register less than the leader does.

*Commands.*  That a call reads its own output cannot be had from the files
alone, because shells of earlier calls live on.  `ShellInTurn` orders what one
shell does: the command is the first thing it reads, and whatever can settle the
promise comes after the command has ended.  `CallsInTurn` draws the conclusion for
all shells: one that spawnNoPassword started and that has not run its command yet
is the awaited one, so nobody else writes; one that spawnAndInputPassword started
may run its command at any time, but a process that signs calls once per burn,
so its file is not the current call's.  `FilesInTurn` then follows the number of
the call from `writeFile` through `multisign` and `broadcast` to `readFile`.
`ExitsDue` needs of that invariant that a call's terminals are of its method, so that none
reads a password; a line that is read sets something running or has something
printed, a chunk that is delivered starts a sleep, a sleep that is over types an
`exit`.

*The client side.*  `NoncesInTurn` is inductive given the types: a burn adds one
event, with the next number (`BurnsInTurn`), and nothing else touches nonce or
events (`ContractSteps`).  `AllowanceSubmitted` is inductive because the
submissions only grow and keep account and amount (`SubmissionsKept`), burns
lower allowances, and an approval sets one to the amount of its submission.

`LoadingIsOwed` is inductive given the types, because each step that sets
`loading` adds a query or moves a call to the wallet, and each that takes the
last of these away resets it.

`TokensAccounted` is about sums, and a sum over a set is a recursive function, for
which the library's induction theorems are of no use here.  `SumProofs` argues by
the smallest counterexample instead: strict inclusion is well-founded on finite
sets, so a claim that fails has a least set for which it fails.  In that way the
recursion is shown to have a value for every finite set (`SumsExist`), a natural
number (`SumNat`), from which any element may be taken first (`SumRemove`), whatever
`CHOOSE` does; a burn or transfer then moves its amount from one summand to another
(`SumChanged`).  That there are finitely many holders is an assumption
(`EngSwapAssumption`); addresses are 160 bits.

For `BurntAsSubmitted`, `Counted` bounds, for each account and amount, the burn
events beyond those a submission reports by the failures so far (others'
burns are among them); it needs that a
submission's event carries the next nonce, and so is a new one.

*Only model-checked:* the liveness properties `EventuallyConfirmed`,
`EventuallySigned`, `EventuallyMinted`, `CallsEnd`, `ShellsEnd` and `FormFreed`
(temporal reasoning under fairness is outside the prover's reach).  Every
invariant and every refinement that a passing run checks is proved.

## 5. Not modelled, and the plan

In order:

1. The client with a second network, whose contracts the form switches to while
   a submission is at work.
2. `SwapClient` inside `SwapSystem`, where a command is now an answer or a fault:
   the refinement that replaces those by calls of the client's methods.
3. The safety side of `EventuallyConfirmed`, as `NoBurnPassedOver`, `ExitsAreDue`
   and `LoadingIsOwed` are that of `EventuallySigned`, `CallsEnd` and `FormFreed`:
   for a burn that is not confirmed, the write, the timer or the round of the
   loop that will confirm it.

Left out for good: `common/config.js`, `common/logger.js`, `common/scrt.js`,
`common/ganache.js`, migrations and tests (static values, output, deployment and
test support); `common/utils.js` apart from the outcomes of its calls;
the client's presentation and its messages.
