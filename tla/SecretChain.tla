---------------------------- MODULE SecretChain ----------------------------
(***************************************************************************)
(* The Secret Network side, which is not part of the repository: modelled   *)
(* from what common/cli_swap_client.js and common/process.js ask of it.     *)
(*   `tx multisign --sequence s` binds a mint transaction to one sequence   *)
(*       number of the multisig account and to the signatures given;        *)
(*   `tx broadcast -b async` returns the transaction hash before the        *)
(*       transaction is checked, so a hash promises nothing;                *)
(*   `query tokenswap get h` tells whether burn h has been minted.          *)
(* The account's sequence number is the only replay protection assumed:    *)
(* that the token swap module also refuses a burn hash it has seen is not   *)
(* visible in src/ and is not used.                                         *)
(***************************************************************************)
EXTENDS Naturals, FiniteSets, Faults, Parties

CONSTANTS FirstSequence,  \* the account's sequence number before any mint
          NoTx            \* no mint transaction: null, or the empty string

\* A signed mint transaction, identified by what it contains; its txhash is
\* a digest of exactly that, so the record also stands for the hash.
MintTx == [burn : Burns, sequence : Nat, signers : SUBSET Operators]

ASSUME ChainAssumption ==
    /\ FirstSequence \in Nat
    /\ NoTx \notin MintTx

VARIABLES chainSequence,  \* sequence number the account's next tx must carry
          mempool,        \* transactions handed to a node, not yet in a block
          ledger          \* mint transactions in blocks

chainVars == <<chainSequence, mempool, ledger>>

ChainInit ==
    /\ chainSequence = FirstSequence
    /\ mempool = {}
    /\ ledger = {}

\* Mutant of IsSwapDone: a transaction that was only accepted counts.
AcceptedIsDone(h) == \E t \in ledger \cup mempool : t.burn = h

\* CliSwapClient.isSwapDone: the answer of `query tokenswap get`.
IsSwapDone(h) == \E t \in ledger : t.burn = h

\* A block includes a transaction that carries the account's next sequence.
Deliver(t) ==
    /\ t \in mempool
    /\ t.sequence = chainSequence
    /\ ledger' = ledger \cup {t}
    /\ mempool' = mempool \ {t}
    /\ chainSequence' = chainSequence + 1
    /\ NoFault

\* A transaction with any other sequence fails the check and is dropped; so
\* is, by a fault, one that a node loses.
Drop(t) ==
    /\ t \in mempool
    /\ \/ t.sequence # chainSequence /\ NoFault
       \/ t.sequence = chainSequence /\ Fault("evict")
    /\ mempool' = mempool \ {t}
    /\ UNCHANGED <<chainSequence, ledger>>

ChainTypeOK ==
    /\ chainSequence \in Nat
    /\ mempool \subseteq MintTx
    /\ ledger \subseteq MintTx
=============================================================================
