------------------------------ MODULE EngSwap ------------------------------
(***************************************************************************)
(* contracts/EngSwap.sol and what it uses of the ENG token                  *)
(* (contracts/EngToken.sol, OpenZeppelin's ERC20Pausable).                  *)
(*                                                                          *)
(* A transaction is one step: it succeeds, or reverts and changes nothing.  *)
(* The only allowances in the model are those given to the contract.        *)
(* uint256 is `Width` bits wide: `+` wraps around, SafeMath's add reverts.   *)
(***************************************************************************)
EXTENDS Naturals, FiniteSetsExt, Faults

CONSTANTS Accounts,      \* holders of the token
          BurningAddress,
          Recipients,    \* what may be given as _recipient: any bytes
          InitialSupply, \* INITIAL_SUPPLY
          Width          \* the bits of a uint256

UInt == 0..(2^Width - 1)

ASSUME EngSwapAssumption ==
    /\ IsFiniteSet(Accounts) /\ BurningAddress \notin Accounts
    /\ Width \in Nat /\ 2^Width \in Nat
    /\ InitialSupply \in UInt

VARIABLES balance,     \* token.balanceOf
          allowance,   \* token.allowance(holder, EngSwap)
          paused,      \* the token is paused
          burnNonce,
          totalBurnt,
          logs         \* the LogBurn events

tokenVars == <<balance, allowance, paused>>
engSwapVars == <<tokenVars, burnNonce, totalBurnt, logs>>

LogBurn == [from : Accounts, to : Recipients, amount : Nat, nonce : Nat]

SumOver(f, S) == MapThenSumSet(LAMBDA x : f[x], S)

\* The supply, given to its creator, has been spread over the holders.
EngSwapInit ==
    /\ balance \in [Accounts \cup {BurningAddress} -> 0..InitialSupply]
    /\ balance[BurningAddress] = 0
    /\ SumOver(balance, Accounts) = InitialSupply
    /\ allowance = [a \in Accounts |-> 0]
    /\ paused = FALSE
    /\ burnNonce = 0 /\ totalBurnt = 0 /\ logs = {}

Plus(x, y) == (x + y) % 2^Width     \* uint256 +
AddFits(x, y) == x + y \in UInt     \* SafeMath: otherwise add reverts

AvailableNonce == Plus(burnNonce, 1) > burnNonce

CanDeliver(sender, amount) == balance[sender] >= amount

\* Mutant: the allowance is not asked for.
CanTransferUnallowed(from, amount) == ~paused /\ balance[from] >= amount

CanTransferFrom(from, amount) ==
    /\ ~paused
    /\ balance[from] >= amount
    /\ allowance[from] >= amount

Moved(from, to, amount) ==
    LET debited == [balance EXCEPT ![from] = @ - amount]
    IN  [debited EXCEPT ![to] = @ + amount]

TransferFrom(from, amount) ==
    /\ CanTransferFrom(from, amount)
    /\ balance' = Moved(from, BurningAddress, amount)
    /\ allowance' = [allowance EXCEPT ![from] = @ - amount]
    /\ UNCHANGED paused

\* Whether burnFunds goes through; otherwise it reverts.
CanBurn(from, amount) ==
    /\ AvailableNonce
    /\ CanDeliver(from, amount)
    /\ AddFits(burnNonce, 1) /\ AddFits(totalBurnt, amount)
    /\ CanTransferFrom(from, amount)

\* Mutant: the token's refusal does not revert the burn.
BurnUnchecked(from, to, amount) ==
    /\ burnNonce' = burnNonce + 1
    /\ totalBurnt' = totalBurnt + amount
    /\ IF CanTransferFrom(from, amount) THEN TransferFrom(from, amount)
       ELSE UNCHANGED tokenVars
    /\ logs' = logs \cup {[from |-> from, to |-> to, amount |-> amount, nonce |-> burnNonce']}

\* Mutant: no guard on the nonce, and `+` in place of SafeMath's add.
BurnWrapping(from, to, amount) ==
    /\ CanDeliver(from, amount)
    /\ burnNonce' = Plus(burnNonce, 1)
    /\ totalBurnt' = Plus(totalBurnt, amount)
    /\ TransferFrom(from, amount)
    /\ logs' = logs \cup {[from |-> from, to |-> to, amount |-> amount, nonce |-> burnNonce']}

BurnFunds(from, to, amount) ==
    /\ CanBurn(from, amount)
    /\ burnNonce' = burnNonce + 1
    /\ totalBurnt' = totalBurnt + amount
    /\ TransferFrom(from, amount)
    /\ logs' = logs \cup {[from |-> from, to |-> to, amount |-> amount, nonce |-> burnNonce']}

Transfer(from, to, amount) ==
    /\ ~paused /\ balance[from] >= amount
    /\ balance' = Moved(from, to, amount)
    /\ UNCHANGED <<allowance, paused, burnNonce, totalBurnt, logs>>

CanApprove == ~paused

Approve(from, amount) ==
    /\ CanApprove
    /\ allowance' = [allowance EXCEPT ![from] = amount]
    /\ UNCHANGED <<balance, paused, burnNonce, totalBurnt, logs>>

\* What others do with the token and the contract: a direct call of burnFunds,
\* a transfer (to the burning address as well), a pause or its end.
OthersStep ==
    \/ /\ Fault("burn")
       /\ \E a \in Accounts, r \in Recipients :
             \E n \in 0..balance[a] : BurnFunds(a, r, n)
    \/ /\ Fault("transfer")
       /\ \E a \in Accounts, b \in Accounts \cup {BurningAddress} :
             \E n \in 1..balance[a] : Transfer(a, b, n)
    \/ /\ Fault("pause")
       /\ paused' = ~paused
       /\ UNCHANGED <<balance, allowance, burnNonce, totalBurnt, logs>>

EngSwapTypeOK ==
    /\ balance \in [Accounts \cup {BurningAddress} -> Nat]
    /\ allowance \in [Accounts -> Nat]
    /\ paused \in BOOLEAN
    /\ burnNonce \in Nat /\ totalBurnt \in Nat
    /\ logs \subseteq LogBurn
=============================================================================
