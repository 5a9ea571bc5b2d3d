------------------------------ MODULE EthChain ------------------------------
(***************************************************************************)
(* Ethereum as the watchers see it through web3, which is not part of the   *)
(* repository: the number of the latest block and, for each transaction     *)
(* that calls EngSwap.burnFunds, the block its LogBurn event is in.  A       *)
(* reorganisation replaces up to MaxReorgDepth of the last blocks; the       *)
(* transactions in them are mined again, elsewhere, or not at all.          *)
(***************************************************************************)
EXTENDS Naturals, Parties, Faults

CONSTANTS StartHeight,    \* the latest block when the service starts
          MaxHeight,      \* bound: blocks
          MaxReorgDepth   \* the deepest reorganisation

ASSUME EthAssumption ==
    /\ StartHeight \in Nat /\ MaxHeight \in Nat
    /\ MaxReorgDepth \in 0..StartHeight

VARIABLES height,   \* web3.eth.getBlockNumber()
          blockOf   \* the block with h's event, 0 if it is in none

ethVars == <<height, blockOf>>

EthInit == height = StartHeight /\ blockOf = [h \in Burns |-> 0]

\* The chain replaces its last `depth` blocks (none, normally) and grows by one.
NewBlock(depth) ==
    /\ height < MaxHeight
    /\ IF depth = 0 THEN NoFault ELSE Fault("reorg")
    /\ height' = height + 1
    /\ blockOf' \in [Burns -> 0..MaxHeight]
    /\ \A h \in Burns :
          IF blockOf[h] \in 1..(height - depth)
          THEN blockOf'[h] = blockOf[h]
          ELSE blockOf'[h] \in {0} \cup (height - depth + 1)..(height + 1)

\* getPastEvents('LogBurn', {fromBlock, toBlock}); none when the range is empty.
PastEvents(from, to) ==
    {[burn |-> h, block |-> blockOf[h]] : h \in {g \in Burns : blockOf[g] \in (from..to) \ {0}}}

EthTypeOK ==
    /\ height \in Nat /\ height >= StartHeight
    /\ blockOf \in [Burns -> Nat]
=============================================================================
