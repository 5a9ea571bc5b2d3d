------------------------------- MODULE Faults -------------------------------
(***************************************************************************)
(* The failures a run admits.  None of them is an operation of the code:   *)
(* each is an outcome of an external service (MongoDB, the chain client,   *)
(* the Ethereum provider, the host) that the code meets at the places where *)
(* a module names the kind.                                                 *)
(*   "crash"   a process is killed (the host goes down, `pm2 restart`)      *)
(*   "run"     leader.run() or operator.run() rejects: an Ethereum request, *)
(*             or a request made before the watching starts, failed         *)
(*   "reorg"   the Ethereum chain replaces its last blocks                  *)
(*   "db"      a MongoDB request is answered with an error                  *)
(*   "cli"     a chain client command fails or prints an error              *)
(*   "evict"   a transaction accepted by `-b async` never reaches a block   *)
(*   "mark"    Leader.updateFailedSwap is invoked (nothing in src/ does)    *)
(*   "file"    a file cannot be read or written                             *)
(*   "stop"    Leader.stopBroadcasting is invoked (only the tests do)       *)
(* and, on the client's side,                                               *)
(*   "allowance", "balance"  a call of the token's view function fails      *)
(*   "deny"    the wallet does not sign or send a transaction               *)
(*   "burn", "transfer", "pause"  somebody else uses EngSwap or the token   *)
(* MaxFaults bounds how many of them one behaviour contains: faults are     *)
(* finite, so what must eventually happen is asked of the time after them.  *)
(***************************************************************************)
EXTENDS Naturals

CONSTANTS FaultKinds,   \* the kinds of failure that may happen
          MaxFaults     \* bound: failures per behaviour

ASSUME MaxFaultsAssumption == MaxFaults \in Nat

VARIABLE faults         \* failures so far

FaultInit == faults = 0

Fault(kind) ==
    /\ kind \in FaultKinds
    /\ faults < MaxFaults
    /\ faults' = faults + 1

NoFault == UNCHANGED faults

FaultTypeOK == faults \in Nat
=============================================================================
