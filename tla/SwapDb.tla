------------------------------- MODULE SwapDb -------------------------------
(***************************************************************************)
(* common/db.js: the `swap` and `signature` collections and the requests    *)
(* the leader and the operators make of them.                              *)
(*                                                                          *)
(* updateSwapStatus hands its callback to updateOne and returns without     *)
(* waiting: the promise its callers await is already resolved while the     *)
(* write is still on its way.  The driver sends requests over a pool of     *)
(* connections, so writes in flight together are applied in any order.      *)
(* A request is kept in `updates` from the call until MongoDB applies it.   *)
(***************************************************************************)
EXTENDS Naturals, FiniteSets, SecretChain

CONSTANTS WriteIds      \* bound: status updates in flight at once

ASSUME WriteIdsAssumption == WriteIds # {}

VARIABLES swaps,        \* the swap documents, by _id (the burn's hash)
          signatures,   \* the users whose signature document names the burn
          updates       \* updateOne requests not applied yet

dbVars == <<swaps, signatures, updates>>

\* common/constants.js; no code writes SIGNED.  "ABSENT": no document.
Status == {"UNSIGNED", "SUBMITTED", "CONFIRMED", "FAILED"}

Swap == [status : Status \cup {"ABSENT"}, sequence : Nat,
         mintTransactionHash : MintTx \cup {NoTx}]

Update == [id : WriteIds, burn : Burns, status : Status,
           mintTransactionHash : MintTx \cup {NoTx}]

NoSwap == [status |-> "ABSENT", sequence |-> 0, mintTransactionHash |-> NoTx]

DbInit ==
    /\ swaps = [h \in Burns |-> NoSwap]
    /\ signatures = [h \in Burns |-> {}]
    /\ updates = {}

Registered == {h \in Burns : swaps[h].status # "ABSENT"}

---------------------------------------------------------------------------
(* Queries: each is one answered request. *)

\* findAllByStatus: at most `limit` documents, lowest sequence first.
FindAllByStatus(status, limit) ==
    LET Found == {h \in Burns : swaps[h].status = status}
        Before(h) == {g \in Found : swaps[g].sequence < swaps[h].sequence}
    IN  {h \in Found : Cardinality(Before(h)) < limit}

FindAllByStatuses(statuses) == {h \in Burns : swaps[h].status \in statuses}

\* Mutant of FindAboveThreshold: one signature short.
FindOneShort(h, threshold) == Cardinality(signatures[h]) + 1 >= threshold

\* The filter of findAboveThresholdUnsignedSwaps.  A signature document's
\* _id is the signature itself; an operator signs one burn with one sequence
\* number, and its key gives one signature for it, so documents count users.
FindAboveThreshold(h, threshold) == Cardinality(signatures[h]) >= threshold

\* findBySequence
FindBySequence(sequence) == {h \in Registered : swaps[h].sequence = sequence}

\* Mutant of FindLast: sorted the other way.
FindFirst == {h \in Registered : \A g \in Registered : swaps[h].sequence <= swaps[g].sequence}

\* The query of getNextSequenceNumber: the document with the highest one.
FindLast == {h \in Registered : \A g \in Registered : swaps[g].sequence <= swaps[h].sequence}

---------------------------------------------------------------------------
(* Writes. *)

FreeWriteIds == {i \in WriteIds : \A u \in updates : u.id # i}

\* Mutant of UpdateSwapStatus: the status is written without the hash.
UpdateStatusOnly(h, mintHash, status) ==
    /\ FreeWriteIds # {}
    /\ updates' = updates \cup
          {[id |-> CHOOSE i \in FreeWriteIds : TRUE, burn |-> h,
            status |-> status, mintTransactionHash |-> NoTx]}

\* updateSwapStatus: the request is issued, not awaited.
UpdateSwapStatus(h, mintHash, status) ==
    /\ FreeWriteIds # {}
    /\ updates' = updates \cup
          {[id |-> CHOOSE i \in FreeWriteIds : TRUE, burn |-> h,
            status |-> status, mintTransactionHash |-> mintHash]}

\* updateOne reaches the collection: $set of both fields where _id matches.
ApplyUpdate(u) ==
    /\ u \in updates
    /\ swaps' = IF swaps[u.burn].status = "ABSENT" THEN swaps
                ELSE [swaps EXCEPT ![u.burn].status = u.status,
                          ![u.burn].mintTransactionHash = u.mintTransactionHash]
    /\ updates' = updates \ {u}
    /\ UNCHANGED signatures

\* insertOne of a new, unsigned swap document reaches the collection.
ApplyInsert(h, sequence) ==
    /\ swaps' = [swaps EXCEPT ![h] =
                    [status |-> "UNSIGNED", sequence |-> sequence,
                     mintTransactionHash |-> NoTx]]
    /\ UNCHANGED <<signatures, updates>>

\* insertOne of a signature document; a second one with its _id is refused.
ApplySignature(user, h) ==
    /\ signatures' = [signatures EXCEPT ![h] = @ \cup {user}]
    /\ UNCHANGED <<swaps, updates>>

DbTypeOK ==
    /\ swaps \in [Burns -> Swap]
    /\ signatures \in [Burns -> SUBSET Operators]
    /\ updates \subseteq Update
=============================================================================
