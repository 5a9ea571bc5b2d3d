----------------------------- MODULE FormSystem -----------------------------
(***************************************************************************)
(* The client side: a user at the form, the wallet, the two contracts and   *)
(* everybody else who uses them.                                            *)
(***************************************************************************)
EXTENDS Integers, Functions, SwapForm

vars == <<formVars, engSwapVars, faults>>

Init == EngSwapInit /\ FormInit /\ FaultInit

Next ==
    \/ EditForm
    \/ HandleSubmit
    \/ \E a \in Accounts : AccountsHandler(a) \/ AnswerBalance(a) \/ BalanceFails(a)
    \/ NetworkHandler
    \/ \E i \in DOMAIN submissions : SubmissionStep(i) \/ Denied(i) \/ AllowanceFails(i)
    \/ OthersStep /\ UNCHANGED formVars

Spec == Init /\ [][Next]_vars

\* The provider answers, and what the wallet is asked to sign is signed or
\* refused, and mined.  Nothing is assumed of the user at the form.
Fairness ==
    /\ WF_vars(NetworkHandler /\ ~connected)
    /\ \A a \in Accounts : WF_vars(AnswerBalance(a))
    /\ \A i \in 1..MaxSubmissions :
          WF_vars(i \in DOMAIN submissions /\ SubmissionStep(i))

FairSpec == Spec /\ Fairness

-----------------------------------------------------------------------------

\* Every variable keeps its type; the supply and all sums fit a uint256.
TypeOK == EngSwapTypeOK /\ FormTypeOK /\ faults \in Nat

\* Every LogBurn event has a nonce of its own, and the nonces are those from 1
\* to burnNonce: availableNonce and SafeMath stop the contract before the
\* counter wraps (EngSwap.sol:43-49, 62).
NoncesInTurn ==
    /\ {l.nonce : l \in logs} = 1..burnNonce
    /\ \A l, m \in logs : l.nonce = m.nonce => l = m

\* No token is lost or made, and what the contract says was burnt, in total and
\* event by event, has reached the burning address (EngSwap.sol:62-66).
TokensAccounted ==
    /\ SumOver(balance, Accounts \cup {BurningAddress}) = InitialSupply
    /\ SumOver([l \in logs |-> l.amount], logs) = totalBurnt
    /\ totalBurnt <= balance[BurningAddress]

\* A call of initiateSwap that reports its burn has burnt the amount and from
\* the account there were when the button was pressed, whatever the user, the
\* wallet or another call did since; and nothing else is burnt, except by
\* others (App.js:308-314, 352-371).
BurntAsSubmitted ==
    \A a \in Accounts : \A n \in {l.amount : l \in logs} \cup {s.amount : s \in Range(submissions)} :
       LET burnt    == {l \in logs : l.from = a /\ l.amount = n}
           reported == {i \in DOMAIN submissions : /\ submissions[i].at = "burnt"
                                                  /\ submissions[i].account = a
                                                  /\ submissions[i].amount = n}
       IN  Cardinality(burnt) - Cardinality(reported) \in 0..faults

\* The form leaves the contract no right to more of a holder's tokens than the
\* holder submitted in one go (App.js:330-333).
AllowanceSubmitted ==
    \A a \in Accounts :
       \/ allowance[a] = 0
       \/ \E i \in DOMAIN submissions :
             submissions[i].account = a /\ allowance[a] <= submissions[i].amount

\* However submissions end, the form never stays in the loading state, in which
\* nothing can be submitted, as long as balance queries do not fail
\* (App.js:265, 368-372, 376-386).
FormFreed == []<>(~loading)

\* What FormFreed rests on: while the form is loading, something is under way
\* that will reset it, a balance query or a call that waits for the wallet, in
\* whatever order answers and overlapping calls reset it before their time
\* (App.js:259-277, 322, 358-372); again without failed balance queries.
LoadingIsOwed ==
    ("balance" \notin FaultKinds /\ loading) =>
       \/ \E a \in Accounts : queries[a] > 0
       \/ \E i \in DOMAIN submissions : submissions[i].at \in {"approve", "burn"}

\* "@param _recipient: The intended recipient's Secret Network address"
\* (EngSwap.sol:54): what the form burns names a Secret Network address.
BurnsNameAnAddress == \A l \in logs : l.to \in ValidRecipients
=============================================================================
