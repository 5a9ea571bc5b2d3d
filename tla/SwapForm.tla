------------------------------ MODULE SwapForm ------------------------------
(***************************************************************************)
(* client/src/App.js from the end of initWeb3: the form, the wallet's       *)
(* events, and initiateSwap, which the button may start again while an      *)
(* earlier call is at one of its awaits:                                    *)
(*   "allowance"  allowance().call()                                        *)
(*   "approve"    approve().send(), until its receipt or an error           *)
(*   "burn"       burnFunds().send(), likewise                              *)
(*   "burnt", "failed"  it has ended                                        *)
(* A transaction is mined and its receipt delivered in one step.            *)
(*                                                                          *)
(* Amounts are in grains, 0 for null and for text that is no amount; the    *)
(* errors are whether there is one.  errors.termsAccepted is left out: it   *)
(* is set only while `accepted` is false, and canSubmit asks for both.       *)
(* One network has the contracts, so networkHandler always sets the same.   *)
(***************************************************************************)
EXTENDS Sequences, EngSwap

CONSTANTS ValidRecipients,  \* those cosmos.address.getBytes32 accepts
          NoRecipient,      \* null or the empty text
          Amounts,          \* bound: what is typed
          MinAmount,        \* 1 ENG
          MaxSubmissions,   \* bound: calls of initiateSwap
          MaxQueries        \* bound: balance queries of one account when one more starts

ASSUME SwapFormAssumption ==
    /\ ValidRecipients \subseteq Recipients
    /\ NoRecipient \in Recipients \ ValidRecipients
    /\ Amounts \subseteq UInt
    /\ MinAmount \in Nat \ {0} /\ MaxSubmissions \in Nat /\ MaxQueries \in Nat

VARIABLES account,       \* accounts[0]
          connected,     \* contract and tokenContract are set
          tokenBalance,  \* 0 for null, which hasEng treats alike
          loading, accepted, swapAmount, recipientAddress, errors,
          queries,       \* balanceOf(a).call() in flight, by account
          submissions    \* the calls of initiateSwap

fieldVars == <<accepted, swapAmount, recipientAddress, errors>>
walletVars == <<account, connected>>
balanceVars == <<tokenBalance, queries>>
formVars == <<fieldVars, walletVars, balanceVars, loading, submissions>>

NoErrors == [swapAmount |-> FALSE, recipientAddress |-> FALSE]

Submission == [at : {"allowance", "approve", "burn", "burnt", "failed"},
               account : Accounts, amount : Nat,
               burn : [to : Recipients, amount : Nat]]   \* burnFunds' arguments

FormInit ==
    /\ account \in Accounts /\ connected = FALSE
    /\ tokenBalance = 0 /\ queries = [a \in Accounts |-> 0]
    /\ loading = FALSE /\ accepted = FALSE
    /\ swapAmount = 0 /\ recipientAddress = NoRecipient /\ errors = NoErrors
    /\ submissions = <<>>

ValidateForm == errors = NoErrors

HasEng == tokenBalance > 0

CanSubmit ==
    /\ ~loading /\ accepted
    /\ swapAmount > 0 /\ recipientAddress # NoRecipient
    /\ ValidateForm

-----------------------------------------------------------------------------
(* The fields (handleChange); loading does not disable them. *)

ChangeAmount(n) ==
    /\ HasEng
    /\ swapAmount' = n
    /\ errors' = [errors EXCEPT !.swapAmount = n < MinAmount \/ n > tokenBalance]
    /\ UNCHANGED <<accepted, recipientAddress>>

ChangeRecipient(r) ==
    /\ HasEng
    /\ recipientAddress' = r
    /\ errors' = [errors EXCEPT !.recipientAddress = r \notin ValidRecipients]
    /\ UNCHANGED <<accepted, swapAmount>>

ChangeTerms ==
    /\ accepted' = ~accepted
    /\ UNCHANGED <<swapAmount, recipientAddress, errors>>

MaxSwapAmount ==
    /\ HasEng
    /\ swapAmount' = tokenBalance
    /\ UNCHANGED <<accepted, recipientAddress, errors>>

EditForm ==
    /\ \/ \E n \in Amounts : ChangeAmount(n)
       \/ \E r \in Recipients : ChangeRecipient(r)
       \/ ChangeTerms
       \/ MaxSwapAmount
    /\ NoFault
    /\ UNCHANGED <<walletVars, balanceVars, loading, submissions, engSwapVars>>

-----------------------------------------------------------------------------
(* The wallet's events, and the balance they ask for. *)

\* tokenBalance() up to its await: it asks for accounts[0]'s balance, if there
\* is a contract to ask.
AskBalance(a, hasContract) ==
    /\ queries' = IF hasContract THEN [queries EXCEPT ![a] = @ + 1] ELSE queries
    /\ UNCHANGED tokenBalance

MayAsk(a) == queries[a] < MaxQueries

AccountsHandler(a) ==
    /\ MayAsk(a)
    /\ account' = a
    /\ errors' = NoErrors
    /\ AskBalance(a, connected) /\ loading' = connected
    /\ NoFault
    /\ UNCHANGED <<connected, accepted, swapAmount, recipientAddress, submissions, engSwapVars>>

NetworkHandler ==
    /\ MayAsk(account)
    /\ connected' = TRUE
    /\ AskBalance(account, TRUE) /\ loading' = TRUE
    /\ NoFault
    /\ UNCHANGED <<account, fieldVars, submissions, engSwapVars>>

AnswerBalance(a) ==
    /\ queries[a] > 0
    /\ queries' = [queries EXCEPT ![a] = @ - 1]
    /\ tokenBalance' = balance[a]
    /\ loading' = FALSE
    /\ NoFault
    /\ UNCHANGED <<fieldVars, walletVars, submissions, engSwapVars>>

\* Nobody handles the rejected tokenBalance(): `loading` stays as it is.
BalanceFails(a) ==
    /\ Fault("balance")
    /\ queries[a] > 0
    /\ queries' = [queries EXCEPT ![a] = @ - 1]
    /\ UNCHANGED <<tokenBalance, loading, fieldVars, walletVars, submissions, engSwapVars>>

-----------------------------------------------------------------------------
(* initiateSwap *)

\* handleSubmit, on a button that is enabled when canSubmit() holds, and
\* initiateSwap up to its first await: account and amount are now constants.
HandleSubmit ==
    /\ CanSubmit
    /\ Len(submissions) < MaxSubmissions
    /\ submissions' = Append(submissions,
          [at |-> "allowance", account |-> account, amount |-> swapAmount,
           burn |-> [to |-> NoRecipient, amount |-> 0]])
    /\ NoFault
    /\ UNCHANGED <<fieldVars, walletVars, balanceVars, loading, engSwapVars>>

Awaits(i, call) == submissions[i].at = call

Continue(i, call) == submissions' = [submissions EXCEPT ![i].at = call]

\* Mutant: the amount, too, is read from the form after the awaits.
BurnOfForm(i) == [to |-> recipientAddress, amount |-> swapAmount]

\* The recipient is what the form now says.
BurnArguments(i) == [to |-> recipientAddress, amount |-> submissions[i].amount]

\* burnFunds(...).send()
SendBurn(i) ==
    submissions' = [submissions EXCEPT ![i].at = "burn", ![i].burn = BurnArguments(i)]

AnswerAllowance(i) ==
    /\ Awaits(i, "allowance")
    /\ loading' = TRUE
    /\ IF allowance[submissions[i].account] < submissions[i].amount
       THEN Continue(i, "approve")
       ELSE SendBurn(i)
    /\ UNCHANGED <<balanceVars, engSwapVars>>

\* Mutant: the amount is approved on top of what is.
ApprovedMore(i) == allowance[submissions[i].account] + submissions[i].amount

ApprovedAmount(i) == submissions[i].amount

ApproveMined(i) ==
    /\ Awaits(i, "approve")
    /\ Approve(submissions[i].account, ApprovedAmount(i))
    /\ SendBurn(i)
    /\ UNCHANGED <<loading, balanceVars>>

\* .then: tokenBalance() sets loading and the next line resets it.
BurnMined(i) ==
    /\ Awaits(i, "burn")
    /\ BurnFunds(submissions[i].account, submissions[i].burn.to, submissions[i].burn.amount)
    /\ Continue(i, "burnt")
    /\ AskBalance(account, connected) /\ loading' = FALSE

\* Mutant: an error leaves `loading` as it is.
ErrorShown(i) ==
    /\ Continue(i, "failed")
    /\ UNCHANGED <<loading, balanceVars, engSwapVars>>

HandleError(i) ==
    /\ Continue(i, "failed")
    /\ loading' = FALSE
    /\ UNCHANGED <<balanceVars, engSwapVars>>

Reverts(i) ==
    LET s == submissions[i]
    IN  \/ Awaits(i, "approve") /\ ~CanApprove
        \/ Awaits(i, "burn") /\ ~CanBurn(s.account, s.burn.amount)

SubmissionStep(i) ==
    /\ \/ AnswerAllowance(i)
       \/ ApproveMined(i)
       \/ BurnMined(i)
       \/ Reverts(i) /\ HandleError(i)
    /\ NoFault
    /\ UNCHANGED <<fieldVars, walletVars>>

\* The wallet refuses: the user denies it, or there is no gas.
Denied(i) ==
    /\ Fault("deny")
    /\ Awaits(i, "approve") \/ Awaits(i, "burn")
    /\ HandleError(i)
    /\ UNCHANGED <<fieldVars, walletVars>>

\* initiateSwap rejects, with `loading` not set yet.
AllowanceFails(i) ==
    /\ Fault("allowance")
    /\ Awaits(i, "allowance")
    /\ Continue(i, "failed")
    /\ UNCHANGED <<loading, fieldVars, walletVars, balanceVars, engSwapVars>>

FormTypeOK ==
    /\ account \in Accounts
    /\ connected \in BOOLEAN /\ loading \in BOOLEAN /\ accepted \in BOOLEAN
    /\ tokenBalance \in Nat /\ swapAmount \in Nat
    /\ recipientAddress \in Recipients
    /\ errors \in [swapAmount : BOOLEAN, recipientAddress : BOOLEAN]
    /\ queries \in [Accounts -> Nat]
    /\ submissions \in Seq(Submission)
=============================================================================
