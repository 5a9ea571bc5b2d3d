----------------------------- MODULE FormProofs -----------------------------
(***************************************************************************)
(* Theorems of FormSystem, for every set of holders and recipients, every   *)
(* supply, width of a uint256 and number of submissions.                    *)
(***************************************************************************)
EXTENDS FormSystem, SumProofs

-----------------------------------------------------------------------------
(* The contract. *)

\* Every burn takes the next nonce.
LEMMA BurnsInTurn ==
    ASSUME EngSwapTypeOK, NoncesInTurn,
           NEW a \in Accounts, NEW r \in Recipients, NEW n \in Nat, BurnFunds(a, r, n)
    PROVE  NoncesInTurn'
<1> DEFINE log == [from |-> a, to |-> r, amount |-> n, nonce |-> burnNonce']
<1>1. burnNonce \in Nat /\ burnNonce' = burnNonce + 1 /\ logs' = logs \cup {log}
  BY DEF EngSwapTypeOK, BurnFunds
<1>2. log.nonce = burnNonce + 1
  BY <1>1
<1>3. \A l \in logs : l.nonce \in 1..burnNonce
  BY DEF NoncesInTurn
<1>4. {l.nonce : l \in logs'} = {l.nonce : l \in logs} \cup {burnNonce + 1}
  <2> HIDE DEF log
  <2> QED  BY <1>1, <1>2
<1>5. {l.nonce : l \in logs'} = 1..burnNonce'
  BY <1>1, <1>4 DEF NoncesInTurn
<1>6. \A l, m \in logs' : l.nonce = m.nonce => l = m
  <2> HIDE DEF log
  <2> SUFFICES ASSUME NEW l \in logs', NEW m \in logs', l.nonce = m.nonce
               PROVE  l = m
    OBVIOUS
  <2>1. l.nonce # burnNonce + 1 => l \in logs /\ m \in logs
    BY <1>1, <1>2
  <2>2. l.nonce = burnNonce + 1 => l = log /\ m = log
    <3>1. \A k \in logs : k.nonce # burnNonce + 1
      BY <1>1, <1>3
    <3> QED  BY <1>1, <3>1
  <2> QED  BY <2>1, <2>2 DEF NoncesInTurn
<1> QED  BY <1>5, <1>6 DEF NoncesInTurn

LEMMA MovedTyped ==
    ASSUME EngSwapTypeOK, NEW a \in Accounts, NEW b \in Accounts \cup {BurningAddress},
           NEW n \in Nat, balance[a] >= n
    PROVE  Moved(a, b, n) \in [Accounts \cup {BurningAddress} -> Nat]
<1>1. balance[a] - n \in Nat
  BY DEF EngSwapTypeOK
<1>2. [balance EXCEPT ![a] = @ - n] \in [Accounts \cup {BurningAddress} -> Nat]
  BY <1>1 DEF EngSwapTypeOK
<1> QED  BY <1>2 DEF Moved

LEMMA BurnTyped ==
    ASSUME EngSwapTypeOK, NEW a \in Accounts, NEW r \in Recipients, NEW n \in Nat,
           BurnFunds(a, r, n)
    PROVE  EngSwapTypeOK'
<1>1. balance[a] >= n /\ allowance[a] >= n
  BY DEF BurnFunds, CanBurn, CanTransferFrom
<1>2. balance' \in [Accounts \cup {BurningAddress} -> Nat]
  BY <1>1, MovedTyped DEF BurnFunds, TransferFrom
<1>3. allowance' \in [Accounts -> Nat]
  BY <1>1 DEF EngSwapTypeOK, BurnFunds, TransferFrom
<1>4. paused' \in BOOLEAN /\ burnNonce' \in Nat /\ totalBurnt' \in Nat
  BY DEF EngSwapTypeOK, BurnFunds, TransferFrom
<1>5. [from |-> a, to |-> r, amount |-> n, nonce |-> burnNonce'] \in LogBurn
  BY <1>4 DEF LogBurn
<1> QED  BY <1>2, <1>3, <1>4, <1>5 DEF EngSwapTypeOK, BurnFunds

LEMMA ApproveTyped ==
    ASSUME EngSwapTypeOK, NEW a \in Accounts, NEW n \in Nat, Approve(a, n)
    PROVE  EngSwapTypeOK'
BY DEF EngSwapTypeOK, Approve

LEMMA EngSwapKept == ASSUME EngSwapTypeOK, UNCHANGED engSwapVars PROVE EngSwapTypeOK'
BY DEF EngSwapTypeOK, engSwapVars, tokenVars

LEMMA OthersTyped == ASSUME EngSwapTypeOK, OthersStep PROVE EngSwapTypeOK'
<1>1. ASSUME NEW a \in Accounts, NEW r \in Recipients, NEW n \in 0..balance[a], BurnFunds(a, r, n)
      PROVE  EngSwapTypeOK'
  <2>1. n \in Nat
    BY DEF EngSwapTypeOK
  <2> QED  BY <1>1, <2>1, BurnTyped
<1>2. ASSUME NEW a \in Accounts, NEW b \in Accounts \cup {BurningAddress}, NEW n \in 1..balance[a],
             Transfer(a, b, n)
      PROVE  EngSwapTypeOK'
  <2>1. n \in Nat /\ balance[a] >= n
    BY <1>2 DEF EngSwapTypeOK, Transfer
  <2>2. balance' \in [Accounts \cup {BurningAddress} -> Nat]
    BY <1>2, <2>1, MovedTyped DEF Transfer
  <2> QED  BY <1>2, <2>2 DEF Transfer, EngSwapTypeOK
<1>3. CASE paused' = ~paused /\ UNCHANGED <<balance, allowance, burnNonce, totalBurnt, logs>>
  BY <1>3 DEF EngSwapTypeOK
<1> QED  BY <1>1, <1>2, <1>3 DEF OthersStep

-----------------------------------------------------------------------------
(* The form. *)

\* Whatever a submission's call does, it stays a submission of its account and
\* amount.
LEMMA SubmissionKept ==
    ASSUME FormTypeOK, NEW i \in DOMAIN submissions,
           \/ \E call \in {"approve", "burnt", "failed"} : Continue(i, call)
           \/ SendBurn(i)
    PROVE  /\ submissions' \in Seq(Submission)
           /\ DOMAIN submissions' = DOMAIN submissions
           /\ \A j \in DOMAIN submissions : /\ submissions'[j].account = submissions[j].account
                                           /\ submissions'[j].amount = submissions[j].amount
<1>1. submissions \in Seq(Submission) /\ submissions[i] \in Submission
  BY DEF FormTypeOK
<1>2. CASE \E call \in {"approve", "burnt", "failed"} : Continue(i, call)
  <2>1. PICK call \in {"approve", "burnt", "failed"} : Continue(i, call)
    BY <1>2
  <2>2. [submissions[i] EXCEPT !.at = call] \in Submission
    BY <1>1 DEF Submission
  <2>3. submissions' = [submissions EXCEPT ![i] = [submissions[i] EXCEPT !.at = call]]
    BY <1>1, <2>1 DEF Continue
  <2> QED  BY <1>1, <2>2, <2>3 DEF Submission
<1>3. CASE SendBurn(i)
  <2>1. BurnArguments(i) \in [to : Recipients, amount : Nat]
    BY <1>1 DEF BurnArguments, FormTypeOK, Submission
  <2> DEFINE s == [submissions[i] EXCEPT !.at = "burn", !.burn = BurnArguments(i)]
  <2>2. s \in Submission /\ s.account = submissions[i].account /\ s.amount = submissions[i].amount
    BY <1>1, <2>1 DEF Submission
  <2>3. submissions' = [submissions EXCEPT ![i] = s]
    BY <1>1, <1>3 DEF SendBurn
  <2> QED  BY <1>1, <2>2, <2>3
<1> QED  BY <1>2, <1>3

LEMMA FaultsCounted == ASSUME faults \in Nat, NoFault \/ \E kind : Fault(kind) PROVE faults' \in Nat
BY DEF NoFault, Fault

\* What changes when the form's own fields stay as they are.
LEMMA FieldsKept ==
    ASSUME FormTypeOK, UNCHANGED <<fieldVars, walletVars>>,
           loading' \in BOOLEAN, tokenBalance' \in Nat, queries' \in [Accounts -> Nat],
           submissions' \in Seq(Submission)
    PROVE  FormTypeOK'
BY DEF FormTypeOK, fieldVars, walletVars

LEMMA AskTyped ==
    ASSUME FormTypeOK, NEW a \in Accounts, NEW c \in BOOLEAN, AskBalance(a, c)
    PROVE  tokenBalance' \in Nat /\ queries' \in [Accounts -> Nat]
BY DEF FormTypeOK, AskBalance

LEMMA EditTyped == ASSUME TypeOK, EditForm PROVE TypeOK'
<1>1. EngSwapTypeOK' /\ faults' \in Nat
  BY EngSwapKept, FaultsCounted DEF TypeOK, EditForm
<1>2. tokenBalance \in Nat /\ \A n \in Amounts : n \in Nat
  BY SwapFormAssumption, EngSwapAssumption DEF TypeOK, FormTypeOK, UInt
<1>3. accepted' \in BOOLEAN /\ swapAmount' \in Nat /\ recipientAddress' \in Recipients
  BY <1>2 DEF TypeOK, FormTypeOK, EditForm, ChangeAmount, ChangeRecipient, ChangeTerms, MaxSwapAmount
<1>4. errors' \in [swapAmount : BOOLEAN, recipientAddress : BOOLEAN]
  BY DEF TypeOK, FormTypeOK, EditForm, ChangeAmount, ChangeRecipient, ChangeTerms, MaxSwapAmount
<1>5. UNCHANGED <<walletVars, balanceVars, loading, submissions>>
  BY DEF EditForm
<1> QED  BY <1>1, <1>3, <1>4, <1>5 DEF TypeOK, FormTypeOK, walletVars, balanceVars

LEMMA SubmitTyped == ASSUME TypeOK, HandleSubmit PROVE TypeOK'
<1>1. EngSwapTypeOK' /\ faults' \in Nat
  BY EngSwapKept, FaultsCounted DEF TypeOK, HandleSubmit
<1> DEFINE s == [at |-> "allowance", account |-> account, amount |-> swapAmount,
                 burn |-> [to |-> NoRecipient, amount |-> 0]]
<1>2. s \in Submission
  BY SwapFormAssumption DEF TypeOK, FormTypeOK, Submission
<1>3. submissions' \in Seq(Submission)
  BY <1>2 DEF TypeOK, FormTypeOK, HandleSubmit
<1>4. UNCHANGED <<fieldVars, walletVars, balanceVars, loading>>
  BY DEF HandleSubmit
<1> QED  BY <1>1, <1>3, <1>4, FieldsKept DEF TypeOK, FormTypeOK, balanceVars

LEMMA WalletTyped ==
    ASSUME TypeOK,
           \/ NetworkHandler
           \/ \E a \in Accounts : AccountsHandler(a) \/ AnswerBalance(a) \/ BalanceFails(a)
    PROVE  TypeOK'
<1> USE DEF TypeOK
<1>1. CASE NetworkHandler
  <2>1. tokenBalance' \in Nat /\ queries' \in [Accounts -> Nat]
    BY <1>1, AskTyped DEF NetworkHandler, FormTypeOK
  <2> QED  BY <1>1, <2>1, EngSwapKept, FaultsCounted DEF NetworkHandler, FormTypeOK, fieldVars
<1>2. ASSUME NEW a \in Accounts, AccountsHandler(a) PROVE TypeOK'
  <2>1. tokenBalance' \in Nat /\ queries' \in [Accounts -> Nat]
    BY <1>2, AskTyped DEF AccountsHandler, FormTypeOK
  <2> QED  BY <1>2, <2>1, EngSwapKept, FaultsCounted DEF AccountsHandler, FormTypeOK, NoErrors
<1>3. ASSUME NEW a \in Accounts, AnswerBalance(a) PROVE TypeOK'
  <2>1. queries' \in [Accounts -> Nat] /\ balance[a] \in Nat
    BY <1>3 DEF AnswerBalance, FormTypeOK, EngSwapTypeOK
  <2> QED  BY <1>3, <2>1, EngSwapKept, FaultsCounted, FieldsKept DEF AnswerBalance, FormTypeOK
<1>4. ASSUME NEW a \in Accounts, BalanceFails(a) PROVE TypeOK'
  <2>1. queries' \in [Accounts -> Nat]
    BY <1>4 DEF BalanceFails, FormTypeOK
  <2> QED  BY <1>4, <2>1, EngSwapKept, FaultsCounted, FieldsKept DEF BalanceFails, FormTypeOK
<1> QED  BY <1>1, <1>2, <1>3, <1>4

\* The steps of initiateSwap.
CallStep(i) == SubmissionStep(i) \/ Denied(i) \/ AllowanceFails(i)

LEMMA CallKeeps ==
    ASSUME TypeOK, NEW i \in DOMAIN submissions, CallStep(i)
    PROVE  /\ submissions' \in Seq(Submission)
           /\ DOMAIN submissions' = DOMAIN submissions
           /\ \A j \in DOMAIN submissions : /\ submissions'[j].account = submissions[j].account
                                           /\ submissions'[j].amount = submissions[j].amount
<1>1. \/ \E call \in {"approve", "burnt", "failed"} : Continue(i, call)
      \/ SendBurn(i)
  BY DEF CallStep, SubmissionStep, Denied, AllowanceFails, AnswerAllowance, ApproveMined, BurnMined,
         HandleError
<1> QED  BY <1>1, SubmissionKept DEF TypeOK

LEMMA CallTyped ==
    ASSUME TypeOK, NEW i \in DOMAIN submissions, CallStep(i)
    PROVE  TypeOK'
<1> USE DEF TypeOK
<1>1. submissions[i] \in Submission
  BY DEF FormTypeOK
<1>2. submissions' \in Seq(Submission)
  BY CallKeeps
<1>3. UNCHANGED <<fieldVars, walletVars>> /\ faults' \in Nat
  BY FaultsCounted DEF CallStep, SubmissionStep, Denied, AllowanceFails
<1>4. CASE ApproveMined(i)
  <2>1. EngSwapTypeOK'
    BY <1>1, <1>4, ApproveTyped DEF ApproveMined, ApprovedAmount, Submission
  <2> QED  BY <1>2, <1>3, <1>4, <2>1, FieldsKept DEF ApproveMined, FormTypeOK, balanceVars
<1>5. CASE BurnMined(i)
  <2>1. EngSwapTypeOK'
    BY <1>1, <1>5, BurnTyped DEF BurnMined, Submission
  <2>2. tokenBalance' \in Nat /\ queries' \in [Accounts -> Nat] /\ loading' \in BOOLEAN
    BY <1>5, AskTyped DEF BurnMined, FormTypeOK
  <2> QED  BY <1>2, <1>3, <2>1, <2>2, FieldsKept
<1>6. CASE AnswerAllowance(i) \/ HandleError(i) \/ AllowanceFails(i)
  <2>1. EngSwapTypeOK'
    BY <1>6, EngSwapKept DEF AnswerAllowance, HandleError, AllowanceFails
  <2>2. loading' \in BOOLEAN /\ UNCHANGED balanceVars
    BY <1>6 DEF AnswerAllowance, HandleError, AllowanceFails, FormTypeOK
  <2> QED  BY <1>2, <1>3, <2>1, <2>2, FieldsKept DEF FormTypeOK, balanceVars
<1> QED  BY <1>4, <1>5, <1>6 DEF CallStep, SubmissionStep, Denied

LEMMA TypeInit == Init => TypeOK
<1> SUFFICES ASSUME Init PROVE TypeOK
  OBVIOUS
<1>1. EngSwapTypeOK
  <2>1. \A n \in 0..InitialSupply : n \in Nat
    BY EngSwapAssumption DEF UInt
  <2> QED  BY <2>1 DEF Init, EngSwapInit, EngSwapTypeOK
<1>2. FormTypeOK /\ faults \in Nat
  <2>1. <<>> \in Seq(Submission)
    OBVIOUS
  <2>2. NoErrors \in [swapAmount : BOOLEAN, recipientAddress : BOOLEAN]
    BY DEF NoErrors
  <2>3. connected \in BOOLEAN /\ loading \in BOOLEAN /\ accepted \in BOOLEAN
    BY DEF Init, FormInit
  <2>4. queries \in [Accounts -> Nat] /\ tokenBalance \in Nat /\ swapAmount \in Nat
    BY DEF Init, FormInit
  <2>5. account \in Accounts /\ recipientAddress \in Recipients
    BY SwapFormAssumption DEF Init, FormInit
  <2>6. submissions \in Seq(Submission) /\ faults \in Nat
    BY <2>1 DEF Init, FormInit, FaultInit
  <2> QED  BY <2>2, <2>3, <2>4, <2>5, <2>6 DEF Init, FormInit, FormTypeOK
<1> QED  BY <1>1, <1>2 DEF TypeOK

LEMMA TypeStep == TypeOK /\ [Next]_vars => TypeOK'
<1> SUFFICES ASSUME TypeOK, [Next]_vars PROVE TypeOK'
  OBVIOUS
<1>1. CASE OthersStep /\ UNCHANGED formVars
  <2>1. EngSwapTypeOK' /\ faults' \in Nat
    BY <1>1, OthersTyped, FaultsCounted DEF TypeOK, OthersStep
  <2> QED  BY <1>1, <2>1 DEF TypeOK, FormTypeOK, formVars, fieldVars, walletVars, balanceVars
<1>2. CASE \E i \in DOMAIN submissions : CallStep(i)
  BY <1>2, CallTyped
<1>3. CASE UNCHANGED vars
  <2>1. UNCHANGED <<formVars, engSwapVars, faults>>
    BY <1>3 DEF vars
  <2> QED  BY <2>1, EngSwapKept DEF TypeOK, FormTypeOK, formVars, fieldVars, walletVars, balanceVars
<1> QED  BY <1>1, <1>2, <1>3, EditTyped, SubmitTyped, WalletTyped DEF Next, CallStep

\* Type correctness of the client side: balances and allowances, in particular,
\* never become negative (EngSwap.sol:35-41, 66).
THEOREM TypeCorrect == Spec => []TypeOK
BY TypeInit, TypeStep, PTL DEF Spec

-----------------------------------------------------------------------------
(* What a step does to the contract: a burn, an approval of the amount of a  *)
(* submission, or nothing to nonce, events and allowances.                   *)

LEMMA ContractSteps ==
    ASSUME TypeOK, [Next]_vars
    PROVE  \/ \E a \in Accounts, r \in Recipients, n \in Nat : BurnFunds(a, r, n)
           \/ \E i \in DOMAIN submissions : ApproveMined(i)
           \/ UNCHANGED <<burnNonce, logs, allowance>>
<1>1. CASE OthersStep
  <2>2. \A a \in Accounts : 0..balance[a] \subseteq Nat
    BY DEF TypeOK, EngSwapTypeOK
  <2> QED  BY <1>1, <2>2 DEF OthersStep, Transfer
<1>2. ASSUME NEW i \in DOMAIN submissions, CallStep(i)
      PROVE  \/ \E a \in Accounts, r \in Recipients, n \in Nat : BurnFunds(a, r, n)
             \/ ApproveMined(i)
             \/ UNCHANGED engSwapVars
  <2>1. submissions[i] \in Submission
    BY DEF TypeOK, FormTypeOK
  <2>2. BurnMined(i) => \E a \in Accounts, r \in Recipients, n \in Nat : BurnFunds(a, r, n)
    BY <2>1 DEF BurnMined, Submission
  <2> QED  BY <1>2, <2>2 DEF CallStep, SubmissionStep, Denied, AllowanceFails, AnswerAllowance,
                             HandleError
<1>3. CASE \/ EditForm \/ HandleSubmit \/ NetworkHandler
           \/ \E a \in Accounts : AccountsHandler(a) \/ AnswerBalance(a) \/ BalanceFails(a)
  BY <1>3 DEF EditForm, HandleSubmit, NetworkHandler, AccountsHandler, AnswerBalance,
              BalanceFails, engSwapVars, tokenVars
<1>4. CASE UNCHANGED vars
  BY <1>4 DEF vars, engSwapVars, tokenVars
<1> QED  BY <1>1, <1>2, <1>3, <1>4 DEF Next, CallStep, engSwapVars, tokenVars

LEMMA NoncesInit == Init => NoncesInTurn
<1> SUFFICES ASSUME Init PROVE NoncesInTurn
  OBVIOUS
<1>1. logs = {} /\ 1..burnNonce = {}
  BY DEF Init, EngSwapInit
<1> QED  BY <1>1 DEF NoncesInTurn

LEMMA NoncesStep == TypeOK /\ NoncesInTurn /\ [Next]_vars => NoncesInTurn'
<1> SUFFICES ASSUME TypeOK, NoncesInTurn, [Next]_vars PROVE NoncesInTurn'
  OBVIOUS
<1>1. CASE \E a \in Accounts, r \in Recipients, n \in Nat : BurnFunds(a, r, n)
  BY <1>1, BurnsInTurn DEF TypeOK
<1>2. CASE \E i \in DOMAIN submissions : ApproveMined(i)
  BY <1>2 DEF ApproveMined, Approve, NoncesInTurn
<1>3. CASE UNCHANGED <<burnNonce, logs, allowance>>
  BY <1>3 DEF NoncesInTurn
<1> QED  BY <1>1, <1>2, <1>3, ContractSteps

\* Every burn has a nonce of its own, for uint256 of every width
\* (EngSwap.sol:43-49, 62).
THEOREM NoncesUnique == Spec => []NoncesInTurn
BY NoncesInit, NoncesStep, TypeCorrect, PTL DEF Spec

-----------------------------------------------------------------------------
(* Tokens. *)

\* The holders, and the address at which tokens are burnt.
Holders == Accounts \cup {BurningAddress}

\* Moving tokens from a holder to another, or to himself, changes no sum.
LEMMA MovedSum ==
    ASSUME EngSwapTypeOK, NEW a \in Accounts, NEW b \in Holders, NEW n \in Nat, balance[a] >= n
    PROVE  /\ SumOver(Moved(a, b, n), Holders) = SumOver(balance, Holders)
           /\ Moved(a, b, n)[BurningAddress]
                = IF b = BurningAddress THEN balance[BurningAddress] + n
                  ELSE balance[BurningAddress]
<1> DEFINE debited == [balance EXCEPT ![a] = balance[a] - n]
           moved   == [debited EXCEPT ![b] = debited[b] + n]
<1>1. IsFiniteSet(Holders) /\ a \in Holders /\ BurningAddress \in Holders /\ a # BurningAddress
  BY EngSwapAssumption, FS_AddElement DEF Holders
<1>2. balance \in [Holders -> Nat] /\ balance[a] \in Nat /\ balance[a] - n \in Nat
  BY <1>1 DEF EngSwapTypeOK, Holders
<1>3. /\ debited \in [Holders -> Nat] /\ debited[a] = balance[a] - n /\ debited[b] \in Nat
      /\ \A x \in Holders \ {a} : debited[x] = balance[x]
  BY <1>1, <1>2
<1>4. Moved(a, b, n) = moved
  BY DEF Moved
<1> HIDE DEF debited
<1>5. /\ moved \in [Holders -> Nat] /\ moved[b] = debited[b] + n
      /\ \A x \in Holders \ {b} : moved[x] = debited[x]
  BY <1>1, <1>3
<1> HIDE DEF moved
<1>6. /\ SumOver(balance, Holders) \in Nat /\ SumOver(debited, Holders) \in Nat
      /\ SumOver(debited, Holders) + balance[a] = SumOver(balance, Holders) + debited[a]
  BY <1>1, <1>2, <1>3, SumChanged
<1>7. /\ SumOver(moved, Holders) \in Nat
      /\ SumOver(moved, Holders) + debited[b] = SumOver(debited, Holders) + moved[b]
  BY <1>1, <1>3, <1>5, SumChanged
<1>8. SumOver(moved, Holders) = SumOver(balance, Holders)
  BY <1>2, <1>3, <1>5, <1>6, <1>7
<1>9. moved[BurningAddress] = IF b = BurningAddress THEN balance[BurningAddress] + n
                              ELSE balance[BurningAddress]
  BY <1>1, <1>3, <1>5
<1> QED  BY <1>4, <1>8, <1>9

\* One more event adds its amount to those of the others.
LEMMA LogsSum ==
    ASSUME NEW L, IsFiniteSet(L), \A l \in L : l.amount \in Nat,
           NEW log, log \notin L, log.amount \in Nat
    PROVE  /\ IsFiniteSet(L \cup {log})
           /\ SumOver([l \in L \cup {log} |-> l.amount], L \cup {log})
                = log.amount + SumOver([l \in L |-> l.amount], L)
<1> DEFINE f == [l \in L |-> l.amount]
           M == L \cup {log}
           g == [l \in M |-> l.amount]
<1>1. IsFiniteSet(M) /\ log \in M /\ M \ {log} = L
  BY FS_AddElement
<1>2. \A l \in M : g[l] \in Nat /\ g[l] = l.amount
  OBVIOUS
<1>3. \A l \in L : f[l] = g[l]
  OBVIOUS
<1> HIDE DEF f, g, M
<1>4. SumOver(g, M) = log.amount + SumOver(g, L)
  BY <1>1, <1>2, SumRemove
<1>5. SumOver(f, L) = SumOver(g, L)
  BY <1>3, SumSame
<1> QED  BY <1>1, <1>4, <1>5 DEF f, g, M

\* What moves tokens or burns them, and what leaves them alone.
LEMMA TokenSteps ==
    ASSUME TypeOK, [Next]_vars
    PROVE  \/ \E a \in Accounts, r \in Recipients, n \in Nat : BurnFunds(a, r, n)
           \/ \E a \in Accounts, b \in Holders, n \in Nat : Transfer(a, b, n)
           \/ UNCHANGED <<balance, totalBurnt, logs>>
<1>1. CASE OthersStep
  <2>1. \A a \in Accounts : 0..balance[a] \subseteq Nat /\ 1..balance[a] \subseteq Nat
    BY DEF TypeOK, EngSwapTypeOK
  <2> QED  BY <1>1, <2>1 DEF OthersStep, Holders
<1>2. CASE \E i \in DOMAIN submissions : CallStep(i)
  <2>1. \A i \in DOMAIN submissions : submissions[i] \in Submission
    BY DEF TypeOK, FormTypeOK
  <2> QED  BY <1>2, <2>1 DEF CallStep, SubmissionStep, Denied, AllowanceFails, AnswerAllowance,
                             ApproveMined, Approve, BurnMined, HandleError, Submission,
                             engSwapVars, tokenVars
<1>3. CASE \/ EditForm \/ HandleSubmit \/ NetworkHandler
           \/ \E a \in Accounts : AccountsHandler(a) \/ AnswerBalance(a) \/ BalanceFails(a)
  BY <1>3 DEF EditForm, HandleSubmit, NetworkHandler, AccountsHandler, AnswerBalance,
              BalanceFails, engSwapVars, tokenVars
<1>4. CASE UNCHANGED vars
  BY <1>4 DEF vars, engSwapVars, tokenVars
<1> QED  BY <1>1, <1>2, <1>3, <1>4 DEF Next, CallStep

TokenInv == IsFiniteSet(logs) /\ TokensAccounted

LEMMA TokenInit == Init => TokenInv
<1> SUFFICES ASSUME Init PROVE TokenInv
  OBVIOUS
<1>1. /\ balance \in [Holders -> 0..InitialSupply] /\ balance[BurningAddress] = 0
      /\ SumOver(balance, Accounts) = InitialSupply
      /\ logs = {} /\ totalBurnt = 0
  BY DEF Init, EngSwapInit, Holders
<1>2. \A n \in 0..InitialSupply : n \in Nat
  BY EngSwapAssumption DEF UInt
<1>3. SumOver(balance, Holders) = balance[BurningAddress] + SumOver(balance, Accounts)
  <2>1. IsFiniteSet(Holders) /\ BurningAddress \in Holders /\ Holders \ {BurningAddress} = Accounts
    BY EngSwapAssumption, FS_AddElement DEF Holders
  <2>2. \A x \in Holders : balance[x] \in Nat
    BY <1>1, <1>2
  <2> QED  BY <2>1, <2>2, SumRemove
<1>4. SumOver(balance, Holders) = InitialSupply
  BY <1>1, <1>3, EngSwapAssumption DEF UInt
<1> QED  BY <1>1, <1>4, SumEmpty, FS_EmptySet DEF TokenInv, TokensAccounted, Holders

LEMMA TokenStep == TypeOK /\ NoncesInTurn /\ TokenInv /\ [Next]_vars => TokenInv'
<1> SUFFICES ASSUME TypeOK, NoncesInTurn, TokenInv, [Next]_vars PROVE TokenInv'
  OBVIOUS
<1>t. EngSwapTypeOK /\ totalBurnt \in Nat /\ balance[BurningAddress] \in Nat
  BY DEF TypeOK, EngSwapTypeOK
<1>i. /\ IsFiniteSet(logs) /\ SumOver(balance, Holders) = InitialSupply
      /\ SumOver([l \in logs |-> l.amount], logs) = totalBurnt
      /\ totalBurnt <= balance[BurningAddress]
  BY DEF TokenInv, TokensAccounted, Holders
<1>1. ASSUME NEW a \in Accounts, NEW r \in Recipients, NEW n \in Nat, BurnFunds(a, r, n)
      PROVE  TokenInv'
  <2> DEFINE log == [from |-> a, to |-> r, amount |-> n, nonce |-> burnNonce']
  <2>1. /\ balance[a] >= n /\ balance' = Moved(a, BurningAddress, n)
        /\ totalBurnt' = totalBurnt + n /\ logs' = logs \cup {log}
        /\ burnNonce' = burnNonce + 1
    BY <1>1 DEF BurnFunds, CanBurn, CanTransferFrom, TransferFrom
  <2>2. /\ SumOver(balance', Holders) = SumOver(balance, Holders)
        /\ balance'[BurningAddress] = balance[BurningAddress] + n
    BY <1>t, <2>1, MovedSum DEF Holders
  <2>3. log \notin logs /\ log.amount = n /\ \A l \in logs : l.amount \in Nat
    <3>1. burnNonce \in Nat /\ \A l \in logs : l.amount \in Nat
      BY <1>t DEF EngSwapTypeOK, LogBurn
    <3>2. \A l \in logs : l.nonce \in 1..burnNonce
      BY DEF NoncesInTurn
    <3>3. log.nonce \notin 1..burnNonce
      BY <2>1, <3>1
    <3> QED  BY <3>1, <3>2, <3>3
  <2> HIDE DEF log
  <2>4. /\ IsFiniteSet(logs')
        /\ SumOver([l \in logs' |-> l.amount], logs') = n + SumOver([l \in logs |-> l.amount], logs)
    BY <1>i, <2>1, <2>3, LogsSum
  <2>5. totalBurnt' <= balance'[BurningAddress]
        /\ SumOver([l \in logs' |-> l.amount], logs') = totalBurnt'
    BY <1>t, <1>i, <2>1, <2>2, <2>4
  <2> QED  BY <1>i, <2>2, <2>4, <2>5 DEF TokenInv, TokensAccounted, Holders
<1>2. ASSUME NEW a \in Accounts, NEW b \in Holders, NEW n \in Nat, Transfer(a, b, n)
      PROVE  TokenInv'
  <2>1. balance[a] >= n /\ balance' = Moved(a, b, n) /\ UNCHANGED <<totalBurnt, logs>>
    BY <1>2 DEF Transfer
  <2>2. /\ SumOver(balance', Holders) = SumOver(balance, Holders)
        /\ balance'[BurningAddress] >= balance[BurningAddress]
        /\ balance'[BurningAddress] \in Nat
    BY <1>t, <2>1, MovedSum
  <2>3. totalBurnt' <= balance'[BurningAddress]
    BY <1>t, <1>i, <2>1, <2>2
  <2> QED  BY <1>i, <2>1, <2>2, <2>3 DEF TokenInv, TokensAccounted, Holders
<1>3. CASE UNCHANGED <<balance, totalBurnt, logs>>
  BY <1>i, <1>3 DEF TokenInv, TokensAccounted, Holders
<1> QED  BY <1>1, <1>2, <1>3, TokenSteps

\* Whatever transfers, burns, approvals and pauses there are, the supply is
\* conserved, and the totals and events of burns are backed by tokens at the
\* burning address (EngSwap.sol:62-66).
THEOREM TokensConserved == Spec => []TokensAccounted
<1>1. TokenInv => TokensAccounted
  BY DEF TokenInv
<1> QED  BY <1>1, TokenInit, TokenStep, NoncesInit, NoncesStep, TypeInit, TypeStep, PTL DEF Spec

-----------------------------------------------------------------------------
(* Allowances. *)

\* Submissions are only ever added; their accounts and amounts stay.
LEMMA SubmissionsKept ==
    ASSUME TypeOK, [Next]_vars
    PROVE  /\ DOMAIN submissions \subseteq DOMAIN submissions'
           /\ \A j \in DOMAIN submissions : /\ submissions'[j].account = submissions[j].account
                                           /\ submissions'[j].amount = submissions[j].amount
<1>1. CASE HandleSubmit
  <2> DEFINE s == [at |-> "allowance", account |-> account, amount |-> swapAmount,
                   burn |-> [to |-> NoRecipient, amount |-> 0]]
  <2>1. submissions \in Seq(Submission) /\ submissions' = Append(submissions, s)
    BY <1>1 DEF HandleSubmit, TypeOK, FormTypeOK
  <2> HIDE DEF s
  <2>2. /\ DOMAIN submissions = 1..Len(submissions) /\ Len(submissions) \in Nat
        /\ DOMAIN submissions' = 1..(Len(submissions) + 1)
        /\ \A j \in 1..Len(submissions) : submissions'[j] = submissions[j]
    BY <2>1
  <2> QED  BY <2>2
<1>2. CASE \E i \in DOMAIN submissions : CallStep(i)
  BY <1>2, CallKeeps
<1>3. CASE submissions' = submissions
  BY <1>3
<1>4. CASE \/ EditForm
           \/ NetworkHandler
           \/ OthersStep /\ UNCHANGED formVars
           \/ \E a \in Accounts : AccountsHandler(a) \/ AnswerBalance(a) \/ BalanceFails(a)
           \/ UNCHANGED vars
  BY <1>3, <1>4 DEF EditForm, NetworkHandler, AccountsHandler, AnswerBalance, BalanceFails,
                    formVars, vars
<1>5. \/ HandleSubmit
      \/ \E i \in DOMAIN submissions : CallStep(i)
      \/ \/ EditForm
         \/ NetworkHandler
         \/ OthersStep /\ UNCHANGED formVars
         \/ \E a \in Accounts : AccountsHandler(a) \/ AnswerBalance(a) \/ BalanceFails(a)
         \/ UNCHANGED vars
  BY DEF Next, CallStep
<1> QED  BY <1>1, <1>2, <1>4, <1>5

LEMMA AllowanceStep == TypeOK /\ AllowanceSubmitted /\ [Next]_vars => AllowanceSubmitted'
<1> SUFFICES ASSUME TypeOK, AllowanceSubmitted, [Next]_vars, NEW a \in Accounts
             PROVE  \/ allowance'[a] = 0
                    \/ \E i \in DOMAIN submissions' : /\ submissions'[i].account = a
                                                     /\ allowance'[a] <= submissions'[i].amount
  BY DEF AllowanceSubmitted
<1>t. /\ allowance \in [Accounts -> Nat] /\ allowance' \in [Accounts -> Nat]
      /\ \A i \in DOMAIN submissions : submissions[i] \in Submission
  <2>1. EngSwapTypeOK'
    BY TypeStep DEF TypeOK
  <2>2. allowance \in [Accounts -> Nat] /\ allowance' \in [Accounts -> Nat]
    BY <2>1 DEF TypeOK, EngSwapTypeOK
  <2>3. submissions \in Seq(Submission)
    BY DEF TypeOK, FormTypeOK
  <2> QED  BY <2>2, <2>3
<1>1. CASE allowance'[a] <= allowance[a]
  <2>1. CASE allowance[a] = 0
    BY <1>1, <1>t, <2>1
  <2>2. CASE \E i \in DOMAIN submissions : /\ submissions[i].account = a
                                          /\ allowance[a] <= submissions[i].amount
    <3>1. PICK i \in DOMAIN submissions : /\ submissions[i].account = a
                                         /\ allowance[a] <= submissions[i].amount
      BY <2>2
    <3>2. allowance'[a] <= submissions[i].amount
      BY <1>1, <1>t, <3>1 DEF Submission
    <3> QED  BY <3>1, <3>2, SubmissionsKept
  <2> QED  BY <2>1, <2>2 DEF AllowanceSubmitted
<1>2. CASE \E b \in Accounts, r \in Recipients, n \in Nat : BurnFunds(b, r, n)
  <2>1. allowance'[a] <= allowance[a]
    BY <1>2, <1>t DEF BurnFunds, TransferFrom
  <2> QED  BY <1>1, <2>1
<1>3. ASSUME NEW i \in DOMAIN submissions, ApproveMined(i)
      PROVE  \/ allowance'[a] <= allowance[a]
             \/ submissions[i].account = a /\ allowance'[a] <= submissions[i].amount
  BY <1>3, <1>t DEF ApproveMined, Approve, ApprovedAmount, Submission
<1>4. CASE \E i \in DOMAIN submissions : ApproveMined(i)
  <2>1. PICK i \in DOMAIN submissions : ApproveMined(i)
    BY <1>4
  <2> QED  BY <1>1, <1>3, <2>1, SubmissionsKept
<1>5. CASE UNCHANGED <<burnNonce, logs, allowance>>
  BY <1>1, <1>5, <1>t
<1> QED  BY <1>2, <1>4, <1>5, ContractSteps

\* The form never leaves the contract the right to more than the holder has
\* submitted in one go (App.js:330-333).
THEOREM AllowancesSubmitted == Spec => []AllowanceSubmitted
<1>1. Init => AllowanceSubmitted
  BY DEF Init, EngSwapInit, AllowanceSubmitted
<1> QED  BY <1>1, AllowanceStep, TypeCorrect, PTL DEF Spec

-----------------------------------------------------------------------------
(* The loading state.  It is set by steps that leave something under way,    *)
(* and what is under way ends with a step that resets it, whoever set it.    *)

\* A submission that has moved on to a call of the wallet's waits for it.
LEMMA SubmissionMoves ==
    ASSUME TypeOK, NEW i \in DOMAIN submissions, NEW call \in {"approve", "burn"},
           Continue(i, call) \/ (call = "burn" /\ SendBurn(i))
    PROVE  i \in DOMAIN submissions' /\ submissions'[i].at = call
<1>1. submissions \in Seq(Submission) /\ submissions[i] \in Submission
  BY DEF TypeOK, FormTypeOK
<1>2. CASE Continue(i, call)
  <2>1. submissions' = [submissions EXCEPT ![i] = [submissions[i] EXCEPT !.at = call]]
    BY <1>1, <1>2 DEF Continue
  <2>2. [submissions[i] EXCEPT !.at = call].at = call
    BY <1>1 DEF Submission
  <2> QED  BY <1>1, <2>1, <2>2
<1>3. CASE call = "burn" /\ SendBurn(i)
  <2> DEFINE s == [submissions[i] EXCEPT !.at = "burn", !.burn = BurnArguments(i)]
  <2>1. s.at = "burn"
    BY <1>1 DEF Submission
  <2>2. submissions' = [submissions EXCEPT ![i] = s]
    BY <1>1, <1>3 DEF SendBurn
  <2> QED  BY <1>1, <1>3, <2>1, <2>2
<1> QED  BY <1>2, <1>3

LEMMA LoadingStep == TypeOK /\ LoadingIsOwed /\ [Next]_vars => LoadingIsOwed'
<1> SUFFICES ASSUME TypeOK, LoadingIsOwed, [Next]_vars, "balance" \notin FaultKinds, loading'
             PROVE  \/ \E a \in Accounts : queries'[a] > 0
                    \/ \E i \in DOMAIN submissions' : submissions'[i].at \in {"approve", "burn"}
  BY DEF LoadingIsOwed
<1> DEFINE Owed == \/ \E a \in Accounts : queries[a] > 0
                   \/ \E i \in DOMAIN submissions : submissions[i].at \in {"approve", "burn"}
<1>1. loading => Owed
  BY DEF LoadingIsOwed
<1>2. CASE UNCHANGED <<loading, queries, submissions>>
  BY <1>1, <1>2
<1>3. CASE HandleSubmit
  \* The button is disabled while the form is loading.
  BY <1>3 DEF HandleSubmit, CanSubmit
<1>4. ASSUME NEW a \in Accounts, NEW c \in BOOLEAN, AskBalance(a, c), c
      PROVE  queries'[a] > 0
  BY <1>4 DEF AskBalance, TypeOK, FormTypeOK
<1>5. CASE NetworkHandler
  BY <1>4, <1>5 DEF NetworkHandler, TypeOK, FormTypeOK
<1>6. ASSUME NEW a \in Accounts, AccountsHandler(a) \/ AnswerBalance(a) \/ BalanceFails(a)
      PROVE  \E b \in Accounts : queries'[b] > 0
  BY <1>4, <1>6 DEF AccountsHandler, AnswerBalance, BalanceFails, Fault, TypeOK, FormTypeOK
<1>7. ASSUME NEW i \in DOMAIN submissions, CallStep(i)
      PROVE  \/ \E a \in Accounts : queries'[a] > 0
             \/ \E j \in DOMAIN submissions' : submissions'[j].at \in {"approve", "burn"}
  <2>1. CASE AnswerAllowance(i)
    <3>1. Continue(i, "approve") \/ SendBurn(i)
      BY <2>1 DEF AnswerAllowance
    <3> QED  BY <3>1, SubmissionMoves
  <2>2. CASE ApproveMined(i)
    BY <2>2, SubmissionMoves DEF ApproveMined
  <2>3. CASE BurnMined(i) \/ HandleError(i)
    BY <2>3 DEF BurnMined, HandleError
  <2>4. CASE AllowanceFails(i)
    \* It ends a call that was not owed for.
    <3>1. loading /\ UNCHANGED queries /\ submissions[i].at = "allowance"
      BY <2>4 DEF AllowanceFails, Awaits, balanceVars
    <3>2. \A j \in DOMAIN submissions : j # i => submissions'[j] = submissions[j]
      BY <2>4 DEF AllowanceFails, Continue
    <3>3. DOMAIN submissions' = DOMAIN submissions
      BY <1>7, CallKeeps
    <3> QED  BY <1>1, <3>1, <3>2, <3>3
  <2> QED  BY <1>7, <2>1, <2>2, <2>3, <2>4 DEF CallStep, SubmissionStep, Denied
<1>8. CASE EditForm
  BY <1>2, <1>8 DEF EditForm, balanceVars
<1>9. CASE UNCHANGED formVars
  BY <1>2, <1>9 DEF formVars, balanceVars
<1> QED  BY <1>3, <1>5, <1>6, <1>7, <1>8, <1>9 DEF Next, CallStep, vars

\* The form does not stay in the loading state for nothing: the safety half of
\* FormFreed (App.js:259-277, 322, 358-372, 376-386).
THEOREM LoadingOwed == Spec => []LoadingIsOwed
<1>1. Init => LoadingIsOwed
  BY DEF Init, FormInit, LoadingIsOwed
<1> QED  BY <1>1, TypeCorrect, LoadingStep, PTL DEF Spec

-----------------------------------------------------------------------------
(* What is burnt and what calls of initiateSwap report.                      *)

Burnt(a, n) == {l \in logs : l.from = a /\ l.amount = n}

Reported(a, n) == {i \in DOMAIN submissions : /\ submissions[i].at = "burnt"
                                             /\ submissions[i].account = a
                                             /\ submissions[i].amount = n}

\* burnFunds is sent with the amount of its submission.
BurnsOwnAmount ==
    \A i \in DOMAIN submissions :
       submissions[i].at = "burn" => submissions[i].burn.amount = submissions[i].amount

\* BurntAsSubmitted for every amount, so that it does not depend on which
\* amounts were submitted so far.
Counted ==
    /\ IsFiniteSet(logs)
    /\ BurnsOwnAmount
    /\ \A a \in Accounts, n \in Nat :
          Cardinality(Burnt(a, n)) - Cardinality(Reported(a, n)) \in 0..faults

LEMMA Countable ==
    ASSUME TypeOK, IsFiniteSet(logs), NEW a, NEW n
    PROVE  /\ IsFiniteSet(Burnt(a, n)) /\ Cardinality(Burnt(a, n)) \in Nat
           /\ IsFiniteSet(Reported(a, n)) /\ Cardinality(Reported(a, n)) \in Nat
<1>1. Burnt(a, n) \subseteq logs
  BY DEF Burnt
<1>2. IsFiniteSet(DOMAIN submissions)
  <2>1. DOMAIN submissions = 1..Len(submissions) /\ Len(submissions) \in Nat
    BY DEF TypeOK, FormTypeOK
  <2> QED  BY <2>1, FS_Interval
<1>3. Reported(a, n) \subseteq DOMAIN submissions
  BY DEF Reported
<1> QED  BY <1>1, <1>2, <1>3, FS_Subset, FS_CardinalityType

\* A burn adds one event, which no other equals, to those of its account and
\* amount.
LEMMA BurnCounted ==
    ASSUME TypeOK, NoncesInTurn, IsFiniteSet(logs),
           NEW a \in Accounts, NEW r \in Recipients, NEW n \in Nat, BurnFunds(a, r, n)
    PROVE  /\ IsFiniteSet(logs')
           /\ Cardinality(Burnt(a, n)') = Cardinality(Burnt(a, n)) + 1
           /\ \A b \in Accounts, m \in Nat : (b # a \/ m # n) => Burnt(b, m)' = Burnt(b, m)
<1> DEFINE log == [from |-> a, to |-> r, amount |-> n, nonce |-> burnNonce']
<1>1. burnNonce \in Nat /\ burnNonce' = burnNonce + 1 /\ logs' = logs \cup {log}
  BY DEF TypeOK, EngSwapTypeOK, BurnFunds
<1>2. log.from = a /\ log.amount = n /\ log.nonce = burnNonce + 1
  BY <1>1
<1>3. log \notin logs
  <2>1. \A l \in logs : l.nonce \in 1..burnNonce
    BY DEF NoncesInTurn
  <2> QED  BY <1>1, <1>2, <2>1
<1> HIDE DEF log
<1>4. IsFiniteSet(logs')
  BY <1>1, FS_AddElement
<1>5. Burnt(a, n)' = Burnt(a, n) \cup {log} /\ log \notin Burnt(a, n)
  BY <1>1, <1>2, <1>3 DEF Burnt
<1>6. Cardinality(Burnt(a, n)') = Cardinality(Burnt(a, n)) + 1
  BY <1>5, Countable, FS_AddElement
<1>7. \A b \in Accounts, m \in Nat : (b # a \/ m # n) => Burnt(b, m)' = Burnt(b, m)
  BY <1>1, <1>2 DEF Burnt
<1> QED  BY <1>4, <1>6, <1>7

\* A call of initiateSwap that is not told of a burn reports none, and a burn
\* it is about to send is of its amount.
LEMMA UnreportedStep ==
    ASSUME TypeOK, BurnsOwnAmount, NEW i \in DOMAIN submissions, CallStep(i), ~BurnMined(i)
    PROVE  BurnsOwnAmount' /\ \A a, n : Reported(a, n)' = Reported(a, n)
<1>1. submissions \in Seq(Submission) /\ submissions[i] \in Submission
  BY DEF TypeOK, FormTypeOK
<1>2. /\ submissions[i].at # "burnt"
      /\ \/ Continue(i, "approve") \/ Continue(i, "failed")
         \/ SendBurn(i)
  BY DEF CallStep, SubmissionStep, Denied, AllowanceFails, AnswerAllowance, ApproveMined,
         HandleError, Reverts, Awaits
<1>3. /\ DOMAIN submissions' = DOMAIN submissions
      /\ \A j \in DOMAIN submissions : j # i => submissions'[j] = submissions[j]
      /\ submissions'[i].at \in {"approve", "failed", "burn"}
      /\ submissions'[i].at = "burn" => submissions'[i].burn = BurnArguments(i)
  <2>1. ASSUME NEW call \in {"approve", "failed"}, Continue(i, call)
        PROVE  submissions' = [submissions EXCEPT ![i] = [submissions[i] EXCEPT !.at = call]]
    BY <2>1, <1>1 DEF Continue
  <2>2. ASSUME SendBurn(i)
        PROVE  submissions' = [submissions EXCEPT ![i] =
                  [submissions[i] EXCEPT !.at = "burn", !.burn = BurnArguments(i)]]
    BY <2>2, <1>1 DEF SendBurn
  <2>3. PICK s : /\ submissions' = [submissions EXCEPT ![i] = s]
                 /\ s.at \in {"approve", "failed", "burn"}
                 /\ s.at = "burn" => s.burn = BurnArguments(i)
    <3>1. \A call : [submissions[i] EXCEPT !.at = call].at = call
      BY <1>1 DEF Submission
    <3>2. /\ [submissions[i] EXCEPT !.at = "burn", !.burn = BurnArguments(i)].at = "burn"
          /\ [submissions[i] EXCEPT !.at = "burn", !.burn = BurnArguments(i)].burn = BurnArguments(i)
      BY <1>1 DEF Submission
    <3> QED  BY <1>2, <2>1, <2>2, <3>1, <3>2
  <2> QED  BY <1>1, <2>3
<1>4. submissions'[i].amount = submissions[i].amount
  BY CallKeeps
<1>5. BurnsOwnAmount'
  BY <1>3, <1>4 DEF BurnsOwnAmount, BurnArguments
<1>6. ASSUME NEW a, NEW n PROVE Reported(a, n)' = Reported(a, n)
  BY <1>2, <1>3 DEF Reported
<1> QED  BY <1>5, <1>6

\* Submitting and everything outside initiateSwap reports no burn either.
LEMMA OtherReportsKept ==
    ASSUME TypeOK, BurnsOwnAmount,
           \/ HandleSubmit
           \/ UNCHANGED submissions
    PROVE  BurnsOwnAmount' /\ \A a, n : Reported(a, n)' = Reported(a, n)
<1>1. CASE UNCHANGED submissions
  BY <1>1 DEF BurnsOwnAmount, Reported
<1>2. CASE HandleSubmit
  <2> DEFINE s == [at |-> "allowance", account |-> account, amount |-> swapAmount,
                   burn |-> [to |-> NoRecipient, amount |-> 0]]
  <2>1. submissions \in Seq(Submission) /\ submissions' = Append(submissions, s)
    BY <1>2 DEF HandleSubmit, TypeOK, FormTypeOK
  <2>2. s.at = "allowance"
    OBVIOUS
  <2> HIDE DEF s
  <2>3. /\ DOMAIN submissions = 1..Len(submissions) /\ Len(submissions) \in Nat
        /\ DOMAIN submissions' = 1..(Len(submissions) + 1)
        /\ \A j \in 1..Len(submissions) : submissions'[j] = submissions[j]
        /\ submissions'[Len(submissions) + 1] = s
    BY <2>1
  <2>4. \A j \in DOMAIN submissions' : j \notin DOMAIN submissions => submissions'[j].at = "allowance"
    BY <2>2, <2>3
  <2>5. DOMAIN submissions \subseteq DOMAIN submissions'
    BY <2>3
  <2>6. BurnsOwnAmount'
    BY <2>3, <2>4 DEF BurnsOwnAmount
  <2>7. ASSUME NEW a, NEW n PROVE Reported(a, n)' = Reported(a, n)
    BY <2>3, <2>4, <2>5 DEF Reported
  <2> QED  BY <2>6, <2>7
<1> QED  BY <1>1, <1>2

\* A call that is told of its burn counts it, in the same step.
LEMMA ReportCounted ==
    ASSUME TypeOK, NoncesInTurn, Counted, NEW i \in DOMAIN submissions, BurnMined(i), NoFault
    PROVE  Counted'
<1>1. submissions \in Seq(Submission) /\ submissions[i] \in Submission
  BY DEF TypeOK, FormTypeOK
<1>2. PICK a \in Accounts, r \in Recipients, n \in Nat :
        /\ submissions[i].account = a /\ submissions[i].amount = n
        /\ submissions[i].burn.to = r
  BY <1>1 DEF Submission
<1>3. submissions[i].at = "burn" /\ BurnFunds(a, r, n)
  BY <1>2 DEF BurnMined, Awaits, Counted, BurnsOwnAmount
<1>4. /\ IsFiniteSet(logs')
      /\ Cardinality(Burnt(a, n)') = Cardinality(Burnt(a, n)) + 1
      /\ \A b \in Accounts, m \in Nat : (b # a \/ m # n) => Burnt(b, m)' = Burnt(b, m)
  BY <1>2, <1>3, BurnCounted DEF Counted
<1>5. /\ DOMAIN submissions' = DOMAIN submissions
      /\ \A j \in DOMAIN submissions : j # i => submissions'[j] = submissions[j]
      /\ submissions'[i].at = "burnt" /\ submissions'[i].account = a /\ submissions'[i].amount = n
  <2>1. submissions' = [submissions EXCEPT ![i] = [submissions[i] EXCEPT !.at = "burnt"]]
    BY <1>1 DEF BurnMined, Continue
  <2> QED  BY <1>1, <1>2, <2>1 DEF Submission
<1>6. BurnsOwnAmount'
  BY <1>5 DEF Counted, BurnsOwnAmount
<1>7. Reported(a, n)' = Reported(a, n) \cup {i} /\ i \notin Reported(a, n)
  <2>1. \A j \in DOMAIN submissions : j \in Reported(a, n)' <=> j \in Reported(a, n) \/ j = i
    BY <1>5 DEF Reported
  <2>2. Reported(a, n)' \subseteq DOMAIN submissions /\ Reported(a, n) \subseteq DOMAIN submissions
    BY <1>5 DEF Reported
  <2>3. i \notin Reported(a, n)
    BY <1>3 DEF Reported
  <2> QED  BY <2>1, <2>2, <2>3
<1>8. Cardinality(Reported(a, n)') = Cardinality(Reported(a, n)) + 1
  BY <1>7, Countable, FS_AddElement DEF Counted
<1>9. \A b \in Accounts, m \in Nat : (b # a \/ m # n) => Reported(b, m)' = Reported(b, m)
  BY <1>2, <1>3, <1>5 DEF Reported
<1>10. faults' = faults
  BY DEF NoFault
<1>11. ASSUME NEW b \in Accounts, NEW m \in Nat
       PROVE  Cardinality(Burnt(b, m)') - Cardinality(Reported(b, m)') \in 0..faults
  <2>1. Cardinality(Burnt(b, m)) - Cardinality(Reported(b, m)) \in 0..faults
    BY DEF Counted
  <2>2. CASE b = a /\ m = n
    <3>1. Cardinality(Burnt(a, n)) \in Nat /\ Cardinality(Reported(a, n)) \in Nat
      BY Countable DEF Counted
    <3> QED  BY <2>1, <2>2, <3>1, <1>4, <1>8
  <2>3. CASE b # a \/ m # n
    BY <2>1, <2>3, <1>4, <1>9
  <2> QED  BY <2>2, <2>3
<1> QED  BY <1>4, <1>6, <1>10, <1>11 DEF Counted

\* A burn of somebody else is one of the faults.
LEMMA OthersCounted ==
    ASSUME TypeOK, NoncesInTurn, Counted, NEW a \in Accounts, NEW r \in Recipients,
           NEW n \in Nat, BurnFunds(a, r, n), faults' = faults + 1, UNCHANGED submissions
    PROVE  Counted'
<1>1. /\ IsFiniteSet(logs')
      /\ Cardinality(Burnt(a, n)') = Cardinality(Burnt(a, n)) + 1
      /\ \A b \in Accounts, m \in Nat : (b # a \/ m # n) => Burnt(b, m)' = Burnt(b, m)
  BY BurnCounted DEF Counted
<1>2. BurnsOwnAmount' /\ \A b, m : Reported(b, m)' = Reported(b, m)
  BY OtherReportsKept DEF Counted
<1>3. ASSUME NEW b \in Accounts, NEW m \in Nat
      PROVE  Cardinality(Burnt(b, m)') - Cardinality(Reported(b, m)') \in 0..(faults + 1)
  <2>1. /\ Cardinality(Burnt(b, m)) - Cardinality(Reported(b, m)) \in 0..faults
        /\ Cardinality(Burnt(b, m)) \in Nat /\ Cardinality(Reported(b, m)) \in Nat
    BY Countable DEF Counted
  <2>2. \/ Cardinality(Burnt(b, m)') = Cardinality(Burnt(b, m)) + 1
        \/ Cardinality(Burnt(b, m)') = Cardinality(Burnt(b, m))
    BY <1>1
  <2>3. Cardinality(Reported(b, m)') = Cardinality(Reported(b, m))
    BY <1>2
  <2>4. faults \in Nat
    BY DEF TypeOK
  <2> QED  BY <2>1, <2>2, <2>3, <2>4
<1> QED  BY <1>1, <1>2, <1>3 DEF Counted

LEMMA CountedStep == TypeOK /\ NoncesInTurn /\ Counted /\ [Next]_vars => Counted'
<1> SUFFICES ASSUME TypeOK, NoncesInTurn, Counted, [Next]_vars PROVE Counted'
  OBVIOUS
<1>0. ASSUME UNCHANGED logs, BurnsOwnAmount', \A a, n : Reported(a, n)' = Reported(a, n),
             NoFault \/ \E kind : Fault(kind)
      PROVE  Counted'
  <2>1. faults \in Nat /\ (faults' = faults \/ faults' = faults + 1)
    BY <1>0 DEF TypeOK, NoFault, Fault
  <2>2. \A a, n : Burnt(a, n)' = Burnt(a, n)
    BY <1>0 DEF Burnt
  <2>3. ASSUME NEW a \in Accounts, NEW n \in Nat
        PROVE  Cardinality(Burnt(a, n)') - Cardinality(Reported(a, n)') \in 0..faults'
    <3>1. Cardinality(Burnt(a, n)) - Cardinality(Reported(a, n)) \in 0..faults
      BY DEF Counted
    <3>2. Cardinality(Burnt(a, n)) - Cardinality(Reported(a, n)) \in 0..faults'
      BY <2>1, <3>1
    <3>3. /\ Cardinality(Burnt(a, n)') = Cardinality(Burnt(a, n))
          /\ Cardinality(Reported(a, n)') = Cardinality(Reported(a, n))
      BY <1>0, <2>2
    <3> QED  BY <3>2, <3>3
  <2> QED  BY <1>0, <2>3 DEF Counted
<1>1. CASE OthersStep /\ UNCHANGED formVars
  <2>0. UNCHANGED submissions
    BY <1>1 DEF formVars
  <2>1. ASSUME Fault("burn"), NEW a \in Accounts, NEW r \in Recipients, NEW n \in 0..balance[a],
               BurnFunds(a, r, n)
        PROVE  Counted'
    <3>1. n \in Nat /\ faults' = faults + 1
      BY <2>1 DEF TypeOK, EngSwapTypeOK, Fault
    <3> QED  BY <2>0, <2>1, <3>1, OthersCounted
  <2>2. CASE UNCHANGED logs
    BY <1>0, <1>1, <2>0, <2>2, OtherReportsKept DEF Counted, OthersStep
  <2> QED  BY <1>1, <2>1, <2>2 DEF OthersStep, Transfer
<1>2. ASSUME NEW i \in DOMAIN submissions, CallStep(i) PROVE Counted'
  <2>1. CASE BurnMined(i)
    <3>1. NoFault
      <4>1. submissions[i].at = "burn" /\ submissions'[i].at = "burnt"
        <5>1. submissions \in Seq(Submission) /\ submissions[i] \in Submission
          BY DEF TypeOK, FormTypeOK
        <5>2. submissions' = [submissions EXCEPT ![i] = [submissions[i] EXCEPT !.at = "burnt"]]
          BY <2>1, <5>1 DEF BurnMined, Continue
        <5>3. [submissions[i] EXCEPT !.at = "burnt"].at = "burnt"
          BY <5>1 DEF Submission
        <5> QED  BY <2>1, <5>1, <5>2, <5>3 DEF BurnMined, Awaits
      <4>2. ~HandleError(i) /\ ~AllowanceFails(i)
        <5>1. submissions \in Seq(Submission) /\ submissions[i] \in Submission
          BY DEF TypeOK, FormTypeOK
        <5>2. Continue(i, "failed") => submissions'[i] = [submissions[i] EXCEPT !.at = "failed"]
          BY <5>1 DEF Continue
        <5>3. [submissions[i] EXCEPT !.at = "failed"].at = "failed"
          BY <5>1 DEF Submission
        <5>4. ~Continue(i, "failed")
          BY <4>1, <5>2, <5>3
        <5> QED  BY <5>4 DEF HandleError, AllowanceFails
      <4> QED  BY <1>2, <4>2 DEF CallStep, SubmissionStep, Denied
    <3> QED  BY <2>1, <3>1, ReportCounted
  <2>2. CASE ~BurnMined(i)
    <3>1. UNCHANGED logs /\ (NoFault \/ \E kind : Fault(kind))
      BY <1>2, <2>2 DEF CallStep, SubmissionStep, Denied, AllowanceFails, AnswerAllowance,
                        ApproveMined, Approve, HandleError, engSwapVars
    <3> QED  BY <1>0, <1>2, <2>2, <3>1, UnreportedStep DEF Counted
  <2> QED  BY <2>1, <2>2
<1>3. CASE \/ EditForm \/ HandleSubmit \/ NetworkHandler
           \/ \E a \in Accounts : AccountsHandler(a) \/ AnswerBalance(a) \/ BalanceFails(a)
  <2>1. UNCHANGED logs /\ (NoFault \/ \E kind : Fault(kind)) /\ (HandleSubmit \/ UNCHANGED submissions)
    BY <1>3 DEF EditForm, HandleSubmit, NetworkHandler, AccountsHandler, AnswerBalance,
                BalanceFails, engSwapVars
  <2> QED  BY <1>0, <2>1, OtherReportsKept DEF Counted
<1>4. CASE UNCHANGED vars
  <2>1. UNCHANGED <<logs, submissions>> /\ NoFault
    BY <1>4 DEF vars, formVars, engSwapVars, NoFault
  <2> QED  BY <1>0, <2>1, OtherReportsKept DEF Counted
<1> QED  BY <1>1, <1>2, <1>3, <1>4 DEF Next, CallStep

LEMMA CountedInit == Init => Counted
<1> SUFFICES ASSUME Init PROVE Counted
  OBVIOUS
<1>1. logs = {} /\ submissions = <<>> /\ faults = 0
  BY DEF Init, EngSwapInit, FormInit, FaultInit
<1>2. \A a, n : Burnt(a, n) = {} /\ Reported(a, n) = {}
  BY <1>1 DEF Burnt, Reported
<1>3. Cardinality({}) = 0 /\ IsFiniteSet({})
  BY FS_EmptySet
<1>4. ASSUME NEW a \in Accounts, NEW n \in Nat
      PROVE  Cardinality(Burnt(a, n)) - Cardinality(Reported(a, n)) \in 0..faults
  <2>1. Cardinality(Burnt(a, n)) = 0 /\ Cardinality(Reported(a, n)) = 0
    BY <1>2, <1>3, Zenon
  <2> QED  BY <1>1, <2>1
<1>5. IsFiniteSet(logs)
  BY <1>1, <1>3
<1>6. BurnsOwnAmount
  <2>1. DOMAIN submissions = {}
    BY <1>1
  <2> QED  BY <2>1 DEF BurnsOwnAmount
<1> QED  BY <1>4, <1>5, <1>6 DEF Counted

\* Every call of initiateSwap that reports its burn has burnt the amount and
\* from the account there were when the button was pressed, and nothing else
\* is burnt but what others burn themselves (App.js:308-314, 352-371).
THEOREM BurntAsWasSubmitted == Spec => []BurntAsSubmitted
<1>1. TypeOK /\ Counted => BurntAsSubmitted
  <2> SUFFICES ASSUME TypeOK, Counted, NEW a \in Accounts,
                      NEW n \in {l.amount : l \in logs} \cup {s.amount : s \in Range(submissions)}
               PROVE  Cardinality(Burnt(a, n)) - Cardinality(Reported(a, n)) \in 0..faults
    BY DEF BurntAsSubmitted, Burnt, Reported
  <2>1. n \in Nat
    <3>1. \A s \in Range(submissions) : s \in Submission
      BY DEF TypeOK, FormTypeOK, Range
    <3> QED  BY <3>1 DEF TypeOK, EngSwapTypeOK, LogBurn, Submission
  <2> QED  BY <2>1 DEF Counted
<1> QED  BY <1>1, CountedInit, CountedStep, TypeCorrect, NoncesUnique, PTL DEF Spec
=============================================================================
