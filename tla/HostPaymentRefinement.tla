------------------------ MODULE HostPaymentRefinement ------------------------
(***************************************************************************)
(* Proof that HostPayment implements the abstract ledger PaymentLedger     *)
(* under the mapping of HostPayment's Ledger instance (the storage         *)
(* obligations are the contracts' revisions; balances, spent nonces and    *)
(* the height are kept), for every value of the constants.                 *)
(*                                                                         *)
(* The argument: only three kinds of step change the mapped state.         *)
(* SignAndCommit writes a verified payment revision over the obligation it *)
(* was verified against, which IInv's LocksHeld and LoadedIsCurrent       *)
(* guarantee is still the current one: an abstract Pay.  A honoured        *)
(* withdrawal spends a fresh nonce and debits at most the balance: an      *)
(* abstract Withdraw.  AdvanceHeight is a Tick.  Every other step leaves   *)
(* the mapped state unchanged.                                             *)
(***************************************************************************)
EXTENDS HostPaymentProofs

LVars == <<obligation, balance, spent, height>>

\* A payment step of spec 3 and 8 is a payment of the abstract ledger.
LEMMA StepIsPayment ==
  ASSUME NEW old, NEW new, PaymentStep(old, new)
  PROVE  Ledger!IsPayment(old, new)
BY DEF PaymentStep, Ledger!IsPayment, Renter, Host, Void,
       Ledger!RenterOut, Ledger!HostOut, Ledger!VoidOut

LEMMA InitRefines == Init => Ledger!LInit
BY DEF Init, Ledger!LInit

\* A commit of a payment revision is an abstract payment on its contract.
LEMMA CommitIsPay ==
  ASSUME IInv, NEW s \in Streams, SignAndCommit(s),
         obligation' = [obligation EXCEPT ![target[s]] = payment[s]]
  PROVE  Ledger!Pay(target[s])
<1>. DEFINE c == target[s]
<1>1. /\ c \in Contracts
      /\ PaymentStep(current[s], payment[s])
      /\ current[s] = obligation[c]
  BY DEF SignAndCommit, IInv, PaymentsVerified, LoadedIsCurrent, Verified
<1>2. obligation'[c] = payment[s]
  BY <1>1 DEF IInv, TypeOK
<1>3. Ledger!IsPayment(obligation[c], obligation'[c])
  BY <1>1, <1>2, StepIsPayment
<1>4. obligation' = [obligation EXCEPT ![c] = obligation'[c]]
  BY <1>2
<1>5. UNCHANGED <<balance, spent, height>>
  BY DEF SignAndCommit
<1>. QED  BY <1>3, <1>4, <1>5 DEF Ledger!Pay

\* A honoured withdrawal is an abstract withdrawal from its account.
LEMMA WithdrawalIsWithdraw ==
  ASSUME IInv, NEW s \in Streams, PayByEphemeralAccount(s),
         ~UNCHANGED <<balance, spent>>
  PROVE  \E a \in Accounts : Ledger!Withdraw(a)
<1>1. PICK a \in Accounts, amt \in Amounts, nonce \in Nonces,
           expiry \in 0..MaxHeight, sigOK \in BOOLEAN :
        /\ WithdrawOK(a, amt, nonce, expiry, sigOK)
        /\ balance' = [balance EXCEPT ![a] = @ - amt]
        /\ spent' = [spent EXCEPT ![a] = @ \cup {nonce}]
  BY DEF PayByEphemeralAccount, Finish
<1>2. amt \in 0..balance[a]
  BY <1>1, ScalarConstants DEF WithdrawOK, IInv, TypeOK
<1>3. nonce \notin spent[a]
  BY <1>1 DEF WithdrawOK
<1>4. UNCHANGED <<obligation, height>>
  BY DEF PayByEphemeralAccount
<1>. QED  BY <1>1, <1>2, <1>3, <1>4 DEF Ledger!Withdraw

\* Every step of HostPayment from an IInv state is a step of the ledger
\* or leaves the mapped state unchanged.
LEMMA NextRefines ==
  ASSUME IInv, [Next]_vars
  PROVE  [Ledger!LNext]_LVars
<1>1. CASE AdvanceHeight
  BY <1>1 DEF AdvanceHeight, Ledger!LNext, Ledger!Tick
<1>2. CASE \E s \in Streams : SignAndCommit(s)
  <2>1. PICK s \in Streams : SignAndCommit(s)
    BY <1>2
  <2>2. CASE obligation' = [obligation EXCEPT ![target[s]] = payment[s]]
    <3>1. target[s] \in Contracts
      BY <2>1 DEF SignAndCommit, IInv, PaymentsVerified, Verified
    <3>. QED  BY <2>1, <2>2, <3>1, CommitIsPay DEF Ledger!LNext
  <2>3. CASE UNCHANGED obligation
    BY <2>1, <2>3 DEF SignAndCommit, LVars
  <2>. QED  BY <2>1, <2>2, <2>3 DEF SignAndCommit, FinishUnlock
<1>3. CASE \E s \in Streams : PayByEphemeralAccount(s)
  <2>1. PICK s \in Streams : PayByEphemeralAccount(s)
    BY <1>3
  <2>2. CASE ~UNCHANGED <<balance, spent>>
    BY <2>1, <2>2, WithdrawalIsWithdraw DEF Ledger!LNext
  <2>3. CASE UNCHANGED <<balance, spent>>
    BY <2>1, <2>3 DEF PayByEphemeralAccount, LVars
  <2>. QED  BY <2>2, <2>3
<1>4. CASE UNCHANGED vars
  BY <1>4 DEF vars, LVars
<1>5. CASE \E s \in Streams :
             \/ ProcessPayment(s) \/ RespondPayByEphemeralAccount(s)
             \/ ReadPayByContractRequest(s) \/ LockStorageObligation(s)
             \/ LoadAndVerify(s) \/ RevisionFromRequestPanics(s)
             \/ RespondPayByContract(s)
  BY <1>5 DEF ProcessPayment, RespondPayByEphemeralAccount,
     ReadPayByContractRequest, LockStorageObligation, LoadAndVerify,
     RevisionFromRequestPanics, RespondPayByContract, FinishUnlock, LVars
<1>. QED  BY <1>1, <1>2, <1>3, <1>4, <1>5 DEF Next, StreamStep

\* HostPayment implements the ledger: every behaviour of any number of
\* concurrent streams, seen through the refinement mapping, is a behaviour
\* of atomic payments, withdrawals and blocks (spec 4.G, 5).
THEOREM Refinement == Spec => LedgerSpec
<1>1. [][Next]_vars /\ []IInv => [][Ledger!LNext]_LVars
  BY NextRefines, PTL
<1>. QED  BY InitRefines, <1>1, IInvHolds, PTL DEF Spec, LedgerSpec, Ledger!LSpec, LVars, Ledger!lvars

=============================================================================
