-------------------------- MODULE HostPaymentProofs --------------------------
(***************************************************************************)
(* Proofs about HostPayment for every value of its constants.              *)
(*                                                                         *)
(* The obligations stay well formed because a stream writes only a        *)
(* revision it verified against the one it loaded.  RevisionChain rests on *)
(* the obligation lock: a stream between LoadAndVerify and SignAndCommit   *)
(* holds the lock of its contract, so nobody else writes that obligation   *)
(* and the revision it verified against is still the one it overwrites.    *)
(* The inductive invariant IInv states both.                               *)
(***************************************************************************)
EXTENDS HostPayment, TLAPS



\* A revision with two valid and three missed proof outputs.
WellFormed(r) == r \in [num : Nat, valid : [1..2 -> Nat], missed : [1..3 -> Nat]]

\* The stream holds the lock of its contract (line 71 up to the return).
HoldsLock(s) == pc[s] \in {"load", "sign", "respond"}

\* The stream's payment revision passed verifyPayByContractRevision.
Verified(s) == pc[s] \in {"sign", "respond"}

\* Every contract's obligation is well formed.
ObligationsWellFormed == \A c \in Contracts : WellFormed(obligation[c])

\* A stream waiting for the lock names a contract id.
LockTargets == \A s \in Streams : pc[s] = "lock" => target[s] \in ContractIds

\* A stream past managedLockStorageObligation holds its contract's lock.
LocksHeld ==
  \A s \in Streams : HoldsLock(s) =>
    target[s] \in ContractIds /\ lockHolder[target[s]] = s

\* A verified payment revision is a well-formed payment step from the
\* revision the stream loaded.
PaymentsVerified ==
  \A s \in Streams : Verified(s) =>
    /\ target[s] \in Contracts
    /\ WellFormed(current[s]) /\ WellFormed(payment[s])
    /\ PaymentStep(current[s], payment[s])

\* Until it commits, the revision a stream verified against is still its
\* contract's obligation.
LoadedIsCurrent ==
  \A s \in Streams : pc[s] = "sign" => current[s] = obligation[target[s]]

IInv ==
  /\ TypeOK
  /\ ObligationsWellFormed
  /\ LockTargets
  /\ LocksHeld
  /\ PaymentsVerified
  /\ LoadedIsCurrent

-----------------------------------------------------------------------------

\* The assumptions on the scalar constants.
LEMMA ScalarConstants ==
  /\ UnknownContract \notin Contracts /\ NoHolder \notin Streams
  /\ InitBalance \in Nat /\ WindowEnd \in Nat /\ MaxHeight \in Nat
  /\ RevisionNumbers \subseteq Nat /\ Amounts \subseteq Nat
  BY ConstantsAssumption, Zenon

\* Moving an amount from one payout to another keeps their sum.
LEMMA Transfer ==
  ASSUME NEW a \in Nat, NEW b \in Nat, NEW c \in Nat, NEW d \in Nat,
         a - c = d - b
  PROVE  c + d = a + b
  OBVIOUS

\* A sequence of naturals of length n is a function on 1..n, and back.
LEMMA SeqIsFun ==
  ASSUME NEW n \in Nat, NEW f
  PROVE  f \in Seq(Nat) /\ Len(f) = n <=> f \in [1..n -> Nat]
  BY SMT

\* A well-formed revision is a Revision with outputs of lengths 2 and 3.
LEMMA WellFormedRevision ==
  ASSUME NEW r
  PROVE  WellFormed(r) <=> r \in Revision /\ Len(r.valid) = 2 /\ Len(r.missed) = 3
  BY SeqIsFun DEF WellFormed, Revision

\* The parts of a well-formed revision are natural numbers.
LEMMA WellFormedParts ==
  ASSUME NEW r, WellFormed(r)
  PROVE  /\ r.num \in Nat
         /\ r.valid[1] \in Nat /\ r.valid[2] \in Nat
         /\ r.missed[1] \in Nat /\ r.missed[2] \in Nat /\ r.missed[3] \in Nat
         /\ Len(r.valid) = 2 /\ Len(r.missed) = 3
  <1>1. r.num \in Nat /\ r.valid \in [1..2 -> Nat] /\ r.missed \in [1..3 -> Nat]
    BY DEF WellFormed
  <1>2. Len(r.valid) = 2 /\ Len(r.missed) = 3
    BY <1>1, SeqIsFun
  <1>3. QED
    BY <1>1, <1>2

\* A revision built from a request whose vectors have the lengths of the
\* recent revision's outputs is well formed.
LEMMA RequestWellFormed ==
  ASSUME NEW cur, NEW rn \in Nat, NEW vv \in Seq(Nat), NEW mv \in Seq(Nat),
         WellFormed(cur), Len(vv) = 2, Len(mv) = 3
  PROVE  WellFormed(RevisionFromRequest(cur, rn, vv, mv))
  <1> DEFINE pay == RevisionFromRequest(cur, rn, vv, mv)
  <1>1. pay.num = rn /\ pay.valid = vv /\ pay.missed = mv
    BY DEF WellFormed, RevisionFromRequest
  <1>2. vv \in [1..2 -> Nat] /\ mv \in [1..3 -> Nat]
    BY SeqIsFun
  <1>3. DOMAIN cur = {"num", "valid", "missed"}
    BY DEF WellFormed
  <1>4. DOMAIN pay = {"num", "valid", "missed"}
    BY <1>3 DEF RevisionFromRequest
  <1>5. QED
    BY <1>1, <1>2, <1>4 DEF WellFormed, RevisionFromRequest

\* The checks of verifyPaymentRevision on two well-formed revisions make
\* the second a legal payment step from the first.
LEMMA VerifiedIsStep ==
  ASSUME NEW cur, NEW pay, NEW bh, WellFormed(cur), WellFormed(pay),
         VerifyPaymentRevision(cur, pay, bh)
  PROVE  PaymentStep(cur, pay)
  <1>1. /\ cur.valid[1] \in Nat /\ cur.valid[2] \in Nat
        /\ cur.missed[2] \in Nat /\ cur.missed[3] \in Nat
        /\ pay.valid[1] \in Nat /\ pay.valid[2] \in Nat
        /\ pay.missed[2] \in Nat /\ pay.missed[3] \in Nat
    BY WellFormedParts
  <1>2. pay.valid[1] + pay.valid[2] = cur.valid[1] + cur.valid[2]
    <2>1. cur.valid[1] - pay.valid[1] = pay.valid[2] - cur.valid[2]
      BY DEF VerifyPaymentRevision, Renter, Host
    <2>2. QED
      BY <1>1, <2>1
  <1>3. pay.missed[2] + pay.missed[3] = cur.missed[2] + cur.missed[3]
    <2>1. cur.missed[2] - pay.missed[2] = pay.missed[3] - cur.missed[3]
      BY DEF VerifyPaymentRevision, Host, Void
    <2>2. QED
      BY <1>1, <2>1
  <1>4. QED
    BY <1>2, <1>3 DEF VerifyPaymentRevision, PaymentStep, Renter, Host, Void

\* A payment revision that verifyPaymentRevision accepts is a legal payment
\* step from the revision it was checked against, and keeps its shape.
LEMMA VerifyImpliesStep ==
  ASSUME NEW cur, NEW rn \in Nat, NEW vv \in Seq(Nat), NEW mv \in Seq(Nat),
         NEW bh, WellFormed(cur),
         VerifyPaymentRevision(cur, RevisionFromRequest(cur, rn, vv, mv), bh)
  PROVE  /\ PaymentStep(cur, RevisionFromRequest(cur, rn, vv, mv))
         /\ WellFormed(RevisionFromRequest(cur, rn, vv, mv))
  <1> DEFINE pay == RevisionFromRequest(cur, rn, vv, mv)
  <1>1. pay.valid = vv /\ pay.missed = mv
    BY DEF WellFormed, RevisionFromRequest
  <1>2. Len(cur.valid) = 2 /\ Len(cur.missed) = 3
    BY WellFormedParts
  <1>3. Len(vv) = 2 /\ Len(mv) = 3
    BY <1>1, <1>2 DEF VerifyPaymentRevision
  <1>4. WellFormed(pay)
    BY <1>3, RequestWellFormed
  <1>5. QED
    BY <1>4, VerifiedIsStep

\* The revision every contract starts from is well formed.
LEMMA InitRevisionWellFormed == WellFormed(InitRevision)
  <1>1. InitValid \in [1..2 -> Nat] /\ InitMissed \in [1..3 -> Nat]
    BY ConstantsAssumption, SeqIsFun
  <1>2. QED
    BY <1>1 DEF WellFormed, InitRevision

LEMMA InitIInv == Init => IInv
  <1> SUFFICES ASSUME Init PROVE IInv
    OBVIOUS
  <1>1. InitRevision \in Revision
    BY InitRevisionWellFormed, WellFormedRevision
  <1>2. TypeOK
    <2>1. /\ obligation \in [Contracts -> Revision]
          /\ current \in [Streams -> Revision]
          /\ payment \in [Streams -> Revision]
      BY <1>1 DEF Init
    <2>2. /\ lockHolder \in [ContractIds -> Streams \cup {NoHolder}]
          /\ target \in [Streams -> ContractIds \cup Accounts]
          /\ pc \in [Streams -> PC]
      BY DEF Init, ContractIds, PC
    <2>3. height \in 0..MaxHeight /\ balance \in [Accounts -> Nat]
      BY ScalarConstants DEF Init
    <2>4. /\ spent \in [Accounts -> SUBSET Nonces]
          /\ amount \in [Streams -> Nat]
          /\ panicked \in BOOLEAN
      BY DEF Init
    <2>5. QED
      BY <2>1, <2>2, <2>3, <2>4 DEF TypeOK
  <1>3. QED
    BY <1>2, InitRevisionWellFormed
       DEF Init, IInv, ObligationsWellFormed, LockTargets, LocksHeld,
           PaymentsVerified, LoadedIsCurrent, HoldsLock, Verified

-----------------------------------------------------------------------------
(* Each action preserves IInv.                                             *)

LEMMA ProcessPaymentIInv ==
  ASSUME IInv, NEW s \in Streams, ProcessPayment(s)
  PROVE  IInv'
  <1>1. /\ pc[s] = "start"
        /\ pc' = [pc EXCEPT ![s] = pc'[s]]
        /\ pc'[s] \in {"done", "eaBody", "pbcBody"}
    BY DEF ProcessPayment, Finish, IInv, TypeOK
  <1>2. TypeOK'
    BY <1>1 DEF ProcessPayment, IInv, TypeOK, PC
  <1>3. QED
    BY <1>1, <1>2 DEF ProcessPayment, IInv, ObligationsWellFormed, LockTargets,
       LocksHeld, PaymentsVerified, LoadedIsCurrent, HoldsLock, Verified, TypeOK

LEMMA PayByEphemeralAccountIInv ==
  ASSUME IInv, NEW s \in Streams, PayByEphemeralAccount(s)
  PROVE  IInv'
  <1>1. CASE /\ Finish(s)
             /\ UNCHANGED <<balance, spent, target, amount>>
             /\ UNCHANGED <<obligation, lockHolder, height, current, payment,
                            panicked>>
    <2>1. TypeOK'
      BY <1>1 DEF Finish, IInv, TypeOK, PC
    <2>2. QED
      BY <1>1, <2>1 DEF PayByEphemeralAccount, Finish, IInv, ObligationsWellFormed,
         LockTargets, LocksHeld, PaymentsVerified, LoadedIsCurrent, HoldsLock,
         Verified, TypeOK
  <1>2. CASE \E a \in Accounts, amt \in Amounts, nonce \in Nonces,
                expiry \in 0..MaxHeight, sigOK \in BOOLEAN :
               /\ WithdrawOK(a, amt, nonce, expiry, sigOK)
               /\ balance' = [balance EXCEPT ![a] = @ - amt]
               /\ spent' = [spent EXCEPT ![a] = @ \cup {nonce}]
               /\ target' = [target EXCEPT ![s] = a]
               /\ amount' = [amount EXCEPT ![s] = amt]
               /\ pc' = [pc EXCEPT ![s] = "eaRespond"]
    <2>1. PICK a \in Accounts, amt \in Amounts, nonce \in Nonces,
               expiry \in 0..MaxHeight, sigOK \in BOOLEAN :
               /\ WithdrawOK(a, amt, nonce, expiry, sigOK)
               /\ balance' = [balance EXCEPT ![a] = @ - amt]
               /\ spent' = [spent EXCEPT ![a] = @ \cup {nonce}]
               /\ target' = [target EXCEPT ![s] = a]
               /\ amount' = [amount EXCEPT ![s] = amt]
               /\ pc' = [pc EXCEPT ![s] = "eaRespond"]
      BY <1>2
    <2>2. UNCHANGED <<obligation, lockHolder, height, current, payment,
                      panicked>>
      BY DEF PayByEphemeralAccount
    <2>3. amt \in Nat /\ balance[a] - amt \in Nat
      BY <2>1, ScalarConstants DEF WithdrawOK, IInv, TypeOK
    <2>4. TypeOK'
      BY <2>1, <2>2, <2>3 DEF IInv, TypeOK, PC
    <2>5. QED
      BY <2>1, <2>2, <2>4 DEF PayByEphemeralAccount, IInv, ObligationsWellFormed,
         LockTargets, LocksHeld, PaymentsVerified, LoadedIsCurrent, HoldsLock,
         Verified, TypeOK
  <1>3. CASE \E a \in Accounts, amt \in Amounts, nonce \in Nonces,
                expiry \in 0..MaxHeight, sigOK \in BOOLEAN :
               /\ ~WithdrawOK(a, amt, nonce, expiry, sigOK)
               /\ Finish(s)
               /\ UNCHANGED <<balance, spent, target, amount>>
    <2>1. UNCHANGED <<obligation, lockHolder, height, current, payment,
                      panicked>>
      BY DEF PayByEphemeralAccount
    <2>2. TypeOK'
      BY <1>3, <2>1 DEF Finish, IInv, TypeOK, PC
    <2>3. QED
      BY <1>3, <2>1, <2>2 DEF PayByEphemeralAccount, Finish, IInv,
         ObligationsWellFormed, LockTargets, LocksHeld, PaymentsVerified,
         LoadedIsCurrent, HoldsLock, Verified, TypeOK
  <1>4. QED
    BY <1>1, <1>2, <1>3 DEF PayByEphemeralAccount

LEMMA RespondPayByEphemeralAccountIInv ==
  ASSUME IInv, NEW s \in Streams, RespondPayByEphemeralAccount(s)
  PROVE  IInv'
  <1>1. TypeOK'
    BY DEF RespondPayByEphemeralAccount, Finish, IInv, TypeOK, PC
  <1>2. QED
    BY <1>1 DEF RespondPayByEphemeralAccount, Finish, IInv, ObligationsWellFormed,
       LockTargets, LocksHeld, PaymentsVerified, LoadedIsCurrent, HoldsLock,
       Verified, TypeOK

LEMMA ReadPayByContractRequestIInv ==
  ASSUME IInv, NEW s \in Streams, ReadPayByContractRequest(s)
  PROVE  IInv'
  <1>1. CASE Finish(s) /\ UNCHANGED target
    <2>1. TypeOK'
      BY <1>1 DEF ReadPayByContractRequest, Finish, IInv, TypeOK, PC
    <2>2. QED
      BY <1>1, <2>1 DEF ReadPayByContractRequest, Finish, IInv,
         ObligationsWellFormed, LockTargets, LocksHeld, PaymentsVerified,
         LoadedIsCurrent, HoldsLock, Verified, TypeOK
  <1>2. CASE \E c \in ContractIds :
               /\ target' = [target EXCEPT ![s] = c]
               /\ pc' = [pc EXCEPT ![s] = "lock"]
    <2>1. PICK c \in ContractIds :
               /\ target' = [target EXCEPT ![s] = c]
               /\ pc' = [pc EXCEPT ![s] = "lock"]
      BY <1>2
    <2>2. TypeOK'
      BY <2>1 DEF ReadPayByContractRequest, IInv, TypeOK, PC
    <2>3. QED
      BY <2>1, <2>2 DEF ReadPayByContractRequest, IInv,
         ObligationsWellFormed, LockTargets, LocksHeld, PaymentsVerified,
         LoadedIsCurrent, HoldsLock, Verified, TypeOK
  <1>3. QED
    BY <1>1, <1>2 DEF ReadPayByContractRequest

LEMMA LockStorageObligationIInv ==
  ASSUME IInv, NEW s \in Streams, LockStorageObligation(s)
  PROVE  IInv'
  <1>1. target[s] \in ContractIds
    BY DEF LockStorageObligation, IInv, LockTargets
  <1>2. TypeOK'
    BY <1>1 DEF LockStorageObligation, IInv, TypeOK, PC
  <1>3. LocksHeld'
    <2>1. SUFFICES ASSUME NEW t \in Streams, HoldsLock(t)'
                   PROVE  target'[t] \in ContractIds /\ lockHolder'[target'[t]] = t
      BY DEF LocksHeld
    <2>2. CASE t = s
      BY <1>1, <2>2 DEF LockStorageObligation, IInv, TypeOK
    <2>3. CASE t # s
      <3>1. HoldsLock(t) /\ target[t] \in ContractIds /\ lockHolder[target[t]] = t
        BY <2>1, <2>3 DEF LockStorageObligation, IInv, LocksHeld, HoldsLock, TypeOK
      <3>2. target[t] # target[s]
        BY <3>1, ScalarConstants DEF LockStorageObligation
      <3>3. QED
        BY <3>1, <3>2 DEF LockStorageObligation, IInv, TypeOK
    <2>4. QED
      BY <2>2, <2>3
  <1>4. QED
    BY <1>1, <1>2, <1>3 DEF LockStorageObligation, IInv, ObligationsWellFormed,
       LockTargets, PaymentsVerified, LoadedIsCurrent, Verified, TypeOK

\* A return of managedPayByContract with the deferred unlock keeps IInv:
\* the lock it frees is the returning stream's own.
LEMMA FinishUnlockIInv ==
  ASSUME IInv, NEW s \in Streams, HoldsLock(s), FinishUnlock(s),
         UNCHANGED <<obligation, height, balance, spent, target, current,
                     payment, amount, panicked>>
  PROVE  IInv'
  <1>1. target[s] \in ContractIds /\ lockHolder[target[s]] = s
    BY DEF IInv, LocksHeld
  <1>2. TypeOK'
    BY <1>1 DEF FinishUnlock, Finish, IInv, TypeOK, PC
  <1>3. LocksHeld'
    <2>1. SUFFICES ASSUME NEW t \in Streams, HoldsLock(t)'
                   PROVE  target'[t] \in ContractIds /\ lockHolder'[target'[t]] = t
      BY DEF LocksHeld
    <2>2. t # s /\ HoldsLock(t)
      BY <2>1 DEF FinishUnlock, Finish, HoldsLock, IInv, TypeOK
    <2>3. target[t] \in ContractIds /\ lockHolder[target[t]] = t
      BY <2>2 DEF IInv, LocksHeld
    <2>4. target[t] # target[s]
      BY <1>1, <2>2, <2>3
    <2>5. QED
      BY <1>1, <2>3, <2>4 DEF FinishUnlock, IInv, TypeOK
  <1>4. QED
    BY <1>2, <1>3 DEF FinishUnlock, Finish, IInv, ObligationsWellFormed,
       LockTargets, PaymentsVerified, LoadedIsCurrent, Verified, TypeOK

LEMMA RevisionFromRequestPanicsIInv ==
  ASSUME IInv, NEW s \in Streams, RevisionFromRequestPanics(s)
  PROVE  IInv'
  <1>1. TypeOK'
    BY DEF RevisionFromRequestPanics, IInv, TypeOK, PC
  <1>2. QED
    BY <1>1 DEF RevisionFromRequestPanics, IInv, ObligationsWellFormed,
       LockTargets, LocksHeld, PaymentsVerified, LoadedIsCurrent, HoldsLock,
       Verified

LEMMA AdvanceHeightIInv ==
  ASSUME IInv, AdvanceHeight
  PROVE  IInv'
  <1>1. TypeOK'
    BY ScalarConstants DEF AdvanceHeight, IInv, TypeOK
  <1>2. QED
    BY <1>1 DEF AdvanceHeight, IInv, ObligationsWellFormed, LockTargets,
       LocksHeld, PaymentsVerified, LoadedIsCurrent, HoldsLock, Verified

LEMMA SignAndCommitIInv ==
  ASSUME IInv, NEW s \in Streams, SignAndCommit(s)
  PROVE  IInv'
  <1>1. HoldsLock(s) /\ Verified(s)
    BY DEF SignAndCommit, HoldsLock, Verified
  <1>2. CASE FinishUnlock(s) /\ UNCHANGED obligation
    BY <1>1, <1>2, FinishUnlockIInv DEF SignAndCommit, IInv, TypeOK
  <1>3. CASE /\ obligation' = [obligation EXCEPT ![target[s]] = payment[s]]
             /\ pc' = [pc EXCEPT ![s] = "respond"]
             /\ UNCHANGED lockHolder
    <2>1. /\ target[s] \in Contracts /\ WellFormed(payment[s])
          /\ lockHolder[target[s]] = s
      BY <1>1 DEF IInv, PaymentsVerified, LocksHeld
    <2>2. payment[s] \in Revision
      BY <2>1, WellFormedRevision
    <2>3. TypeOK'
      BY <1>3, <2>1, <2>2 DEF SignAndCommit, IInv, TypeOK, PC
    <2>4. ObligationsWellFormed'
      BY <1>3, <2>1 DEF SignAndCommit, IInv, ObligationsWellFormed, TypeOK
    <2>5. LoadedIsCurrent'
      <3>1. SUFFICES ASSUME NEW t \in Streams, pc'[t] = "sign"
                     PROVE  current'[t] = obligation'[target'[t]]
        BY DEF LoadedIsCurrent
      <3>2. t # s /\ pc[t] = "sign"
        BY <1>3, <3>1 DEF IInv, TypeOK
      <3>3. target[t] \in ContractIds /\ lockHolder[target[t]] = t
        BY <3>2 DEF IInv, LocksHeld, HoldsLock
      <3>4. target[t] # target[s]
        BY <2>1, <3>2, <3>3
      <3>5. current[t] = obligation[target[t]]
        BY <3>2 DEF IInv, LoadedIsCurrent
      <3>6. QED
        BY <1>3, <3>4, <3>5 DEF SignAndCommit, IInv, TypeOK
    <2>6. QED
      BY <1>3, <2>3, <2>4, <2>5 DEF SignAndCommit, IInv, LockTargets, LocksHeld,
         PaymentsVerified, HoldsLock, Verified, TypeOK
  <1>4. QED
    BY <1>2, <1>3 DEF SignAndCommit

LEMMA RespondPayByContractIInv ==
  ASSUME IInv, NEW s \in Streams, RespondPayByContract(s)
  PROVE  IInv'
  <1>1. HoldsLock(s)
    BY DEF RespondPayByContract, HoldsLock
  <1>2. QED
    BY <1>1, FinishUnlockIInv DEF RespondPayByContract

LEMMA LoadAndVerifyIInv ==
  ASSUME IInv, NEW s \in Streams, LoadAndVerify(s)
  PROVE  IInv'
  <1>1. HoldsLock(s) /\ pc[s] = "load"
    BY DEF LoadAndVerify, HoldsLock
  <1>2. UNCHANGED <<obligation, height, balance, spent, target, amount,
                    panicked>>
    BY DEF LoadAndVerify
  <1>3. CASE target[s] \notin Contracts
    BY <1>1, <1>2, <1>3, FinishUnlockIInv DEF LoadAndVerify, IInv, TypeOK
  <1>4. CASE target[s] \in Contracts
    <2> DEFINE cur == obligation[target[s]]
    <2>1. PICK rn \in RevisionNumbers, vv \in ValidVectors, mv \in MissedVectors :
            IF VerifyPaymentRevision(cur, RevisionFromRequest(cur, rn, vv, mv), height)
            THEN /\ current' = [current EXCEPT ![s] = cur]
                 /\ payment' = [payment EXCEPT ![s] = RevisionFromRequest(cur, rn, vv, mv)]
                 /\ pc' = [pc EXCEPT ![s] = "sign"]
                 /\ UNCHANGED lockHolder
            ELSE /\ FinishUnlock(s)
                 /\ UNCHANGED <<current, payment>>
      BY <1>4 DEF LoadAndVerify
    <2> DEFINE pay == RevisionFromRequest(cur, rn, vv, mv)
    <2>2. CASE ~VerifyPaymentRevision(cur, pay, height)
      BY <1>1, <1>2, <2>1, <2>2, FinishUnlockIInv DEF IInv, TypeOK
    <2>3. CASE VerifyPaymentRevision(cur, pay, height)
      <3>1. rn \in Nat /\ vv \in Seq(Nat) /\ mv \in Seq(Nat)
        BY ConstantsAssumption
      <3>2. WellFormed(cur)
        BY <1>4 DEF IInv, ObligationsWellFormed
      <3>3. PaymentStep(cur, pay) /\ WellFormed(pay)
        BY <2>3, <3>1, <3>2, VerifyImpliesStep
      <3>4. cur \in Revision /\ pay \in Revision
        BY <3>2, <3>3, WellFormedRevision
      <3>5. /\ current' = [current EXCEPT ![s] = cur]
            /\ payment' = [payment EXCEPT ![s] = pay]
            /\ pc' = [pc EXCEPT ![s] = "sign"]
            /\ UNCHANGED lockHolder
        BY <2>1, <2>3
      <3>6. TypeOK'
        BY <1>2, <3>4, <3>5 DEF IInv, TypeOK, PC
      <3>7. PaymentsVerified' /\ LoadedIsCurrent'
        BY <1>2, <1>4, <3>2, <3>3, <3>5 DEF IInv, TypeOK, PaymentsVerified,
           LoadedIsCurrent, Verified
      <3>8. QED
        BY <1>1, <1>2, <3>5, <3>6, <3>7 DEF IInv, ObligationsWellFormed,
           LockTargets, LocksHeld, HoldsLock, TypeOK
    <2>4. QED
      BY <2>2, <2>3
  <1>5. QED
    BY <1>3, <1>4

-----------------------------------------------------------------------------
(* The theorems.                                                           *)

LEMMA NextIInv == IInv /\ [Next]_vars => IInv'
  <1> SUFFICES ASSUME IInv, [Next]_vars PROVE IInv'
    OBVIOUS
  <1>1. CASE AdvanceHeight
    BY <1>1, AdvanceHeightIInv
  <1>2. ASSUME NEW s \in Streams, StreamStep(s) PROVE IInv'
    BY <1>2, ProcessPaymentIInv, PayByEphemeralAccountIInv,
       RespondPayByEphemeralAccountIInv, ReadPayByContractRequestIInv,
       LockStorageObligationIInv, LoadAndVerifyIInv, RevisionFromRequestPanicsIInv,
       SignAndCommitIInv, RespondPayByContractIInv DEF StreamStep
  <1>3. CASE UNCHANGED vars
    BY <1>3 DEF vars, IInv, TypeOK, ObligationsWellFormed, LockTargets, LocksHeld,
       PaymentsVerified, LoadedIsCurrent, HoldsLock, Verified
  <1>4. QED
    BY <1>1, <1>2, <1>3 DEF Next

\* IInv holds in every reachable state of every instance.
THEOREM IInvHolds == Spec => []IInv
  BY InitIInv, NextIInv, PTL DEF Spec

\* Type correctness of the payment processor: whatever the interleaving of
\* the streams, every variable keeps the type the code gives it; in
\* particular the balance a withdrawal leaves is a natural number and every
\* obligation SignAndCommit writes is a well-formed revision.
THEOREM TypeCorrect == Spec => []TypeOK
  <1>1. IInv => TypeOK
    BY DEF IInv
  <1>2. QED
    BY IInvHolds, <1>1, PTL

\* Every step of the processor that writes a contract's obligation replaces
\* it by a legal payment step from it: the lock held from
\* managedLockStorageObligation to the deferred unlock keeps the verified
\* revision's base equal to the obligation SignAndCommit overwrites.
LEMMA StepKeepsChain ==
  ASSUME IInv, [Next]_vars
  PROVE  [\A c \in Contracts :
            obligation'[c] # obligation[c] =>
              PaymentStep(obligation[c], obligation'[c])]_obligation
  <1>1. CASE \E s \in Streams : SignAndCommit(s)
    <2>1. PICK s \in Streams : SignAndCommit(s)
      BY <1>1
    <2>2. CASE UNCHANGED obligation
      BY <2>2
    <2>3. CASE obligation' = [obligation EXCEPT ![target[s]] = payment[s]]
      <3>1. /\ target[s] \in Contracts
            /\ PaymentStep(current[s], payment[s])
            /\ current[s] = obligation[target[s]]
        BY <2>1 DEF SignAndCommit, IInv, PaymentsVerified, LoadedIsCurrent, Verified
      <3>2. QED
        BY <2>3, <3>1 DEF IInv, TypeOK
    <2>4. QED
      BY <2>1, <2>2, <2>3 DEF SignAndCommit, FinishUnlock
  <1>2. CASE ~\E s \in Streams : SignAndCommit(s)
    BY <1>2 DEF Next, vars, StreamStep, AdvanceHeight, ProcessPayment,
       PayByEphemeralAccount, RespondPayByEphemeralAccount,
       ReadPayByContractRequest, LockStorageObligation, LoadAndVerify,
       RevisionFromRequestPanics, RespondPayByContract
  <1>3. QED
    BY <1>1, <1>2

\* RevisionChain for every number of streams and contracts and every
\* request the renters may send.
THEOREM RevisionChainHolds == Spec => RevisionChain
  BY IInvHolds, StepKeepsChain, PTL DEF Spec, RevisionChain

=============================================================================
