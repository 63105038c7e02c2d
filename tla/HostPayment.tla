----------------------------- MODULE HostPayment -----------------------------
(***************************************************************************)
(* The host's payment processor, src/modules/host/payment.go.              *)
(*                                                                         *)
(* Every stream carries one payment RPC.  ProcessPayment reads the payment *)
(* kind and dispatches: an ephemeral-account payment is one atomic         *)
(* withdrawal from the account manager followed by a response write; a     *)
(* contract payment reads its request, locks the storage obligation of the *)
(* contract, builds the payment revision from the most recent revision and *)
(* the requested values, verifies it, co-signs it, writes the obligation   *)
(* and answers with the host signature.  The deferred unlock runs on every *)
(* return.  Streams run concurrently; the obligation lock is the only      *)
(* thing that orders them.                                                 *)
(*                                                                         *)
(* Data is abstracted to what the properties tell apart: a revision is its *)
(* number and the values of its valid and missed proof outputs; unlock     *)
(* hashes are left out because revisionFromRequest copies them from the    *)
(* recent revision (lines 140, 148), so the recipient check can never fail *)
(* on this path.  Signatures are a Boolean: valid or not.                  *)
(*                                                                         *)
(* The request body is chosen by the renter.  Nothing between reading it   *)
(* and using it under the lock depends on anything but its contract id,    *)
(* so the values are chosen where they are used (LoadAndVerify) and the    *)
(* signature where it is checked (SignAndCommit): this gives the same set  *)
(* of behaviours with far fewer states.                                    *)
(***************************************************************************)
EXTENDS Naturals, Sequences, FiniteSets

CONSTANTS
  Streams,          \* concurrent streams, each carrying one payment RPC
  Contracts,        \* ids of the contracts the host holds an obligation for
  UnknownContract,  \* a contract id with no storage obligation
  Accounts,         \* ephemeral account ids
  NoHolder,         \* the holder of an unlocked obligation lock
  InitValid,        \* valid proof output values <<renter, host>> of every contract
  InitMissed,       \* missed proof output values <<renter, host, void>>
  InitBalance,      \* initial balance of every ephemeral account
  WindowEnd,        \* height after which a contract is expired
  MaxHeight,        \* bound on the block height
  RevisionNumbers,  \* revision numbers a request may carry
  ValidVectors,     \* value vectors a request may carry for the valid outputs
  MissedVectors,    \* value vectors a request may carry for the missed outputs
  Amounts,          \* amounts a withdrawal message may carry
  Nonces            \* nonces a withdrawal message may carry

\* Positions of the outputs in a revision (ValidRenterPayout,
\* ValidHostPayout, MissedHostOutput, the void output).
Renter == 1
Host   == 2
Void   == 3

ContractIds == Contracts \cup {UnknownContract}

ASSUME ConstantsAssumption ==
  /\ UnknownContract \notin Contracts
  /\ NoHolder \notin Streams
  /\ InitValid \in Seq(Nat) /\ Len(InitValid) = 2
  /\ InitMissed \in Seq(Nat) /\ Len(InitMissed) = 3
  /\ InitBalance \in Nat
  /\ WindowEnd \in Nat /\ MaxHeight \in Nat
  /\ RevisionNumbers \subseteq Nat
  /\ ValidVectors \subseteq Seq(Nat) /\ MissedVectors \subseteq Seq(Nat)
  /\ Amounts \subseteq Nat

VARIABLES
  obligation,   \* contract id -> most recent revision of its obligation
  lockHolder,   \* contract id -> stream holding the obligation lock, or NoHolder
  height,       \* the host's block height
  balance,      \* account -> ephemeral account balance
  spent,        \* account -> nonces of the withdrawals already honoured
  pc,           \* stream -> where ProcessPayment is
  target,       \* stream -> contract id of a PayByContractRequest, or account
  current,      \* stream -> recent revision loaded under the lock
  payment,      \* stream -> payment revision built and verified from it
  amount,       \* stream -> amount of an honoured withdrawal
  panicked      \* history: the host process panicked

vars == <<obligation, lockHolder, height, balance, spent, pc, target,
          current, payment, amount, panicked>>

Revision == [num : Nat, valid : Seq(Nat), missed : Seq(Nat)]

InitRevision == [num |-> 0, valid |-> InitValid, missed |-> InitMissed]

PC == {"start", "eaBody", "eaRespond", "pbcBody", "lock", "load", "sign",
       "respond", "done"}

-----------------------------------------------------------------------------
(* Helpers translated from payment.go and from the verifier it calls.      *)

\* revisionFromRequest (lines 132-153) indexes recent.NewValidProofOutputs[i]
\* and recent.NewMissedProofOutputs[i] for every requested value: a request
\* with more values than the recent revision has outputs is an index out of
\* range, a runtime panic.
RequestOverrunsRecent(recent, vv, mv) ==
  Len(vv) > Len(recent.valid) \/ Len(mv) > Len(recent.missed)

\* revisionFromRequest: a copy of the recent revision with the requested
\* revision number and output values (unlock hashes copied from recent).
RevisionFromRequest(recent, rn, vv, mv) ==
  [recent EXCEPT !.num = rn, !.valid = vv, !.missed = mv]

\* verifyPaymentRevision (not under src/, modelled from spec 4.F): the
\* conditions under which it returns no error, in the order it checks them.
VerifyPaymentRevision(cur, pay, bh) ==
  /\ bh <= WindowEnd
  /\ pay.num > cur.num
  /\ Len(pay.valid) = Len(cur.valid)
  /\ Len(pay.missed) = Len(cur.missed)
  /\ pay.valid[Renter] <= cur.valid[Renter]
  /\ pay.valid[Host] >= cur.valid[Host]
  /\ cur.valid[Renter] - pay.valid[Renter] = pay.valid[Host] - cur.valid[Host]
  /\ pay.missed[Host] <= cur.missed[Host]
  /\ pay.missed[Void] >= cur.missed[Void]
  /\ cur.missed[Host] - pay.missed[Host] = pay.missed[Void] - cur.missed[Void]
  /\ pay.missed[Renter] = cur.missed[Renter]

\* callWithdraw of the account manager (not under src/, modelled from spec
\* 4.G and 5): honoured iff signed, not expired, not a replayed nonce and
\* covered by the balance; atomic with respect to the account.
\* Mutant: a withdrawal that does not check the balance.
WithdrawOKNoBalanceCheck(a, amt, nonce, expiry, sigOK) ==
  sigOK /\ expiry >= height /\ nonce \notin spent[a]

\* Mutant: a withdrawal that does not check the nonce against replays.
WithdrawOKNoNonceCheck(a, amt, nonce, expiry, sigOK) ==
  sigOK /\ expiry >= height /\ balance[a] >= amt

WithdrawOK(a, amt, nonce, expiry, sigOK) ==
  /\ sigOK
  /\ expiry >= height
  /\ nonce \notin spent[a]
  /\ balance[a] >= amt

-----------------------------------------------------------------------------
(* Stream steps.  Finish(s) is a return from ProcessPayment.               *)

Finish(s) == pc' = [pc EXCEPT ![s] = "done"]

\* Mutant: the unlock is not deferred and a return skips it.
FinishKeepLock(s) == Finish(s) /\ UNCHANGED lockHolder

\* A return from managedPayByContract: the deferred unlock (line 72) runs.
FinishUnlock(s) ==
  /\ Finish(s)
  /\ lockHolder' = [lockHolder EXCEPT ![target[s]] = NoHolder]

Init ==
  /\ obligation = [c \in Contracts |-> InitRevision]
  /\ lockHolder = [c \in ContractIds |-> NoHolder]
  /\ height = 0
  /\ balance = [a \in Accounts |-> InitBalance]
  /\ spent = [a \in Accounts |-> {}]
  /\ pc = [s \in Streams |-> "start"]
  /\ target = [s \in Streams |-> UnknownContract]
  /\ current = [s \in Streams |-> InitRevision]
  /\ payment = [s \in Streams |-> InitRevision]
  /\ amount = [s \in Streams |-> 0]
  /\ panicked = FALSE

\* ProcessPayment (lines 19-35): read the PaymentRequest and dispatch on
\* its type; a read error or an unknown method ends the RPC.
ProcessPayment(s) ==
  /\ pc[s] = "start"
  /\ \/ Finish(s)
     \/ pc' = [pc EXCEPT ![s] = "eaBody"]
     \/ pc' = [pc EXCEPT ![s] = "pbcBody"]
  /\ UNCHANGED <<obligation, lockHolder, height, balance, spent, target,
                 current, payment, amount, panicked>>

\* staticPayByEphemeralAccount (lines 39-49): read the request and withdraw.
PayByEphemeralAccount(s) ==
  /\ pc[s] = "eaBody"
  /\ \/ /\ Finish(s)
        /\ UNCHANGED <<balance, spent, target, amount>>
     \/ \E a \in Accounts, amt \in Amounts, nonce \in Nonces,
           expiry \in 0..MaxHeight, sigOK \in BOOLEAN :
          IF WithdrawOK(a, amt, nonce, expiry, sigOK)
          THEN /\ balance' = [balance EXCEPT ![a] = @ - amt]
               /\ spent' = [spent EXCEPT ![a] = @ \cup {nonce}]
               /\ target' = [target EXCEPT ![s] = a]
               /\ amount' = [amount EXCEPT ![s] = amt]
               /\ pc' = [pc EXCEPT ![s] = "eaRespond"]
          ELSE /\ Finish(s)
               /\ UNCHANGED <<balance, spent, target, amount>>
  /\ UNCHANGED <<obligation, lockHolder, height, current, payment,
                 panicked>>

\* staticPayByEphemeralAccount (lines 51-57): write the response; the
\* withdrawal stands whether or not the write succeeds.
RespondPayByEphemeralAccount(s) ==
  /\ pc[s] = "eaRespond"
  /\ Finish(s)
  /\ UNCHANGED <<obligation, lockHolder, height, balance, spent, target,
                 current, payment, amount, panicked>>

\* managedPayByContract (lines 64-68): read the PayByContractRequest.
ReadPayByContractRequest(s) ==
  /\ pc[s] = "pbcBody"
  /\ \/ /\ Finish(s)
        /\ UNCHANGED target
     \/ \E c \in ContractIds :
          /\ target' = [target EXCEPT ![s] = c]
          /\ pc' = [pc EXCEPT ![s] = "lock"]
  /\ UNCHANGED <<obligation, lockHolder, height, balance, spent, current,
                 payment, amount, panicked>>

\* Mutant: the obligation is not locked (lines 71-72 missing).
LockStorageObligationNoLock(s) ==
  /\ pc[s] = "lock"
  /\ pc' = [pc EXCEPT ![s] = "load"]
  /\ UNCHANGED <<obligation, lockHolder, height, balance, spent, target,
                 current, payment, amount, panicked>>

\* managedLockStorageObligation (line 71): block until the lock is free.
LockStorageObligation(s) ==
  /\ pc[s] = "lock"
  /\ lockHolder[target[s]] = NoHolder
  /\ lockHolder' = [lockHolder EXCEPT ![target[s]] = s]
  /\ pc' = [pc EXCEPT ![s] = "load"]
  /\ UNCHANGED <<obligation, height, balance, spent, target, current,
                 payment, amount, panicked>>

\* managedPayByContract (lines 74-94): fetch the obligation, read the block
\* height, build the payment revision from the request and verify it.
LoadAndVerify(s) ==
  /\ pc[s] = "load"
  /\ IF target[s] \notin Contracts
     THEN /\ FinishUnlock(s)
          /\ UNCHANGED <<current, payment>>
     ELSE LET cur == obligation[target[s]] IN
          \E rn \in RevisionNumbers, vv \in ValidVectors, mv \in MissedVectors :
            /\ ~RequestOverrunsRecent(cur, vv, mv)
            /\ LET pay == RevisionFromRequest(cur, rn, vv, mv) IN
               IF VerifyPaymentRevision(cur, pay, height)
               THEN /\ current' = [current EXCEPT ![s] = cur]
                    /\ payment' = [payment EXCEPT ![s] = pay]
                    /\ pc' = [pc EXCEPT ![s] = "sign"]
                    /\ UNCHANGED lockHolder
               ELSE /\ FinishUnlock(s)
                    /\ UNCHANGED <<current, payment>>
  /\ UNCHANGED <<obligation, height, balance, spent, target, amount,
                 panicked>>

\* revisionFromRequest on a request with more values than the recent
\* revision has outputs (lines 136-149): index out of range.  The panic is
\* not recovered, so the host process exits; on restart every in-flight
\* RPC has failed, locks are fresh and the persisted obligations remain.
RevisionFromRequestPanics(s) ==
  /\ pc[s] = "load"
  /\ target[s] \in Contracts
  /\ \E vv \in ValidVectors, mv \in MissedVectors :
       RequestOverrunsRecent(obligation[target[s]], vv, mv)
  /\ pc' = [t \in Streams |-> "done"]
  /\ lockHolder' = [c \in ContractIds |-> NoHolder]
  /\ panicked' = TRUE
  /\ UNCHANGED <<obligation, height, balance, spent, target, current,
                 payment, amount>>

\* managedPayByContract (lines 96-114): co-sign (createRevisionSignature
\* fails on a bad renter signature) and write the obligation, which may
\* fail and then leaves it as it was.
SignAndCommit(s) ==
  /\ pc[s] = "sign"
  /\ \/ /\ FinishUnlock(s)
        /\ UNCHANGED obligation
     \/ /\ obligation' = [obligation EXCEPT ![target[s]] = payment[s]]
        /\ pc' = [pc EXCEPT ![s] = "respond"]
        /\ UNCHANGED lockHolder
  /\ UNCHANGED <<height, balance, spent, target, current, payment, amount,
                 panicked>>

\* managedPayByContract (lines 116-126): write the host signature.
\* Whether the write succeeds or fails, the deferred unlock runs and the
\* committed revision stays.
RespondPayByContract(s) ==
  /\ pc[s] = "respond"
  /\ FinishUnlock(s)
  /\ UNCHANGED <<obligation, height, balance, spent, target, current,
                 payment, amount, panicked>>

\* The consensus set advances the block height (h.BlockHeight()).
AdvanceHeight ==
  /\ height < MaxHeight
  /\ height' = height + 1
  /\ UNCHANGED <<obligation, lockHolder, balance, spent, pc, target, current,
                 payment, amount, panicked>>

StreamStep(s) ==
  \/ ProcessPayment(s)
  \/ PayByEphemeralAccount(s)
  \/ RespondPayByEphemeralAccount(s)
  \/ ReadPayByContractRequest(s)
  \/ LockStorageObligation(s)
  \/ LoadAndVerify(s)
  \/ RevisionFromRequestPanics(s)
  \/ SignAndCommit(s)
  \/ RespondPayByContract(s)

Next == AdvanceHeight \/ \E s \in Streams : StreamStep(s)

\* Go's goroutine scheduler runs every runnable goroutine, and sync.Mutex
\* hands a contended lock to a waiter: each stream's steps are weakly fair.
Fairness == \A s \in Streams : WF_vars(StreamStep(s))

Spec == Init /\ [][Next]_vars

FairSpec == Spec /\ Fairness

-----------------------------------------------------------------------------
(* Properties.                                                             *)

\* Every variable ranges over the values the code gives it.
TypeOK ==
  /\ obligation \in [Contracts -> Revision]
  /\ lockHolder \in [ContractIds -> Streams \cup {NoHolder}]
  /\ height \in 0..MaxHeight
  /\ balance \in [Accounts -> Nat]
  /\ spent \in [Accounts -> SUBSET Nonces]
  /\ pc \in [Streams -> PC]
  /\ target \in [Streams -> ContractIds \cup Accounts]
  /\ current \in [Streams -> Revision]
  /\ payment \in [Streams -> Revision]
  /\ amount \in [Streams -> Nat]
  /\ panicked \in BOOLEAN

\* A legal successor of a contract revision (spec 3 and 8): a strictly
\* larger revision number, the same outputs, the renter's valid payout
\* moved to the host's, the host's missed payout moved to the void, the
\* renter's missed payout untouched.
PaymentStep(old, new) ==
  /\ new.num > old.num
  /\ Len(new.valid) = Len(old.valid)
  /\ Len(new.missed) = Len(old.missed)
  /\ new.valid[Host] >= old.valid[Host]
  /\ new.valid[Renter] + new.valid[Host] = old.valid[Renter] + old.valid[Host]
  /\ new.missed[Void] >= old.missed[Void]
  /\ new.missed[Host] + new.missed[Void] = old.missed[Host] + old.missed[Void]
  /\ new.missed[Renter] = old.missed[Renter]

\* Whatever the interleaving of concurrent PayByContract RPCs, every change
\* of a contract's obligation is a legal payment step from the revision it
\* replaces: the lock held from LockStorageObligation to the deferred unlock
\* keeps the revision verified against the one that gets overwritten.
RevisionChain ==
  [][\A c \in Contracts :
       obligation'[c] # obligation[c] => PaymentStep(obligation[c], obligation'[c])
    ]_obligation

\* The payment processor implements the abstract ledger of spec 4.G and 5
\* (PaymentLedger): under the refinement mapping that reads the storage
\* obligations as the contracts' revisions, every step of any interleaving
\* of streams is one atomic payment on one contract, one atomic withdrawal
\* of at most the balance for a fresh nonce, a new block, or no change.
Ledger == INSTANCE PaymentLedger WITH revision <- obligation,
                                      InitRevision <- InitRevision

LedgerSpec == Ledger!LSpec

\* Every payment RPC ends: ProcessPayment returns on every stream, so no
\* obligation lock is held forever by an error path (the deferred unlock).
EveryStreamServed == \A s \in Streams : <>(pc[s] = "done")

\* The spec (4.F, 7) says a request whose output counts do not match is
\* rejected with an error reply: ProcessPayment never panics.
NoPanic == ~panicked

=============================================================================
