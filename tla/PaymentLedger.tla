---------------------------- MODULE PaymentLedger ----------------------------
(***************************************************************************)
(* What the host's payment processor (src/modules/host/payment.go)         *)
(* promises, with streams, locks and responses abstracted away: each       *)
(* contract is a chain of revisions that grows by one atomic payment at a  *)
(* time, each ephemeral account a balance debited by one atomic withdrawal *)
(* per fresh nonce, and the block height only grows (spec 4.G and 5:       *)
(* "all revisions serialize through the obligation lock; observed revision *)
(* numbers are monotonic", "withdrawals are atomic with respect to a       *)
(* per-account balance", "idempotent on message nonce").                   *)
(*                                                                         *)
(* HostPayment implements this specification under the mapping that takes *)
(* revision to the storage obligations and keeps balance, spent and height *)
(* (HostPayment's LedgerSpec, proved in HostPaymentRefinement).            *)
(***************************************************************************)
EXTENDS Naturals, Sequences

CONSTANTS
  Contracts,      \* contracts the host holds an obligation for
  Accounts,       \* ephemeral accounts
  Nonces,         \* nonces a withdrawal may carry
  InitRevision,   \* the revision every contract starts from
  InitBalance     \* the balance every account starts with

VARIABLES
  revision,   \* contract -> its latest revision
  balance,    \* account -> its balance
  spent,      \* account -> nonces already honoured
  height      \* the block height

lvars == <<revision, balance, spent, height>>

\* Positions of the valid outputs <<renter, host>> and the missed outputs
\* <<renter, host, void>>.
RenterOut == 1
HostOut   == 2
VoidOut   == 3

\* A payment (spec 3 and 4.F): a larger revision number, as many outputs,
\* value moved from the renter's valid output to the host's, collateral
\* moved from the host's missed output to the void, the renter's missed
\* output untouched.
IsPayment(old, new) ==
  /\ new.num > old.num
  /\ Len(new.valid) = Len(old.valid) /\ Len(new.missed) = Len(old.missed)
  /\ old.valid[HostOut] <= new.valid[HostOut]
  /\ new.valid[RenterOut] + new.valid[HostOut]
       = old.valid[RenterOut] + old.valid[HostOut]
  /\ old.missed[VoidOut] <= new.missed[VoidOut]
  /\ new.missed[HostOut] + new.missed[VoidOut]
       = old.missed[HostOut] + old.missed[VoidOut]
  /\ new.missed[RenterOut] = old.missed[RenterOut]

LInit ==
  /\ revision = [c \in Contracts |-> InitRevision]
  /\ balance = [a \in Accounts |-> InitBalance]
  /\ spent = [a \in Accounts |-> {}]
  /\ height = 0

\* managedPayByContract as one atomic step: contract c's revision is
\* replaced by a payment from it, and nothing else changes.
Pay(c) ==
  /\ IsPayment(revision[c], revision'[c])
  /\ revision' = [revision EXCEPT ![c] = revision'[c]]
  /\ UNCHANGED <<balance, spent, height>>

\* staticPayByEphemeralAccount as one atomic step: a fresh nonce is spent
\* and at most the balance is debited.
Withdraw(a) ==
  \E n \in Nonces, amt \in 0..balance[a] :
    /\ n \notin spent[a]
    /\ spent' = [spent EXCEPT ![a] = @ \cup {n}]
    /\ balance' = [balance EXCEPT ![a] = @ - amt]
    /\ UNCHANGED <<revision, height>>

\* A new block.
Tick ==
  /\ height' = height + 1
  /\ UNCHANGED <<revision, balance, spent>>

LNext == Tick \/ (\E c \in Contracts : Pay(c)) \/ (\E a \in Accounts : Withdraw(a))

LSpec == LInit /\ [][LNext]_lvars

=============================================================================
