# TLA+ verification of the host payment processor, program engine, block rewards and skyfiles

This directory holds TLA+ models of the Go sources under `src/`, the TLC
configurations that model-check them, and TLAPS proofs. Every definition is
translated from the code. `PROJECT.json` gives, for each definition, the
source lines it models (`map`), what each run checks, and the findings.

## 1. The system and its parts

| Part | Source | State it keeps | Operations |
|---|---|---|---|
| Payment processor | `src/modules/host/payment.go` | none of its own; per stream: where the RPC is | `ProcessPayment`, `staticPayByEphemeralAccount`, `managedPayByContract` |
| Revision builder / verifier | `payment.go:129-179`, `verifyPaymentRevision` (not under src/) | none (pure) | `revisionFromRequest`, `verifyPayByContractRevision` |
| Storage obligation + lock | used by `payment.go` | latest revision per contract, per-contract mutex | lock, get, modify, unlock |
| Ephemeral account manager | not under src/ (spec 4.G, 5) | balance and spent nonces per account | `callWithdraw` |
| Sector cache | `src/unnamed/part_000:39-142` | `merkleRoots`, `sectorsGained`, `sectorsRemoved` | append, drop, has, read; swap (not under src/) |
| SwapSector instruction | `src/modules/host/mdm/instructionswapsector.go` | none (uses the cache) | `Execute` |
| Program data buffer | `part_000:1-38` | received bytes | `Uint64`, `threadedFetchData` (both `panic`) |
| Coinbase / supply | `src/types/block.go:69-128` | none (pure uint64 arithmetic) | `CalculateCoinbase`, `CalculateNumSiacoins`, `CalculateSubsidy` |
| Block Merkle root / branches | `block.go:130-243` | none (pure) | `MerkleRoot`, `MerkleBranches` (`BlockTemplate` copies fields) |
| Skyfile orchestration | `src/modules/renter/skyfile.go:1-1007` | siafiles, skylinks, blocklist | upload (small/large), convert, pin, restore, download |
| Miner HTTP API | `skyfile.go:1009-1108` | none | forwards to the miner |
| CI pipeline | `src/unnamed/part_001` | — | build configuration |

How they interact: a renter's stream reaches `ProcessPayment`, which
dispatches on the payment kind. An ephemeral-account payment is one
withdrawal from the account manager and a response write. A contract payment
locks the contract's storage obligation, builds a payment revision from the
most recent one and the request, verifies it at the current block height,
co-signs it, writes it into the obligation and answers with the host
signature; the deferred unlock runs on every return. Many streams run at
once, and the per-contract lock is the only thing that orders them. After
payment, a program runs instructions one after the other against a sector
cache built from the contract's root list, and commits the cache to the
host's sector store at the end, or nothing if an instruction fails fatally.
The skyfile code on the renter side uploads base sectors through the same
host machinery.

What makes them hard, and where the hazards are (each with its line in
`PROJECT.json` "hazards"):

* concurrent streams on one contract: the revision verified must still be
  the one overwritten (`payment.go:71`);
* a partial failure: the withdrawal is done before its response
  (`:47-52`), and a retry must not debit twice;
* a request longer than the recent revision indexes past its outputs
  (`payment.go:140`, `:148`);
* the lock must be released on every path, or all later streams block
  (`payment.go:72`);
* the cache keeps *sets* of roots while the list may hold a root twice
  (`part_000:101-110`);
* the swap proof reads the old leaves from the swapped list at exchanged
  positions (`instructionswapsector.go:74-76`);
* `ProgramData`'s `threadedFetchData` and `Uint64` are stubs that panic
  (`part_000:30`, `:37`), so as written every program crashes the host; the
  model uses `Uint64` as spec 4.D defines it;
* in the skyfile code, the blocklist check and the upload are not atomic
  (`skyfile.go:253`), and the cleanup on error differs between paths
  (`:956`, `:870`).

## 2. Modules

### HostPayment (`HostPayment.tla`)

Models `payment.go`. Each stream carries one payment RPC; `pc[s]` is where
the stream's handler is.

* State: `obligation` (contract → latest revision: number, valid outputs
  `<<renter, host>>`, missed outputs `<<renter, host, void>>`), `lockHolder`
  (contract id → stream or `NoHolder`), `height`, `balance`/`spent` (account
  manager), and per stream `pc`, `target`, `current`, `payment`, `amount`.
  The history variable `panicked` only serves the property `NoPanic`.
* Actions, one per step of the handler: `ProcessPayment` (lines 19-35),
  `PayByEphemeralAccount` (39-49), `RespondPayByEphemeralAccount` (51-58),
  `ReadPayByContractRequest` (62-68), `LockStorageObligation` (70-72),
  `LoadAndVerify` (74-94), `RevisionFromRequestPanics` (132-150),
  `SignAndCommit` (96-114), `RespondPayByContract` (116-127), and
  `AdvanceHeight` (the consensus set). Every error return is a disjunct that
  ends the stream, through `FinishUnlock` (the deferred unlock) after the
  lock is taken.
* Abstractions: unlock hashes are left out because `revisionFromRequest`
  copies them from the recent revision, so the recipient check cannot fail
  on this path; signatures are a Boolean. The request's values are chosen
  in the step that uses them, because nothing before that depends on them.
  `verifyPaymentRevision` and `callWithdraw` are not under `src/` and are
  modelled from spec 4.F and 4.G (marked `spec_modelled`).
* A panic is modelled as the process exiting: every in-flight RPC ends,
  locks are fresh and the persisted obligations remain.

### ProgramSectors (`ProgramSectors.tla`)

Models the `sectors` cache of `part_000` and `instructionSwapSector.Execute`.
State: `merkleRoots`, `sectorsGained` (a set: a sector is identified with its
root), `sectorsRemoved`, the host's `store`, the program `status`, the last
output's `proof`, the number of instructions `executed`, and
`droppedRoots`, the roots `dropSectors` has cut off and not yet uncached.
Actions: `AppendSector`, `DropSectors` (the bound check and the truncation),
`DropRoot` (one pass of the loop that updates the cache for one dropped
root, in list order), `SwapSector`, `HasSector`, `ReadSector` and `Commit`.
No instruction and no commit starts until `droppedRoots` is empty, so the
loop stays atomic to the rest of the program, as in the single-threaded
runner; modelling it as steps makes each pass an action TLAPS can reason
about without induction over the list. `SwapSector` fetches its offsets with
`ProgramData.Uint64` as spec 4.D defines it (a value, or an error that
aborts): in `part_000` both `Uint64` and `threadedFetchData`, which
`NewProgramData` starts for every program, are `panic` stubs, so the code
as it stands crashes the host on every program, and there is no cache
behaviour to check until they exist.

### Coinbase (`Coinbase.tla`)

Models the reward arithmetic of `block.go:69-128`. `BlockHeight` is a
uint64, so every height subtraction and addition the code does goes through
`Uint(x) == x % Word`, where `Word` is 2^64 in the build. Currency is a
`big.Int`, so currency is an unbounded natural.

* Operators: `CalculateCoinbase`, with its guard against wrapping;
  `CoinbaseSupply` and `FoundationSupply`, the two sums inside
  `CalculateNumSiacoins`; `NumGenesisSiacoins`; and `CalculateSubsidy`.
  The sums use the recursive function `SumSeq`, not a RECURSIVE operator,
  so TLAPS can reason about the module.
* State: the chain's `height`, the siacoins `minted` since genesis, and the
  tip block's `payout`. `ApplyBlock` mints block h+1's coinbase and its
  Foundation subsidy, and pays the subsidy of some fees.
* The chain is the reference. It is consensus code, not under `src/`, so it
  is modelled from the spec.

### BlockMerkle (`BlockMerkle.tla`)

Models `Block.MerkleRoot` and `Block.MerkleBranches`. `Block.BlockTemplate` only copies fields, so it is left out.

* The tree (`crypto.NewTree`) is not under `src/`. It is modelled as its
  stack of subtrees: `Push` adds a height-0 subtree at the head and joins
  equal heights (`JoinAllSubTrees`), and the root folds the stack.
* Hashes are terms (`LeafSum`, `NodeSum`), so two roots are equal only when
  the trees are, which is what collision resistance gives.
* Hex encoding is a tagged term with its inverse.
* The miner adds payouts and transactions (`AddPayout`, `AddTransaction`).

### Skyfile (`Skyfile.tla`)

Models the skyfile operations of `src/modules/renter/skyfile.go`, run by
concurrent callers against one renter, with `UpdateSkynetBlocklist`
interleaving at any point.

* State:
  * `siafile`: for each base path and extended path, whether it exists, the
    skylinks its metadata lists, and which call created it (a history
    field);
  * `blocked`: the blocklist;
  * `uploaded`: the skylinks whose base sector reached hosts;
  * per caller, its `call`, its `pc` and its `result`.
* Actions: one per stretch of a handler between two points where another
  caller or the blocklist can interleave.
  * Upload: `UploadStart`, `UploadExt`, `UploadBase`, `FinalCheck`, and
    `Cleanup`, the deferred delete of `UploadSkyfile`. `UploadStart`
    also takes the early return when `generateFilekey` fails (`:949-952`).
    That return comes before the cleanup is deferred (`:956`), so it
    deletes nothing.
  * Conversion: `Convert`, `FileNode`, `CheckNode`, `AddLinkToNode`,
    `AfterBase`.
  * Pin: `PinStart`, `PinFanout`.
  * Restore: `RestoreStart`, `RestoreFanout`, `RestoreCheck`.
  * `Download`.
  * `UpdateSkynetBlocklist`.
* The filesystem and upload streaming are not under `src/`.
  `UploadStreamOutcomes` models them from the spec: a path that exists is
  refused unless Force is set, and otherwise a new siafile replaces it.
* Every encoding, parsing or network error is a nondeterministic failure
  of its step.
* `AddSkylink` is `fileNode.AddSkylink` on a node opened earlier: if
  another call has deleted the siafile meanwhile, nothing is recreated.
  (Writing the link into a deleted siafile would give a deleted file
  metadata, a state the code cannot reach.)
* `AfterBase` and `CheckNode` choose their next label with CASE arms
  whose guards are disjoint, as the code's if-chains are.

### PaymentLedger (`PaymentLedger.tla`)

The abstract specification of what the payment processor promises, with
streams, locks and responses left out. Each contract is a chain of
revisions that grows by one atomic `Pay` step, a legal payment from the
current revision. Each account is a balance that an atomic `Withdraw` step
debits, by at most the balance, once per fresh nonce. `Tick` is a new block.
HostPayment's `Ledger` instance maps `revision` to `obligation` and keeps
`balance`, `spent` and `height`. `LedgerSpec` is `Ledger!LSpec`, checked as a
PROPERTY in payment_safety and proved in `HostPaymentRefinement`.

### HostPaymentProofs (`HostPaymentProofs.tla`)

The TLAPS proofs about HostPayment (section 4).

### HostPaymentRefinement (`HostPaymentRefinement.tla`)

The TLAPS proof that HostPayment implements PaymentLedger (section 4).

### ProgramSectorsProofs (`ProgramSectorsProofs.tla`)

The TLAPS proofs about ProgramSectors (section 4).

### SectorDrop and SectorCache (`SectorDrop.tla`, `SectorCache.tla`)

`SectorCache` is the abstract specification of a program's sector cache.
The store, the proofs and the instruction count are left out. Each
instruction changes the root list and the cache (`gained`, `removed`) in
one atomic step until the program ends (`done`):

* `Append1` is `appendSector`;
* `Swap` is `swapSectors`;
* `End` is commit, abort or panic;
* `Drop(n)` is the whole of `dropSectors`. Its effect on the cache is
  the closed form `Dropped` of `SectorDrop`. The dropped roots that were
  gained are forgotten, the others are marked removed, and a gained root
  that occurs twice among the dropped roots (`Twice`) is also marked
  removed. The code's loop forgets it at the first copy and, at the
  second copy, no longer finds it gained.

`SectorDrop` holds these constant operators so that both the abstract
module and the refinement mapping can use them.

### ProgramSectorsRefinement (`ProgramSectorsRefinement.tla`)

The refinement mapping from ProgramSectors to SectorCache, and its proof
(section 4). The mapped cache is `CacheAfterLoop`: the cache as it will
be once the `dropSectors` loop has processed the remaining
`droppedRoots`. That is `Dropped(sectorsGained, sectorsRemoved,
droppedRoots)`. `done` maps to `status # "running"`. `CacheSpec` is
`Cache!CSpec`, checked as a PROPERTY in the sectors run.

### SkyfileProofs (`SkyfileProofs.tla`)

The TLAPS proofs about Skyfile (section 4), and `DisjointPaths`, the
condition on the constants under which `UploadSkyfileOutcome` holds.

### CoinbaseProofs (`CoinbaseProofs.tla`)

The TLAPS proof that `SupplyMatchesChain` holds for all constants (section 4).

### MC modules

`MC_HostPayment`, `MC_ProgramSectors` and `MC_Skyfile` EXTEND the proof
modules (`MC_ProgramSectors` through `ProgramSectorsRefinement`), so TLC
also checks the refinement mappings, and payment_safety the HostPayment
`IInv`.
`MC_HostPayment`, `MC_ProgramSectors`, `MC_Coinbase`, `MC_BlockMerkle`
and `MC_Skyfile` give the constants of the
small instances as model values and definitions.

## 3. Runs

| Run | cfg | Checks | Result |
|---|---|---|---|
| payment_safety | `MC_HostPayment.cfg` | `TypeOK`, `IInv`, `RevisionChain`, `LedgerSpec` | pass, 231,135 distinct states |
| payment_live | `MC_HostPayment_live.cfg` | `EveryStreamServed` under `FairSpec` | pass |
| payment_panic | `MC_HostPayment_panic.cfg` | `NoPanic` | violation (finding) |
| sectors | `MC_ProgramSectors.cfg` | `TypeOK`, `GainedAreListed`, `SwapProofShowsOldLeaves`, `CacheSpec` | pass, 51,249 distinct states |
| coinbase_supply | `MC_Coinbase.cfg` | `SupplyMatchesChain` | pass, 201 distinct states |
| merkle | `MC_BlockMerkle.cfg` | `BranchesDetermineRoot` | pass, 441 distinct states |
| skyfile_safety | `MC_Skyfile.cfg` | `TypeOK`, `UploadSkyfileOutcome` | pass, 296,328 distinct states |
| skyfile_blocked | `MC_Skyfile_blocked.cfg` | `NoBlockedUpload` | violation (finding) |
| skyfile_cleanup | `MC_Skyfile_cleanup.cfg` | `CleanupOnlyOwnFiles` | violation (finding) |

What the properties say:

* `RevisionChain` (action property): every change of a contract's
  obligation is a legal payment step from the revision it replaces. To
  break it, two streams must interleave their load and write on one
  contract. The mutant that drops the lock does break it.
* `LedgerSpec` (refinement): seen through the mapping, every behaviour of
  the concurrent streams is a behaviour of PaymentLedger. Payments are
  atomic, a withdrawal never overdraws, and a withdrawal is honoured once
  per nonce, even when a stream replays a nonce that another stream has
  already spent. The mutant that drops the nonce check breaks it.
* `IInv` (payment_safety): the lock invariant of the HostPayment proofs
  (section 4). A stream between the verify (`:91`) and the write (`:111`)
  holds the contract's lock, and its base is still the stored obligation.
  The mutant that drops the lock breaks it with three streams on one
  contract.
* `EveryStreamServed`: every RPC returns, so no path keeps the lock.
* `GainedAreListed`: between instructions (once `dropSectors` has
  finished its loop), every sector the commit would write is still listed
  and is not also deleted, whatever the order of appends and drops.
* `SwapProofShowsOldLeaves`: a swap's proof names increasing indices and,
  for each, the leaf the list held there before the swap.
* `CacheSpec` (refinement): seen through `CacheAfterLoop`, every run of
  programs is a run of the atomic cache. This holds for appends and drops
  in any order and for roots repeated in the list. The step-by-step loop
  of `dropSectors` therefore computes the closed form, the duplicate case
  included. The mutant that keeps a dropped gained root cached breaks it.
* `SupplyMatchesChain`: at every height, the closed form
  `CalculateNumSiacoins` equals the genesis outputs plus what the chain
  minted block by block. To get this right the code needs the integer
  halving of `(first + last) / 2`, the `height + 1` block count, the uint64
  guards and the Foundation lumps every `FoundationSubsidyFrequency` blocks.
* `BranchesDetermineRoot`: the walk of `MerkleBranches` (`:238-241`)
  lists every subtree of the stack, one per bit of the leaf count and
  smallest first, and the list folds back to `MerkleRoot`. It does not
  claim that a miner can recompute the root after changing a leaf: the
  first leaf lies inside the oldest subtree, whose sum is opaque.
* `UploadSkyfileOutcome` (action property): when an upload returns, a
  successful real upload leaves its siafile listing the skylink. A failure
  after the cleanup is deferred (`:956`), or a dry run, leaves neither the
  base siafile nor the extended siafile. A `generateFilekey` failure
  returns at `:951`, before the defer, and touches nothing. This must hold
  whatever other callers and the blocklist do in between, and when the
  upload's path already holds a siafile (c2 uploads over the existing one).

Findings (details in `PROJECT.json`):

1. `payment.go:140`: a request with more values than the recent revision
   panics the host instead of being rejected (run payment_panic).
2. `skyfile.go:484`: a small upload sends the base sector before it
   consults the blocklist. `UploadSkyfile` checks only afterwards
   (`:980`), so the blocked content has already reached hosts (run
   skyfile_blocked).
3. `skyfile.go:958`: the deferred cleanup of a failed upload deletes
   whatever siafile is at the path. That includes a siafile another call
   created, for example when this call failed because the path was
   already taken (run skyfile_cleanup, with two callers on one path).
Two further observations have no run, because no property can yet be
held against the code:

* `block.go:190`: `BlockTemplate` has its `MerkleBranches` field commented
  out, so every template carries no branches. Spec 9 asks for them.
* `payment.go:111-119`: the obligation is written before the response,
  so a failed response write leaves the payment committed. Spec 4.G
  orders co-sign, obligation write, then reply, so this is the intended
  order, not a finding.
* `part_000:101-110`: `sectorsGained` and `sectorsRemoved` are sets, so a
  root listed twice and dropped once is marked removed while the list
  still holds it. The cache does what spec 3 describes; whether the
  commit then loses a sector depends on the host's sector store (not
  under `src/`), so no run holds it against the code. `CacheSpec` states
  the behaviour exactly.
* `skyfile.go:259`: converting a siafile adds the skylink to its metadata
  before it uploads the base sector, and leaves the skylink there when the
  upload fails. The model reaches this state, but the spec does not say
  what a failed conversion must leave.

Bounds and why they are enough:

* HostPayment runs with three streams and one contract: two streams are
  enough to interleave under the lock, and the third makes a queue behind
  it. It also has one account with balance 2 and amounts {1, 3}, so one
  withdrawal can overdraw and two of 1 can both be honoured. A replayed
  nonce would therefore debit twice, and `LedgerSpec` would see it. The
  liveness and violation runs keep balance 1 and amounts {1, 2}.
* Revision numbers are 0..2. Value vectors are every 2- and 3-vector over
  0..2, plus one short and one long vector, so verification both passes
  and fails on each check.
* Heights reach one past `WindowEnd`, so the contract expires during a run.
* The liveness run uses two streams.
* ProgramSectors has three roots, starts from the base lists `<<>>`,
  `<<r1>>`, `<<r1,r1>>`, `<<r1,r2>>` and `<<r1,r2,r1>>`, names offsets up
  to 3 and runs up to five instructions. That is enough to append a root
  twice and drop it, to drop several roots in one call (so the loop takes
  several `DropRoot` steps), to swap equal and distinct offsets, and to
  name offsets past the end.
* Coinbase has `Word = 64`, an initial coinbase of 20, a minimum of 5 and
  `MaxHeight = 40`, so the chain crosses the end of deflation (height 15).
  The hardfork is at height 10 with a frequency of 4, so several lumps are
  paid. The genesis has three transactions, one of them empty. Because
  the proof covers every word size, the small `Word` loses nothing.
* BlockMerkle has up to 2 payouts and 5 transactions, so 0 to 7 leaves.
  That covers every stack shape up to three subtrees and a full tree of 4.
* Skyfile has two callers, two skylinks, their own paths, one existing
  siafile that lists one link, and every operation with every flag
  combination the code accepts. The blocklist changes at any point. The
  cleanup run puts both callers on one path.

Fairness: `WF_vars(StreamStep(s))` for each stream. A Go goroutine that can
run is eventually scheduled, and `sync.Mutex` eventually hands a contended
lock to a waiter. `AdvanceHeight` is not fair, because the chain need not
grow. The HostPayment, ProgramSectors, Coinbase and BlockMerkle cfgs say
`CHECK_DEADLOCK FALSE`: each model serves a finite set of RPCs, runs one
program, or grows a chain or block to its bound, and then stops. The
Skyfile cfgs check deadlock, because the blocklist can always be updated.

Each property of a passing run has a mutant in `PROJECT.json`. Each mutant
is a plausible bug, and TLC finds it:

| Mutant | Bug it plays | Property it breaks |
|---|---|---|
| `WithdrawOKNoBalanceCheck` | no balance check | `TypeOK` |
| `WithdrawOKNoNonceCheck` | spent nonce not refused | `LedgerSpec` |
| `LockStorageObligationNoLock` | no lock | `IInv`, `RevisionChain` |
| `FinishKeepLock` | unlock not deferred | `EveryStreamServed` |
| `AppendSectorNoLengthCheck` | no `SectorSize` check | `TypeOK` |
| `DropFromCacheKeepGained` | gained root stays cached | `GainedAreListed`, `CacheSpec` (ProgramSectors) |
| `SwapProofNotReversed` | swap positions not reversed | `SwapProofShowsOldLeaves` |
| `CalculateCoinbaseNoHeightGuard` | no guard on the height subtraction | `SupplyMatchesChain` |
| `CoinbaseSupplyOffByOne` | `height` blocks instead of `height + 1` | `SupplyMatchesChain` |
| `MerkleBranchesSkipHead` | the walk starts after the head | `BranchesDetermineRoot` |
| `WithoutKeepMetadata` | delete leaves the metadata | `TypeOK` (Skyfile) |
| `CleanupBaseOnly` | cleanup forgets the extended siafile | `UploadSkyfileOutcome` |

## 4. Proved with TLAPS

`HostPaymentProofs.tla` proves these theorems for every value of the
constants:

* `IInvHolds == Spec => []IInv`
* `TypeCorrect == Spec => []TypeOK`
* `RevisionChainHolds == Spec => RevisionChain`

The assumptions are only `ConstantsAssumption` of HostPayment:

* the initial outputs are natural vectors of lengths 2 and 3;
* the request values are natural vectors;
* the amounts, revision numbers and heights are naturals;
* the unknown contract and `NoHolder` are distinct from real ones.

The obligations stay well formed because a stream writes only a revision
it verified against the one it loaded. `RevisionChain` rests on the lock: while a stream
is between `LoadAndVerify` and `SignAndCommit`, no other stream can write
its contract's obligation. IInv is `TypeOK` together with these conjuncts:

* `ObligationsWellFormed`: every obligation has 2 valid and 3 missed
  outputs.
* `LockTargets`: a stream waiting for the lock names a contract id.
* `LocksHeld`: a stream in `load`, `sign` or `respond` holds its contract's
  lock. Because `lockHolder` is a function, two such streams never share a
  contract.
* `PaymentsVerified`: a verified stream's base and payment revision are
  well formed, and the payment is a `PaymentStep` from the base.
* `LoadedIsCurrent`: a stream in `sign` still has its base equal to the
  obligation.

How the proof goes:

* `InitIInv` shows that IInv holds in the initial states.
* One lemma per action shows that each action preserves IInv.
  `FinishUnlockIInv` is shared by every return that unlocks.
* `NextIInv` combines the action lemmas.
* `IInvHolds` follows by PTL.
* `StepKeepsChain` shows that a step from an IInv state satisfies the
  body of `RevisionChain`. Only `SignAndCommit` changes `obligation`, and
  by `LocksHeld` and `LoadedIsCurrent` it writes a payment step from the
  current obligation.
* `VerifyImpliesStep` shows that a revision accepted by
  `verifyPaymentRevision` is a `PaymentStep` and keeps its shape.

The provers handle output vectors better as functions on `1..n`. The
lemma `SeqIsFun` links `Seq(Nat)` with length n to `[1..n -> Nat]`.

`HostPaymentRefinement.tla` proves `Refinement == Spec => LedgerSpec`:
HostPayment implements PaymentLedger for every value of the constants.
It rests on `IInvHolds`:

* `InitRefines`: the initial states map to `LInit`.
* `NextRefines`: each step from an IInv state is a ledger step or leaves
  the mapped state unchanged. `AdvanceHeight` is a `Tick`.
* `CommitIsPay`: a `SignAndCommit` that writes the obligation is a `Pay`.
  `PaymentsVerified` makes the new revision a payment step from the
  stream's base (`StepIsPayment`), and `LoadedIsCurrent` makes that base
  the current obligation. This is where the lock matters.
* `WithdrawalIsWithdraw`: a withdrawal that changes the account is a
  `Withdraw`. `WithdrawOK` gives a fresh nonce and an amount within the
  balance.
* Every other action leaves the mapped state unchanged.
* The theorem follows by PTL.

`CoinbaseProofs.tla` proves `SupplyHolds == Spec => []SupplyMatchesChain`
for every value of the constants that Coinbase's `ConstantsAssumption`
allows:

* any word size of at least 2;
* `MinimumCoinbase <= InitialCoinbase < Word`;
* an even `SiacoinPrecision` (10^24 is even);
* a positive subsidy frequency;
* `MaxHeight + 1 < Word`: the chain never reaches the uint64 limit.

The inductive invariant is `IInv`: `minted = CoinbaseSupply(height) +
FoundationSupply(height)`. `SupplyMatchesChain` follows from it, because
the genesis sum is the same term on both sides and need not be computed.
The steps:

* `CoinbaseValue`: below `MaxHeight` no uint64 operation wraps
  (`UintId`), so `CalculateCoinbase(h)` is `IC - h` or `MC`, times the
  precision.
* `CoinbaseSupplyValue`: `CoinbaseSupply` is a polynomial in h. The
  halving is exact because the precision is `2 * K`.
* `CoinbaseStep`: `CoinbaseSupply(h+1) = CoinbaseSupply(h) + CalculateCoinbase(h+1)`,
  in three cases. The case at the end of deflation is where the
  `height + 1` block count matters.
* `FoundationStep`: the Foundation supply grows by the subsidy of block
  h+1. This rests on `DivStep`: the quotient by the frequency grows by one
  exactly at a multiple.

`ProgramSectorsProofs.tla` proves, for any roots, base lists, index and
instruction bounds allowed by ProgramSectors' `ConstantsAssumption`:

* `IInvHolds == Spec => []IInv`
* `TypeCorrect == Spec => []TypeOK`
* `GainedListed == Spec => []GainedAreListed`
* `SwapProofHolds == Spec => SwapProofShowsOldLeaves`

`GainedAreListed` is not inductive: while the loop of `dropSectors` runs,
the list is already cut and the cache is not yet updated. `IInv` says where
a gained root may be meanwhile: in `merkleRoots` or in `droppedRoots`, the
part the loop has not reached. It also keeps gained and removed disjoint.
`IInv` is checked by no run of its own: it is `GainedAreListed` with the
loop's mid-states counted, and TLC checked it before it was proved. The
steps:

* lemmas on `Range` of the list operations: `RangeAppend`, `RangeSplit`
  (the truncation of `dropSectors` splits the range between the kept and
  the dropped roots), `RangeTail` and `RangeSwap` (a swap keeps the set of
  roots);
* one lemma per action. `DropRootIInv` is the heart: removing the head of
  `droppedRoots` from `sectorsGained` (or marking it removed) keeps every
  other gained root in one of the two ranges;
* `SwapLeaves`: after `SwappedRoots`, the leaf at each offset is the one
  the other offset held before; `StepShowsOldLeaves` gives the body of
  the action property from it.

`ProgramSectorsRefinement.tla` proves, under the same assumption:

* `Refinement == Spec => CacheSpec`: ProgramSectors implements SectorCache.

The steps:

* `InitRefines`: initially no loop is pending, so `CacheAfterLoop` is the
  empty cache (`DroppedEmpty`).
* `AppendRefines`: an append runs only when no loop is pending, so it
  maps to `Append1`.
* `DropSectorsRefines`: a `DropSectors` step sets `droppedRoots` to the
  cut-off tail. The cache it maps to is then already `Dropped` of that
  tail, which is `Drop(n)`.
* `DropRootRefines`: each iteration of the loop maps to a stutter. This
  rests on `DropStep`: one `DropFromCache` on the head followed by
  `Dropped` of the tail gives `Dropped` of the whole list. `DropStep`
  takes four cases, on whether the head was gained and whether it occurs
  again in the tail. `TwiceTail` relates `Twice` on a list to `Twice` on
  its tail.
* `SwapRefines` (to `Swap(o1 + 1, o2 + 1)`), `QueryRefines` (the reads
  stutter) and `CommitRefines` (an abort or the commit is `End`).
* `NextRefines` combines these and the typing from `TypeCorrect`. The
  theorem follows by PTL.

Two technical lemmas are needed because of how TLAPS handles symbols:

* `SameDropped` identifies the instanced `Cache!Dropped` with `Dropped`.
* `BarPrimed` states the primed mapping explicitly, because a prime does
  not pass through an operator that is left unexpanded.

No inductive invariant beyond `TypeOK` is needed. The mapping itself
accounts for the loop that is still running.

`SkyfileProofs.tla` proves, for any callers, skylinks and siapaths:

* `TypeCorrect == Spec => []TypeOK`, from Skyfile's `ConstantsAssumption`
  alone. `TypeOK` is inductive; its conjunct that a deleted siafile keeps
  no metadata needs `AddSkylink` to leave a deleted siafile deleted.
* `IInvHolds` and `UploadOutcomeHolds == Spec => UploadSkyfileOutcome`,
  under the hypothesis `DisjointPaths`: distinct callers upload to
  distinct siapaths, and no restore path is one of them. An upload's path
  may hold a siafile before the upload (a `Sources` path); there an early
  `generateFilekey` failure leaves it, as the code does, and a later
  failure's cleanup deletes it. Without it the
  property is false: another call may replace, link or delete the siafile
  at the upload's path between its steps, and the skyfile_cleanup run
  shows the cleanup of one upload deleting another's siafile. The
  skyfile_safety instance satisfies `DisjointPaths`.

The Skyfile `IInv`, checked by TLC before it was proved and not by a run
of its own, is `TypeOK` and, for each upload, `UploadInv`: its
`pc` is one of the upload's labels; past the dry-run returns it is a real
upload; at `final` its base siafile exists and lists the skylink; at
`cleanup` it got there by an error or a dry run. The steps:

* `UploadStreamOK`, `WithLinkOK`, `WithoutOK` and `AddSkylinkOK`: what the
  filesystem operations return, and that they touch only their own key;
* `KeepsOtherBase`: a step of caller c keeps, with its skylinks, every
  base siafile of a siapath c neither uploads nor restores to;
* `CallerFrame`: a caller's step leaves the other callers' call, place
  and result alone; with `KeepsOtherBase` and `DisjointPaths` this gives
  `OtherKeepsUploadInv`;
* `OwnStep`: an upload's own steps keep `UploadInv`, and the step that
  returns (`FinalCheck`, `Cleanup`, or the early return of `UploadStart`)
  gives the outcome the property asks;
* `NextIInv`, then both theorems by PTL.

Out of TLAPS's reach, so only checked by TLC:

* the liveness property `EveryStreamServed`;
* `BranchesDetermineRoot`: the tree is built by RECURSIVE operators,
  and its correctness for every leaf count is induction over data;
* the violation properties (`NoPanic`, `NoBlockedUpload`,
  `CleanupOnlyOwnFiles`): they are false of the code, and TLC gives the
  counterexample.

## 5. Not modelled yet, and the plan

Done so far: the payment processor, the program's sector cache, the reward
arithmetic, the block Merkle tree, and the skyfile operations. Proofs exist
for the payment processor, for its refinement of the abstract ledger, for
the supply formula, for the program's sector cache, its swap proofs and its refinement of the
atomic cache of SectorCache, and
for the types and the upload outcome of the skyfile operations.

The plan, in order:

1. **Restore orphan.** Turn the hazard at `skyfile.go:926` into a
   property. A restore that fails after the upload may leave a siafile
   behind.

Skyfile liveness is not worth a run. Each call's labels form an acyclic
path to `done`, and no call waits on a lock or on another caller. Under
weak fairness of each caller, every call would return because of the
model's shape, whatever the code did.

These stay out of the model:

* the miner HTTP handlers (`skyfile.go:1009-1108`): pure I/O forwarding;
* the CI configuration;
* the `unsafe.Pointer` cast in `MerkleBranches`, which relies on the
  memory layout of another package;
* price-table costs of instructions: constants;
* the download worker system and the streaming of layouts and fanouts:
  not under `src/`. Downloads are modelled only as the blocklist check and
  a possible failure.
