------------------------------- MODULE Coinbase -------------------------------
(***************************************************************************)
(* The block reward arithmetic of src/types/block.go: CalculateCoinbase,    *)
(* CalculateNumSiacoins (the closed form of the siacoin supply) and         *)
(* Block.CalculateSubsidy, checked against the chain that pays them.       *)
(*                                                                         *)
(* Currency is a big.Int, so currency values are unbounded naturals here.  *)
(* BlockHeight is a uint64: every BlockHeight operation the code does is    *)
(* taken modulo Word (2^64 in the build, a small power of two for TLC).    *)
(* The chain is modelled from consensus (not under src/): block h pays the  *)
(* miner CalculateSubsidy of its fees, mints CalculateCoinbase(h), and pays *)
(* the Foundation InitialFoundationSubsidy at the hardfork height and      *)
(* FoundationSubsidyPerBlock * FoundationSubsidyFrequency every            *)
(* FoundationSubsidyFrequency blocks after it.                             *)
(***************************************************************************)
EXTENDS Naturals, Sequences

CONSTANTS
  Word,                        \* 2^64: the range of a uint64 BlockHeight
  InitialCoinbase,             \* siacoins of the coinbase at height 0
  MinimumCoinbase,             \* the coinbase never falls below this
  SiacoinPrecision,            \* hastings per siacoin (10^24)
  GenesisOutputs,              \* genesis transactions: their output values
  FoundationHardforkHeight,
  FoundationSubsidyFrequency,
  FoundationSubsidyPerBlock,   \* hastings per block, paid in lumps
  InitialFoundationSubsidy,
  Fees,                        \* miner fees a transaction may carry
  MaxHeight                    \* the chain grows to this height

ASSUME ConstantsAssumption ==
  /\ Word \in Nat /\ Word >= 2
  /\ InitialCoinbase \in Nat /\ MinimumCoinbase \in Nat
  /\ MinimumCoinbase <= InitialCoinbase /\ InitialCoinbase < Word
  /\ SiacoinPrecision \in Nat /\ SiacoinPrecision % 2 = 0
  /\ GenesisOutputs \in Seq(Seq(Nat))
  /\ FoundationHardforkHeight \in Nat
  /\ FoundationSubsidyFrequency \in Nat \ {0}
  /\ FoundationSubsidyPerBlock \in Nat /\ InitialFoundationSubsidy \in Nat
  /\ Fees \subseteq Nat
  /\ MaxHeight \in Nat /\ MaxHeight + 1 < Word

\* A uint64 result of BlockHeight arithmetic.
Uint(x) == x % Word

\* The sum of a sequence of naturals.
SumSeq(s) ==
  LET f[i \in 0..Len(s)] == IF i = 0 THEN 0 ELSE f[i - 1] + s[i]
  IN  f[Len(s)]

-----------------------------------------------------------------------------

\* Mutant: the guard on the height is dropped, so the wrapped difference is
\* taken as the coinbase once height passes InitialCoinbase.
CalculateCoinbaseNoHeightGuard(height) ==
  LET base == Uint(InitialCoinbase - height)
  IN  (IF base < MinimumCoinbase THEN MinimumCoinbase ELSE base) * SiacoinPrecision

\* CalculateCoinbase (lines 73-79): max(InitialCoinbase - height,
\* MinimumCoinbase) * SiacoinPrecision, with the uint64 subtraction
\* guarded against wrapping.
CalculateCoinbase(height) ==
  LET base == Uint(InitialCoinbase - height)
  IN  (IF height > InitialCoinbase \/ base < MinimumCoinbase
       THEN MinimumCoinbase ELSE base) * SiacoinPrecision

\* numGenesisSiacoins (lines 102-111): the sum of the genesis outputs.
NumGenesisSiacoins ==
  SumSeq([t \in 1..Len(GenesisOutputs) |-> SumSeq(GenesisOutputs[t])])

\* Mutant: the deflation sum counts height blocks instead of height + 1.
CoinbaseSupplyOffByOne(height) ==
  LET deflationBlocks == InitialCoinbase - MinimumCoinbase
      avg == (CalculateCoinbase(0) + CalculateCoinbase(height)) \div 2
  IN  IF height <= deflationBlocks
      THEN avg * height
      ELSE avg * Uint(deflationBlocks + 1)
           + CalculateCoinbase(height) * Uint(height - deflationBlocks)

\* The coinbases of heights 0..height in CalculateNumSiacoins (lines 85-92):
\* (first + last) / 2 per block while the coinbase deflates, the minimum
\* coinbase per block after.
CoinbaseSupply(height) ==
  LET deflationBlocks == InitialCoinbase - MinimumCoinbase
      avg == (CalculateCoinbase(0) + CalculateCoinbase(height)) \div 2
  IN  IF height <= deflationBlocks
      THEN avg * Uint(height + 1)
      ELSE avg * Uint(deflationBlocks + 1)
           + CalculateCoinbase(height) * Uint(height - deflationBlocks)

\* The Foundation subsidies paid up to height in CalculateNumSiacoins
\* (lines 93-98).
FoundationSupply(height) ==
  IF height >= FoundationHardforkHeight
  THEN InitialFoundationSubsidy
       + FoundationSubsidyPerBlock * FoundationSubsidyFrequency
         * ((height - FoundationHardforkHeight) \div FoundationSubsidyFrequency)
  ELSE 0

\* CalculateNumSiacoins (lines 83-100): the genesis outputs, the coinbases
\* and the Foundation subsidies.
CalculateNumSiacoins(height) ==
  NumGenesisSiacoins + (CoinbaseSupply(height) + FoundationSupply(height))

\* Block.CalculateSubsidy (lines 120-128): the coinbase plus every miner fee
\* of every transaction of the block.
CalculateSubsidy(txnFees, height) ==
  CalculateCoinbase(height) + SumSeq([t \in 1..Len(txnFees) |-> SumSeq(txnFees[t])])

-----------------------------------------------------------------------------

\* What the Foundation is paid by the block at height h (consensus).
FoundationSubsidy(h) ==
  IF h = FoundationHardforkHeight THEN InitialFoundationSubsidy
  ELSE IF h > FoundationHardforkHeight
          /\ (h - FoundationHardforkHeight) % FoundationSubsidyFrequency = 0
       THEN FoundationSubsidyPerBlock * FoundationSubsidyFrequency
       ELSE 0

VARIABLES
  height,   \* height of the chain's tip
  minted,   \* siacoins minted since genesis: coinbases and Foundation
  payout    \* total miner payout of the tip block

vars == <<height, minted, payout>>

\* A block's transactions and their fees: up to two transactions of up to
\* two fees each.
FeeLists == UNION {[1..n -> UNION {[1..k -> Fees] : k \in 0..2}] : n \in 0..2}

Init ==
  /\ height = 0
  /\ minted = CalculateCoinbase(0) + FoundationSubsidy(0)
  /\ payout = CalculateSubsidy(<<>>, 0)

\* Consensus applies the next block: its miner payouts are the subsidy of
\* its fees, and the coinbase and the Foundation subsidy are minted.
ApplyBlock ==
  /\ height < MaxHeight
  /\ height' = height + 1
  /\ minted' = minted + CalculateCoinbase(height') + FoundationSubsidy(height')
  /\ \E txnFees \in FeeLists : payout' = CalculateSubsidy(txnFees, height')

Spec == Init /\ [][ApplyBlock]_vars

-----------------------------------------------------------------------------
(* Properties.                                                             *)

\* The variables are naturals and the height is a BlockHeight.
TypeOK ==
  /\ height \in 0..MaxHeight
  /\ minted \in Nat
  /\ payout \in Nat

\* CalculateNumSiacoins(height) is the number of siacoins the chain has
\* created by height: the closed form, with its integer halving, uint64
\* height arithmetic and Foundation lumps, equals the block-by-block sum.
SupplyMatchesChain ==
  CalculateNumSiacoins(height) = NumGenesisSiacoins + minted

=============================================================================
