---------------------------- MODULE CoinbaseProofs ----------------------------
(***************************************************************************)
(* Proof that the closed form of CalculateNumSiacoins (src/types/block.go) *)
(* equals the block-by-block supply of the chain, for every value of the   *)
(* constants that ConstantsAssumption allows: every word size, coinbase    *)
(* schedule, even SiacoinPrecision, hardfork height and subsidy frequency. *)
(*                                                                         *)
(* The argument: the coinbase supply and the Foundation supply each grow   *)
(* by exactly what block h + 1 mints (CoinbaseStep, FoundationStep), so    *)
(* minted = CoinbaseSupply(height) + FoundationSupply(height) is           *)
(* inductive; the genesis outputs are the same term on both sides.          *)
(***************************************************************************)
EXTENDS Coinbase, TLAPS

\* The numeric content of ConstantsAssumption, without the sequence part.
LEMMA NumFacts ==
  /\ Word \in Nat /\ Word >= 2
  /\ InitialCoinbase \in Nat /\ MinimumCoinbase \in Nat
  /\ MinimumCoinbase <= InitialCoinbase /\ InitialCoinbase < Word
  /\ SiacoinPrecision \in Nat /\ SiacoinPrecision % 2 = 0
  /\ FoundationHardforkHeight \in Nat
  /\ FoundationSubsidyFrequency \in Nat \ {0}
  /\ FoundationSubsidyPerBlock \in Nat /\ InitialFoundationSubsidy \in Nat
  /\ MaxHeight \in Nat /\ MaxHeight + 1 < Word
BY ConstantsAssumption

\* Half the precision: SiacoinPrecision = 2 * K.
K == SiacoinPrecision \div 2
\* The number of heights after 0 at which the coinbase still deflates.
D == InitialCoinbase - MinimumCoinbase

LEMMA KFacts == K \in Nat /\ SiacoinPrecision = 2 * K
BY NumFacts DEF K

\* A uint64 result in range is the plain result.
LEMMA UintId ==
  ASSUME NEW x \in 0..(Word - 1)
  PROVE  Uint(x) = x
BY NumFacts DEF Uint

\* Halving an even natural is exact.
LEMMA Half ==
  ASSUME NEW m \in Nat
  PROVE  (2 * m) \div 2 = m
OBVIOUS

\* CalculateCoinbase never wraps: it is IC - h while h <= D, then MC.
LEMMA CoinbaseValue ==
  ASSUME NEW h \in 0..MaxHeight
  PROVE  CalculateCoinbase(h)
           = (IF h <= D THEN InitialCoinbase - h ELSE MinimumCoinbase)
             * SiacoinPrecision
<1>. DEFINE IC == InitialCoinbase  MC == MinimumCoinbase
            base == Uint(InitialCoinbase - h)
<1>1. CASE h <= IC
  <2>1. base = IC - h
    BY <1>1, NumFacts, UintId
  <2>2. (IF h > IC \/ base < MC THEN MC ELSE base)
          = (IF h <= D THEN IC - h ELSE MC)
    BY <1>1, <2>1, NumFacts DEF D
  <2>. QED  BY <2>2 DEF CalculateCoinbase
<1>2. CASE h > IC
  <2>1. (IF h > IC \/ base < MC THEN MC ELSE base)
          = (IF h <= D THEN IC - h ELSE MC)
    BY <1>2, NumFacts DEF D
  <2>. QED  BY <2>1 DEF CalculateCoinbase
<1>. QED  BY <1>1, <1>2, NumFacts

\* The closed form of CoinbaseSupply as a polynomial in h.
LEMMA CoinbaseSupplyValue ==
  ASSUME NEW h \in 0..MaxHeight
  PROVE  CoinbaseSupply(h)
           = IF h <= D THEN (2 * InitialCoinbase - h) * K * (h + 1)
             ELSE (InitialCoinbase + MinimumCoinbase) * K * (D + 1)
                  + 2 * K * MinimumCoinbase * (h - D)
<1>. DEFINE IC == InitialCoinbase  MC == MinimumCoinbase
<1>1. CalculateCoinbase(0) = IC * (2 * K)
  BY CoinbaseValue, KFacts, NumFacts DEF D
<1>2. CASE h <= D
  <2>1. CalculateCoinbase(h) = (IC - h) * (2 * K)
    BY <1>2, CoinbaseValue, KFacts
  <2>2. CalculateCoinbase(0) + CalculateCoinbase(h) = 2 * ((2 * IC - h) * K)
    BY <1>1, <2>1, KFacts, NumFacts
  <2>3. (CalculateCoinbase(0) + CalculateCoinbase(h)) \div 2 = (2 * IC - h) * K
    BY <2>2, KFacts, NumFacts, Half
  <2>4. Uint(h + 1) = h + 1
    BY NumFacts, UintId
  <2>. QED  BY <1>2, <2>3, <2>4 DEF CoinbaseSupply, D
<1>3. CASE ~(h <= D)
  <2>1. CalculateCoinbase(h) = MC * (2 * K)
    BY <1>3, CoinbaseValue, KFacts
  <2>2. CalculateCoinbase(0) + CalculateCoinbase(h) = 2 * ((IC + MC) * K)
    BY <1>1, <2>1, KFacts, NumFacts
  <2>3. (CalculateCoinbase(0) + CalculateCoinbase(h)) \div 2 = (IC + MC) * K
    BY <2>2, KFacts, NumFacts, Half
  <2>4. Uint(D + 1) = D + 1 /\ Uint(h - D) = h - D
    BY <1>3, NumFacts, UintId DEF D
  <2>5. CoinbaseSupply(h) = ((IC + MC) * K) * (D + 1) + (MC * (2 * K)) * (h - D)
    BY <1>3, <2>1, <2>3, <2>4 DEF CoinbaseSupply, D
  <2>. QED  BY <1>3, <2>5, KFacts, NumFacts DEF D
<1>. QED  BY <1>2, <1>3

\* Block h + 1 adds its coinbase to the coinbase supply.
LEMMA CoinbaseStep ==
  ASSUME NEW h \in 0..MaxHeight, h + 1 <= MaxHeight
  PROVE  CoinbaseSupply(h + 1) = CoinbaseSupply(h) + CalculateCoinbase(h + 1)
<1>. DEFINE IC == InitialCoinbase  MC == MinimumCoinbase
<1>1. h + 1 \in 0..MaxHeight
  BY NumFacts
<1>2. CASE h + 1 <= D
  <2>1. CoinbaseSupply(h + 1) = (2 * IC - (h + 1)) * K * ((h + 1) + 1)
    BY <1>1, <1>2, CoinbaseSupplyValue
  <2>2. CoinbaseSupply(h) = (2 * IC - h) * K * (h + 1)
    BY <1>2, CoinbaseSupplyValue, NumFacts DEF D
  <2>3. CalculateCoinbase(h + 1) = (IC - (h + 1)) * (2 * K)
    BY <1>1, <1>2, CoinbaseValue, KFacts
  <2>. QED  BY <2>1, <2>2, <2>3, KFacts, NumFacts
<1>3. CASE h = D
  <2>1. CoinbaseSupply(h + 1) = (IC + MC) * K * (D + 1) + 2 * K * MC * 1
    BY <1>1, <1>3, CoinbaseSupplyValue, NumFacts DEF D
  <2>2. CoinbaseSupply(h) = (2 * IC - D) * K * (D + 1)
    BY <1>3, CoinbaseSupplyValue
  <2>3. CalculateCoinbase(h + 1) = MC * (2 * K)
    BY <1>1, <1>3, CoinbaseValue, KFacts, NumFacts DEF D
  <2>. QED  BY <1>3, <2>1, <2>2, <2>3, KFacts, NumFacts DEF D
<1>4. CASE h > D
  <2>1. CoinbaseSupply(h + 1) = (IC + MC) * K * (D + 1) + 2 * K * MC * ((h + 1) - D)
    BY <1>1, <1>4, CoinbaseSupplyValue, NumFacts DEF D
  <2>2. CoinbaseSupply(h) = (IC + MC) * K * (D + 1) + 2 * K * MC * (h - D)
    BY <1>4, CoinbaseSupplyValue, NumFacts DEF D
  <2>3. CalculateCoinbase(h + 1) = MC * (2 * K)
    BY <1>1, <1>4, CoinbaseValue, KFacts, NumFacts DEF D
  <2>. QED  BY <1>4, <2>1, <2>2, <2>3, KFacts, NumFacts DEF D
<1>. QED  BY <1>2, <1>3, <1>4, NumFacts DEF D

\* One more height adds one to the quotient exactly when it is a multiple.
LEMMA DivStep ==
  ASSUME NEW n \in Nat, NEW F \in Nat \ {0}
  PROVE  (n + 1) \div F = n \div F + (IF (n + 1) % F = 0 THEN 1 ELSE 0)
OBVIOUS

\* Block h + 1 adds its Foundation subsidy to the Foundation supply.
LEMMA FoundationStep ==
  ASSUME NEW h \in Nat
  PROVE  FoundationSupply(h + 1) = FoundationSupply(h) + FoundationSubsidy(h + 1)
<1>. DEFINE HF == FoundationHardforkHeight  F == FoundationSubsidyFrequency
            X == FoundationSubsidyPerBlock * FoundationSubsidyFrequency
<1>1. CASE h + 1 < HF
  BY <1>1, NumFacts DEF FoundationSupply, FoundationSubsidy
<1>2. CASE h + 1 = HF
  BY <1>2, NumFacts DEF FoundationSupply, FoundationSubsidy
<1>3. CASE h + 1 > HF
  <2>1. h - HF \in Nat /\ (h + 1) - HF = (h - HF) + 1
    BY <1>3, NumFacts
  <2>2. ((h + 1) - HF) \div F
          = (h - HF) \div F + (IF ((h + 1) - HF) % F = 0 THEN 1 ELSE 0)
    BY <2>1, NumFacts, DivStep
  <2>3. X \in Nat /\ ((h - HF) \div F) \in Nat
    BY <2>1, NumFacts
  <2>. QED  BY <1>3, <2>2, <2>3, NumFacts DEF FoundationSupply, FoundationSubsidy
<1>. QED  BY <1>1, <1>2, <1>3, NumFacts

\* Every supply term is a natural.
LEMMA SupplyTypes ==
  ASSUME NEW h \in 0..MaxHeight
  PROVE  /\ CalculateCoinbase(h) \in Nat /\ CoinbaseSupply(h) \in Nat
         /\ FoundationSupply(h) \in Nat /\ FoundationSubsidy(h) \in Nat
<1>1. CalculateCoinbase(h) \in Nat
  BY CoinbaseValue, NumFacts DEF D
<1>2. CoinbaseSupply(h) \in Nat
  BY CoinbaseSupplyValue, KFacts, NumFacts DEF D
<1>3. FoundationSupply(h) \in Nat
  BY NumFacts DEF FoundationSupply
<1>4. FoundationSubsidy(h) \in Nat
  BY NumFacts DEF FoundationSubsidy
<1>. QED  BY <1>1, <1>2, <1>3, <1>4

-----------------------------------------------------------------------------

\* The inductive invariant: minted is the coinbase supply plus the
\* Foundation supply of the tip height.
IInv ==
  /\ height \in 0..MaxHeight
  /\ minted = CoinbaseSupply(height) + FoundationSupply(height)

LEMMA InitIInv == Init => IInv
<1>. SUFFICES ASSUME Init PROVE IInv
  OBVIOUS
<1>1. CoinbaseSupply(0) = CalculateCoinbase(0)
  BY CoinbaseSupplyValue, CoinbaseValue, KFacts, NumFacts DEF D
<1>2. FoundationSupply(0) = FoundationSubsidy(0)
  BY NumFacts DEF FoundationSupply, FoundationSubsidy
<1>. QED  BY <1>1, <1>2, NumFacts DEF Init, IInv

LEMMA NextIInv == IInv /\ [ApplyBlock]_vars => IInv'
<1>. SUFFICES ASSUME IInv, [ApplyBlock]_vars PROVE IInv'
  OBVIOUS
<1>1. CASE ApplyBlock
  <2>1. height + 1 <= MaxHeight /\ height' = height + 1
    BY <1>1, NumFacts DEF ApplyBlock, IInv
  <2>2. CoinbaseSupply(height + 1) = CoinbaseSupply(height) + CalculateCoinbase(height + 1)
    BY <2>1, CoinbaseStep DEF IInv
  <2>3. FoundationSupply(height + 1) = FoundationSupply(height) + FoundationSubsidy(height + 1)
    BY FoundationStep DEF IInv
  <2>4. minted' = minted + CalculateCoinbase(height + 1) + FoundationSubsidy(height + 1)
    BY <1>1, <2>1 DEF ApplyBlock
  <2>5. height' \in 0..MaxHeight
    BY <2>1, NumFacts DEF IInv
  <2>6. minted' = CoinbaseSupply(height + 1) + FoundationSupply(height + 1)
    <3>1. height \in 0..MaxHeight /\ height + 1 \in 0..MaxHeight
      BY <2>1, NumFacts DEF IInv
    <3>2. /\ CalculateCoinbase(height + 1) \in Nat /\ FoundationSubsidy(height + 1) \in Nat
          /\ CoinbaseSupply(height) \in Nat /\ FoundationSupply(height) \in Nat
      BY <3>1, SupplyTypes
    <3>. QED  BY <2>2, <2>3, <2>4, <3>2 DEF IInv
  <2>. QED  BY <2>1, <2>5, <2>6 DEF IInv
<1>2. CASE UNCHANGED vars
  BY <1>2 DEF vars, IInv
<1>. QED  BY <1>1, <1>2

\* The closed form CalculateNumSiacoins agrees with the supply the chain
\* mints block by block at every height, for every admissible constants:
\* the uint64 height arithmetic never wraps below MaxHeight and the halving
\* (first + last) / 2 is exact because SiacoinPrecision is even.
THEOREM SupplyHolds == Spec => []SupplyMatchesChain
<1>1. IInv => SupplyMatchesChain
  BY DEF IInv, SupplyMatchesChain, CalculateNumSiacoins
<1>. QED  BY <1>1, InitIInv, NextIInv, PTL DEF Spec

=============================================================================
