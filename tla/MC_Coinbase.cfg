CONSTANTS
  Word = 64
  InitialCoinbase = 20
  MinimumCoinbase = 5
  SiacoinPrecision = 2
  GenesisOutputs <- MCGenesisOutputs
  FoundationHardforkHeight = 10
  FoundationSubsidyFrequency = 4
  FoundationSubsidyPerBlock = 3
  InitialFoundationSubsidy = 7
  Fees = {0, 1}
  MaxHeight = 40
SPECIFICATION Spec
INVARIANT SupplyMatchesChain
CHECK_DEADLOCK FALSE
