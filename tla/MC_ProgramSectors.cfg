CONSTANTS
  r1 = r1
  r2 = r2
  r3 = r3
  sd = sd
  Roots = {r1, r2, r3}
  ShortData = sd
  BaseLists <- MCBaseLists
  OtherStored = {}
  MaxIndex = 3
  MaxInstructions = 5

SPECIFICATION Spec
INVARIANT TypeOK
INVARIANT GainedAreListed
PROPERTY SwapProofShowsOldLeaves
PROPERTY CacheSpec
CHECK_DEADLOCK FALSE
