CONSTANTS
  s1 = s1
  s2 = s2
  s3 = s3
  c1 = c1
  c0 = c0
  a1 = a1
  none = none
  Streams <- MCStreams2
  Contracts = {c1}
  UnknownContract = c0
  Accounts = {a1}
  NoHolder = none
  InitValid <- MCInitValid
  InitMissed <- MCInitMissed
  InitBalance = 1
  WindowEnd = 1
  MaxHeight = 2
  RevisionNumbers = {0, 1, 2}
  ValidVectors <- MCValidVectors
  MissedVectors <- MCMissedVectors
  Amounts = {1, 2}
  Nonces = {1}


SPECIFICATION FairSpec
PROPERTY EveryStreamServed
CHECK_DEADLOCK FALSE
