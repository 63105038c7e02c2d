CONSTANTS
  Payouts = {o1, o2}
  Transactions = {t1, t2}
  MaxPayouts = 2
  MaxTransactions = 5
SPECIFICATION Spec
INVARIANT BranchesDetermineRoot
CHECK_DEADLOCK FALSE
