SPECIFICATION Spec
CONSTANTS
  NULL = NULL
  Users = {u1}
  WithdrawalIds = {w1, w2, w3}
  Workers = {p1, p2}
  Amounts = {500, 1000, 1500}
  MinWithdrawal = 1000
  InitCash = 2500
SYMMETRY Symmetry
INVARIANT TypeOK
INVARIANT CashConservation
INVARIANT ProcessedIsPaid
PROPERTY ResolutionIsFinal
PROPERTY ImplementsPayouts
CHECK_DEADLOCK FALSE
