SPECIFICATION Spec
CONSTANTS
  NULL = NULL
  u1 = u1
  r1 = r1
  l1 = l1
  l2 = l2
  Users = {u1}
  Receipts = {r1}
  Lines = {l1, l2}
  Owner <- OneUser
  ReceiptOf <- OneReceipt
  Reward <- BothPay
  Workers = {p1, p2}
  Resolvers = {p1, p2}
  BoostRate = 8
  Bonus = 2
  InitCab = 3
  MaxCrashes = 0
  MaxAge = 2
  MaxResolved = 1
  MaxRevisions = 0
SYMMETRY Symmetry
INVARIANT BalanceIntegrity
INVARIANT CabIntegrity
INVARIANT BoostMatchesCredit
INVARIANT ConfirmedIsPaid
PROPERTY CreditIsWrittenOnce
