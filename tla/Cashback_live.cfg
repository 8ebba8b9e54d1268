SPECIFICATION FairSpec
CONSTANTS
  NULL = NULL
  u1 = u1
  r1 = r1
  l1 = l1
  l2 = l2
  Users = {u1}
  Receipts = {r1}
  Lines = {l1, l2}
  Owner <- OneUser
  ReceiptOf <- OneReceipt
  Reward <- OneWorthNothing
  Workers = {p1}
  Resolvers = {p1}
  BoostRate = 12
  Bonus = 2
  InitCab = 0
  MaxCrashes = 1
  MaxAge = 2
  MaxResolved = 2
  MaxRevisions = 1
PROPERTY LineSettles
