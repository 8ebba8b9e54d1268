SPECIFICATION FairSpec
CONSTANTS
  NULL = NULL
  Users = {u1}
  Subs = {s1, s2}
  Referred = {u1}
  Processes = {w1, w2}
  MaxUses = 1
  MaxOps = 1
  MaxFaults = 1
CHECK_DEADLOCK FALSE
INVARIANT PaidHasRow
INVARIANT ActiveIsPaid
INVARIANT DiscountBudget
INVARIANT RewardPerPayment
PROPERTY PendingResolves
