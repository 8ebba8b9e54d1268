SPECIFICATION FairSpec
CONSTANTS
  u1 = u1
  NULL = NULL
  Reconciler = Reconciler
  Payout = Payout
  Users = {u1}
  OrderIds = {o1, o2}
  Workers = {w1}
  Events <- Annual
  ShopDenoms = {500}
  EarnedDenom = 500
  Ratio = 1
  InitBalance = 10
  CapDaily = 1000
  CapWeekly = 1000
  CapAnnual = 500
  ReferralDelay = 1
  DaysPerWeek = 2
  DaysPerYear = 2
  MaxDay = 2
  LastOrderDay = 0
  MaxCrashes = 1
  PromptTasks = TRUE
  JanuaryReruns = FALSE
INVARIANT TypeOK
INVARIANT FailedHoldsNoReservation
PROPERTY OrderSettles
