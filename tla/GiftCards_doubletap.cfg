SPECIFICATION Spec
CONSTANTS
  u1 = u1
  NULL = NULL
  Reconciler = Reconciler
  Payout = Payout
  Users = {u1}
  OrderIds = {o1, o2}
  Workers = {w1, w2}
  Events <- NoEvents
  ShopDenoms = {500}
  EarnedDenom = 500
  Ratio = 1
  InitBalance = 10
  CapDaily = 1000
  CapWeekly = 1500
  CapAnnual = 1000
  ReferralDelay = 1
  DaysPerWeek = 2
  DaysPerYear = 4
  MaxDay = 0
  LastOrderDay = 0
  MaxCrashes = 0
  PromptTasks = TRUE
  JanuaryReruns = FALSE
INVARIANT NoDoubleTap
