SPECIFICATION Spec
CONSTANTS
  u1 = u1
  NULL = NULL
  Reconciler = Reconciler
  Payout = Payout
  Users = {u1}
  OrderIds = {o1, o2}
  Workers = {w1, w2}
  Events <- MilestoneAndReferral
  ShopDenoms = {1000}
  EarnedDenom = 500
  Ratio = 1
  InitBalance = 20
  CapDaily = 1000
  CapWeekly = 1500
  CapAnnual = 1000
  ReferralDelay = 1
  DaysPerWeek = 2
  DaysPerYear = 4
  MaxDay = 1
  LastOrderDay = 0
  MaxCrashes = 1
  PromptTasks = FALSE
  JanuaryReruns = FALSE
SYMMETRY Symmetry
INVARIANT CabConservation
INVARIANT YtdMatchesReservations
INVARIANT FiscalCap
INVARIANT DailyCap
INVARIANT OneIssuer
PROPERTY TerminalIsFinal
PROPERTY ImplementsCardOrders
