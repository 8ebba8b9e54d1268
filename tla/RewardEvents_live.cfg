SPECIFICATION FairSpec
CONSTANTS
  NULL = NULL
  m1 = m1
  m2 = m2
  m3 = m3
  Labels = {s1}
  Receipts = {}
  Emits <- All
  Category <- SameCategory
  Mystery = {s1}
  Missions = {m2}
  Template <- Catalogue
  Promos = 1
  Target = 1
  Reward = 3
  MaxBuffers = 1
  Rate = 1
  Threshold = 1
  BatchCab = 2
  FreezeCost = 1
  MysteryPrize = 0
  Milestone = 1
  Prize = 7
  Servers = {p1, p2}
  Batches = {p1, p2}
  MaxDay = 0
  MaxFaults = 1
INVARIANT EventOwnsCredit
PROPERTY ScanIsCredited
CHECK_DEADLOCK FALSE
