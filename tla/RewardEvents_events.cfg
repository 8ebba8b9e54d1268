SPECIFICATION Spec
CONSTANTS
  NULL = NULL
  m1 = m1
  m2 = m2
  m3 = m3
  Labels = {s1}
  Receipts = {r1}
  Emits <- OnlyPlain
  Category <- SameCategory
  Mystery = {}
  Missions = {m3}
  Template <- Catalogue
  Promos = 2
  Target = 1
  Reward = 3
  MaxBuffers = 1
  Rate = 2
  Threshold = 1
  BatchCab = 2
  FreezeCost = 1
  MysteryPrize = 0
  Milestone = 1
  Prize = 7
  Servers = {p1, p2}
  Batches = {p1, p2}
  MaxDay = 1
  MaxFaults = 1
SYMMETRY ServerSymmetry
INVARIANT CabIntegrity
INVARIANT MissionCounts
CHECK_DEADLOCK FALSE
