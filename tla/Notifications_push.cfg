SPECIFICATION PushFairSpec
CONSTANTS
  None = None
  Rows = {1}
  Types = {"mystery", "achievement"}
  RowType <- SameType
  DirectCalls <- Calls
  Replicas = {w1, w2}
  BatchSize = 1
  Tasks = {1, 2, 3}
  Tokens = {k1}
  MaxPerDay = 2
  MinutesPerDay = 2
  QuietMinutes = {1}
  MaxMinute = 1
  MaxLosses = 1
CHECK_DEADLOCK FALSE
INVARIANT PushCap
INVARIANT NoDoubleDispatch
INVARIANT TicketPerPush
PROPERTY NotificationSettles
