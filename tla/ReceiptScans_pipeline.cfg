SPECIFICATION Spec
CONSTANTS
  Receipts = {1, 2}
  Owner <- OneUser
  Readings <- SomeReadings
  Jobs = {1, 2}
  MaxRetries = 1
  RescanCap = 1
  Asked = {1}
  MaxAsking = 2
  MaxFaults = 1
  None = None
INVARIANTS IndexesHold RescanBudget
PROPERTY TakenByHolder
CHECK_DEADLOCK FALSE
