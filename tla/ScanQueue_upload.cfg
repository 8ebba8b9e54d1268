SPECIFICATION Spec
CONSTANTS
  Entries <- TwoEntries
  Photo <- SamePhoto
  Requests = {1, 2, 3, 4, 5}
  MAX_ATTEMPTS = 2
  MaxFaults = 2
  None = None
  Over = Over
INVARIANTS UploadOnce ImageOwned
PROPERTY QueueDrains
CHECK_DEADLOCK FALSE
