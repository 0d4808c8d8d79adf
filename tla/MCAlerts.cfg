SPECIFICATION LiveSpec
CHECK_DEADLOCK FALSE
CONSTANTS
  Keys = {1, 2}
  Direct = {2}
  Senders = {s1}
  Executor = deliverer
  Nobody = nobody
  Limit = 2
  Batch = 1
  Bounds <- Troubles
INVARIANTS
  AlertInv
PROPERTIES
  ClearMeansSeen
  PendingAnswered
