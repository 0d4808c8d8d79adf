SPECIFICATION LiveSpec
CHECK_DEADLOCK FALSE
CONSTANTS
  Orders = {1, 2}
  Parent = 1
  Child = 2
  Expiring = {1, 2}
  Setups <- AmendAndSell
  MaxLead = 1
INVARIANTS
  FillInv
PROPERTIES
  SettledIsRecorded
