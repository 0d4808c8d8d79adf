SPECIFICATION Spec
CHECK_DEADLOCK FALSE
CONSTANTS
  Loops = {l1, l2}
  Operator = op
  Triggers = {daily_loss, other}
  DailyLoss = daily_loss
  NoCause = none
  MaxRows = 4
  MaxRestarts = 1
  d1 = d1
  d2 = d2
  i1 = i1
  i2 = i2
  Decisions = {d1, d2}
  Issuers = {i1, i2}
  NoDecision = nodecision
  Setups <- TightAccounts
  MaxTries = 2
  LastDay = 2
  Callers = {c1, c2}
  KeyTTL = 7
  Margin = 2
  MaxReplays = 2
  MinInterval = 2
  MaxWaits = 2
  MaxDelay = 2
  MaxTime = 8
  MaxCrashes = 1
  Books <- SmallBooks
  Quantity = 2
  Costs = {3}
INVARIANTS
  ModeInv
  LedgerInv
  ReplayInv
  RiskInv
PROPERTIES
  ImplementsHeadroom
