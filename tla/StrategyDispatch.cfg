CONSTANTS
  a = a
  Leases = {a}
  TTL = 1
  Transport = 3
  Grace = 4
  MaxCrashes = 2
  MaxFaults = 1
SPECIFICATION LiveSpec
CHECK_DEADLOCK FALSE
INVARIANTS
  LeaseInv
PROPERTIES
  OwnerReturns
  LeaseEnds
