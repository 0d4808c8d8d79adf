SPECIFICATION LiveSpec
CONSTANTS
  A = A
  B = B
  Symbols = {A, B}
  Accounts <- ThreeAccounts
  Rounds = 2
  MaxFaults = 2
INVARIANTS
  FlattenInv
PROPERTIES
  SellsOverAnswered
  Flattens
