SPECIFICATION FairSpec
CONSTANTS
    s1 = s1
    Account = acct
    NoSymbol = nosym
    Symbols = {s1}
    MaxFailures = 3
    Kinds = {"agree", "qty1", "qty2", "vague", "order", "external"}
INVARIANTS
  EntryHonoursBlocks
PROPERTIES
  ReleaseEarned
  PromotionEarned
  CreditedBlockLifts
