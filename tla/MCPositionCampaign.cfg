SPECIFICATION CampaignSpec
CHECK_DEADLOCK FALSE
CONSTANTS
  Campaigns = {1, 2}
  Legs = {1, 2}
  Orders = {o1, o2}
  None = none
  Quantities = {1, 2}
  Stops = {1}
  Scopes <- ThreeScopes
SYMMETRY OrderSymmetry
INVARIANTS
  CampaignInv
PROPERTIES
  CampaignMonotone
