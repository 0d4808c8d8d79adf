SPECIFICATION ResolverFairSpec
CHECK_DEADLOCK FALSE
CONSTANTS
    Mutations = {"PLACE", "CANCEL", "AMEND"}
    StableObservations = 2
    MinObservation = 4
    PollInterval = 1
    MaxDuration = 6
    Transit = 2
    Lag = 1
    ScanTime = 1
    MaxTime = 9
INVARIANTS
  AbsenceIsSound
  PresenceIsReal
PROPERTIES
  ResolutionEnds
