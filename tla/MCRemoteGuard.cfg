SPECIFICATION FairSpec
CONSTANTS
  LeaseDuration = 9
  minRenewalInterval = 1
  Timeout = 15
  MaxLatency = 1
  MaxPause = 0
  MaxSkew = 1
  MaxLosses = 2
  MaxAcquires = 2
  MaxFaults = 1
INVARIANTS
  HealthyKeepsLease
  ViewNotAhead
  LostIsTrue
PROPERTIES
  ReleaseReturns
  LossNoticed
  ReleasedReclaimed
