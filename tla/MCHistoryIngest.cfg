SPECIFICATION FairSpec
CONSTANTS
  NumEvents = 3
  KindOf <- Alternating
  KindOrder <- MCKindOrder
  Lookback <- MCLookback
  Upserts = {"trade"}
  GapRunners = {}
  Window = 2
  GapWindow = 3
  Precision = 0
  GapThreshold = 1
  Heard = {2, 3}
  MaxFaults = 0
  MaxCrashes = 1
INVARIANT TypeOK NoSilentHole
PROPERTY BackfilledStays EventuallyStored
