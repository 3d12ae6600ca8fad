SPECIFICATION GapFairSpec
CONSTANTS
  NumEvents = 3
  KindOf <- AllTrade
  KindOrder <- OneTable
  Lookback <- NoLookback
  Upserts = {"trade"}
  GapRunners = {"gap"}
  Window = 3
  GapWindow = 1
  Precision = 0
  GapThreshold = 1
  Heard = {2}
  MaxFaults = 1
  MaxCrashes = 0
INVARIANT NoSilentHole
PROPERTY GapsHeal
