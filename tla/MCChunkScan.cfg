SPECIFICATION FairSpec
CONSTANTS
  NumEvents = 5
  BlockOf <- MCBlockOf
  FromBlock = 1
  EndBlock = 13
  MaxDelta = 8
  MinDelta = 2
  MaxFaults = 7
INVARIANT Accounted InChainOrder ThrowsOnlyAfterBackoff
PROPERTY Terminates ImplementsContract
CHECK_DEADLOCK FALSE
