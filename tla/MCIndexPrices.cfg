SPECIFICATION Spec
CONSTANTS
  Perps = {1, 2, 3, 4}
  Later = {2}
  IndexOf <- MCIndexOf
  PredictionMkt = {3, 4}
  Events <- MCEvents
  StartPremia <- MCStartPremia
  NoPrice = NoPrice
  RingSize = 2
  NoHash = NoHash
  MaxFeed = 2
  MaxEvents = 4
  MaxFaults = 1
INVARIANT ToldCurrent PassedOnce
PROPERTY FeedReaches
CHECK_DEADLOCK FALSE
