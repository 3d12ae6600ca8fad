SPECIFICATION FairScans
CONSTANTS
  NumEvents = 2
  Event <- MissedEvent
  Heard = {2}
  MaxInserts = 2
  MaxFaults = 0
PROPERTY BackfillPicksUp
