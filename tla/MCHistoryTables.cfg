SPECIFICATION FairSpec
CONSTANTS
  NumEvents = 4
  Event <- MCEvent
  Heard = {2}
  MaxInserts = 2
  MaxFaults = 1
INVARIANT TypeOK SharesTrue
PROPERTY NamesChained RemovalsBooked
