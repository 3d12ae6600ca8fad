SPECIFICATION FairSpec
CONSTANTS
  URLs = {"u1", "u2", "u3"}
  InitQueue <- MCQueue
  Callers = {"c1", "c2"}
INVARIANT TypeOK Conserved
PROPERTY FailsAfterAll CallsEnd
