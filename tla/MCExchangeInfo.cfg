SPECIFICATION FairSpec
CONSTANTS
  Perps = {"p", "q"}
  Deployed = {"p"}
  Clients = {"c1", "c2"}
  MaxVersion = 2
INVARIANT TypeOK HandlersFindContent LateCallsJoin
PROPERTY Converges
