SPECIFICATION Spec
CONSTANTS
  Clients = {c1, c2}
  Perps = {p1, p2}
  Traders = {t1}
  MaxResets = 2
  MaxFaults = 1
SYMMETRY ClientSymmetry
INVARIANT TypeOK IndexSound IndexComplete SubscribersHeard AtMostOneStray
CHECK_DEADLOCK FALSE
