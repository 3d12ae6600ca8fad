SPECIFICATION SearchSpec
CONSTANTS
  Chains <- MCChains
  Instants <- MCInstants
  MaxCalls = 2
  Precision = 3
INVARIANT SinceCovered NotTooEarly
CHECK_DEADLOCK FALSE
