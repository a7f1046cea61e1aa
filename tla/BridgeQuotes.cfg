SPECIFICATION BridgeSpec
CONSTANTS
  Calls = {c1, c2}
  Providers = 2
  Routed = {1, 2}
  Buys = {2, 5}
  Fees = {0, 4}
INVARIANTS BestIsBest MultiComplete
PROPERTY MultiReturns
CHECK_DEADLOCK FALSE
