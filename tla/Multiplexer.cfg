SPECIFICATION MuxSpec
CONSTANTS
  OrderParams = {p, q}
  MaxOrders = 4
SYMMETRY ParamsSymmetry
INVARIANTS OnlyRegisteredVerify RegisteredProvable
CHECK_DEADLOCK FALSE
