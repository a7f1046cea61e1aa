SPECIFICATION Spec
CONSTANTS
  Sessions = {a, b}
  Requests <- SessionRequests
  Shapes = {"small", "large"}
  Validity = 1
  CacheTtl = 1
  MaxNow = 2
  Relayed <- RelayFees
  Slippage = 1
  Full = 8
  OneHundredBps = 10
INVARIANTS OwnDeposit FreshlyVouched CallKeepsQuote
PROPERTY EverySessionEnds
CHECK_DEADLOCK FALSE
