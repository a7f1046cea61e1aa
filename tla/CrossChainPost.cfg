SPECIFICATION CrossSpec
CONSTANTS
  Calls = {c1, c2}
  Requests <- CrossRequests
  Candidates <- TokenLists
  Priority <- PriorityOf
  Supported = {"mainnet"}
  Recipients <- Named
  Addresses = {"spokePool", "proxy"}
  Trades = {}
  SettingsChoices = {}
  Limits = {}
  Extras = {}
  Config <- ConfigDefault
  Markets <- OneMarket
  ServerTtl = 2
  DefaultValidity = 2
  DefaultSlippage = 1
  U32Size = 16
  MaxNow = 1
  OneHundredBps = 10
  Scale = 1
  WordSize = 1048576
SYMMETRY CallSymmetry
INVARIANTS AbortLeavesNothing HookCoversOrder CallbacksTruthful
CHECK_DEADLOCK FALSE
