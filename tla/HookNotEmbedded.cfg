SPECIFICATION CrossSpec
CONSTANTS
  Calls = {c1}
  Requests <- OneRequest
  Candidates <- TokenLists
  Priority <- PriorityOf
  Supported = {"mainnet"}
  Recipients = {"proxy"}
  Addresses = {"proxy"}
  Trades = {}
  SettingsChoices = {}
  Limits = {}
  Extras = {}
  Config <- ConfigDefault
  Markets <- OneMarket
  ServerTtl = 2
  DefaultValidity = 2
  DefaultSlippage = 1
  U32Size = 16
  MaxNow = 0
  OneHundredBps = 10
  Scale = 1
  WordSize = 1048576
INVARIANT HookInAppData
CHECK_DEADLOCK FALSE
