SPECIFICATION SdkSpec
CONSTANTS
  Calls = {c1, c2, again}
  Again = again
  Trades <- SwapTrades
  SettingsChoices <- SwapSettings
  Limits <- LimitAndTrade
  Extras <- TradeExtras
  Config <- ConfigDefault
  Markets <- SellMarkets
  ServerTtl = 2
  DefaultValidity = 2
  DefaultSlippage = 1
  U32Size = 16
  MaxNow = 2
  OneHundredBps = 10
  Scale = 1
  WordSize = 1048576
SYMMETRY CallSymmetry
ACTION_CONSTRAINT AgainPostsQuote
INVARIANTS TraderProtected TradeProtected ExpiryHonoured DocumentTravels PostingIsIdempotent
CHECK_DEADLOCK FALSE
