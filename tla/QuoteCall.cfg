SPECIFICATION CallSpec
CONSTANTS
  OneHundredBps = 10
  Scale = 2
  WordSize = 1048576
  MaxSell = 9
  MaxBuy = 9
  MaxFee = 5
  ProtocolRates = {0, 1, 3, 19}
  PartnerRates = {0, 1, 4}
  Slippages = {0, 1, 5, 10}
INVARIANTS ProtocolFeeRecovered TwoPathsAgree SignedWithinQuote
CHECK_DEADLOCK FALSE
