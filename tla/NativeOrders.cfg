SPECIFICATION NativeSpec
CONSTANTS
  Calls = {c1, c2}
  Natives <- NativeChoices
  SdkOrders <- SdkChoices
  Envs = {"prod", "staging"}
  EthFlowSlippage = 1
  DefaultValidity = 2
  U32Size = 16
  MaxNow = 2
  OneHundredBps = 10
  Scale = 1
  WordSize = 1048576
SYMMETRY CallSymmetry
INVARIANTS PredictedUid RoundTrip SentOrdersAreLive
CHECK_DEADLOCK FALSE
