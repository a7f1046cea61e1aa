SPECIFICATION MCApiSpec
CONSTANTS
  t1 = t1
  t2 = t2
  Tasks = {t1, t2}
  Rate = 2
  Capacity = 3
  Unit = 2
  Ops = {"sendOrder", "cancelOrders", "getOrderMultiEnv", "uploadAppData"}
  MaxAttempts = 2
  InitialDelay = 2
  MaxDelay = 2
  FactorLimit = 8
INVARIANTS SuccessIsReal MultiEnvSound
PROPERTIES BackoffRespected EveryCallReturns
