SPECIFICATION Spec
CONSTANTS
  a = a  b = b  c = c  r = r
  Token <- MCToken
  Orders <- MCOrders
  Rest = {r}
  Price = {1, 2}
  Call = {x}
  MaxTrades = 2
  MaxCalls = 1
  MaxIndex = 2
INVARIANTS TradesReadBack PricesAsWanted SettleableIfReady
PROPERTIES NumbersStay
CHECK_DEADLOCK FALSE
