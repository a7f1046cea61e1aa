SPECIFICATION Spec
CONSTANTS
  a = a  b = b  zero = zero  r = r  body = body  salt = salt
  Token <- MCToken
  ZeroToken <- zero
  Rest = {r}
  Totals <- MCTotals
  Foreign <- MCForeign
  Salt = {salt}
  Body = {body}
  W = 16
  MaxFrequency = 3
  MaxTime = 16
INVARIANTS RebuiltIsSame SoldAsAsked NothingMissed
PROPERTIES TowerRests
CHECK_DEADLOCK FALSE
