SPECIFICATION WFairSpec
CONSTANTS
  Tasks = {t1, t2, t3}
  Rate = 2
  Capacity = 7
  Unit = 3
  MaxWindow = 3
INVARIANTS TypeOK WindowBound
PROPERTIES ImplementsBudget Progress
