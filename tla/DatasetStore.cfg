SPECIFICATION Spec
CONSTANTS
  Tables = {t1}
  Deletes = {x1, x2}
  Calls = {u1, u2}
  Faults = {"db", "mysql"}
  MaxPools = 2
INVARIANTS TypeOK MapHoldsTheOpenPool CleanDeleteStays CreatedIsUsable
  ListedTableExists
CHECK_DEADLOCK FALSE
