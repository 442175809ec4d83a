SPECIFICATION Spec
CONSTANTS
  Replicas = {r1, r2}
  Statements <- MCStatements
  Repeatable = {2, 3, 4, 5, 6, 7, 8, 9}
  MultiStatements = FALSE
  MaxCrashes = 1
  Faults = {}
PROPERTIES StartExecutesFiles
CHECK_DEADLOCK FALSE
