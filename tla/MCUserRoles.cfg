SPECIFICATION Spec
CONSTANTS
  Users = {u1, u2}
  Seeds = {a1, a2}
  Phones = {p1}
  Edits = {o1, o2}
  Requests = {q1}
  Reviews = {v1}
  IdsFilled = TRUE
  Faults = {"db"}
INVARIANTS OneAccountPerEmail SeedKeepsItsRole PendingGrantsNothing
PROPERTIES GoneStaysGone
SYMMETRY Symmetry
CHECK_DEADLOCK FALSE
