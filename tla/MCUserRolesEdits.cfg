SPECIFICATION Spec
CONSTANTS
  Users = {u1}
  Seeds = {a1}
  Phones = {p1}
  Edits = {o1, o2}
  Requests = {}
  Reviews = {}
  IdsFilled = TRUE
  Faults = {}
PROPERTY EditsSpareSuperAdmins
CHECK_DEADLOCK FALSE
