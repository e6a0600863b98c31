CONSTANTS
  Passwords = {x1, x2, x3, x4}
  NoPassword = noPassword
  Requests = {t1, t2, panel}
  MaxBirths = 2
  Events = {"restart", "server", "db", "site"}
SPECIFICATION Spec
INVARIANTS Inv RowIsBacked
SYMMETRY Symmetry
CHECK_DEADLOCK FALSE
