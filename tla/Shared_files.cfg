CONSTANTS
  Keys = {k1, k2}
  NoKey = noKey
  Passwords = {x1, x2, x3}
  Address = address
  Absent = absent
  Threads = {t1, t2}
  Worker = worker
  Panel = panel
  Events = {"restart", "crash", "disk", "db", "site"}
SPECIFICATION Spec
INVARIANTS Inv EntriesAreTrue
PROPERTIES ImplementsTable
SYMMETRY Symmetry
