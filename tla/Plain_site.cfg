CONSTANTS
  Containers = {c1, c2}
  NoContainer = noContainer
  Project = project
  Threads = {t1}
  Panel = panel
  Worlds = {{"restart", "docker", "db", "patch"}, {"cert", "restart", "docker"}, {"import", "docker"}}
SPECIFICATION Spec
INVARIANTS Inv RowIsTrue
PROPERTIES HttpsIsKept
SYMMETRY Symmetry
CHECK_DEADLOCK FALSE
