CONSTANTS
  Jobs = {j1}
  Kinds = {"deploy", "update"}
  Threads = {t1}
  Panel = panel
  NoJob = noJob
  Events = {"crash", "restart", "docker", "disk", "db"}
SPECIFICATION Spec
INVARIANTS Inv CertificateBehindHttps QuietDeleteIsComplete
PROPERTIES VerdictIsTrue
SYMMETRY Symmetry
CHECK_DEADLOCK FALSE
