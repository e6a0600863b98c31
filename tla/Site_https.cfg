CONSTANTS
  Jobs = {j1, j2}
  Kinds = {"deploy", "update"}
  Threads = {t1}
  Panel = panel
  NoJob = noJob
  Events = {}
SPECIFICATION Spec
PROPERTIES DeployActivatesHttps
SYMMETRY Symmetry
CHECK_DEADLOCK FALSE
