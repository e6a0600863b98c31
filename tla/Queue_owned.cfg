CONSTANTS
  Jobs = {j1, j2}
  Sites = {s1, s2}
  CmsSites = {s1}
  Threads = {t1}
  Panel = panel
  NoJob = noJob
  NoSite = noSite
  Timeout = 1
  Grace = 1
  Slack = 1
  Events = {"reply", "db", "crash", "delete"}
SPECIFICATION Spec
INVARIANTS QueuedRowsAreOwned FinishedJobsHaveVerdict
PROPERTIES ImplementsFlow
SYMMETRY Symmetry
