CONSTANTS
  Jobs = {j1, j2}
  Sites = {s1}
  CmsSites = {s1}
  Threads = {t1}
  Panel = panel
  NoJob = noJob
  NoSite = noSite
  Timeout = 2
  Grace = 1
  Slack = 1
  Events = {"crash", "selfupdate", "db", "paneldb", "delete"}
SPECIFICATION Spec
INVARIANTS GuardSeesLiveJobs Inv
PROPERTIES ImplementsLedger DuplicatesAreOverdue
SYMMETRY Symmetry
