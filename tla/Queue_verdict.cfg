CONSTANTS
  Jobs = {j1, j2}
  Sites = {s1}
  CmsSites = {s1}
  Threads = {}
  Panel = panel
  NoJob = noJob
  NoSite = noSite
  Timeout = 1
  Grace = 1
  Slack = 1
  Events = {"redis"}
SPECIFICATION FairSpec
PROPERTIES EveryJobGetsAVerdict
