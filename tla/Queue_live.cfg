CONSTANTS
  Jobs = {j1, j2}
  Sites = {s1}
  CmsSites = {s1}
  Threads = {}
  Panel = panel
  NoJob = noJob
  NoSite = noSite
  Timeout = 1
  Grace = 0
  Slack = 0
  Events = {"redis", "crash", "flush"}
SPECIFICATION FairSpec
INVARIANTS UnsettledJobsAreTracked
PROPERTIES GuardReleases PushedJobsSettle
