CONSTANTS
  Sites = {s1}
  CaKeys = {k1, k2, k3}
  SiteKeys = {x1, x2, x3}
  NoKey = noKey
  NoSite = noSite
  Missing = missing
  Torn = torn
  Threads = {t1}
  Panel = panel
  Events = {"restart", "disk", "rotate"}
SPECIFICATION Spec
INVARIANTS Inv CaIsUsable PairsBelong ClientsTrustSites
SYMMETRY Symmetry
CHECK_DEADLOCK FALSE
