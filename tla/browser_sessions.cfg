SPECIFICATION BrowserSpec
CONSTANTS
  ann = ann
  l1 = l1
  l2 = l2
  f1 = f1
  f2 = f2
  o1 = o1
  o2 = o2
  t1 = t1
  t2 = t2
  home = home
  away = away
  NoOne = NoOne
  Users = {ann}
  Requests = {l1, l2, f1, f2, o1, o2}
  Endpoint <- EndpointOf
  Tabs = {t1, t2}
  Browsers = {home, away}
  Settings <- TwoSettings
  SessionTTL = 1
  ResetTTL = 1
  MaxTime = 1
  MaxOpen = 2
  MaxMishaps = 1
SYMMETRY RequestSymmetry
INVARIANTS
  BrowserTypeOK
  ReuseExplained
  CookieUsable
  LogoutEnds
CHECK_DEADLOCK FALSE
