SPECIFICATION Spec
CONSTANTS
  ann = ann
  bob = bob
  l1 = l1
  l2 = l2
  f1 = f1
  f2 = f2
  o1 = o1
  p1 = p1
  s1 = s1
  s2 = s2
  NoOne = NoOne
  Users = {ann}
  Requests <- ResetRequests
  Endpoint <- ResetEndpoint
  SessionTTL = 1
  ResetTTL = 1
  MaxTime = 1
PROPERTIES
  ResetTokenSingleUse
CHECK_DEADLOCK FALSE
