SPECIFICATION FairBoardSpec
CONSTANTS
  a1 = a1
  t1 = t1
  t2 = t2
  c1 = c1
  j1 = j1
  b1 = b1
  tm1 = tm1
  NoOne = NoOne
  Admins = {a1}
  Technicians = {t1, t2}
  Clients = {c1}
  JobIds = {j1}
  Requests = {1, 2}
  Browsers = {b1}
  Visitors = {c1, t2}
  StatusInputs = {"IN_PROGRESS"}
  Times = {tm1}
  MaxFaults = 1
  MaxTrips = 1
ACTION_CONSTRAINT Telling
INVARIANTS
  BoardTypeOK
  ClientsSeeTheirs
  BoardsCurrent
PROPERTIES
  BoardsConverge
CHECK_DEADLOCK FALSE
