SPECIFICATION FairSpec
CONSTANTS
  w1 = w1
  w2 = w2
  Events = {1, 2}
  Dispatchers = {w1}
  Limit = 1
  MaxAttempts = 2
  SendAttempts = 1
  MaxStalls = 1
  MaxFaults = 2
  MaxCrashes = 1
INVARIANTS
  DuplicateMailsExplained
PROPERTIES
  EveryEventSettled
  PublishedLeadsToMail
CHECK_DEADLOCK FALSE
