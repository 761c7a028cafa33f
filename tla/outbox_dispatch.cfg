SPECIFICATION Spec
CONSTANTS
  w1 = w1
  w2 = w2
  Events = {1, 2}
  Dispatchers = {w1, w2}
  Limit = 2
  MaxAttempts = 1
  SendAttempts = 1
  MaxStalls = 0
  MaxFaults = 3
  MaxCrashes = 1
SYMMETRY DispatcherSymmetry
INVARIANTS
  TypeOK
  PublishedWasQueued
  ProcessingHasOwner
  AttemptsCapped
PROPERTIES
  ImplementsMailService
CHECK_DEADLOCK FALSE
