SPECIFICATION Spec
CONSTANTS
  ann = ann
  bob = bob
  c1 = c1
  c2 = c2
  c3 = c3
  v1 = v1
  v2 = v2
  office = office
  NoOne = NoOne
  Calls = {c1, c2, c3}
  Keys = {office}
  KeyOf <- OneAddress
  Max = 2
  Window = 1
  Setting = "false"
  MaxTime = 2
  MaxFaults = 1
  Users = {ann, bob}
  UserOf <- AnnAndBob
  Verifies = {v1, v2}
  TokenTTL = 1
SYMMETRY VerificationSymmetry
INVARIANTS
  TypeOK
  WithinLimit
  EndlessCountersExplained
  UsedMeansVerified
  TokenReuseExplained
  VerificationAudited
CHECK_DEADLOCK FALSE
