SPECIFICATION Spec
CONSTANTS
  a1 = a1
  t1 = t1
  t2 = t2
  c1 = c1
  j1 = j1
  j2 = j2
  r1 = r1
  r2 = r2
  r3 = r3
  r4 = r4
  NoOne = NoOne
  Admins = {a1}
  Technicians = {t1, t2}
  Clients = {c1}
  JobIds = {j1, j2}
  Requests = {r1, r2, r3}
  StatusInputs = {"IN_PROGRESS", "COMPLETED"}
  tm1 = tm1
  Times = {tm1}
  MaxFaults = 2
SYMMETRY RequestSymmetry
CONSTRAINT OneLessWhenSeeded
INVARIANTS
  TypeOK
  AuditExplainsJob
  ChangesAnnounced
  TechnicianHadJob
  AttachmentHasFile
  OrphanFilesExplained
  AuditFromExplained
  ScheduleExplained
PROPERTIES
  ImplementsWorkflow
CHECK_DEADLOCK FALSE
