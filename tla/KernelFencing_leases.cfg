SPECIFICATION Spec
CONSTANTS
  p1 = p1
  shared = shared
  Null = Null
  Project = {p1}
  Slot = {s1}
  Role = {impl}
  Outsider = {op}
  Task = {t1}
  WorkResource = {ws}
  Tab = {}
  ResourceProject <- MCResourceProject
  LeaseId = {l1, l2}
  CapId = {c1}
  MinSlots = 0
  MaxSlots = 1
  MaxTime = 2
  Stamp = {1}
  Moves = {}
  Ttl = {1}
INVARIANTS
  TypeOK
  StoppedSlotHasNoAuthority
PROPERTIES
  ImplementsFencing
  ClaimsAreFenced
  LapsedLeaseIsNotExtended
CHECK_DEADLOCK FALSE
