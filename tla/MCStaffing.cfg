SPECIFICATION MCSpec
CONSTANTS
  p1 = p1
  shared = shared
  Null = Null
  Project = {p1}
  Slot = {s1, s2}
  Role = {impl}
  Outsider = {}
  Task = {}
  WorkResource = {}
  Tab = {tab1, tab2}
  ResourceProject <- MCResourceProject
  LeaseId = {l1, l2, l3}
  CapId = {}
  MinSlots = 1
  MaxSlots = 1
  MaxTime = 1
  Kind = {impl, lead}
  Pooled = {impl}
  MinWorkers = 1
  MaxWorkers = 3
  MaxDemand = 2
  MaxCreated = 3
  Stamp = {1}
  Moves = {"active", "paused"}
  Ttl = {1}
  None = None
  Tasks = {1, 2, 3}
  Pages = {1, 2}
  Shapes <- MCShapes
  Run = {"supervisor"}
  Hasty = FALSE
  MaxTries = 4
  MaxEnded = 1
  MaxRestarts = 1
INVARIANTS
  SlotsAreSound
  FleetIsSound
  
PROPERTIES
  WorkersAreKept
  
CHECK_DEADLOCK FALSE
