SPECIFICATION MCSpec
CONSTANTS
  Page = {p1, p2}
  Project = {x}
  ProjectOf <- OneProject
  GlobalGap = 1
  ProjectGap = 1
  SlotGap = 2
  Window = 3
  MaxInWindow = 2
  MaxGenerations = 2
  MaxInline = 2
  Jitter = 0
  BaseBackoff = 1
  MaxBackoff = 2
  StrikeReset = 2
  Retention = 3
  MaxTime = 3
  MaxStops = 1
  MaxStrikes = 1
  s1 = s1
  s2 = s2
  a1 = a1
  k1 = k1
  k2 = k2
  r1 = r1
  o1 = o1
  Null = Null
INVARIANT PermitsAreSound
PROPERTIES
  AsksAreAnswered
  PagesFollowSlots
  AgentCatchesUp
CHECK_DEADLOCK FALSE
