SPECIFICATION FairSpec
CONSTANTS
  Null = Null
  Slot = {s1, s2}
  Agent = {a1}
  Key = {k1, k2}
  Rollover = {r1}
  Attempt = {o1}
  MayFail = FALSE
  MayCrash = TRUE
PROPERTY AgentCatchesUp
CHECK_DEADLOCK FALSE
