SPECIFICATION Spec
CONSTANTS
  Null = Null
  Slot = {s1, s2}
  Agent = {a1}
  Key = {k1, k2, k3}
  Rollover = {r1, r2}
  Attempt = {o1, o2}
  MayFail = TRUE
  MayCrash = TRUE
SYMMETRY SlotSymmetry
INVARIANTS
  SlotFollowsLedger
  AgentLineage
PROPERTY LeavesOnlyWithProof
CHECK_DEADLOCK FALSE
