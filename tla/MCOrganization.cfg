SPECIFICATION MCSpec
CONSTANTS
  Agent <- Agents
  Role = {"lead", "rev"}
  LeadRole = "lead"
  ReviewRole = "rev"
  Key <- Keys
  Chat = {c1}
  Req = {r1}
  ReviewSlot = {9}
  MaxSlots = 2
  MaxCreated = 2
  MaxFaults = 1
  MaxMissions = 2
  MaxItems = 2
  MaxMoves = 3
  Null = Null
INVARIANTS
  RuntimeIsSound
  WorkIsSound
PROPERTY EndsAreFinal
CHECK_DEADLOCK FALSE
