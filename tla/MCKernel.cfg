SPECIFICATION MCSpec
CONSTANTS
  Task = {t1}
  OrgTask = {t1}
  Claim = {c1, c2}
  MaxTrunk = 1
  MaxWork = 1
  MaxTry = 2
  MaxTrouble = 1
  Null = Null
  None = None
  Tasks = {tk}
  Agent = {ag}
  Slot = {sl}
  Seats <- Seated
  Dim = {d1, d2}
  HandKey = {hk}
  MaxHead = 2
  MaxForeign = 1
  MaxMove = 1
  ag = ag
  sl = sl
  d1 = d1
  d2 = d2
  Opener = {g1, g2}
  MaxCrashes = 1
  MaxGen = 2
SYMMETRY ClaimSymmetry
INVARIANTS
  TypeOK
  CompletionIsEarned
  LeftoversAreOfCrashes
  CompletionIsHandedOver
  AnsweredIsFenced
  ChangesAreSound
  UpgradeIsWhole
PROPERTIES
  WorkIsKept
  NothingIsLost
CHECK_DEADLOCK FALSE
