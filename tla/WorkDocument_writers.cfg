SPECIFICATION Spec
CONSTANTS
  t1 = t1
  m1 = m1
  a1 = a1
  a2 = a2
  u1 = u1
  Null = Null
  Task = {t1}
  Message = {}
  Attempt = {a1, a2, u1}
  Of <- MCOf
  Lane = {w1, w2, w3}
  Rollover = {}
  Start <- HandStart
  Imports <- MCImports
  MaxBatch = 2
  MaxUnlinked = 1
  MaxTry = 1
  MaxForward = 1
  MaxGen = 1
  MaxLocal = 1
INVARIANTS
  TypeOK
  AttemptsAreLinked
  LaneRunsIntoOthersOnly
PROPERTIES
  CompletionIsKept
SYMMETRY LaneSymmetry
CHECK_DEADLOCK FALSE
