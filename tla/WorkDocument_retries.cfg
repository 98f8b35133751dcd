SPECIFICATION FairSpec
CONSTANTS
  t1 = t1
  m1 = m1
  a1 = a1
  a2 = a2
  u1 = u1
  Null = Null
  Task = {t1}
  Message = {m1}
  Attempt = {a1, a2}
  Of <- MessageOf
  Lane = {w1}
  Rollover = {r1}
  Start <- MCStart
  Imports <- MCImports
  MaxBatch = 2
  MaxUnlinked = 1
  MaxTry = 2
  MaxForward = 2
  MaxGen = 2
  MaxLocal = 0
PROPERTIES
  ImplementsCommitLog
  WritesEnd
CHECK_DEADLOCK FALSE
