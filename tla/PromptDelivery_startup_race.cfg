SPECIFICATION Spec
CONSTANTS
  Null = Null
  S = s
  T = t
  Slot = {s}
  Tab = {t}
  OpId = {a1}
  MaxEpoch = 1
  MaxRev = 1
  Stamp = {1}
  Task = {}
  Message = {m1}
  Run = {r1}
  Fate = {"done", "lost", "dropped"}
  EarlyDispatch = TRUE
  MaxVersion = 0
INVARIANTS
  FailedWasNotTyped
