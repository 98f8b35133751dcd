SPECIFICATION MCSpec
CONSTANTS
  Null = Null
  S = s
  T = t
  Slot = {s}
  Tab = {t}
  OpId = {a1, a2}
  MaxEpoch = 2
  MaxRev = 1
  Stamp = {1}
  Task = {t1}
  Message = {m1}
  Run = {r1, r2}
  r1 = r1
  r2 = r2
  Fate = {"done", "lost", "dropped"}
  EarlyDispatch = FALSE
  MaxVersion = 3
INVARIANTS
  TypeOK
  LedgerIsTruthful
  UnsettledIsCurrent
PROPERTIES
  
  DeliveryConverges
