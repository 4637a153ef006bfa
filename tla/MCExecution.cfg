SPECIFICATION Spec
CONSTANTS
  DBOps = {}
  ConnOps = {p1}
  ViewOps = {v1}
  Enabled = TRUE
  MaxCount = 2
  HookCount = 0
INVARIANTS
  TypeOK
  RetryAccounting
  OneLateAttempt
PROPERTIES
  RefinesAtLeastOnce
  EveryCallReturns
