SPECIFICATION Spec
CONSTANTS
  DBOps = {d1}
  ConnOps = {}
  ViewOps = {v1}
  Enabled = TRUE
  MaxCount = 1
  HookCount = 1
INVARIANT
  SlowQueryOnlyLogs
