SPECIFICATION Spec
CONSTANTS
  DBOps = {d1}
  ConnOps = {}
  ViewOps = {}
  Enabled = TRUE
  MaxCount = 3
  HookCount = 2
INVARIANT
  HookPairs
