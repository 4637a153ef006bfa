SPECIFICATION Spec
CONSTANTS
  Users = {u1, u2, u3}
  Regs = {r1, r2}
  CollectorCount = 2
  None = None
  Other = Other
INVARIANTS
  TypeOK
  MetricsStayRegistered
  NothingLeftBehind
  CountedByOne
PROPERTIES
  SamplerStops
