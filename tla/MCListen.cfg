SPECIFICATION Spec
CONSTANTS
  Conns = {p, r1, r2}
  Pinned = p
  NoConn = NoConn
  Stoppers = {s1, s2}
  ReacquireAfter = 2
  RetryDelay = 1
  MaxBackoff = 3
INVARIANTS
  TypeOK
  LoopHoldsItsConn
  NoReplacementLeak
  ReplacementsUnregistered
PROPERTIES
  StopReturns
  Recovers
  ContextEndsListen
