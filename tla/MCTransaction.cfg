SPECIFICATION Spec
CONSTANTS
  DBCalls = {d1, d2}
  ConnCalls = {}
  ManualCalls = {}
  Conns = {k1}
  NoConn = NoConn
INVARIANTS
  TypeOK
  NoConnectionLeak
  CountedOnce
PROPERTIES
  RefinesAtomicUnit
  EveryCallSettles
