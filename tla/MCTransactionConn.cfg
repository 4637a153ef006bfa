SPECIFICATION Spec
CONSTANTS
  DBCalls = {}
  ConnCalls = {p1}
  ManualCalls = {m1}
  Conns = {k1, k2}
  NoConn = NoConn
PROPERTIES
  EveryCallSettles
