SPECIFICATION Spec
CONSTANTS
  MaxOps = 1
  MaxRows = 1
  MaxQueue = 1
PROPERTY
  CloseKeepsConnection
