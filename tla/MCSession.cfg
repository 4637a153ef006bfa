SPECIFICATION Spec
CONSTANTS
  MaxOps = 2
  MaxRows = 2
  MaxQueue = 2
INVARIANTS
  TypeOK
  NoSilentTruncation
  CommitMeansApplied
PROPERTIES
  UncappedAfterFirstRow
  EarlyStopSparesConnection
  FirstRowBounded
  CloseReturns
