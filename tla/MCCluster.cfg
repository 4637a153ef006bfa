SPECIFICATION Spec
CONSTANTS
  Unset = Unset
  Invalid = Invalid
  None = None
  Nil = Nil
  MaxInt32 = 120
  MaxReplicas = 3
  Readers = {g1, g2}
  Counter = 8
  MaxReads = 10
  Explicit <- MCExplicit
  Env <- MCEnv
INVARIANTS
  EvenSpread
  RoutedToBuilt
  MembersAlike
