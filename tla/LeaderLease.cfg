SPECIFICATION Spec
CONSTANTS
  Node = {n1, n2, n3}
  NoOne = NoOne
  TTL = 2
  MaxOffset = 1
  MaxClock = 4
  MaxVersion = 3
SYMMETRY NodeSymmetry
INVARIANTS
  NoSplitBrain
  KnownExpiryIsSafe
PROPERTIES
  TakeoverOnlyAfterExpiry
