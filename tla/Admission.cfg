SPECIFICATION Spec
CONSTANTS
  Visitor = {v1, v2}
  Names = {ann, bo}
  Click = {c1}
  Browser = {b1, b2}
  Nobody = Nobody
  EventEnd = 1
  MaxClock = 1
  MaxExtends = 1
  MaxLinks = 2
  MaxJoins = 2
  MaxFaults = 1
SYMMETRY Symmetry
INVARIANTS
  OneRowPerEmail
  LinkKeepsWorking
  LatestSessionOnly
CHECK_DEADLOCK FALSE
