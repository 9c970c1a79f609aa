SPECIFICATION SerialSpec
CONSTANTS
  NumRounds = 3
  RoundDuration = 3
  BreakDuration = 2
  PreconnectDuration = 1
  StartTime = 1
  Op = {o1, o2}
  NoOp = NoOp
  Extras = {1, 3}
  MaxClock = 12
  MaxRequests = 4
SYMMETRY OpSymmetry
INVARIANTS
  EveryGrantCounts
  BreaksPreserved
PROPERTIES
  ResumeRestoresRemaining
CHECK_DEADLOCK FALSE
