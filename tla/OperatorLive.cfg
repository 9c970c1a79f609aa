SPECIFICATION FairSpec
CONSTANTS
  NumRounds = 3
  RoundDuration = 3
  BreakDuration = 2
  PreconnectDuration = 1
  StartTime = 1
  Op = {o1, o2}
  NoOp = NoOp
  Extras = {1, 4}
  MaxClock = 6
  MaxRequests = 2
PROPERTIES
  EveryRequestEnds
CHECK_DEADLOCK FALSE
