SPECIFICATION FairSpec
CONSTANTS
  NumRounds = 2
  RoundDuration = 3
  BreakDuration = 2
  PreconnectDuration = 1
  StartTime = 1
  Dispatcher = {i1}
  FinalSeconds = 1
  Extras = {1}
  MaxClock = 10
  MaxRoundNumber = 6
  MaxFaults = 1
  MaxExtends = 1
INVARIANTS
  InOrder
  AtMostOnce
  RoundEndIsSent
PROPERTIES
  TimelineIsDelivered
CHECK_DEADLOCK FALSE
