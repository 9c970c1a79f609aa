SPECIFICATION RoomSpec
CONSTANTS
  NumRounds = 2
  RoundDuration = 2
  BreakDuration = 2
  PreconnectDuration = 1
  StartTime = 1
  Dispatcher = {i1}
  FinalSeconds = 1
  Extras = {1}
  MaxClock = 8
  MaxRoundNumber = 6
  MaxFaults = 1
  MaxExtends = 0
  HelloTTL = 4
  ReconnectWindow = 3
  MaxOps = 2
  MaxDrops = 1
  MaxLag = 0
INVARIANTS
  PhaseAgrees
  TimerAgrees
  PauseAgrees
CHECK_DEADLOCK FALSE
