SPECIFICATION FairSerialSpec
CONSTANTS
  Socket = {s1, s2}
  Process = {p1}
  Home <- OneHome
  Nobody = Nobody
  MaxJoins = 1
  MaxRestarts = 1
  MaxPhases = 1
  MaxFaults = 1
INVARIANTS
  NotGoneWhileOnline
  ExclusiveWhenQuiet
  StatusFollowsSocket
PROPERTIES
  AbsenceIsReported
CHECK_DEADLOCK FALSE
