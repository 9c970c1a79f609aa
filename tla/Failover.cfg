SPECIFICATION Spec
CONSTANTS
  Room = {r1, r2}
  Partner = {p1, p2}
  None = None
  Selected = r1
  MaxCalls = 4
  MaxFailures = 1
INVARIANTS
  PairScoped
  CameraFollowsPeer
  ConnectedIsReported
PROPERTIES
  ImplementsContract
  NoSilentCall
CHECK_DEADLOCK FALSE
