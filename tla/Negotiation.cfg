SPECIFICATION NegotiationSpec
CONSTANTS
  MaxOffers = 4
  MaxBlips = 1
  MaxDrops = 1
INVARIANTS
  GlareResolves
  NoFalseFailure
PROPERTIES
  LossIsSettled
CHECK_DEADLOCK FALSE
