SPECIFICATION FairSpec
CONSTANTS
  Worker = {w1, w2}
  NoWorker = NoWorker
  Orphans <- OneOrphan
  MaxLog = 4
  MaxSchedule = 1
INVARIANTS
  AuditChain
  ReconciledRowsAreClosed
PROPERTIES
  OnlyValidTransitions
  RecalculateOnlyBeforeStart
  EveryCallReturns
