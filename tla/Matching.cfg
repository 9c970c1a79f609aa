SPECIFICATION Spec
CONSTANTS
    Counts = {1, 3, 4, 6, 7, 8}
    RoundCounts = {3, 5, 7}
    Tags = {"t1", "t2"}
    FewTags = {"t1"}
    SmallCount = 6
    Weights = {2, 4}
    WeightUnit = 2
    MAX_PASSES = 2
    MaxRecoveryNodes = 6
    AuditCount = 4
INVARIANTS
    ScheduleSound
    ValidatorIsExact
    FailureIsReal
