SPECIFICATION Spec
CONSTANTS
    None = None
    Corrupt = Corrupt
    DayMinutes = 3
    WeekDays = 2
    Amounts = {0, 1, 2, 3}
    Limits = {1, 2}
    Spents = {0, 1}
INVARIANTS
    LetThroughOnlyWithinPolicy
    OwnerAskedExactlyAboveThreshold
    BlocksOnlyForACause
CHECK_DEADLOCK FALSE
