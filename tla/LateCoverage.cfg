SPECIFICATION Spec
CONSTANTS
    MonthCount = 3
    Kinds = {1}
    Amount <- SameAmount
    InitialContribution = 305
    MaxTime = 3
    Workers = {w1}
    TickDays = 30
    Idle = Idle
    Nothing = Nothing
    Never = Never
    Nobody = Nobody
CHECK_DEADLOCK FALSE
INVARIANT CoveredCancellationIsComputable
