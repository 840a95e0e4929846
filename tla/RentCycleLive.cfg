SPECIFICATION FairSpec
CONSTANTS
    MonthCount = 2
    Kinds = {1}
    ZeroAmount = {}
    Callers = {c1, c2}
    Workers = {w1}
    Idle = Idle
CHECK_DEADLOCK FALSE
PROPERTY DueMonthsClose
