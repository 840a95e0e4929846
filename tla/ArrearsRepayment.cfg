SPECIFICATION Spec
CONSTANTS
    MonthCount = 2
    Kinds = {1}
    Amount <- AmountByMonth
    InitialContribution = 300
    MaxTime = 2
    Workers = {w1}
    Attempts = {x1, x2}
    Requests = {r1, r2}
    TickDays = 30
    Idle = Idle
    Nothing = Nothing
    Never = Never
SYMMETRY RepaymentSymmetry
CHECK_DEADLOCK FALSE
INVARIANTS
    RepaymentTypeOK
    PrincipalMatchesExposures
PROPERTIES
    ReplenishedByRealPayments
