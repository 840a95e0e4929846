SPECIFICATION Spec
CONSTANTS
    MonthCount = 3
    Kinds <- TwoKinds
    ZeroAmount <- OnlyFirstMonthHasInterest
    Callers = {c1, c2}
    Workers = {w1}
    Idle = Idle
SYMMETRY ReplicaSymmetry
CHECK_DEADLOCK FALSE
INVARIANTS
    TypeOK
    RowsAgree
    ClosedMonthsAreAPrefix
    ClosedMonthsAreSettled
    OldestDebtFirst
    CoverageNeverDuplicatesAPayment
    CancelledByThreeMisses
    NothingInFlightOnceCancelled
PROPERTIES
    OutcomesAreFinal
    ImplementsLadder
