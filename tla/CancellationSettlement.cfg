SPECIFICATION Spec
CONSTANTS
    MonthCount = 3
    Kinds = {1}
    Amount <- SameAmount
    InitialContribution = 205
    MaxTime = 2
    Workers = {w1, w2}
    TickDays = 30
    Idle = Idle
    Nothing = Nothing
    Never = Never
    Nobody = Nobody
SYMMETRY WorkerSymmetry
CHECK_DEADLOCK FALSE
INVARIANTS
    TypeOK
    BalanceBearsReservations
    MovedMoneyIsAccountedFor
    CoveredByRealTransfers
    SettlementTypeOK
    CancelledContributionIsSpent
    BankFollowsOwner
    
PROPERTIES
    CoverageIsFinal
    CoverageIsResumable
    CancelledBooksAreClosed
    PayoutsAreResumable
