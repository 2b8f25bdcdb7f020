SPECIFICATION Spec
CONSTANTS
    pro = pro
    starter = starter
    PaidPlans = {pro}
    DailyLimit <- MCDailyLimit
    MonthlyLimit <- MCMonthlyLimit
    DayLength = 2
    PeriodDays = 1
    Users = {u1}
    Txns = {x1}
    Tasks = {t1, t2}
    Batches = {1, 2}
    MaxTime = 3
    MaxServed = 3
    MaxFaults = 1
    MaxCrashes = 1
SYMMETRY Symmetric
INVARIANTS PaidPlansArePaidFor UsageWithinCaps LedgerMatchesKhpay
