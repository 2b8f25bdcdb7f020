SPECIFICATION Spec
CONSTANTS
    pro = pro
    starter = starter
    PaidPlans = {pro}
    DailyLimit <- MCDailyLimit
    MonthlyLimit <- MCMonthlyLimit
    DayLength = 1
    PeriodDays = 2
    Users = {u1}
    Txns = {x1}
    Tasks = {t1, t2}
    Batches = {1, 2}
    MaxTime = 1
    MaxServed = 2
    MaxFaults = 0
    MaxCrashes = 0
SYMMETRY Symmetric
INVARIANTS PaymentHonoured
