SPECIFICATION FairSpec
CONSTANTS
    pro = pro
    starter = starter
    PaidPlans = {pro, starter}
    DailyLimit <- MCDailyLimit
    MonthlyLimit <- MCMonthlyLimit
    DayLength = 1
    PeriodDays = 2
    Users = {u1}
    Txns = {x1, x2}
    Tasks = {t1}
    Batches = {1, 2}
    MaxTime = 3
    MaxServed = 4
    MaxFaults = 0
    MaxCrashes = 0
INVARIANTS EachPaymentServesOnce
PROPERTIES QuotasAreExact PromiseKept SettledIsServed
