SPECIFICATION Spec
CONSTANTS
    InitialBalance = 252000
    CommissionBps = 100
    MaxPositionPercent = 50
    MaxDrawdownPercent = 5
    StoreCapacity = 2
    Prices <- UpAndDown
    Sizes = {1, 2}
    Cycles = {c1, c2, c3}
    Symbols = {s1, s2}
    Parallel = 2
    BusMayFail = TRUE
    MaxDay = 1
SYMMETRY DeskSymmetry
INVARIANTS BooksBalance
CHECK_DEADLOCK FALSE
