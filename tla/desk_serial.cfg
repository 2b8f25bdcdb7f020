SPECIFICATION Spec
CONSTANTS
    InitialBalance = 252000
    CommissionBps = 100
    MaxPositionPercent = 50
    MaxDrawdownPercent = 5
    StoreCapacity = 2
    Prices <- UpAndDown
    Sizes = {1, 2}
    Cycles = {c1, c2, c3, c4}
    Symbols = {s1}
    Parallel = 1
    BusMayFail = FALSE
    MaxDay = 0
SYMMETRY CycleSymmetry
INVARIANTS PositionsAreNet TradesAreRecorded
PROPERTIES NoTradeBeyondDrawdown
CHECK_DEADLOCK FALSE
