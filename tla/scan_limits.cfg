CONSTANTS
    Symbols = {"XAUUSD"}
    Timeframes <- OneTimeframe
    Actions = {"BUY"}
    Chats = {"chat"}
    Blocked = {"chat"}
    Cooldown <- MiddleCooldown
    MaxPerHour = 2
    Hour = 4
    QuietTimes = {2}
    WindowCandles = 2
    FeedMayLag = TRUE
    WritesMayFail = TRUE
    ErrorsMayEscape = FALSE
    MaxTime = 6
    MaxRestarts = 0
SPECIFICATION FairSpec
INVARIANTS AlertsAreLimited
PROPERTIES PassesEnd
CHECK_DEADLOCK FALSE
