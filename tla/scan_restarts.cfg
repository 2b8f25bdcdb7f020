CONSTANTS
    Symbols = {"XAUUSD"}
    Timeframes <- TwoTimeframes
    Actions = {"BUY", "SELL"}
    Chats = {"chat"}
    Blocked = {}
    Cooldown <- ShortCooldown
    MaxPerHour = 2
    Hour = 2
    QuietTimes = {}
    WindowCandles = 2
    FeedMayLag = TRUE
    WritesMayFail = FALSE
    ErrorsMayEscape = TRUE
    MaxTime = 3
    MaxRestarts = 1
SPECIFICATION Spec
INVARIANTS HeardIsSound
CHECK_DEADLOCK FALSE
