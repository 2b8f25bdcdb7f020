CONSTANTS
    Accounts = {"ann", "bob"}
    Admins = {"ann"}
    Keys = {"profile", "watchlist"}
    CaptchaOn = TRUE
    SessionMoves = 6
    Watched = {"dndEnabled", "dndStart", "aiFocus"}
    SettingsMoves = 6
    POLL_ATTEMPTS = 3
    MaxPayments = 2
    CheckoutMoves = 3
    Consoles = {"c1"}
    MaxRequests = 2
    MaxFetches = 3
    TurnstileOn = TRUE
    AdminMoves = 6
    Releases <- SomeReleases
    GridTabs = {"t1", "t2"}
    GridMoves = 4
SPECIFICATION Spec
INVARIANTS PagesAreTyped AccountsStayApart TokensAreFresh StoresAgree SuccessIsReal EveryWidgetOnce
PROPERTIES CaughtWhilePolling ListGoesForward
CHECK_DEADLOCK FALSE
