SPECIFICATION Spec
CONSTANTS
    Seeds = {1}
    Traders <- OneTrader
    Flags = {"liked", "muted"}
    CountedFlags = {"liked"}
    Visits = {"v1"}
    MaxClicks = 2
    MaxReloads = 1
    Posts = {1, 2, 3}
    Authors = {"ann"}
    CommunityTabs = {"forYou", "following", "trending"}
    Matching <- SomeMatching
    PageSize = 1
    MaxPage = 4
    CommunityMoves = 4
    MAX_SESSIONS = 2
    Phrases = {"p1", "p2"}
    ChatMoves = 5
    DEFAULT_SYMBOLS = {"XAUUSD", "BTCUSD"}
    Served = {"XAUUSD", "EURUSD"}
    MaxDrops = 2
    StreamMoves = 2
    MarketSymbols = {"XAUUSD", "BTCUSD"}
    MarketTimeframes = {"H1"}
    MaxTicks = 1
    ChartMoves = 3
    PanelAgents = {"ta"}
    MaxPanels = 2
    DashboardMoves = 4
    SessionPrices = {1, 2, 3}
    Volumes = {0, 2}
    Ranges = {0, 1}
    MIN_BARS = 2
    MaxSession = 2
    Cycles <- SomeCycles
    TIMEFRAME = "H1"
    Minimums = {0, 6}
    FEED_LIMIT = 8
    DASH_LIMIT = 4
    MAX_SYMBOLS = 1
    MaxCycles = 2
    FeedMoves = 1
    BarCounts = {1, 20, 40, 60, 210}
    IntelPrices = {1990, 2000, 2010}
    Rsis = {25, 75}
    Histograms <- SomeHistograms
    AtrRatios = {100}
    VolumeRatios = {40, 200}
    Calls <- SomeCalls
    MaxCalls = 1
    RuleTabs = {"t1"}
    RuleIds = {"r1", "r2"}
    Priorities = {"high"}
    MaxMounts = 3
    CardPrices = {10854, 10900}
    Distances = {20, 150}
    CardMoves = 1
    Matches <- SomeMatches
    Sections = {"tick", "errors"}
    DocsMoves = 6
INVARIANTS
    PagesAreTyped  RepliesFollowTheirQuestion StatusFollowsTheSocket
    ShownIsCurrent AlarmsAreWarranted CallsAgree CardsHoldTogether
    EnterOpensTheHighlight TrendIsBacked
PROPERTIES EverythingIsReached RulesAreKept
CHECK_DEADLOCK FALSE
