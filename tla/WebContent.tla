----------------------------- MODULE WebContent -----------------------------
(* The pages of the web client that show and take content: the community, the *)
(* conversations, the tick stream, charts, the dashboard and its judgements,  *)
(* the feed of signals and its cards, the alert rules and the search of the   *)
(* documentation. Each keeps its own state, so a behaviour is one of the page *)
(* that is open at the start.                                                 *)
EXTENDS Integers, Sequences, FiniteSets

CONSTANTS
    Seeds, Traders, Flags, CountedFlags, Visits, MaxClicks, MaxReloads,
    Posts, Authors, CommunityTabs, Matching, PageSize, MaxPage, CommunityMoves,
    MAX_SESSIONS, Phrases, ChatMoves,
    DEFAULT_SYMBOLS, Served, MaxDrops, StreamMoves,
    MarketSymbols, MarketTimeframes, MaxTicks, ChartMoves,
    PanelAgents, MaxPanels, DashboardMoves,
    SessionPrices, Volumes, Ranges, MIN_BARS, MaxSession,
    Cycles, TIMEFRAME, Minimums, FEED_LIMIT, DASH_LIMIT, MAX_SYMBOLS, MaxCycles, FeedMoves,
    BarCounts, IntelPrices, Rsis, Histograms, AtrRatios, VolumeRatios, Calls, MaxCalls,
    RuleTabs, RuleIds, Priorities, MaxMounts,
    CardPrices, Distances, CardMoves,
    Matches, Sections, DocsMoves

VARIABLES
    at,         \* the page that is open
    soLocal, soStorage, soUnsaved, soSerial, soSynced, soVisit, soSeen, soWire, soServer,
    soClicks, soReloads, soLapsed,
    cpTab, cpPage, cpBoot, cpError, cpObserved, cpDialog, cpThread, cpDraft, cpReading, cpSent,
    cpMoves,
    chSurface, chDisk, chUnsaved, chPage, chComposer, chChoice, chRequest, chLost, chSerial,
    chMoves,
    tsMarket, tsSocket, tsLate, tsTicks, tsDrops, tsMoves,
    lmMarket, lmView, lmCandles, lmFetches, lmReads, lmNews, lmChart, lmImports, lmClock,
    lmMoves,
    dbMarket, dbServer, dbSignals, dbFetches, dbAsked, dbPanel, dbRuns, dbClosing, dbStored,
    dbFilter, dbClosed, dbMoves,
    psCandles, psSession, psAtr,
    sfStore, sfFilters, sfSignals, sfRequest, sfReads, sfSelected, sfMoves,
    miMarket, miCycles,
    arStored, arTabs, arAlerts, arMounts,
    scMarket, scRecord, scCandles, scDrawer, scMoves,
    dsOpen, dsQuery, dsActive, dsAt, dsScrolls, dsMoves

soVars == <<soLocal, soStorage, soUnsaved, soSerial, soSynced, soVisit, soSeen, soWire,
    soServer, soClicks, soReloads, soLapsed>>
cpVars == <<cpTab, cpPage, cpBoot, cpError, cpObserved, cpDialog, cpThread, cpDraft, cpReading,
    cpSent, cpMoves>>
chVars == <<chSurface, chDisk, chUnsaved, chPage, chComposer, chChoice, chRequest, chLost,
    chSerial, chMoves>>
tsVars == <<tsMarket, tsSocket, tsLate, tsTicks, tsDrops, tsMoves>>
lmVars == <<lmMarket, lmView, lmCandles, lmFetches, lmReads, lmNews, lmChart, lmImports,
    lmClock, lmMoves>>
dbVars == <<dbMarket, dbServer, dbSignals, dbFetches, dbAsked, dbPanel, dbRuns, dbClosing,
    dbStored, dbFilter, dbClosed, dbMoves>>
psVars == <<psCandles, psSession, psAtr>>
sfVars == <<sfStore, sfFilters, sfSignals, sfRequest, sfReads, sfSelected, sfMoves>>
miVars == <<miMarket, miCycles>>
arVars == <<arStored, arTabs, arAlerts, arMounts>>
scVars == <<scMarket, scRecord, scCandles, scDrawer, scMoves>>
dsVars == <<dsOpen, dsQuery, dsActive, dsAt, dsScrolls, dsMoves>>
vars == <<at, soVars, cpVars, chVars, tsVars, lmVars, dbVars, psVars, sfVars, miVars, arVars,
    scVars, dsVars>>

\* The state of a page that is not open.
Closed == 0

Social == INSTANCE Social WITH Counted <- CountedFlags, local <- soLocal,
    storage <- soStorage, unsaved <- soUnsaved, serial <- soSerial, synced <- soSynced,
    visit <- soVisit, seen <- soSeen, wire <- soWire, server <- soServer, clicks <- soClicks,
    reloads <- soReloads, lapsed <- soLapsed
Community == INSTANCE CommunityPage WITH Tabs <- CommunityTabs, MaxMoves <- CommunityMoves,
    tab <- cpTab, page <- cpPage, boot <- cpBoot, error <- cpError, observed <- cpObserved,
    dialog <- cpDialog,
    thread <- cpThread, draft <- cpDraft, reading <- cpReading, sent <- cpSent,
    moves <- cpMoves
Chats == INSTANCE Chats WITH MaxMoves <- ChatMoves, surface <- chSurface, disk <- chDisk,
    unsaved <- chUnsaved, page <- chPage, composer <- chComposer, choice <- chChoice,
    request <- chRequest, lost <- chLost, serial <- chSerial, moves <- chMoves
Ticks == INSTANCE TickStream WITH MaxMoves <- StreamMoves, market <- tsMarket,
    socket <- tsSocket, late <- tsLate, ticks <- tsTicks, drops <- tsDrops, moves <- tsMoves
Live == INSTANCE LiveMarket WITH Symbols <- MarketSymbols,
    Timeframes <- MarketTimeframes, MaxMoves <- ChartMoves, market <- lmMarket,
    view <- lmView, candles <- lmCandles, fetches <- lmFetches, reads <- lmReads,
    news <- lmNews, chart <- lmChart, imports <- lmImports, clock <- lmClock,
    moves <- lmMoves
Dashboard == INSTANCE Dashboard WITH Symbols <- MarketSymbols,
    Timeframes <- MarketTimeframes, Agents <- PanelAgents, MaxMoves <- DashboardMoves,
    market <- dbMarket, server <- dbServer, signals <- dbSignals, fetches <- dbFetches,
    asked <- dbAsked, panel <- dbPanel, runs <- dbRuns, closing <- dbClosing, stored <- dbStored,
    filter <- dbFilter, closed <- dbClosed, moves <- dbMoves
PreSignal == INSTANCE PreSignal WITH Prices <- SessionPrices, candles <- psCandles,
    session <- psSession, atr <- psAtr
Feed == INSTANCE SignalFeed WITH Symbols <- MarketSymbols, MaxMoves <- FeedMoves,
    store <- sfStore, filters <- sfFilters, signals <- sfSignals, request <- sfRequest,
    reads <- sfReads, selected <- sfSelected, moves <- sfMoves
Intel == INSTANCE MarketIntel WITH Bars <- BarCounts, Prices <- IntelPrices,
    Cycles <- Calls, MaxCycles <- MaxCalls, market <- miMarket, cycles <- miCycles
Rules == INSTANCE AlertRules WITH Ids <- RuleIds, Tabs <- RuleTabs, stored <- arStored,
    tabs <- arTabs, alerts <- arAlerts, mounts <- arMounts
Card == INSTANCE SignalCard WITH Prices <- CardPrices, MaxMoves <- CardMoves,
    market <- scMarket, record <- scRecord, candles <- scCandles, drawer <- scDrawer,
    moves <- scMoves
Docs == INSTANCE DocsSearch WITH MaxMoves <- DocsMoves, open <- dsOpen, query <- dsQuery,
    active <- dsActive, at <- dsAt, scrolls <- dsScrolls, moves <- dsMoves

\* There is something to start from, and muting is not counted.
ASSUME SocialAssumption ==
    /\ IsFiniteSet(Seeds) /\ Seeds # {} /\ "muted" \notin CountedFlags
    /\ MaxClicks \in Nat /\ MaxReloads \in Nat
ASSUME CommunityAssumption ==
    {"forYou", "trending"} \subseteq CommunityTabs /\ MaxPage \in Nat \ {0}
ASSUME ChatsAssumption == MAX_SESSIONS \in Nat \ {0}
ASSUME TicksAssumption == MaxDrops \in Nat
\* No symbol is named "none".
ASSUME LiveAssumption == Live!None \notin MarketSymbols /\ MaxTicks \in Nat
ASSUME DashboardAssumption == MaxPanels \in Nat /\ DashboardMoves \in Nat
ASSUME PreSignalAssumption ==
    /\ SessionPrices \subseteq Nat /\ Volumes \subseteq Nat /\ Ranges \subseteq Nat
    /\ MIN_BARS \in Nat \ {0} /\ MaxSession \in Nat \ {0}
\* The dashboard shows no more of the list than the feed. Confidences are no less than 0.
ASSUME FeedAssumption ==
    /\ Cycles \subseteq [symbol : MarketSymbols, technical : {"BULLISH", "BEARISH", "NEUTRAL"},
           news : {"BULLISH", "BEARISH", "NEUTRAL"}, approved : BOOLEAN, seen : Nat, heard : Nat,
           score : Nat, timeframe : Feed!SIGNAL_TIMEFRAMES]
    /\ FEED_LIMIT \in Nat /\ DASH_LIMIT \in 0..FEED_LIMIT /\ MaxCycles \in Nat
\* Prices are positive, a relative strength is a percentage, a histogram and a volume are
\* numbers, and a confidence is none below 0. Null is no histogram.
ASSUME IntelAssumption ==
    /\ BarCounts \subseteq Nat /\ IntelPrices \subseteq Nat \ {0} /\ Rsis \subseteq 0..100
    /\ Histograms \subseteq Int \ {Intel!Null} /\ VolumeRatios \subseteq Int
    /\ \A c \in Calls : c.heard \in Nat
ASSUME RulesAssumption == MaxMounts \in Nat
\* Prices and the distances of a stop are positive.
ASSUME CardAssumption == CardPrices \subseteq Nat \ {0} /\ Distances \subseteq Nat \ {0}
\* Each query, the empty one among them, gives a list of results, of any length.
ASSUME DocsAssumption ==
    Docs!Empty \in Docs!Queries /\ \A q \in Docs!Queries : Matches[q] \in Seq(Docs!Results)

\* A page that is not open keeps no state.
soOff == soLocal = Closed /\ soStorage = Closed /\ soUnsaved = Closed /\ soSerial = Closed /\
    soSynced = Closed /\ soVisit = Closed /\ soSeen = Closed /\ soWire = Closed /\ soServer = Closed /\
    soClicks = Closed /\ soReloads = Closed /\ soLapsed = Closed
cpOff == cpTab = Closed /\ cpPage = Closed /\ cpBoot = Closed /\ cpError = Closed /\
    cpObserved = Closed /\ cpDialog = Closed /\ cpThread = Closed /\ cpDraft = Closed /\ cpReading = Closed /\
    cpSent = Closed /\ cpMoves = Closed
chOff == chSurface = Closed /\ chDisk = Closed /\ chUnsaved = Closed /\ chPage = Closed /\
    chComposer = Closed /\ chChoice = Closed /\ chRequest = Closed /\ chLost = Closed /\ chSerial = Closed /\
    chMoves = Closed
tsOff == tsMarket = Closed /\ tsSocket = Closed /\ tsLate = Closed /\ tsTicks = Closed /\
    tsDrops = Closed /\ tsMoves = Closed
lmOff == lmMarket = Closed /\ lmView = Closed /\ lmCandles = Closed /\ lmFetches = Closed /\
    lmReads = Closed /\ lmNews = Closed /\ lmChart = Closed /\ lmImports = Closed /\
    lmClock = Closed /\ lmMoves = Closed
dbOff == dbMarket = Closed /\ dbServer = Closed /\ dbSignals = Closed /\ dbFetches = Closed /\
    dbAsked = Closed /\ dbPanel = Closed /\ dbRuns = Closed /\ dbClosing = Closed /\ dbStored = Closed /\
    dbFilter = Closed /\ dbClosed = Closed /\ dbMoves = Closed
psOff == psCandles = Closed /\ psSession = Closed /\ psAtr = Closed
sfOff == sfStore = Closed /\ sfFilters = Closed /\ sfSignals = Closed /\ sfRequest = Closed /\
    sfReads = Closed /\ sfSelected = Closed /\ sfMoves = Closed
miOff == miMarket = Closed /\ miCycles = Closed
arOff == arStored = Closed /\ arTabs = Closed /\ arAlerts = Closed /\ arMounts = Closed
scOff == scMarket = Closed /\ scRecord = Closed /\ scCandles = Closed /\ scDrawer = Closed /\
    scMoves = Closed
dsOff == dsOpen = Closed /\ dsQuery = Closed /\ dsActive = Closed /\ dsAt = Closed /\
    dsScrolls = Closed /\ dsMoves = Closed

Init ==
    /\ at \in {"social", "community", "chats", "ticks", "chart", "dashboard",
              "presignal", "signals", "intel", "alerts", "card", "docs"}
    /\ IF at = "social" THEN Social!Init ELSE soOff
    /\ IF at = "community" THEN Community!Init ELSE cpOff
    /\ IF at = "chats" THEN Chats!Init ELSE chOff
    /\ IF at = "ticks" THEN Ticks!Init ELSE tsOff
    /\ IF at = "chart" THEN Live!Init ELSE lmOff
    /\ IF at = "dashboard" THEN Dashboard!Init ELSE dbOff
    /\ IF at = "presignal" THEN PreSignal!Init ELSE psOff
    /\ IF at = "signals" THEN Feed!Init ELSE sfOff
    /\ IF at = "intel" THEN Intel!Init ELSE miOff
    /\ IF at = "alerts" THEN Rules!Init ELSE arOff
    /\ IF at = "card" THEN Card!Init ELSE scOff
    /\ IF at = "docs" THEN Docs!Init ELSE dsOff

Posting == at = "social" /\ Social!Next /\ UNCHANGED <<at, cpVars, chVars, tsVars, lmVars,
    dbVars, psVars, sfVars, miVars, arVars, scVars, dsVars>>
Reading == at = "community" /\ Community!Next /\ UNCHANGED <<at, soVars, chVars, tsVars,
    lmVars, dbVars, psVars, sfVars, miVars, arVars, scVars, dsVars>>
Asking == at = "chats" /\ Chats!Next /\ UNCHANGED <<at, soVars, cpVars, tsVars, lmVars, dbVars,
    psVars, sfVars, miVars, arVars, scVars, dsVars>>
Streaming == at = "ticks" /\ Ticks!Next /\ UNCHANGED <<at, soVars, cpVars, chVars, lmVars,
    dbVars, psVars, sfVars, miVars, arVars, scVars, dsVars>>
Charting == at = "chart" /\ Live!Next /\ UNCHANGED <<at, soVars, cpVars, chVars, tsVars,
    dbVars, psVars, sfVars, miVars, arVars, scVars, dsVars>>
Analysing == at = "dashboard" /\ Dashboard!Next /\ UNCHANGED <<at, soVars, cpVars, chVars,
    tsVars, lmVars, psVars, sfVars, miVars, arVars, scVars, dsVars>>
Nearing == at = "presignal" /\ PreSignal!Next /\ UNCHANGED <<at, soVars, cpVars, chVars,
    tsVars, lmVars, dbVars, sfVars, miVars, arVars, scVars, dsVars>>
Listing == at = "signals" /\ Feed!Next /\ UNCHANGED <<at, soVars, cpVars, chVars, tsVars,
    lmVars, dbVars, psVars, miVars, arVars, scVars, dsVars>>
Judging == at = "intel" /\ Intel!Next /\ UNCHANGED <<at, soVars, cpVars, chVars, tsVars,
    lmVars, dbVars, psVars, sfVars, arVars, scVars, dsVars>>
Alerting == at = "alerts" /\ Rules!Next /\ UNCHANGED <<at, soVars, cpVars, chVars, tsVars,
    lmVars, dbVars, psVars, sfVars, miVars, scVars, dsVars>>
Carding == at = "card" /\ Card!Next /\ UNCHANGED <<at, soVars, cpVars, chVars, tsVars, lmVars,
    dbVars, psVars, sfVars, miVars, arVars, dsVars>>
Searching == at = "docs" /\ Docs!Next /\ UNCHANGED <<at, soVars, cpVars, chVars, tsVars,
    lmVars, dbVars, psVars, sfVars, miVars, arVars, scVars>>
Next == Posting \/ Reading \/ Asking \/ Streaming \/ Charting \/ Analysing \/ Nearing \/
    Listing \/ Judging \/ Alerting \/ Carding \/ Searching

\* On the community page the skeleton goes, and the sentinel of the list is seen.
Scrolling(A) == at = "community" /\ A
    /\ UNCHANGED <<at, soVars, chVars, tsVars, lmVars, dbVars, psVars, sfVars, miVars,
        arVars, scVars, dsVars>>
Fairness == WF_vars(Scrolling(Community!Booted)) /\ WF_vars(Scrolling(Community!Intersect))
Spec == Init /\ [][Next]_vars /\ Fairness
-----------------------------------------------------------------------------
\* The type invariant of the page that is open.
PagesAreTyped ==
    CASE at = "social" -> Social!TypeOK
      [] at = "community" -> Community!TypeOK
      [] at = "chats" -> Chats!TypeOK
      [] at = "ticks" -> Ticks!TypeOK
      [] at = "chart" -> Live!TypeOK
      [] at = "dashboard" -> Dashboard!TypeOK
      [] at = "presignal" -> PreSignal!TypeOK
      [] at = "signals" -> Feed!TypeOK
      [] at = "intel" -> Intel!TypeOK
      [] at = "alerts" -> Rules!TypeOK
      [] at = "card" -> Card!TypeOK
      [] at = "docs" -> Docs!TypeOK

\* Whatever is clicked, hydrated and reloaded, a count and the flag beside it agree,
\* and once the store is synced and quiet, the server has the flags that it shows of
\* what both know by an id that the tab did not make up.
CountsMatchFlags == at = "social" => Social!CountsMatchFlags /\ Social!MirrorAgrees

\* Scrolling reaches every post of the tab, unless the page shows its error or a list
\* that took the place of an empty feed, which nothing observes.
EverythingIsReached ==
    <>[](at = "community" =>
        cpError \/ Community!Stranded \/ Community!Visible = Cardinality(Matching[cpTab]))

\* A reply stands right behind its own question, in the conversation and where it is
\* stored, and the history lists a conversation once; what could be stored is stored.
RepliesFollowTheirQuestion ==
    at = "chats" => Chats!RepliesFollowTheirQuestion /\ Chats!EachConversationOnce

\* The status of the tick socket is that of the socket in use, whatever a replaced
\* one still reports.
StatusFollowsTheSocket == at = "ticks" => Ticks!StatusFollowsTheSocket

\* A chart shows the candles of the selected market in the selected type, and with
\* nothing under way the dashboard's list is of the selected symbol and no older than
\* what the page asked for last; each of its panels runs one analysis at a time.
ShownIsCurrent ==
    /\ at = "chart" => Live!ChartIsCurrent
    /\ at = "dashboard" => Dashboard!ListIsCurrent /\ Dashboard!OneRunPerPanel

\* A pre-signal alarm is raised only near a reference level.
AlarmsAreWarranted == at = "presignal" => PreSignal!AlarmsAreWarranted

\* The trade call of the feed and the one of the dashboard are the same, an overall
\* verdict has an agent behind it, and with nothing under way the list is that of the
\* selected symbol.
CallsAgree ==
    at = "signals" => Feed!CallsAgree /\ Feed!OverallIsBacked /\ Feed!FeedIsSettled

\* A card and its drawer say the same of a record, and except on the Decision Maker's
\* card the price stands between its levels, whichever candles come and go; nor is a
\* signal posted to the community whose levels do not enclose its entry.
CardsHoldTogether ==
    /\ at = "card" => Card!CardAndDrawerAgree /\ Card!LevelsAreInOrder
    /\ at = "community" => Community!PostedSignalsAreBracketed

\* Enter opens the result that is highlighted.
EnterOpensTheHighlight == at = "docs" => Docs!EnterOpensTheHighlight

\* A trend has an average that backs it, and where the price has left both averages
\* behind, neither the trend nor the reading contradicts it.
TrendIsBacked == at = "intel" => Intel!TrendIsBacked /\ Intel!ReadsFollowTheAverages

\* An alert rule leaves the storage only when its user deletes it.
RulesAreKept ==
    [][at = "alerts" => \A r \in arStored :
        (\A x \in arStored' : x.id # r.id) => \E t \in RuleTabs : Rules!Delete(t, r.id)]_arVars
=============================================================================
