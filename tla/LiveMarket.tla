------------------------------ MODULE LiveMarket ------------------------------
(* Candles on the screen: the candles and the multi-timeframe reads of the    *)
(* selected symbol, and the price chart, which is created when its library    *)
(* has been imported, while the effects that feed it run when React commits.  *)
(* The views that show a chart are /charts and the dashboard, which has a     *)
(* demo mode.                                                                 *)
EXTENDS Integers, Sequences

CONSTANTS
    Symbols,    \* those the context lists
    Timeframes,
    MaxTicks,   \* bound on the seconds of the demo clock
    MaxMoves    \* bound on what the user does

VARIABLES
    market,     \* the selection of the context: symbol, timeframe
    view,       \* the mounted view and its controls
    candles,    \* useOhlc: the key that was answered last, and how
    fetches,    \* candle requests under way, aborted ones too
    reads,      \* useTimeframeReads, likewise
    news,       \* the dashboard's signals: asked for, or here
    chart,      \* the canvas
    imports,    \* chart effects that wait for the library
    clock, moves

vars == <<market, view, candles, fetches, reads, news, chart, imports, clock, moves>>

None == "none"
Keys == [symbol : Symbols, timeframe : Timeframes]
OVERLAY_LABELS == {"ema20", "ema200"}
INDICATOR_LABELS == {"rsi", "atr"}
Types == {"candlestick", "area"}

-----------------------------------------------------------------------------
\* What a view has on the screen.

\* /charts opens with its first panes, the dashboard with none.
Opened(at, demo) ==
    [at |-> at, demo |-> demo, overlays |-> {"ema20"}, type |-> "candlestick",
     panes |-> IF at = "charts" THEN {"rsi"} ELSE {}, flag |-> FALSE, full |-> FALSE]
NoKey == [symbol |-> None, timeframe |-> None]
NoCandles == [key |-> NoKey, got |-> None, n |-> 0]
NoReads == [of |-> None, fetch |-> None]
NoBars == [key |-> NoKey, n |-> 0]
NoChart == [ready |-> FALSE, bars |-> NoBars, type |-> None, shown |-> {}, lines |-> FALSE]

Demo(v) == v.at = "dashboard" /\ v.demo
\* The candles on display: the demo's, which are generated from the clock, or
\* those of the current key and of no other.
Bars(m, v, c, t) ==
    IF v.at = "away" THEN NoBars
    ELSE IF Demo(v) THEN [key |-> m, n |-> t]
    ELSE IF c.key = m /\ c.got = "bars" THEN [key |-> c.key, n |-> c.n] ELSE NoBars
Shown == Bars(market, view, candles, clock)

Disposed == [i \in DOMAIN imports |-> [imports[i] EXCEPT !.live = FALSE]]
\* The commit of a render: the chart is unmounted without candles, its effect
\* starts with the first ones and with another type of chart, and the effects
\* that feed it do so if it is there.
Commit(m, v, c, t, zones) ==
    LET bars == Bars(m, v, c, t) IN
    IF bars = NoBars THEN chart' = NoChart /\ imports' = Disposed
    ELSE IF Shown = NoBars \/ v.type # view.type \/ v.at # view.at
    THEN chart' = NoChart /\ imports' = Append(Disposed, [type |-> v.type, live |-> TRUE])
    ELSE /\ imports' = imports
         /\ chart' = IF ~chart.ready THEN chart
                     ELSE [chart EXCEPT !.bars = bars,
                               !.shown = IF v.overlays # view.overlays THEN v.overlays ELSE @,
                               !.lines = @ \/ zones \/ bars # Shown]

\* Mutant: the import does not look whether its effect was disposed.
ChartReadyAnyway ==
    /\ imports # <<>> /\ imports' = Tail(imports)
    /\ chart' = [ready |-> TRUE, bars |-> Shown, type |-> Head(imports).type,
                 shown |-> OVERLAY_LABELS, lines |-> FALSE]
    /\ UNCHANGED <<market, view, candles, fetches, reads, news, clock, moves>>
\* The library is there: the effect creates its chart, unless it was disposed
\* meanwhile, with the candles of this moment. Everything is visible, no line drawn.
ChartReady ==
    /\ imports # <<>> /\ imports' = Tail(imports)
    /\ chart' = IF ~Head(imports).live THEN chart
                ELSE [ready |-> TRUE, bars |-> Shown, type |-> Head(imports).type,
                      shown |-> OVERLAY_LABELS, lines |-> FALSE]
    /\ UNCHANGED <<market, view, candles, fetches, reads, news, clock, moves>>

-----------------------------------------------------------------------------
\* The selection and the requests that follow it.

Asks(key) == {[f EXCEPT !.live = FALSE] : f \in fetches} \cup {[key |-> key, live |-> TRUE]}
NoMoreAsks == {[f EXCEPT !.live = FALSE] : f \in fetches}
Reading(m, v) == IF v.at = "dashboard" /\ ~v.demo THEN m.symbol ELSE None

Init ==
    /\ market \in Keys
    /\ view \in {Opened("charts", FALSE), Opened("dashboard", FALSE), Opened("dashboard", TRUE)}
    /\ candles = NoCandles /\ fetches = {[key |-> market, live |-> TRUE]}
    /\ reads = [NoReads EXCEPT !.fetch = Reading(market, view)]
    /\ news = "asked" /\ chart = NoChart
    /\ imports = IF Demo(view) THEN <<[type |-> view.type, live |-> TRUE]>> ELSE <<>>
    /\ clock = 0 /\ moves = 0

Move == moves < MaxMoves /\ moves' = moves + 1
\* Another symbol or timeframe, from any of the controls: the candles of the old
\* key are not shown any more, its requests are aborted, the old reads stay.
Select(key) ==
    /\ view.at # "away" /\ key # market /\ Move
    /\ market' = key /\ fetches' = Asks(key) /\ Commit(market', view, candles, clock, FALSE)
    /\ IF key.symbol = market.symbol THEN UNCHANGED <<reads, news>>
       ELSE news' = "asked" /\ reads' = [reads EXCEPT !.fetch = Reading(market', view)]
    /\ UNCHANGED <<view, candles, clock>>

\* An answer counts if its effect has not been cleaned up. A key that is returned
\* to before the other one has been answered shows its old candles until then.
CandlesAnswer(f, got) ==
    /\ fetches' = fetches \ {f}
    /\ candles' = IF f.live THEN [key |-> f.key, got |-> got, n |-> 1 - candles.n]
                  ELSE candles
    /\ Commit(market, view, candles', clock, FALSE)
    /\ UNCHANGED <<market, view, reads, news, clock, moves>>
ReadsAnswer ==
    /\ reads.fetch # None /\ reads' = [of |-> reads.fetch, fetch |-> None]
    /\ UNCHANGED <<market, view, candles, fetches, news, chart, imports, clock, moves>>
\* The signals of the symbol: the sentiment among them may change the structure,
\* and with it the pre-signal zones.
NewsAnswer ==
    /\ news = "asked" /\ view.at = "dashboard" /\ news' = "here"
    /\ \E zones \in BOOLEAN : Commit(market, view, candles, clock, zones)
    /\ UNCHANGED <<market, view, candles, fetches, reads, clock, moves>>
\* In demo mode the candles are generated anew with every second.
DemoTick ==
    /\ Demo(view) /\ clock < MaxTicks /\ clock' = clock + 1
    /\ Commit(market, view, candles, clock', FALSE)
    /\ UNCHANGED <<market, view, candles, fetches, reads, news, moves>>

-----------------------------------------------------------------------------
\* The controls of a view, and leaving it.

Control(v) ==
    /\ view.at # "away" /\ Move /\ view' = v /\ Commit(market, v, candles, clock, FALSE)
    /\ UNCHANGED <<market, candles, fetches, reads, news, clock>>
Flip(s, x) == IF x \in s THEN s \ {x} ELSE s \cup {x}
toggleOverlay(o) == Control([view EXCEPT !.overlays = Flip(@, o)])
toggleIndicator(i) == Control([view EXCEPT !.panes = Flip(@, i)])
ChartType(t) == view.at = "dashboard" /\ Control([view EXCEPT !.type = t])
\* The button asks the document, and sets the flag that names the button.
toggleFullscreen == Control([view EXCEPT !.full = ~@, !.flag = ~view.full])
Escape == view.full /\ Control([view EXCEPT !.full = FALSE])

Visit(v) ==
    /\ Move /\ view' = v /\ candles' = NoCandles
    /\ fetches' = IF v.at = "away" THEN NoMoreAsks ELSE Asks(market)
    /\ reads' = [NoReads EXCEPT !.fetch = Reading(market, v)] /\ news' = "asked"
    /\ Commit(market, v, candles', clock, FALSE)
    /\ UNCHANGED <<market, clock>>
Leave == view.at # "away" /\ Visit([view EXCEPT !.at = "away", !.full = FALSE])
Return == view.at = "away" /\ \E at \in {"charts", "dashboard"} : Visit(Opened(at, view.demo))

-----------------------------------------------------------------------------
Next ==
    \/ ChartReady \/ ReadsAnswer \/ NewsAnswer \/ DemoTick
    \/ \E key \in Keys : Select(key)
    \/ \E key \in Keys, live \in BOOLEAN, got \in {"bars", "empty", "error"} :
        LET f == [key |-> key, live |-> live] IN f \in fetches /\ CandlesAnswer(f, got)
    \/ \E o \in OVERLAY_LABELS : toggleOverlay(o)
    \/ \E i \in INDICATOR_LABELS : toggleIndicator(i)
    \/ \E t \in Types : ChartType(t)
    \/ toggleFullscreen \/ Escape \/ Leave \/ Return
\* A request is answered or fails in the end.
Fairness ==
    /\ WF_vars(ReadsAnswer)
    /\ \A key \in Keys : WF_vars(\E got \in {"bars", "empty", "error"} :
        LET f == [key |-> key, live |-> TRUE] IN f \in fetches /\ CandlesAnswer(f, got))
Spec == Init /\ [][Next]_vars /\ Fairness

-----------------------------------------------------------------------------
TypeOK ==
    /\ market \in Keys /\ candles.key \in Keys \cup {NoKey} /\ clock \in 0..MaxTicks
    /\ chart.shown \subseteq OVERLAY_LABELS /\ view.panes \subseteq INDICATOR_LABELS

\* However late the library and the candles come: a chart shows the candles of
\* the selected symbol and timeframe, in the selected type, or there is none.
ChartIsCurrent ==
    chart.ready => /\ chart.bars = Shown /\ chart.bars.key = market
                   /\ chart.type = view.type

\* Under whatever switching, the candles of the key that is on display are
\* answered for in the end, and so are the reads of its symbol.
EverythingLoads ==
    /\ \A key \in Keys :
        market = key ~> view.at = "away" \/ market # key \/ candles.key = key
    /\ reads.fetch # None ~> reads.fetch = None

\* Not kept by the code, see the README.
\* "always drawn, never opt-in": the pre-signal zones and the levels become lines
\* of every chart that stays.
PreSignalsAreDrawn == chart.ready ~> chart.lines \/ ~chart.ready
\* Not kept by the code, see the README.
\* An overlay is on the chart when its toggle is on.
TogglesAreShown == chart.ready => chart.shown = view.overlays
\* Not kept by the code, see the README.
\* The reads of the multi-timeframe row, which is never marked as loading again,
\* are those of the selected symbol.
ReadsAreOfTheSymbol == reads.of \in {None, market.symbol}
\* Not kept by the code, see the README.
\* The button leaves full screen when the view fills the screen.
ButtonNamesWhatItDoes == view.flag = view.full
\* Not kept by the code, see the README.
\* "Series + signals are stable per (symbol, timeframe); only the tick moves."
SeriesIsStable ==
    [][chart.ready /\ chart'.ready /\ market = market' /\ view.at = view'.at
        => chart.bars = chart'.bars]_vars
===============================================================================
