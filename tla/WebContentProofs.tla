--------------------------- MODULE WebContentProofs ---------------------------
(***************************************************************************)
(* Proofs about the pages that show and take content, for any posts,       *)
(* symbols, prices, readings, rules, results and moves.                    *)
(***************************************************************************)
EXTENDS WebContent, DataLemmas

-----------------------------------------------------------------------------
\* The tick stream: the status is that of the socket in use.

Sockets == [st : {"opening", "open", "waiting"}, attempt : Nat,
            status : {"connecting", "reconnecting", "live", "error"}]

\* The status alone would not be inductive without the stages there are.
TicksInv == tsSocket \in Sockets /\ Ticks!StatusFollowsTheSocket

\* A socket that is dialled is not said to be live.
LEMMA DialledIsOpening ==
    ASSUME tsSocket \in Sockets, tsSocket' = Ticks!Dialled(tsSocket)
    PROVE  tsSocket' \in Sockets /\ tsSocket'.st = "opening" /\ tsSocket'.status # "live"
<1>1. CASE tsSocket.attempt = 0
  <2>1. tsSocket' = [tsSocket EXCEPT !.st = "opening", !.status = "connecting"]
    BY <1>1 DEF Ticks!Dialled
  <2> QED BY <2>1 DEF Sockets
<1>2. CASE tsSocket.attempt # 0
  <2>1. tsSocket' = [tsSocket EXCEPT !.st = "opening", !.status = "reconnecting"]
    BY <1>2 DEF Ticks!Dialled
  <2> QED BY <2>1 DEF Sockets
<1> QED BY <1>1, <1>2

\* The socket in use opens, closes and is dialled again.
LEMMA SocketKeeps ==
    ASSUME TicksInv, Ticks!Opens \/ Ticks!Closes \/ Ticks!Retries
    PROVE  TicksInv'
<1>1. CASE Ticks!Opens
  BY <1>1 DEF Ticks!Opens, TicksInv, Sockets, Ticks!StatusFollowsTheSocket
<1>2. CASE Ticks!Closes
  BY <1>2 DEF Ticks!Closes, TicksInv, Sockets, Ticks!StatusFollowsTheSocket
<1>3. CASE Ticks!Retries
  BY <1>3, DialledIsOpening DEF Ticks!Retries, TicksInv, Ticks!StatusFollowsTheSocket
<1> QED BY <1>1, <1>2, <1>3

\* A frame that is no error leaves the status alone.
LEMMA FrameKeeps ==
    ASSUME TicksInv, NEW new, NEW status \in {tsSocket.status, "error"},
             Ticks!Frame(new, status)
    PROVE  TicksInv'
BY DEF Ticks!Frame, TicksInv, Sockets, Ticks!StatusFollowsTheSocket

\* Another list has the socket dialled anew.
LEMMA HealthKeeps ==
    ASSUME TicksInv, NEW symbols, Ticks!HealthAnswers(symbols)
    PROVE  TicksInv'
<1>1. CASE symbols = tsMarket.symbols
  BY <1>1 DEF Ticks!HealthAnswers, TicksInv, Ticks!StatusFollowsTheSocket
<1>2. CASE symbols # tsMarket.symbols
  <2>1. tsSocket' = Ticks!Dialled(tsSocket)
    BY <1>2 DEF Ticks!HealthAnswers
  <2> QED BY <2>1, DialledIsOpening DEF TicksInv, Ticks!StatusFollowsTheSocket
<1> QED BY <1>1, <1>2

\* What the replaced socket still reports is an error at most. It is reported only
\* of a socket that had not opened.
LEMMA OldSocketKeeps == ASSUME TicksInv, Ticks!OldSocketCloses PROVE TicksInv'
<1>1. PICK s \in {tsSocket.status, "error"} : tsSocket' = [tsSocket EXCEPT !.status = s]
  BY DEF Ticks!OldSocketCloses
<1> QED BY <1>1 DEF TicksInv, Sockets, Ticks!StatusFollowsTheSocket

LEMMA TicksInit == Ticks!Init => TicksInv
BY DEF Ticks!Init, TicksInv, Sockets, Ticks!StatusFollowsTheSocket

LEMMA TicksStep == ASSUME TicksInv, [Ticks!Next]_(Ticks!vars) PROVE TicksInv'
<1>1. CASE Ticks!Opens \/ Ticks!Closes \/ Ticks!Retries
  BY <1>1, SocketKeeps
<1>2. CASE Ticks!Snapshot \/ Ticks!ErrorFrame \/ \E s \in Ticks!Symbols : Ticks!Tick(s)
  BY <1>2, FrameKeeps DEF Ticks!Snapshot, Ticks!ErrorFrame, Ticks!Tick
<1>3. CASE Ticks!OldSocketCloses
  BY <1>3, OldSocketKeeps
<1>4. CASE \E s \in Ticks!Symbols : Ticks!setSymbol(s)
  BY <1>4 DEF Ticks!setSymbol, TicksInv, Ticks!StatusFollowsTheSocket
<1>5. CASE \E symbols \in {DEFAULT_SYMBOLS, Served} : Ticks!HealthAnswers(symbols)
  BY <1>5, HealthKeeps
<1>6. CASE UNCHANGED Ticks!vars
  BY <1>6 DEF Ticks!vars, TicksInv, Ticks!StatusFollowsTheSocket
<1> QED BY <1>1, <1>2, <1>3, <1>4, <1>5, <1>6 DEF Ticks!Next

LEMMA TicksFollow == TicksInv => Ticks!StatusFollowsTheSocket
BY DEF TicksInv

-----------------------------------------------------------------------------
\* Charts: what they show is what is selected.

Views ==
    [at : {"charts", "dashboard", "away"}, demo : BOOLEAN,
        overlays : SUBSET Live!OVERLAY_LABELS,
     type : Live!Types, panes : SUBSET Live!INDICATOR_LABELS, flag : BOOLEAN, full : BOOLEAN]
Series == [key : Live!Keys \cup {Live!NoKey}, n : Int]
Charts ==
    [ready : BOOLEAN, bars : Series, type : Live!Types \cup {Live!None},
        shown : SUBSET Live!OVERLAY_LABELS,
     lines : BOOLEAN]
Imports == Seq([type : Live!Types, live : BOOLEAN])
LiveTypes ==
    /\ lmMarket \in Live!Keys /\ lmView \in Views /\ lmClock \in 0..MaxTicks
    /\ lmCandles \in [key : Live!Keys \cup {Live!NoKey},
         got : {Live!None, "bars", "empty", "error"}, n : Int]
    /\ lmFetches \subseteq [key : Live!Keys, live : BOOLEAN]
    /\ lmChart \in Charts /\ lmImports \in Imports
\* An import that was not disposed is for the candles there are, and for their type.
ImportsAreDue ==
    \A i \in DOMAIN lmImports : lmImports[i].live => lmImports[i].type = lmView.type /\
        Live!Shown # Live!NoBars
LiveInv == LiveTypes /\ ImportsAreDue /\ Live!ChartIsCurrent

\* Candles on display are those of the selected key.
LEMMA BarsAre ==
    ASSUME NEW m \in Live!Keys, NEW v \in Views, NEW t \in Int,
           NEW c \in [key : Live!Keys \cup {Live!NoKey},
               got : {Live!None, "bars", "empty", "error"}, n : Int]
    PROVE  Live!Bars(m, v, c, t) \in Series /\
             (Live!Bars(m, v, c, t) # Live!NoBars => Live!Bars(m, v, c, t).key = m)
<1>1. [key |-> m, n |-> t] \in Series /\ [key |-> c.key, n |-> c.n] \in Series /\
        Live!NoBars \in Series
  BY DEF Series, Live!NoBars
<1> QED BY <1>1 DEF Live!Bars

LEMMA NoChartIs == Live!NoChart \in Charts /\ ~Live!NoChart.ready
<1>1. Live!NoBars \in Series
  BY DEF Live!NoBars, Series
<1> QED BY <1>1 DEF Live!NoChart, Charts

LEMMA DisposedIs ==
    ASSUME lmImports \in Imports
    PROVE  Live!Disposed \in Imports /\ \A i \in DOMAIN Live!Disposed : ~Live!Disposed[i].live
<1>1. \A e \in [type : Live!Types, live : BOOLEAN] :
        /\ [e EXCEPT !.live = FALSE] \in [type : Live!Types, live : BOOLEAN]
        /\ ~[e EXCEPT !.live = FALSE].live
  OBVIOUS
<1>3. Len(lmImports) \in Nat /\ DOMAIN lmImports = 1..Len(lmImports)
  BY DEF Imports
<1>2. \A i \in DOMAIN lmImports : lmImports[i] \in [type : Live!Types, live : BOOLEAN]
  BY <1>3, ElementOfSeq DEF Imports
<1>4. /\ DOMAIN Live!Disposed = 1..Len(lmImports)
      /\ \A i \in 1..Len(lmImports) : Live!Disposed[i] = [lmImports[i] EXCEPT !.live = FALSE]
  BY <1>3 DEF Live!Disposed
<1>5. Live!Disposed \in [1..Len(lmImports) -> [type : Live!Types, live : BOOLEAN]]
  BY <1>1, <1>2, <1>3 DEF Live!Disposed
<1>6. Live!Disposed \in Imports
  BY <1>3, <1>5 DEF Imports
<1> QED BY <1>1, <1>2, <1>3, <1>4, <1>6

\* A commit leaves the chart of the candles that are shown afterwards.
LEMMA CommitKeeps ==
    ASSUME LiveInv, NEW zones \in BOOLEAN, lmMarket' \in Live!Keys, lmView' \in Views,
             lmClock' \in 0..MaxTicks,
           lmCandles' \in [key : Live!Keys \cup {Live!NoKey},
               got : {Live!None, "bars", "empty", "error"}, n : Int],
           lmFetches' \subseteq [key : Live!Keys, live : BOOLEAN],
           Live!Commit(lmMarket', lmView', lmCandles', lmClock', zones)
    PROVE  LiveInv'
<1> DEFINE bars == Live!Bars(lmMarket', lmView', lmCandles', lmClock')
<1>1. bars \in Series /\ (bars # Live!NoBars => bars.key = lmMarket') /\ Live!Shown' = bars
  BY BarsAre, LiveAssumption DEF Live!Shown
<1>2. /\ lmChart \in Charts /\ lmImports \in Imports /\ Live!Disposed \in Imports
      /\ \A i \in DOMAIN Live!Disposed : ~Live!Disposed[i].live
      /\ Live!NoChart \in Charts /\ ~Live!NoChart.ready
  BY NoChartIs, DisposedIs DEF LiveInv, LiveTypes
<1>3. CASE bars = Live!NoBars
  <2>1. lmChart' = Live!NoChart /\ lmImports' = Live!Disposed
    BY <1>3 DEF Live!Commit
  <2> QED BY <1>2, <2>1 DEF LiveInv, LiveTypes, ImportsAreDue, Live!ChartIsCurrent
<1>4. CASE bars # Live!NoBars /\
             (Live!Shown = Live!NoBars \/ lmView'.type # lmView.type \/ lmView'.at # lmView.at)
  <2> DEFINE new == [type |-> lmView'.type, live |-> TRUE]
  <2>1. lmChart' = Live!NoChart /\ lmImports' = Append(Live!Disposed, new)
    BY <1>4 DEF Live!Commit
  <2>2. new \in [type : Live!Types, live : BOOLEAN] /\ new.type = lmView'.type
    BY DEF Views
  <2> HIDE DEF new
  <2>3. lmImports' \in Imports
    BY <1>2, <2>1, <2>2 DEF Imports
  <2>4. \A i \in DOMAIN lmImports' : lmImports'[i] = new \/ ~lmImports'[i].live
    BY <1>2, <2>1, <2>2 DEF Imports
  <2>5. ImportsAreDue'
    BY <1>1, <1>4, <2>2, <2>4 DEF ImportsAreDue
  <2> QED BY <1>2, <2>1, <2>3, <2>5 DEF LiveInv, LiveTypes, Live!ChartIsCurrent
<1>5. CASE bars # Live!NoBars /\ Live!Shown # Live!NoBars /\ lmView'.type = lmView.type /\
             lmView'.at = lmView.at
  <2>1. lmImports' = lmImports
    BY <1>5 DEF Live!Commit
  <2>2. ImportsAreDue'
    BY <1>1, <1>5, <2>1 DEF LiveInv, ImportsAreDue
  <2>3. CASE ~lmChart.ready
    <3>1. lmChart' = lmChart
      BY <1>5, <2>3 DEF Live!Commit
    <3> QED BY <2>1, <2>2, <2>3, <3>1 DEF LiveInv, LiveTypes, Live!ChartIsCurrent
  <2>4. CASE lmChart.ready
    <3>1. PICK shown \in SUBSET Live!OVERLAY_LABELS, lines \in BOOLEAN :
            lmChart' = [lmChart EXCEPT !.bars = bars, !.shown = shown, !.lines = lines]
      <4> DEFINE shown == IF lmView'.overlays # lmView.overlays THEN lmView'.overlays ELSE lmChart.shown
                 lines == lmChart.lines \/ zones \/ bars # Live!Shown
      <4>1. lmChart' = [lmChart EXCEPT !.bars = bars, !.shown = shown, !.lines = lines]
        BY <1>2, <1>5, <2>4 DEF Live!Commit, Charts
      <4>2. shown \in SUBSET Live!OVERLAY_LABELS /\ lines \in BOOLEAN
        BY <1>2 DEF Charts, Views
      <4> HIDE DEF shown, lines
      <4> QED BY <4>1, <4>2
    <3>2. lmChart' \in Charts /\ lmChart'.bars = bars /\ lmChart'.type = lmChart.type
      BY <1>1, <1>2, <3>1 DEF Charts
    <3>3. Live!ChartIsCurrent'
      BY <1>1, <1>5, <2>4, <3>2 DEF LiveInv, Live!ChartIsCurrent
    <3> QED BY <2>1, <2>2, <3>2, <3>3 DEF LiveInv, LiveTypes
  <2> QED BY <2>3, <2>4
<1> HIDE DEF bars
<1> QED BY <1>3, <1>4, <1>5

LEMMA ReadyKeeps == ASSUME LiveInv, Live!ChartReady PROVE LiveInv'
<1>1. /\ lmImports \in Imports /\ lmImports # <<>> /\ lmImports' = Tail(lmImports)
      /\ lmChart' = IF ~Head(lmImports).live THEN lmChart
                    ELSE [ready |-> TRUE, bars |-> Live!Shown, type |-> Head(lmImports).type,
                          shown |-> Live!OVERLAY_LABELS, lines |-> FALSE]
      /\ UNCHANGED << lmMarket, lmView, lmCandles, lmFetches, lmClock >>
  BY DEF Live!ChartReady, LiveInv, LiveTypes
<1>2. /\ lmImports' \in Imports /\
           \A i \in DOMAIN lmImports' : lmImports'[i] = lmImports[i + 1] /\
               i + 1 \in DOMAIN lmImports
      /\ 1 \in DOMAIN lmImports /\ Head(lmImports) = lmImports[1]
      /\ lmImports[1].type \in Live!Types
  <2>1. lmImports \in Seq([type : Live!Types, live : BOOLEAN]) /\ lmImports # <<>>
    BY <1>1 DEF Imports
  <2>2. /\ Tail(lmImports) \in Seq([type : Live!Types, live : BOOLEAN])
        /\ \A i \in DOMAIN Tail(lmImports) :
            Tail(lmImports)[i] = lmImports[i + 1] /\ i + 1 \in DOMAIN lmImports
        /\ 1 \in DOMAIN lmImports /\ Head(lmImports) = lmImports[1]
    BY <2>1
  <2>3. lmImports[1] \in [type : Live!Types, live : BOOLEAN]
    <3>1. 1 \in 1..Len(lmImports)
      BY <2>1
    <3> QED BY <2>1, <3>1, ElementOfSeq
  <2> QED BY <1>1, <2>2, <2>3 DEF Imports
<1>3. Live!Shown' = Live!Shown
  BY <1>1 DEF Live!Shown
<1>4. ImportsAreDue'
  BY <1>1, <1>2, <1>3 DEF LiveInv, ImportsAreDue
<1>5. Live!Shown \in Series /\ (Live!Shown # Live!NoBars => Live!Shown.key = lmMarket)
  BY BarsAre, LiveAssumption DEF LiveInv, LiveTypes, Live!Shown
<1>6. CASE ~Head(lmImports).live
  BY <1>1, <1>2, <1>3, <1>4, <1>6 DEF LiveInv, LiveTypes, Live!ChartIsCurrent
<1>7. CASE Head(lmImports).live
  <2>1. lmImports[1].type = lmView.type /\ Live!Shown # Live!NoBars
    BY <1>2, <1>7 DEF LiveInv, ImportsAreDue
  <2>2. lmChart' \in Charts
    BY <1>1, <1>2, <1>5, <1>7 DEF Charts
  <2>3. Live!ChartIsCurrent'
    BY <1>1, <1>2, <1>3, <1>5, <1>7, <2>1 DEF Live!ChartIsCurrent
  <2> QED BY <1>1, <1>2, <1>4, <2>2, <2>3 DEF LiveInv, LiveTypes
<1> QED BY <1>6, <1>7

LEMMA AsksAre ==
    ASSUME NEW key \in Live!Keys, lmFetches \subseteq [key : Live!Keys, live : BOOLEAN]
    PROVE  /\ Live!Asks(key) \subseteq [key : Live!Keys, live : BOOLEAN]
           /\ Live!NoMoreAsks \subseteq [key : Live!Keys, live : BOOLEAN]
<1>1. \A f \in lmFetches : [f EXCEPT !.live = FALSE] \in [key : Live!Keys, live : BOOLEAN]
  OBVIOUS
<1>2. TRUE \in BOOLEAN
  OBVIOUS
<1>3. [key |-> key, live |-> TRUE] \in [key : Live!Keys, live : BOOLEAN]
  BY <1>2
<1> QED BY <1>1, <1>3 DEF Live!Asks, Live!NoMoreAsks

LEMMA LiveInit == Live!Init => LiveInv
<1> SUFFICES ASSUME Live!Init PROVE LiveInv
  OBVIOUS
<1>1. \A where \in {"charts", "dashboard"}, demo \in BOOLEAN : Live!Opened(where,
        demo) \in Views
  BY DEF Live!Opened, Views, Live!OVERLAY_LABELS, Live!INDICATOR_LABELS, Live!Types
<1>2. lmView \in Views
  BY <1>1 DEF Live!Init
<1>3. lmImports \in Imports
  <2>1. TRUE \in BOOLEAN /\ lmView.type \in Live!Types
    BY <1>2 DEF Views
  <2>2. [type |-> lmView.type, live |-> TRUE] \in [type : Live!Types, live : BOOLEAN]
    BY <2>1
  <2> DEFINE new == [type |-> lmView.type, live |-> TRUE]
  <2>3. lmImports = <<new>> \/ lmImports = <<>>
    BY DEF Live!Init
  <2> HIDE DEF new
  <2>4. ASSUME NEW S, NEW x \in S PROVE <<x>> \in Seq(S) /\ <<>> \in Seq(S)
    OBVIOUS
  <2>5. new \in [type : Live!Types, live : BOOLEAN]
    BY <2>2 DEF new
  <2> QED BY <2>3, <2>4, <2>5 DEF Imports
<1>4. LiveTypes
  BY <1>2, <1>3, NoChartIs, LiveAssumption DEF Live!Init, LiveTypes, Live!NoCandles
<1>5. ASSUME Live!Demo(lmView) PROVE Live!Shown # Live!NoBars
  <2>1. Live!Shown = [key |-> lmMarket, n |-> 0]
    BY <1>5 DEF Live!Init, Live!Shown, Live!Bars, Live!Demo
  <2>2. lmMarket # Live!NoKey
    BY LiveAssumption DEF Live!Init, Live!Keys, Live!NoKey
  <2> QED BY <2>1, <2>2 DEF Live!NoBars
<1>6. ImportsAreDue
  BY <1>5 DEF Live!Init, ImportsAreDue
<1>7. Live!ChartIsCurrent
  BY NoChartIs DEF Live!Init, Live!ChartIsCurrent
<1> QED BY <1>4, <1>6, <1>7 DEF LiveInv

LEMMA ControlKeeps == ASSUME LiveInv, NEW v \in Views, Live!Control(v) PROVE LiveInv'
<1>1. /\ lmView' = v /\ UNCHANGED << lmMarket, lmCandles, lmFetches, lmClock >>
      /\ Live!Commit(lmMarket', lmView', lmCandles', lmClock', FALSE)
  BY DEF Live!Control
<1> QED BY <1>1, CommitKeeps DEF LiveInv, LiveTypes

LEMMA ControlsKeep ==
    ASSUME LiveInv,
           \/ (\E o \in Live!OVERLAY_LABELS : Live!toggleOverlay(o))
           \/ (\E i \in Live!INDICATOR_LABELS : Live!toggleIndicator(i))
           \/ (\E t \in Live!Types : Live!ChartType(t)) \/ Live!toggleFullscreen \/ Live!Escape
    PROVE  LiveInv'
<1>1. lmView \in Views
  BY DEF LiveInv, LiveTypes
<1>2. \A s, x : Live!Flip(s, x) \subseteq s \cup {x}
  BY DEF Live!Flip
<1>3. ASSUME NEW o \in Live!OVERLAY_LABELS PROVE [lmView EXCEPT !.overlays = Live!Flip(@,
               o)] \in Views
  BY <1>1, <1>2 DEF Views
<1>4. ASSUME NEW i \in Live!INDICATOR_LABELS PROVE [lmView EXCEPT !.panes = Live!Flip(@,
               i)] \in Views
  BY <1>1, <1>2 DEF Views
<1>5. ASSUME NEW t \in Live!Types PROVE [lmView EXCEPT !.type = t] \in Views
  BY <1>1 DEF Views
<1>6. /\ [lmView EXCEPT !.full = ~@, !.flag = ~lmView.full] \in Views
      /\ [lmView EXCEPT !.full = FALSE] \in Views
  BY <1>1 DEF Views
<1> QED BY <1>3, <1>4, <1>5, <1>6, ControlKeeps
        DEF Live!toggleOverlay, Live!toggleIndicator, Live!ChartType, Live!toggleFullscreen,
              Live!Escape

LEMMA VisitKeeps == ASSUME LiveInv, NEW v \in Views, Live!Visit(v) PROVE LiveInv'
<1>1. /\ lmView' = v /\ lmCandles' = Live!NoCandles /\ UNCHANGED << lmMarket, lmClock >>
      /\ lmFetches' = IF v.at = "away" THEN Live!NoMoreAsks ELSE Live!Asks(lmMarket)
      /\ Live!Commit(lmMarket', lmView', lmCandles', lmClock', FALSE)
  BY DEF Live!Visit
<1>2. lmFetches' \subseteq [key : Live!Keys, live : BOOLEAN]
  BY <1>1, AsksAre DEF LiveInv, LiveTypes
<1>3. Live!NoCandles \in [key : Live!Keys \cup {Live!NoKey},
        got : {Live!None, "bars", "empty", "error"}, n : Int]
  BY DEF Live!NoCandles
<1>4. lmMarket' \in Live!Keys /\ lmClock' \in 0..MaxTicks
  BY <1>1 DEF LiveInv, LiveTypes
<1> QED BY <1>1, <1>2, <1>3, <1>4, CommitKeeps

LEMMA LiveStep == ASSUME LiveInv, [Live!Next]_(Live!vars) PROVE LiveInv'
<1>1. /\ lmMarket \in Live!Keys /\ lmView \in Views /\ lmClock \in 0..MaxTicks
      /\ lmCandles \in [key : Live!Keys \cup {Live!NoKey},
           got : {Live!None, "bars", "empty", "error"}, n : Int]
      /\ lmFetches \subseteq [key : Live!Keys, live : BOOLEAN]
  BY DEF LiveInv, LiveTypes
<1>2. ASSUME UNCHANGED << lmMarket, lmView, lmCandles, lmFetches, lmChart, lmImports,
               lmClock >> PROVE LiveInv'
  BY <1>2 DEF LiveInv, LiveTypes, ImportsAreDue, Live!ChartIsCurrent, Live!Shown
<1>3. ASSUME NEW key \in Live!Keys, Live!Select(key) PROVE LiveInv'
  <2>1. /\ lmMarket' = key /\ lmFetches' = Live!Asks(key)
        /\ UNCHANGED << lmView, lmCandles, lmClock >>
        /\ Live!Commit(lmMarket', lmView', lmCandles', lmClock', FALSE)
    BY <1>3 DEF Live!Select
  <2> QED BY <1>1, <2>1, AsksAre, CommitKeeps
<1>4. ASSUME NEW f \in [key : Live!Keys, live : BOOLEAN],
               NEW got \in {"bars", "empty", "error"},
             Live!CandlesAnswer(f, got)
      PROVE  LiveInv'
  <2>1. /\ lmFetches' = lmFetches \ {f} /\ UNCHANGED << lmMarket, lmView, lmClock >>
        /\ lmCandles' = IF f.live THEN [key |-> f.key, got |-> got, n |-> 1 - lmCandles.n]
                        ELSE lmCandles
        /\ Live!Commit(lmMarket', lmView', lmCandles', lmClock', FALSE)
    BY <1>4 DEF Live!CandlesAnswer
  <2>2. lmCandles' \in [key : Live!Keys \cup {Live!NoKey},
          got : {Live!None, "bars", "empty", "error"}, n : Int]
    BY <1>1, <2>1
  <2> QED BY <1>1, <2>1, <2>2, CommitKeeps
<1>5. CASE Live!NewsAnswer
  <2>1. PICK zones \in BOOLEAN : Live!Commit(lmMarket, lmView, lmCandles, lmClock, zones)
    BY <1>5 DEF Live!NewsAnswer
  <2>2. UNCHANGED << lmMarket, lmView, lmCandles, lmFetches, lmClock >>
    BY <1>5 DEF Live!NewsAnswer
  <2> QED BY <1>1, <2>1, <2>2, CommitKeeps
<1>6. CASE Live!DemoTick
  <2>1. /\ lmClock' \in 0..MaxTicks /\ UNCHANGED << lmMarket, lmView, lmCandles, lmFetches >>
        /\ Live!Commit(lmMarket', lmView', lmCandles', lmClock', FALSE)
    <3>1. lmClock < MaxTicks /\ lmClock' = lmClock + 1
      BY <1>6 DEF Live!DemoTick
    <3>2. lmClock' \in 0..MaxTicks
      BY <1>1, <3>1, LiveAssumption
    <3>3. UNCHANGED << lmMarket, lmView, lmCandles, lmFetches >>
      BY <1>6 DEF Live!DemoTick
    <3>4. Live!Commit(lmMarket', lmView', lmCandles', lmClock', FALSE)
      BY <1>6, <3>3 DEF Live!DemoTick
    <3> QED BY <3>2, <3>3, <3>4
  <2> QED BY <1>1, <2>1, CommitKeeps
<1>7. CASE Live!Leave
  <2>1. [lmView EXCEPT !.at = "away", !.full = FALSE] \in Views
    BY <1>1 DEF Views
  <2> QED BY <1>7, <2>1, VisitKeeps DEF Live!Leave
<1>8. CASE Live!Return
  <2>1. PICK where \in {"charts", "dashboard"} : Live!Visit(Live!Opened(where, lmView.demo))
    BY <1>8 DEF Live!Return
  <2>2. Live!Opened(where, lmView.demo) \in Views
    BY <1>1 DEF Live!Opened, Views, Live!OVERLAY_LABELS, Live!INDICATOR_LABELS, Live!Types
  <2> QED BY <2>1, <2>2, VisitKeeps
<1>9. ASSUME NEW key \in Live!Keys, NEW live \in BOOLEAN,
               NEW got \in {"bars", "empty", "error"},
             Live!CandlesAnswer([key |-> key, live |-> live], got)
      PROVE  LiveInv'
  BY <1>4, <1>9
<1> QED BY <1>2, <1>3, <1>5, <1>6, <1>7, <1>8, <1>9, ReadyKeeps, ControlsKeep
        DEF Live!Next, Live!ReadsAnswer, Live!vars

-----------------------------------------------------------------------------
\* The dashboard: its list, and the analyses of its panels.

Requests == [symbol : MarketSymbols, live : BOOLEAN, got : {Dashboard!NotRead} \cup Nat]
Configs == [agents : SUBSET PanelAgents, multi : BOOLEAN]
Dialogs ==
    [n : Dashboard!Panels, open : BOOLEAN, market : MarketSymbols,
     timeframe : MarketTimeframes, config : Configs,
     loading : BOOLEAN, error : BOOLEAN, status : {"idle", "done"}]
DashboardTypes ==
    /\ dbMarket \in [symbol : MarketSymbols, timeframe : MarketTimeframes]
    /\ dbServer \in [MarketSymbols -> Nat]
    /\ dbFetches \subseteq Requests /\ dbAsked \in Nat
    /\ dbSignals \in [of : MarketSymbols \cup {"none"}, list : {Dashboard!NotRead} \cup Nat,
         failed : BOOLEAN]
    /\ dbPanel \in Dialogs /\ dbRuns \subseteq [by : Dashboard!Panels, symbol : MarketSymbols]
    /\ dbStored \subseteq Configs

\* Every analysis under way was started by the panel or by one before it.
RunsAreKnown == Dashboard!OneRunPerPanel /\ \A r \in dbRuns : r.by <= dbPanel.n
\* What the backend has had of the selected symbol since its list was asked for last.
SinceAsked == dbAsked..dbServer[dbMarket.symbol]
\* The request that counts asks for the selected symbol, and what it has read is none of
\* what the backend had before: whatever this page adds to the list asks again.
LiveIsCurrent ==
    /\ dbAsked <= dbServer[dbMarket.symbol]
    /\ \A f, g \in dbFetches : f.live /\ g.live => f = g
    /\ \A f \in dbFetches : f.live =>
        f.symbol = dbMarket.symbol /\ f.got \in {Dashboard!NotRead} \cup SinceAsked
\* Without such a request the list is here, or could not be had.
ShownIsRead ==
    (\A f \in dbFetches : ~f.live) /\ ~dbSignals.failed =>
        dbSignals.of = dbMarket.symbol /\ dbSignals.list \in SinceAsked

DashboardInv == DashboardTypes /\ RunsAreKnown /\ LiveIsCurrent /\ ShownIsRead

LEMMA ConfigIs ==
    ASSUME dbStored \subseteq Configs
    PROVE  Dashboard!DEFAULT_CONFIG \in Configs /\ Dashboard!loadConfig \in Configs
<1>1. Dashboard!DEFAULT_CONFIG \in Configs
  BY DEF Dashboard!DEFAULT_CONFIG, Configs
<1>2. CASE dbStored # {}
  <2> DEFINE c == CHOOSE c \in dbStored : TRUE
  <2>1. c \in Configs
    BY <1>2
  <2>2. Dashboard!loadConfig = IF c.agents = {} THEN [c EXCEPT !.agents = PanelAgents] ELSE c
    BY <1>2 DEF Dashboard!loadConfig
  <2> HIDE DEF c
  <2> QED BY <1>1, <2>1, <2>2 DEF Configs
<1> QED BY <1>1, <1>2 DEF Dashboard!loadConfig

LEMMA UnopenedIs == ASSUME DashboardTypes PROVE Dashboard!Unopened \in Dialogs
<1>1. Dashboard!DEFAULT_CONFIG \in Configs
  BY DEF Dashboard!DEFAULT_CONFIG, Configs
<1> QED BY <1>1, DashboardAssumption DEF DashboardTypes, Dashboard!Unopened, Dialogs,
      Dashboard!Panels

LEMMA DashboardInit == Dashboard!Init => DashboardInv
<1> SUFFICES ASSUME Dashboard!Init PROVE DashboardInv
  OBVIOUS
<1>1. Dashboard!DEFAULT_CONFIG \in Configs
  BY DEF Dashboard!DEFAULT_CONFIG, Configs
<1>2. dbPanel \in Dialogs
  BY <1>1, DashboardAssumption DEF Dashboard!Init, Dashboard!Unopened, Dialogs, Dashboard!Panels
<1>3. [symbol |-> dbMarket.symbol, live |-> TRUE, got |-> Dashboard!NotRead] \in Requests
  BY DEF Dashboard!Init, Requests
<1>4. DashboardTypes
  BY <1>2, <1>3 DEF Dashboard!Init, DashboardTypes
<1> QED BY <1>4 DEF Dashboard!Init, DashboardInv, RunsAreKnown, Dashboard!OneRunPerPanel,
      LiveIsCurrent, ShownIsRead

\* A new request is the one that counts, whatever has changed.
LEMMA AsksKeeps ==
    ASSUME dbFetches \subseteq Requests, NEW s \in MarketSymbols, Dashboard!Ask(s),
           dbMarket'.symbol = s, dbServer' \in [MarketSymbols -> Nat]
    PROVE  /\ dbFetches' \subseteq Requests /\ dbAsked' \in Nat
           /\ LiveIsCurrent' /\ ShownIsRead'
<1> DEFINE new == [symbol |-> s, live |-> TRUE, got |-> Dashboard!NotRead]
<1>1. new \in Requests
  BY DEF Requests
<1>2. \A f \in dbFetches : [f EXCEPT !.live = FALSE] \in Requests /\
        [f EXCEPT !.live = FALSE].live = FALSE
  BY DEF Requests
<1>3. dbFetches' = {[f EXCEPT !.live = FALSE] : f \in dbFetches} \cup {new}
  BY DEF Dashboard!Asks, Dashboard!Ask
<1>6. dbAsked' \in Nat /\ dbAsked' <= dbServer'[dbMarket'.symbol]
  BY DEF Dashboard!Ask
<1>4. \A f \in dbFetches' : f \in Requests /\ (f.live => f = new)
  BY <1>1, <1>2, <1>3
<1>5. new \in dbFetches' /\ new.live /\ new.symbol = s /\ new.got = Dashboard!NotRead
  BY <1>3
<1> HIDE DEF new
<1> QED BY <1>4, <1>5, <1>6 DEF LiveIsCurrent, ShownIsRead

LEMMA SelectedKeeps ==
    ASSUME DashboardInv, NEW m \in [symbol : MarketSymbols, timeframe : MarketTimeframes],
             Dashboard!Selected(m), UNCHANGED dbSignals
    PROVE  /\ dbMarket' = m /\ dbServer' = dbServer
           /\ dbFetches' \subseteq Requests /\ dbAsked' \in Nat
           /\ LiveIsCurrent' /\ ShownIsRead'
<1>1. CASE m.symbol = dbMarket.symbol
  BY <1>1 DEF Dashboard!Selected, Dashboard!requests, DashboardInv, DashboardTypes,
       LiveIsCurrent, ShownIsRead, SinceAsked
<1>2. CASE m.symbol # dbMarket.symbol
  BY <1>2, AsksKeeps DEF Dashboard!Selected, DashboardInv, DashboardTypes
<1> QED BY <1>1, <1>2

LEMMA FetchKeeps ==
    ASSUME DashboardInv, NEW f \in dbFetches, Dashboard!Reads(f) \/ Dashboard!Answered(f) \/
             Dashboard!Fails(f)
    PROVE  DashboardInv'
<1>1. /\ f \in Requests /\ dbFetches \subseteq Requests /\ dbServer \in [MarketSymbols -> Nat]
      /\ dbMarket.symbol \in MarketSymbols /\ dbAsked \in Nat
      /\ dbSignals \in [of : MarketSymbols \cup {"none"}, list : {Dashboard!NotRead} \cup Nat,
           failed : BOOLEAN]
      /\ UNCHANGED << dbMarket, dbServer, dbAsked, dbPanel, dbRuns, dbStored >>
      /\ LiveIsCurrent /\ ShownIsRead /\ SinceAsked' = SinceAsked
  BY DEF DashboardInv, DashboardTypes, Dashboard!Reads, Dashboard!Answered, Dashboard!Fails,
           Dashboard!Held, SinceAsked
<1>2. CASE Dashboard!Reads(f)
  <2> DEFINE g == [f EXCEPT !.got = dbServer[f.symbol]]
  <2>1. g \in Requests /\ g.live = f.live /\ g.symbol = f.symbol /\ g.got = dbServer[f.symbol]
    BY <1>1 DEF Requests
  <2>2. dbFetches' = (dbFetches \ {f}) \cup {g} /\ dbSignals' = dbSignals
    BY <1>2 DEF Dashboard!Reads
  <2> HIDE DEF g
  <2>4. f.symbol = dbMarket.symbol => g.got \in SinceAsked
    BY <1>1, <2>1 DEF LiveIsCurrent, SinceAsked
  <2>3. dbFetches' \subseteq Requests /\ LiveIsCurrent' /\ ShownIsRead'
    BY <1>1, <2>1, <2>2, <2>4 DEF LiveIsCurrent, ShownIsRead
  <2> QED BY <1>1, <2>2, <2>3 DEF DashboardInv, DashboardTypes, RunsAreKnown,
        Dashboard!OneRunPerPanel
<1>3. CASE Dashboard!Answered(f) \/ Dashboard!Fails(f)
  <2>1. /\ dbFetches' = dbFetches \ {f}
        /\ ~f.live => dbSignals' = dbSignals
        /\ f.live => \/ dbSignals'.failed
                     \/ dbSignals'.of = f.symbol /\ dbSignals'.list = f.got /\
                          f.got # Dashboard!NotRead
        /\ dbSignals' \in [of : MarketSymbols \cup {"none"}, list : {Dashboard!NotRead} \cup Nat,
             failed : BOOLEAN]
    <3>1. CASE Dashboard!Answered(f)
      BY <1>1, <3>1 DEF Dashboard!Answered, Dashboard!Answer, Requests
    <3>2. CASE Dashboard!Fails(f)
      <4>1. dbFetches' = dbFetches \ {f} /\
              dbSignals' = IF f.live THEN [dbSignals EXCEPT !.of = f.symbol,
                  !.failed = TRUE] ELSE dbSignals
        BY <3>2 DEF Dashboard!Fails
      <4>2. f.symbol \in MarketSymbols
        BY <1>1 DEF Requests
      <4> QED BY <1>1, <4>1, <4>2
    <3> QED BY <1>3, <3>1, <3>2
  <2>2. dbFetches' \subseteq Requests /\ LiveIsCurrent'
    BY <1>1, <2>1 DEF LiveIsCurrent
  <2>3. ShownIsRead'
    BY <1>1, <2>1 DEF LiveIsCurrent, ShownIsRead
  <2> QED BY <1>1, <2>1, <2>2, <2>3 DEF DashboardInv, DashboardTypes, RunsAreKnown,
        Dashboard!OneRunPerPanel
<1> QED BY <1>2, <1>3

\* The panel is edited, closed, or left.
LEMMA PanelKeeps ==
    ASSUME DashboardInv, dbPanel' \in Dialogs, dbPanel'.n = dbPanel.n,
             dbPanel'.loading = dbPanel.loading,
           UNCHANGED << dbMarket, dbServer, dbSignals, dbFetches, dbAsked, dbRuns, dbStored >>
    PROVE  DashboardInv'
BY DEF DashboardInv, DashboardTypes, RunsAreKnown, Dashboard!OneRunPerPanel, LiveIsCurrent,
         ShownIsRead, SinceAsked

LEMMA OpenKeeps == ASSUME DashboardInv, Dashboard!openSignalDialog PROVE DashboardInv'
<1>1. /\ dbPanel' = [Dashboard!Unopened EXCEPT !.n = dbPanel.n + 1, !.open = TRUE,
           !.config = Dashboard!loadConfig]
      /\ dbPanel.n < MaxPanels
      /\ UNCHANGED << dbMarket, dbServer, dbSignals, dbFetches, dbAsked, dbRuns, dbStored >>
  BY DEF Dashboard!openSignalDialog, Dashboard!requests
<1>2. Dashboard!loadConfig \in Configs /\ Dashboard!Unopened \in Dialogs
  BY ConfigIs, UnopenedIs DEF DashboardInv, DashboardTypes
<1>3. dbPanel.n \in 0..MaxPanels /\ \A r \in dbRuns : r.by \in 0..MaxPanels /\ r.by <= dbPanel.n
  BY DEF DashboardInv, DashboardTypes, RunsAreKnown, Dialogs, Dashboard!Panels
<1>4. dbPanel.n + 1 \in Dashboard!Panels
  BY <1>1, <1>3, DashboardAssumption DEF Dashboard!Panels
<1>5. dbPanel' \in Dialogs /\ dbPanel'.n = dbPanel.n + 1
  BY <1>1, <1>2, <1>4 DEF Dialogs
<1>6. \A r \in dbRuns : r.by <= dbPanel'.n /\ r.by # dbPanel'.n
  BY <1>3, <1>5, DashboardAssumption
<1> QED BY <1>1, <1>5, <1>6 DEF DashboardInv, DashboardTypes, RunsAreKnown,
      Dashboard!OneRunPerPanel, LiveIsCurrent, ShownIsRead, SinceAsked

LEMMA SubmitKeeps == ASSUME DashboardInv, Dashboard!submit PROVE DashboardInv'
<1> DEFINE m == [symbol |-> dbPanel.market, timeframe |-> dbPanel.timeframe]
           r == [by |-> dbPanel.n, symbol |-> dbPanel.market]
<1>1. dbPanel \in Dialogs /\ dbPanel.config \in Configs /\ ~dbPanel.loading
  BY DEF Dashboard!submit, DashboardInv, DashboardTypes, Dialogs
<1>2. m \in [symbol : MarketSymbols, timeframe : MarketTimeframes] /\
        r \in [by : Dashboard!Panels, symbol : MarketSymbols]
  BY <1>1 DEF Dialogs
<1>3. /\ Dashboard!Selected(m) /\ UNCHANGED dbSignals
      /\ dbStored' \in {dbStored, {dbPanel.config}}
      /\ dbPanel' = [dbPanel EXCEPT !.loading = TRUE, !.error = FALSE]
      /\ dbRuns' = dbRuns \cup {r}
  BY DEF Dashboard!submit
<1>4. dbPanel' \in Dialogs /\ dbPanel'.n = dbPanel.n /\ dbPanel'.loading
  BY <1>1, <1>3 DEF Dialogs
<1>5. /\ dbMarket' = m /\ dbServer' = dbServer /\ dbFetches' \subseteq Requests
      /\ dbAsked' \in Nat /\ LiveIsCurrent' /\ ShownIsRead'
  BY <1>2, <1>3, SelectedKeeps
<1>6. DashboardTypes'
  BY <1>1, <1>2, <1>3, <1>4, <1>5 DEF DashboardInv, DashboardTypes
<1>7. \A s \in dbRuns : s.by # dbPanel.n /\ s.by <= dbPanel.n
  BY <1>1 DEF DashboardInv, RunsAreKnown, Dashboard!OneRunPerPanel
<1>8. r.by = dbPanel.n /\ dbPanel.n <= dbPanel.n
  BY <1>1, DashboardAssumption DEF Dialogs, Dashboard!Panels
<1> HIDE DEF r, m
<1>9. RunsAreKnown'
  BY <1>3, <1>4, <1>7, <1>8 DEF DashboardInv, RunsAreKnown, Dashboard!OneRunPerPanel
<1> QED BY <1>5, <1>6, <1>9 DEF DashboardInv

LEMMA EndedKeeps ==
    ASSUME DashboardInv, NEW r \in dbRuns, Dashboard!AnalysisEnds(r) \/
             Dashboard!AnalysisFails(r)
    PROVE  DashboardInv'
<1>1. PICK failed \in BOOLEAN : Dashboard!Ended(r, failed)
  BY DEF Dashboard!AnalysisEnds, Dashboard!AnalysisFails
<1>2. /\ r \in [by : Dashboard!Panels, symbol : MarketSymbols] /\ dbMarket.symbol \in MarketSymbols
      /\ dbPanel \in Dialogs
      /\ dbServer \in [MarketSymbols -> Nat] /\ dbFetches \subseteq Requests
  BY DEF DashboardInv, DashboardTypes
<1>3. dbServer' \in [MarketSymbols -> Nat]
  <2>1. CASE dbServer' = [dbServer EXCEPT ![r.symbol] = @ + 1]
    BY <1>2, <2>1
  <2>2. CASE dbServer' = dbServer
    BY <1>2, <2>2
  <2> QED BY <2>1, <2>2 DEF Dashboard!AnalysisEnds, Dashboard!AnalysisFails, Dashboard!Recorded
<1>4. /\ dbRuns' = dbRuns \ {r} /\ Dashboard!Ask(dbMarket.symbol)
      /\ dbPanel' = IF dbPanel.n # r.by THEN dbPanel
                    ELSE [dbPanel EXCEPT !.loading = FALSE, !.error = failed, !.status = "done"]
      /\ UNCHANGED << dbMarket, dbSignals, dbStored >>
  BY <1>1 DEF Dashboard!Ended
<1>5. dbFetches' \subseteq Requests /\ dbAsked' \in Nat /\ LiveIsCurrent' /\ ShownIsRead'
  BY <1>2, <1>3, <1>4, AsksKeeps
<1>6. dbPanel' \in Dialogs /\ dbPanel'.n = dbPanel.n /\ (r.by # dbPanel.n => dbPanel' = dbPanel)
  BY <1>2, <1>4 DEF Dialogs
<1>7. RunsAreKnown'
  BY <1>4, <1>6 DEF DashboardInv, RunsAreKnown, Dashboard!OneRunPerPanel
<1> QED BY <1>3, <1>4, <1>5, <1>6, <1>7 DEF DashboardInv, DashboardTypes

LEMMA EditKeeps ==
    ASSUME DashboardInv,
           \/ \E m \in [symbol : MarketSymbols, timeframe : MarketTimeframes] : Dashboard!Choose(m)
           \/ (\E a \in PanelAgents : Dashboard!toggleAgent(a)) \/ Dashboard!SelectAll \/
                Dashboard!MultiTimeframe
    PROVE  DashboardInv'
<1>1. dbPanel \in Dialogs
  BY DEF DashboardInv, DashboardTypes
<1>2. ASSUME NEW p \in Dialogs, p.n = dbPanel.n, p.loading = dbPanel.loading, Dashboard!Edit(p)
      PROVE  DashboardInv'
  BY <1>2, PanelKeeps DEF Dashboard!Edit, Dashboard!requests
<1>3. ASSUME NEW m \in [symbol : MarketSymbols, timeframe : MarketTimeframes], Dashboard!Choose(m)
      PROVE  DashboardInv'
  <2> DEFINE p == [dbPanel EXCEPT !.market = m.symbol, !.timeframe = m.timeframe]
  <2>1. p \in Dialogs /\ p.n = dbPanel.n /\ p.loading = dbPanel.loading
    BY <1>1 DEF Dialogs
  <2>2. Dashboard!Edit(p)
    BY <1>3 DEF Dashboard!Choose
  <2> HIDE DEF p
  <2> QED BY <1>2, <2>1, <2>2
<1>4. ASSUME NEW agents \in SUBSET PanelAgents,
               Dashboard!Edit([dbPanel EXCEPT !.config.agents = agents])
      PROVE  DashboardInv'
  <2> DEFINE p == [dbPanel EXCEPT !.config.agents = agents]
  <2>1. p \in Dialogs /\ p.n = dbPanel.n /\ p.loading = dbPanel.loading
    BY <1>1 DEF Dialogs, Configs
  <2> HIDE DEF p
  <2> QED BY <1>2, <1>4, <2>1 DEF p
<1>5. dbPanel.config.agents \subseteq PanelAgents /\ dbPanel.config.multi \in BOOLEAN
  BY <1>1 DEF Dialogs, Configs
<1>6. ASSUME NEW a \in PanelAgents, Dashboard!toggleAgent(a) PROVE DashboardInv'
  <2> DEFINE old == dbPanel.config.agents
             agents == IF a \in old THEN old \ {a} ELSE old \cup {a}
  <2>1. agents \in SUBSET PanelAgents
    BY <1>5
  <2>2. Dashboard!Edit([dbPanel EXCEPT !.config.agents = agents])
    BY <1>1, <1>6 DEF Dashboard!toggleAgent, Dialogs, Configs
  <2> HIDE DEF agents
  <2> QED BY <1>4, <2>1, <2>2
<1>7. CASE Dashboard!SelectAll
  <2> DEFINE agents == IF dbPanel.config.agents = PanelAgents THEN {} ELSE PanelAgents
  <2>1. Dashboard!Edit([dbPanel EXCEPT !.config.agents = agents])
    BY <1>1, <1>7 DEF Dashboard!SelectAll, Dialogs, Configs
  <2>2. agents \in SUBSET PanelAgents
    OBVIOUS
  <2> HIDE DEF agents
  <2> QED BY <1>4, <2>1, <2>2
<1>8. CASE Dashboard!MultiTimeframe
  <2> DEFINE p == [dbPanel EXCEPT !.config.multi = ~@]
  <2>1. p \in Dialogs /\ p.n = dbPanel.n /\ p.loading = dbPanel.loading
    BY <1>1 DEF Dialogs, Configs
  <2>2. Dashboard!Edit(p)
    BY <1>8 DEF Dashboard!MultiTimeframe
  <2> HIDE DEF p
  <2> QED BY <1>2, <2>1, <2>2
<1> QED BY <1>3, <1>6, <1>7, <1>8

\* What others add is not waited for.
LEMMA OthersKeep ==
    ASSUME DashboardInv, NEW s \in MarketSymbols, Dashboard!OthersAnalyse(s)
    PROVE  DashboardInv'
<1>1. /\ dbServer' = [dbServer EXCEPT ![s] = @ + 1]
      /\ UNCHANGED << dbMarket, dbSignals, dbFetches, dbAsked, dbPanel, dbRuns, dbStored >>
  BY DEF Dashboard!OthersAnalyse, Dashboard!Recorded, Dashboard!requests
<1>2. /\ dbServer \in [MarketSymbols -> Nat] /\ dbMarket.symbol \in MarketSymbols
      /\ dbAsked \in Nat /\ dbAsked <= dbServer[dbMarket.symbol]
  BY DEF DashboardInv, DashboardTypes, LiveIsCurrent
<1>3. dbServer' \in [MarketSymbols -> Nat] /\ dbAsked' <= dbServer'[dbMarket'.symbol]
      /\ SinceAsked \subseteq SinceAsked'
  BY <1>1, <1>2 DEF SinceAsked
<1>4. LiveIsCurrent' /\ ShownIsRead'
  BY <1>1, <1>3 DEF DashboardInv, LiveIsCurrent, ShownIsRead
<1> QED BY <1>1, <1>3, <1>4 DEF DashboardInv, DashboardTypes, RunsAreKnown,
      Dashboard!OneRunPerPanel

LEMMA DashboardStep == ASSUME DashboardInv,
    [Dashboard!Next]_(Dashboard!vars) PROVE DashboardInv'
<1>1. ASSUME UNCHANGED << dbMarket, dbServer, dbSignals, dbFetches, dbAsked, dbPanel, dbRuns,
                          dbStored >>
      PROVE  DashboardInv'
  BY <1>1 DEF DashboardInv, DashboardTypes, RunsAreKnown, Dashboard!OneRunPerPanel,
       LiveIsCurrent, ShownIsRead, SinceAsked
<1>2. ASSUME NEW m \in [symbol : MarketSymbols, timeframe : MarketTimeframes], Dashboard!Select(m)
      PROVE  DashboardInv'
  <2>1. Dashboard!Selected(m) /\ UNCHANGED << dbSignals, dbPanel, dbRuns, dbStored >>
    BY <1>2 DEF Dashboard!Select
  <2> QED BY <2>1, SelectedKeeps DEF DashboardInv, DashboardTypes, RunsAreKnown,
        Dashboard!OneRunPerPanel
<1>3. ASSUME Dashboard!Dismiss \/
               \E n \in Dashboard!Panels : Dashboard!TimeIsUp(n) PROVE DashboardInv'
  <2>1. dbPanel \in Dialogs
    BY DEF DashboardInv, DashboardTypes
  <2>2. dbPanel' \in Dialogs /\ dbPanel'.n = dbPanel.n /\ dbPanel'.loading = dbPanel.loading
    BY <1>3, <2>1 DEF Dashboard!Dismiss, Dashboard!TimeIsUp, Dialogs
  <2> QED BY <1>3, <2>2, PanelKeeps DEF Dashboard!Dismiss, Dashboard!TimeIsUp,
        Dashboard!requests
<1> QED BY <1>1, <1>2, <1>3, FetchKeeps, OpenKeeps, SubmitKeeps, EndedKeeps, EditKeeps,
        OthersKeep
        DEF Dashboard!Next, Dashboard!FilterHistory, Dashboard!vars, Dashboard!requests

LEMMA DashboardShows == DashboardInv => Dashboard!ListIsCurrent /\ Dashboard!OneRunPerPanel
BY DEF DashboardInv, ShownIsRead, SinceAsked, Dashboard!ListIsCurrent, RunsAreKnown

-----------------------------------------------------------------------------
\* Pre-signals: what an alarm stands on.

PreInv == psCandles \in 1..MIN_BARS /\ psSession \in Seq(PreSignal!Bar) /\ psSession # <<>> /\
    psAtr \in Ranges

\* The page sums as the lemmas about sums do.
LEMMA SumIsTheSame == ASSUME NEW f PROVE PreSignal!SumFunction(f) = SumFunction(f)
BY DEF PreSignal!SumFunction, SumFunction, PreSignal!SumFunctionOnSet, SumFunctionOnSet,
       PreSignal!FoldFunctionOnSet, FoldFunctionOnSet, PreSignal!MapThenFoldSet, MapThenFoldSet

LEMMA PreInit == PreSignal!Init => PreInv
<1> SUFFICES ASSUME PreSignal!Init PROVE PreInv
  OBVIOUS
<1>1. PICK b \in PreSignal!Bar : psSession = <<b>>
  <2>1. psSession \in [{1} -> PreSignal!Bar]
    BY DEF PreSignal!Init
  <2>2. psSession[1] \in PreSignal!Bar /\ psSession = <<psSession[1]>>
    BY <2>1
  <2> QED BY <2>2
<1>2. ASSUME NEW S, NEW x \in S PROVE <<x>> \in Seq(S) /\ <<x>> # <<>>
  OBVIOUS
<1> QED BY <1>1, <1>2 DEF PreSignal!Init, PreInv

LEMMA PreStep == ASSUME PreInv, [PreSignal!Next]_(PreSignal!vars) PROVE PreInv'
<1>1. PreSignal!Counted \in 1..MIN_BARS
  BY PreSignalAssumption DEF PreInv, PreSignal!Counted
<1>2. ASSUME NEW S, NEW s \in Seq(S), NEW x \in S
      PROVE  /\ Append(s, x) \in Seq(S) /\ Append(s, x) # <<>>
             /\ <<x>> \in Seq(S) /\ <<x>> # <<>>
             /\ s # <<>> => [s EXCEPT ![Len(s)] = x] \in Seq(S) /\
                  [s EXCEPT ![Len(s)] = x] # <<>>
  <2>1. Append(s, x) \in Seq(S) /\ Append(s, x) # <<>> /\ <<x>> \in Seq(S) /\ <<x>> # <<>>
    <3>1. Append(s, x) \in Seq(S) /\ Len(Append(s, x)) = Len(s) + 1 /\ Len(s) \in Nat
      OBVIOUS
    <3>2. <<x>> \in Seq(S) /\ Len(<<x>>) = 1 /\ Len(<<>>) = 0
      OBVIOUS
    <3> QED BY <3>1, <3>2
  <2>2. ASSUME s # <<>>
        PROVE  [s EXCEPT ![Len(s)] = x] \in Seq(S) /\ [s EXCEPT ![Len(s)] = x] # <<>>
    <3>1. Len(s) \in Nat /\ Len(s) \in 1..Len(s) /\ Len(<<>>) = 0
      BY <2>2
    <3> QED BY <3>1, ExceptSeq
  <2> QED BY <2>1, <2>2
<1>3. ASSUME NEW b \in PreSignal!Bar, PreSignal!NewBar(b) PROVE PreInv'
  BY <1>1, <1>2, <1>3 DEF PreInv, PreSignal!NewBar
<1>4. ASSUME NEW b \in PreSignal!Bar, PreSignal!Revise(b) PROVE PreInv'
  BY <1>2, <1>4 DEF PreInv, PreSignal!Revise
<1>5. ASSUME NEW b \in PreSignal!Bar, PreSignal!NewDay(b) PROVE PreInv'
  BY <1>1, <1>2, <1>5 DEF PreInv, PreSignal!NewDay
<1> QED BY <1>3, <1>4, <1>5 DEF PreSignal!Next, PreInv, PreSignal!vars

\* The sums over the candles of the day, and the prices they are compared with.
LEMMA LevelsAre ==
    ASSUME PreInv
    PROVE  /\ PreSignal!Volume \in Int /\ PreSignal!Scale \in Nat \ {0} /\
                PreSignal!lastClose \in Int
           /\ PreSignal!openingPrice \in Int /\ PreSignal!vwap \in Int /\ psAtr \in Nat
<1>1. IsFiniteSet(DOMAIN psSession) /\ DOMAIN psSession = 1..Len(psSession) /\
        Len(psSession) \in Nat \ {0}
  BY FS_Interval DEF PreInv
<1>2. ASSUME NEW i \in DOMAIN psSession
      PROVE  /\ psSession[i].open \in Nat /\ psSession[i].high \in Nat /\
                  psSession[i].low \in Nat
             /\ psSession[i].close \in Nat /\ psSession[i].volume \in Nat
  <2>1. psSession[i] \in PreSignal!Bar
    BY <1>1, ElementOfSeq DEF PreInv
  <2> QED BY <2>1, PreSignalAssumption DEF PreSignal!Bar
<1>3. PreSignal!Volume \in Int
  <2>1. [i \in DOMAIN psSession |-> psSession[i].volume] \in [DOMAIN psSession -> Int]
    BY <1>2
  <2> QED BY <1>1, <2>1, SumFunctionIsInt, SumIsTheSame DEF PreSignal!Volume
<1>4. PreSignal!PriceVolume \in Int
  <2> DEFINE f == [i \in DOMAIN psSession |->
                    (psSession[i].high + psSession[i].low + psSession[i].close) * psSession[i].volume]
  <2>1. ASSUME NEW i \in DOMAIN psSession
        PROVE  (psSession[i].high + psSession[i].low + psSession[i].close) * psSession[i].volume \in Int
    <3>1. ASSUME NEW a \in Nat, NEW b \in Nat, NEW c \in Nat, NEW d \in Nat
          PROVE  (a + b + c) * d \in Int
      BY SMT
    <3> QED BY <1>2, <3>1
  <2>2. f \in [DOMAIN psSession -> Int]
    BY <2>1
  <2> HIDE DEF f
  <2>3. SumFunction(f) \in Int
    BY <1>1, <2>2, SumFunctionIsInt
  <2> QED BY <2>3, SumIsTheSame DEF PreSignal!PriceVolume, f
<1>5. PreSignal!Scale \in Nat \ {0}
  BY <1>3 DEF PreSignal!Scale
<1>6. PreSignal!lastClose \in Int /\ PreSignal!openingPrice \in Int
  <2>1. Head(psSession) = psSession[1]
    BY DEF PreInv
  <2>2. 1 \in DOMAIN psSession /\ Len(psSession) \in DOMAIN psSession
    BY <1>1
  <2>3. ASSUME NEW a \in Nat, NEW b \in Nat PROVE a * b \in Int
    BY SMT
  <2> QED BY <1>2, <1>5, <2>1, <2>2, <2>3 DEF PreSignal!lastClose, PreSignal!openingPrice
<1> QED BY <1>3, <1>4, <1>5, <1>6, PreSignalAssumption DEF PreSignal!vwap, PreInv

LEMMA PreAlarms == ASSUME PreInv PROVE PreSignal!AlarmsAreWarranted
<1> DEFINE d == PreSignal!Distance(PreSignal!nearest.price)
           p == psAtr * PreSignal!Scale
<1>1. PreSignal!nearest \in {PreSignal!BE, PreSignal!OP} /\ PreSignal!nearest.price \in Int
  BY LevelsAre DEF PreSignal!nearest, PreSignal!zones, PreSignal!BE, PreSignal!OP
<1>2. d \in Nat
  BY <1>1, LevelsAre DEF PreSignal!Distance
<1>3. p \in Nat /\ (psAtr > 0 => p > 0)
  <2>1. ASSUME NEW a \in Nat, NEW b \in Nat \ {0} PROVE a * b \in Nat /\ (a > 0 => a * b > 0)
    BY SMT
  <2> QED BY <2>1, LevelsAre
<1>4. 1 * psAtr * PreSignal!Scale = p /\ 2 * psAtr * PreSignal!Scale = 2 * p /\
        3 * psAtr * PreSignal!Scale = 3 * p
  <2>1. ASSUME NEW a \in Nat, NEW b \in Nat
        PROVE  1 * a * b = a * b /\ 2 * a * b = 2 * (a * b) /\ 3 * a * b = 3 * (a * b)
    BY SMT
  <2> QED BY <2>1, LevelsAre
<1>5. \A n \in 1..3 : PreSignal!Within(n) <=> psAtr > 0 /\ d <= n * p
  <2>1. /\ PreSignal!Within(1) <=> psAtr > 0 /\ d <= p
        /\ PreSignal!Within(2) <=> psAtr > 0 /\ d <= 2 * p
        /\ PreSignal!Within(3) <=> psAtr > 0 /\ d <= 3 * p
    BY <1>4 DEF PreSignal!Within
  <2>2. p = 1 * p
    BY <1>3
  <2> HIDE DEF d, p
  <2>3. \A n \in 1..3 : n = 1 \/ n = 2 \/ n = 3
    OBVIOUS
  <2> QED BY <2>1, <2>2, <2>3
<1> HIDE DEF d, p
<1>6. /\ PreSignal!Severity \in 0..3 /\ (PreSignal!Severity >= 1 => psAtr > 0)
      /\ PreSignal!Severity = 1 => d <= 3 * p
      /\ PreSignal!Severity = 2 => d <= 2 * p
      /\ PreSignal!Severity = 3 => d <= p
  <2> DEFINE W == {n \in 1..3 : PreSignal!Within(n)}
  <2>1. W \in {{}, {3}, {2, 3}, {1, 2, 3}}
    BY <1>2, <1>3, <1>5
  <2>2. /\ Cardinality({}) = 0 /\ Cardinality({3}) = 1 /\ Cardinality({2, 3}) = 2
        /\ Cardinality({1, 2, 3}) = 3
    <3>1. Cardinality({}) = 0 /\ Cardinality({3}) = 1 /\ IsFiniteSet({3})
      BY FS_EmptySet, FS_Singleton
    <3>2. {3} \cup {2} = {2, 3} /\ {2, 3} \cup {1} = {1, 2, 3} /\ 2 \notin {3} /\
            1 \notin {2, 3}
      OBVIOUS
    <3>3. Cardinality({2, 3}) = 2 /\ IsFiniteSet({2, 3})
      BY <3>1, <3>2, FS_AddElement
    <3>4. Cardinality({1, 2, 3}) = 3
      BY <3>2, <3>3, FS_AddElement
    <3> QED BY <3>1, <3>3, <3>4
  <2>3. \A n \in W : n \in 1..3 /\ PreSignal!Within(n)
    OBVIOUS
  <2>4. PreSignal!Severity = Cardinality(W)
    BY DEF PreSignal!Severity, PreSignal!Cardinality, Cardinality
  <2> HIDE DEF W
  <2>5. CASE W = {}
    BY <2>2, <2>4, <2>5
  <2>6. CASE W = {3}
    BY <1>5, <2>2, <2>3, <2>4, <2>6
  <2>7. CASE W = {2, 3}
    BY <1>5, <2>2, <2>3, <2>4, <2>7
  <2>8. CASE W = {1, 2, 3}
    BY <1>3, <1>5, <2>2, <2>3, <2>4, <2>8
  <2> QED BY <2>1, <2>5, <2>6, <2>7, <2>8
<1> SUFFICES ASSUME PreSignal!level > 0
             PROVE  /\ \E z \in {PreSignal!BE, PreSignal!OP} :
                        PreSignal!Distance(z.price) <=
                            (IF PreSignal!level = 4 THEN 1 ELSE 4 - PreSignal!level) * psAtr * PreSignal!Scale
                    /\ PreSignal!level = 4 => PreSignal!direction # "bearish" /\
                         \E z \in {PreSignal!BE, PreSignal!OP} : PreSignal!lastClose >= z.price
  BY DEF PreSignal!AlarmsAreWarranted
<1>7. /\ PreSignal!level = IF PreSignal!Severity = 3 /\
           PreSignal!crossed THEN 4 ELSE PreSignal!Severity
      /\ PreSignal!ready
  <2>1. PreSignal!ready
    <3>1. ~PreSignal!ready => PreSignal!level = 0
      BY DEF PreSignal!level
    <3>2. PreSignal!level # 0
      OBVIOUS
    <3> QED BY <3>1, <3>2, Zenon
  <2> QED BY <2>1, Zenon DEF PreSignal!level
<1>8. PreSignal!Distance(PreSignal!nearest.price) <=
        (IF PreSignal!level = 4 THEN 1 ELSE 4 - PreSignal!level) * psAtr * PreSignal!Scale
  <2>1. CASE PreSignal!Severity = 3
    BY <1>4, <1>6, <1>7, <2>1 DEF d
  <2>2. CASE PreSignal!Severity = 2
    BY <1>4, <1>6, <1>7, <2>2 DEF d
  <2>3. CASE PreSignal!Severity = 1
    BY <1>4, <1>6, <1>7, <2>3 DEF d
  <2> QED BY <1>6, <1>7, <2>1, <2>2, <2>3
<1>9. PreSignal!level = 4 => PreSignal!direction # "bearish" /\
        PreSignal!lastClose >= PreSignal!nearest.price
  <2> SUFFICES ASSUME PreSignal!level = 4 PROVE PreSignal!direction # "bearish" /\
                        PreSignal!lastClose >= PreSignal!nearest.price
    OBVIOUS
  <2>1. PreSignal!Severity = 3 /\ PreSignal!lastClose >= PreSignal!nearest.price
    BY <1>6, <1>7 DEF PreSignal!crossed
  <2>2. CASE PreSignal!lastClose > PreSignal!nearest.price
    BY <2>1, <2>2 DEF PreSignal!direction
  <2>3. CASE PreSignal!lastClose = PreSignal!nearest.price
    <3>1. d = 0
      BY <2>3, LevelsAre DEF d, PreSignal!Distance
    <3>2. 4 * d < p
      BY <1>3, <1>6, <2>1, <3>1
    <3> QED BY <2>1, <3>2 DEF PreSignal!direction, d, p
  <2> QED BY <1>1, <2>1, <2>2, <2>3, LevelsAre
<1> QED BY <1>1, <1>8, <1>9

-----------------------------------------------------------------------------
\* The market intelligence: what a trend and a reading stand on.

\* The readings are those of candles that were loaded, or of none.
IntelInv == miMarket \in Intel!Readings(0) \/ \E n \in BarCounts : miMarket \in Intel!Readings(n)

LEMMA NoCandlesIs == Intel!NoCandles \in Intel!Readings(0)
<1> DEFINE m == [bars |-> 0, price |-> Intel!Null, ema20 |-> Intel!Null, ema50 |-> Intel!Null,
                 previousEma50 |-> Intel!Null, ema200 |-> Intel!Null, rsi |-> Intel!Null,
                     histogram |-> Intel!Null,
                 atr |-> Intel!Null, volume |-> Intel!Null]
<1>1. m \in Intel!Readings(0)
  BY DEF Intel!Readings, Intel!ema, Intel!rsi, Intel!macd, Intel!atr, Intel!volumes
<1> QED BY <1>1 DEF Intel!NoCandles

LEMMA IntelInit == Intel!Init => IntelInv
BY NoCandlesIs DEF Intel!Init, IntelInv

LEMMA IntelStep == ASSUME IntelInv, [Intel!Next]_(Intel!vars) PROVE IntelInv'
<1>1. ASSUME NEW n \in BarCounts, NEW m \in Intel!Readings(n), Intel!CandlesCome(m) PROVE IntelInv'
  BY <1>1 DEF Intel!CandlesCome, IntelInv
<1>2. CASE Intel!SelectTimeframe
  BY <1>2, NoCandlesIs DEF Intel!SelectTimeframe, IntelInv
<1>3. ASSUME miMarket' = miMarket PROVE IntelInv'
  BY <1>3 DEF IntelInv
<1> QED BY <1>1, <1>2, <1>3 DEF Intel!Next, Intel!AnalysisEnds, Intel!vars

\* What the readings are: with an average there are the shorter ones and the price, and
\* with the one of 50 candles there are the 30 that a reading asks for.
LEMMA ReadingsAre ==
    ASSUME IntelInv
    PROVE  /\ miMarket.bars \in Nat
           /\ \A e \in {miMarket.price, miMarket.ema20, miMarket.ema50, miMarket.previousEma50,
                        miMarket.ema200} : e = Intel!Null \/ e \in Nat \ {0}
           /\ miMarket.ema20 # Intel!Null => miMarket.price # Intel!Null
           /\ miMarket.ema50 # Intel!Null => miMarket.ema20 # Intel!Null /\ miMarket.bars >= 50
           /\ miMarket.previousEma50 # Intel!Null => miMarket.ema50 # Intel!Null
           /\ miMarket.ema200 # Intel!Null => miMarket.ema50 # Intel!Null
           /\ miMarket.rsi # Intel!Null => miMarket.rsi \in Int
           /\ miMarket.histogram # Intel!Null => miMarket.histogram \in Int /\
                miMarket.price # Intel!Null
<1>1. PICK n \in Nat : miMarket \in Intel!Readings(n)
  BY IntelAssumption DEF IntelInv
<1>2. /\ miMarket.bars = n /\ miMarket.price \in Intel!ema(n, 1)
      /\ miMarket.ema20 \in Intel!ema(n, 20)
      /\ miMarket.ema50 \in Intel!ema(n, 50) /\ miMarket.previousEma50 \in Intel!ema(n, 55)
      /\ miMarket.ema200 \in Intel!ema(n, 200) /\ miMarket.rsi \in Intel!rsi(n)
      /\ miMarket.histogram \in Intel!macd(n)
  BY <1>1 DEF Intel!Readings
<1>3. ASSUME NEW p \in Nat, NEW e \in Intel!ema(n, p)
      PROVE  /\ e = Intel!Null \/ e \in Nat \ {0}
             /\ e # Intel!Null <=> n >= p
  BY <1>3, IntelAssumption DEF Intel!ema, Intel!Null
<1>4. /\ miMarket.price = Intel!Null \/ miMarket.price \in Nat \ {0}
      /\ miMarket.price # Intel!Null <=> n >= 1
  BY <1>2, <1>3
<1>5. /\ miMarket.ema20 = Intel!Null \/ miMarket.ema20 \in Nat \ {0}
      /\ miMarket.ema20 # Intel!Null <=> n >= 20
  BY <1>2, <1>3
<1>6. /\ miMarket.ema50 = Intel!Null \/ miMarket.ema50 \in Nat \ {0}
      /\ miMarket.ema50 # Intel!Null <=> n >= 50
  BY <1>2, <1>3
<1>7. /\ miMarket.previousEma50 = Intel!Null \/ miMarket.previousEma50 \in Nat \ {0}
      /\ miMarket.previousEma50 # Intel!Null <=> n >= 55
  BY <1>2, <1>3
<1>8. /\ miMarket.ema200 = Intel!Null \/ miMarket.ema200 \in Nat \ {0}
      /\ miMarket.ema200 # Intel!Null <=> n >= 200
  BY <1>2, <1>3
<1>9. miMarket.rsi # Intel!Null => miMarket.rsi \in Int
  <2>1. \A x \in 0..100 : x \in Int
    OBVIOUS
  <2> QED BY <1>2, <2>1, IntelAssumption DEF Intel!rsi
<1>10. miMarket.histogram # Intel!Null => miMarket.histogram \in Int /\ n >= 34
  BY <1>2, IntelAssumption DEF Intel!macd
<1> QED BY <1>2, <1>4, <1>5, <1>6, <1>7, <1>8, <1>9, <1>10

\* A vote is for, against or none, and against where it is not for.
LEMMA VoteIs ==
    ASSUME NEW a, NEW b, NEW w \in Nat
    PROVE  /\ Intel!Vote(a, b, w) \in Int /\ -w <= Intel!Vote(a, b, w) /\
                Intel!Vote(a, b, w) <= w
           /\ (a = Intel!Null \/ b = Intel!Null) => Intel!Vote(a, b, w) = 0
           /\ (a # Intel!Null /\ b # Intel!Null) =>
                Intel!Vote(a, b, w) = IF a > b THEN w ELSE -w
BY DEF Intel!Vote

\* The five votes of the trend.
LEMMA TrendIs ==
    ASSUME IntelInv
    PROVE  /\ Intel!trendScore(miMarket) \in Int
           /\ (miMarket.ema20 # Intel!Null /\ miMarket.ema50 # Intel!Null) =>
                /\ (miMarket.price > miMarket.ema20 /\ miMarket.price > miMarket.ema50)
                    => Intel!trendScore(miMarket) >= 10
                /\ (~(miMarket.price > miMarket.ema20) /\ ~(miMarket.price > miMarket.ema50))
                    => Intel!trendScore(miMarket) <= -10
           /\ miMarket.ema50 = Intel!Null =>
                Intel!trendScore(miMarket) = Intel!Vote(miMarket.price, miMarket.ema20, 25)
<1> DEFINE v1 == Intel!Vote(miMarket.price, miMarket.ema50, 35)
           v2 == Intel!Vote(miMarket.price, miMarket.ema20, 25)
           v3 == Intel!Vote(miMarket.ema20, miMarket.ema50, 20)
           v4 == Intel!Vote(miMarket.price, miMarket.ema200, 20)
           v5 == Intel!Vote(miMarket.ema50, miMarket.previousEma50, 10)
<1>1. Intel!trendScore(miMarket) = v1 + v2 + v3 + v4 + v5
  BY DEF Intel!trendScore
<1>2. /\ v1 \in Int /\ v2 \in Int
      /\ v3 \in Int /\ -20 <= v3 /\ v3 <= 20
      /\ v4 \in Int /\ -20 <= v4 /\ v4 <= 20
      /\ v5 \in Int /\ -10 <= v5 /\ v5 <= 10
  BY VoteIs
<1>3. /\ miMarket.price # Intel!Null /\ miMarket.ema20 # Intel!Null =>
            v2 = IF miMarket.price > miMarket.ema20 THEN 25 ELSE -25
      /\ miMarket.price # Intel!Null /\ miMarket.ema50 # Intel!Null =>
            v1 = IF miMarket.price > miMarket.ema50 THEN 35 ELSE -35
  BY VoteIs
<1>4. /\ miMarket.ema50 = Intel!Null => v1 = 0 /\ v3 = 0 /\ v5 = 0
      /\ miMarket.ema200 = Intel!Null => v4 = 0
  BY VoteIs
<1>5. /\ miMarket.ema20 # Intel!Null => miMarket.price # Intel!Null
      /\ miMarket.ema200 # Intel!Null => miMarket.ema50 # Intel!Null
  BY ReadingsAre
<1> HIDE DEF v1, v2, v3, v4, v5
<1>6. miMarket.ema50 = Intel!Null => Intel!trendScore(miMarket) = v2
  BY <1>1, <1>2, <1>4, <1>5
<1> QED BY <1>1, <1>2, <1>3, <1>5, <1>6 DEF v2

LEMMA ClampIs ==
    ASSUME NEW x \in Int, NEW low \in Int, NEW high \in Int, low <= high
    PROVE  Intel!clamp(x, low, high) \in Int /\ low <= Intel!clamp(x, low, high) /\
             Intel!clamp(x, low, high) <= high
BY DEF Intel!clamp

LEMMA ShareIs ==
    ASSUME IntelInv, NEW factor \in Nat
    PROVE  Intel!Share(miMarket, factor) \in Int
<1>1. CASE miMarket.histogram = Intel!Null
  BY <1>1 DEF Intel!Share
<1>2. CASE miMarket.histogram # Intel!Null
  <2>1. miMarket.histogram \in Int /\ miMarket.price \in Nat \ {0}
    BY <1>2, ReadingsAre
  <2>2. Intel!Points \div 100 \in Int
    BY DEF Intel!Points
  <2>3. miMarket.histogram * factor * (Intel!Points \div 100) \in Int
    BY <2>1, <2>2
  <2> QED BY <1>2, <2>1, <2>3 DEF Intel!Share
<1> QED BY <1>1, <1>2

\* The relative strength and the histogram do not outweigh the averages of a reading.
LEMMA ReadIs ==
    ASSUME IntelInv, miMarket.ema20 # Intel!Null, miMarket.ema50 # Intel!Null
    PROVE  /\ (miMarket.price > miMarket.ema20 /\ miMarket.price > miMarket.ema50)
                => Intel!readScore(miMarket) >= 55000
           /\ (~(miMarket.price > miMarket.ema20) /\ ~(miMarket.price > miMarket.ema50))
                => Intel!readScore(miMarket) <= 45000 /\ ~(Intel!readScore(miMarket) >= 55000)
<1> DEFINE v1 == Intel!Vote(miMarket.price, miMarket.ema20, 12000)
           v2 == Intel!Vote(miMarket.price, miMarket.ema50, 14000)
           strength == Intel!clamp01(((miMarket.rsi - 45) * Intel!Points) \div 30)
           part == (strength * 14) \div 100
           v3 == IF miMarket.rsi = Intel!Null THEN 0 ELSE part - 7000
           v4 == Intel!clamp(Intel!Share(miMarket, 30), -10000, 10000)
<1>1. Intel!readScore(miMarket) = 50000 + v1 + v2 + v3 + v4
  BY DEF Intel!readScore
<1>2. /\ v1 = IF miMarket.price > miMarket.ema20 THEN 12000 ELSE -12000
      /\ v2 = IF miMarket.price > miMarket.ema50 THEN 14000 ELSE -14000
  BY VoteIs, ReadingsAre
<1>3. v3 \in Int /\ -7000 <= v3 /\ v3 <= 7000
  <2>1. CASE miMarket.rsi = Intel!Null
    BY <2>1
  <2>2. CASE miMarket.rsi # Intel!Null
    <3>1. ((miMarket.rsi - 45) * Intel!Points) \div 30 \in Int
      BY <2>2, ReadingsAre DEF Intel!Points
    <3>2. strength \in Int /\ 0 <= strength /\ strength <= 100000
      <4>1. ASSUME NEW x \in Int
            PROVE  Intel!clamp01(x) \in Int /\ 0 <= Intel!clamp01(x) /\
                     Intel!clamp01(x) <= 100000
        BY <4>1 DEF Intel!clamp01, Intel!clamp, Intel!Points
      <4> QED BY <3>1, <4>1
    <3> HIDE DEF strength
    <3>3. part \in Int /\ 0 <= part /\ part <= 14000
      BY <3>2
    <3> HIDE DEF part
    <3> QED BY <2>2, <3>3
  <2> QED BY <2>1, <2>2
<1>4. v4 \in Int /\ -10000 <= v4 /\ v4 <= 10000
  BY ShareIs, ClampIs
<1> HIDE DEF v1, v2, v3, v4
<1> QED BY <1>1, <1>2, <1>3, <1>4

\* The trend and the readings keep to the averages.
LEMMA IntelSays == ASSUME IntelInv PROVE Intel!TrendIsBacked /\ Intel!ReadsFollowTheAverages
<1>1. /\ miMarket.bars \in Nat
      /\ \A e \in {miMarket.price, miMarket.ema20, miMarket.ema50} : e = Intel!Null \/
           e \in Nat \ {0}
      /\ miMarket.ema20 # Intel!Null => miMarket.price # Intel!Null
      /\ miMarket.ema50 # Intel!Null => miMarket.ema20 # Intel!Null /\ miMarket.bars >= 50
  BY ReadingsAre
<1>2. Intel!ReadsFollowTheAverages
  <2> SUFFICES ASSUME miMarket.ema20 # Intel!Null, miMarket.ema50 # Intel!Null
               PROVE  /\ (miMarket.price > miMarket.ema20 /\ miMarket.price > miMarket.ema50)
                            => Intel!biasFromBars(miMarket) = "Bullish" /\
                                Intel!trend(miMarket) # "Bearish"
                      /\ (miMarket.price < miMarket.ema20 /\ miMarket.price < miMarket.ema50)
                            => Intel!biasFromBars(miMarket) = "Bearish" /\
                                Intel!trend(miMarket) # "Bullish"
    BY DEF Intel!ReadsFollowTheAverages
  <2>1. CASE miMarket.price > miMarket.ema20 /\ miMarket.price > miMarket.ema50
    BY <1>1, <2>1, TrendIs, ReadIs DEF Intel!biasFromBars, Intel!trend
  <2>2. CASE miMarket.price < miMarket.ema20 /\ miMarket.price < miMarket.ema50
    <3>1. ~(miMarket.price > miMarket.ema20) /\ ~(miMarket.price > miMarket.ema50)
      BY <1>1, <2>2
    <3> QED BY <1>1, <2>2, <3>1, TrendIs, ReadIs DEF Intel!biasFromBars, Intel!trend
  <2> QED BY <2>1, <2>2
<1>3. Intel!TrendIsBacked
  <2>1. CASE miMarket.ema50 = Intel!Null
    <3>1. Intel!trendScore(miMarket) = Intel!Vote(miMarket.price, miMarket.ema20, 25)
      BY <2>1, TrendIs
    <3>2. CASE miMarket.ema20 = Intel!Null
      <4>1. Intel!trendScore(miMarket) = 0
        BY <3>1, <3>2, VoteIs
      <4> QED BY <4>1 DEF Intel!TrendIsBacked, Intel!trend
    <3>3. CASE miMarket.ema20 # Intel!Null
      <4>1. Intel!trendScore(miMarket) = IF miMarket.price > miMarket.ema20 THEN 25 ELSE -25
        BY <1>1, <3>1, <3>3, VoteIs
      <4> QED BY <1>1, <3>3, <4>1 DEF Intel!TrendIsBacked, Intel!trend
    <3> QED BY <3>2, <3>3
  <2>2. CASE miMarket.ema50 # Intel!Null
    <3>1. miMarket.price \in Nat /\ miMarket.ema20 \in Nat /\ miMarket.ema50 \in Nat
          /\ miMarket.ema20 # Intel!Null
      BY <1>1, <2>2
    <3>2. Intel!trendScore(miMarket) \in Int
      BY TrendIs
    <3>3. (~(miMarket.price > miMarket.ema20) /\ ~(miMarket.price > miMarket.ema50))
            => Intel!trendScore(miMarket) <= -10
      BY <2>2, <3>1, TrendIs
    <3>4. (miMarket.price > miMarket.ema20 /\ miMarket.price > miMarket.ema50)
            => Intel!trendScore(miMarket) >= 10
      BY <2>2, <3>1, TrendIs
    <3> QED BY <2>2, <3>1, <3>2, <3>3, <3>4 DEF Intel!TrendIsBacked, Intel!trend
  <2> QED BY <2>1, <2>2
<1> QED BY <1>2, <1>3

-----------------------------------------------------------------------------
\* The feed of signals: its list, and the candles of what it lists.

FeedShapes ==
    /\ DOMAIN sfFilters = {"symbol", "frame", "type", "agent", "min"}
    /\ DOMAIN sfRequest = {"st", "symbol", "n"}
    /\ DOMAIN sfReads = {"here", "asked", "waits"}
    /\ DOMAIN sfSignals = {"of", "n", "list", "failed"}
\* The list that is asked for is that of the selected symbol, and the candles that
\* are asked for are those of the symbols on display.
FeedInv ==
    /\ FeedShapes /\ Feed!FeedIsSettled
    /\ sfRequest.symbol = sfFilters.symbol /\ sfReads.asked = Feed!Tracked

LEMMA FeedInit == Feed!Init => FeedInv
<1> SUFFICES ASSUME Feed!Init PROVE FeedInv
  OBVIOUS
<1>1. Feed!Tracked = {}
  <2>1. DOMAIN sfSignals.list = {}
    BY DEF Feed!Init
  <2> HIDE DEF Feed!Init
  <2> QED BY <2>1 DEF Feed!Tracked
<1> QED BY <1>1 DEF Feed!Init, FeedInv, FeedShapes, Feed!FeedIsSettled, Feed!DEFAULT_FILTERS,
      Feed!Asked, Feed!None

\* Which symbols are tracked is a matter of the list alone.
LEMMA TrackedIs == sfSignals'.list = sfSignals.list => Feed!Tracked' = Feed!Tracked
BY DEF Feed!Tracked

\* A filter that is chosen asks again when the symbol is another.
LEMMA ChooseKeepsFeed ==
    ASSUME FeedInv, NEW f, DOMAIN f = {"symbol", "frame", "type", "agent", "min"},
             Feed!Choose(f)
    PROVE  FeedInv'
<1>1. Feed!Tracked' = Feed!Tracked
  BY TrackedIs DEF Feed!Choose
<1>2. sfFilters' = f /\ UNCHANGED << sfSignals, sfReads >>
      /\ sfRequest' = IF f.symbol = sfFilters.symbol THEN sfRequest ELSE Feed!Asked(f.symbol)
  BY DEF Feed!Choose
<1>3. CASE f.symbol = sfFilters.symbol
  BY <1>1, <1>2, <1>3 DEF FeedInv, FeedShapes, Feed!FeedIsSettled
<1>4. CASE f.symbol # sfFilters.symbol
  BY <1>1, <1>2, <1>4 DEF FeedInv, FeedShapes, Feed!FeedIsSettled, Feed!Asked
<1> QED BY <1>3, <1>4

LEMMA AnswerKeepsFeed == ASSUME FeedInv, Feed!Answered PROVE FeedInv'
<1> HIDE DEF Feed!Tracked, Feed!Listed
<1>1. /\ sfRequest' = [sfRequest EXCEPT !.st = "here"] /\ sfFilters' = sfFilters
      /\ sfSignals'.of = sfRequest.symbol /\ DOMAIN sfSignals' = {"of", "n", "list", "failed"}
      /\ sfReads' = IF Feed!Tracked' = sfReads.asked THEN sfReads
                    ELSE [sfReads EXCEPT !.asked = Feed!Tracked', !.waits = TRUE]
  BY DEF Feed!Answered, Feed!Held, Feed!Follow
<1>2. sfReads'.asked = Feed!Tracked' /\ DOMAIN sfReads' = DOMAIN sfReads
      /\ (~sfReads'.waits => sfReads' = sfReads /\ Feed!Tracked' = Feed!Tracked)
  BY <1>1 DEF FeedInv, FeedShapes
<1> QED BY <1>1, <1>2 DEF FeedInv, FeedShapes, Feed!FeedIsSettled

LEMMA FeedStep == ASSUME FeedInv, [Feed!Next]_(Feed!vars) PROVE FeedInv'
<1>1. CASE \/ \E c \in Cycles, later \in {0, 1} : Feed!record_cycle(c, later)
           \/ Feed!Close \/ (\E i \in 1..FEED_LIMIT : Feed!View(i)) \/ UNCHANGED Feed!vars
  <2>1. UNCHANGED << sfFilters, sfSignals, sfRequest, sfReads >>
    BY <1>1 DEF Feed!record_cycle, Feed!Close, Feed!View, Feed!vars
  <2> QED BY <2>1, TrackedIs DEF FeedInv, FeedShapes, Feed!FeedIsSettled
<1>2. CASE Feed!query
  BY <1>2, TrackedIs DEF Feed!query, Feed!Held, FeedInv, FeedShapes, Feed!FeedIsSettled
<1>3. CASE Feed!Fails
  <2>1. sfSignals'.list = sfSignals.list /\ sfSignals'.failed = TRUE /\
          DOMAIN sfSignals' = DOMAIN sfSignals
    BY <1>3 DEF Feed!Fails, FeedInv, FeedShapes
  <2> QED BY <1>3, <2>1, TrackedIs DEF Feed!Fails, Feed!Held, FeedInv, FeedShapes,
        Feed!FeedIsSettled
<1>4. CASE Feed!CandlesCome
  BY <1>4, TrackedIs DEF Feed!CandlesCome, Feed!Held, FeedInv, FeedShapes, Feed!FeedIsSettled
<1>5. ASSUME NEW f, Feed!Choose(f), DOMAIN f = {"symbol", "frame", "type", "agent", "min"}
      PROVE  FeedInv'
  BY <1>5, ChooseKeepsFeed
<1>6. CASE \/ \E s \in MarketSymbols \cup {"all"} : Feed!setSymbol(s)
           \/ \E x \in Feed!SIGNAL_TIMEFRAMES \cup {"all"} : Feed!setFrame(x)
           \/ \E t \in Feed!ANALYSIS_TYPES : Feed!setAnalysisType(t)
           \/ \E a \in Feed!AGENT_FILTERS : Feed!setAgent(a)
           \/ \E m \in Minimums : Feed!setMinConfidence(m)
           \/ Feed!resetFilters
  <2>1. \A s : /\ DOMAIN [sfFilters EXCEPT !.symbol = s] = DOMAIN sfFilters
               /\ DOMAIN [sfFilters EXCEPT !.frame = s] = DOMAIN sfFilters
               /\ DOMAIN [sfFilters EXCEPT !.type = s] = DOMAIN sfFilters
               /\ DOMAIN [sfFilters EXCEPT !.agent = s] = DOMAIN sfFilters
               /\ DOMAIN [sfFilters EXCEPT !.min = s] = DOMAIN sfFilters
    OBVIOUS
  <2>2. DOMAIN Feed!DEFAULT_FILTERS = {"symbol", "frame", "type", "agent", "min"}
        /\ DOMAIN sfFilters = {"symbol", "frame", "type", "agent", "min"}
    BY DEF Feed!DEFAULT_FILTERS, FeedInv, FeedShapes
  <2> QED BY <1>5, <1>6, <2>1, <2>2
          DEF Feed!setSymbol, Feed!setFrame, Feed!setAnalysisType, Feed!setAgent,
                Feed!setMinConfidence, Feed!resetFilters
<1>7. CASE Feed!Answered
  BY <1>7, AnswerKeepsFeed
<1> QED BY <1>1, <1>2, <1>3, <1>4, <1>6, <1>7 DEF Feed!Next

\* The list as a matter of the store.
ListedOf(st, s, n) == {i \in 1..n : s \in {"all", st[i].symbol}}
ListFrom(st, s, n, limit) ==
    LET cycles == Only(st, ListedOf(st, s, n))
        last == Len(cycles)
        length == IF 4 * last > limit THEN limit ELSE 4 * last
    IN [i \in 1..length |-> Feed!Record(cycles[last - (i - 1) \div 4])[1 + ((i - 1) % 4)]]

LEMMA ListedIsFrom ==
    \A s, n, limit : Feed!Listed(s, n, limit) = ListFrom(sfStore, s, n, limit)
BY DEF Feed!Listed, Feed!Of, ListFrom, ListedOf, Only, Place, Feed!Only, Feed!Place,
       Cardinality, Feed!Cardinality

Opinions == {"BULLISH", "BEARISH", "NEUTRAL"}
StoredCycles ==
    [symbol : MarketSymbols, technical : Opinions, news : Opinions, approved : BOOLEAN, seen : Nat,
     heard : Nat, score : Nat, timeframe : Feed!SIGNAL_TIMEFRAMES, time : Nat]
InOrderOfTime(st) == \A i, j \in DOMAIN st : i <= j => st[i].time <= st[j].time

\* A longer store lists the same of its first cycles.
LEMMA ListStays ==
    ASSUME NEW st \in Seq(StoredCycles), NEW c, NEW s, NEW n \in 0..Len(st), NEW limit
    PROVE  ListFrom(Append(st, c), s, n, limit) = ListFrom(st, s, n, limit)
<1> DEFINE tt == Append(st, c)
           K == ListedOf(st, s, n)
<1>1. \A i \in 1..n : tt[i] = st[i]
  OBVIOUS
<1> HIDE DEF tt
<1>2. ListedOf(tt, s, n) = K
  BY <1>1 DEF ListedOf
<1>3. K \in SUBSET Int /\ K \subseteq 1..n /\ IsFiniteSet(K)
  <2>1. K \subseteq 1..n /\ IsFiniteSet(1..n) /\ 1..n \subseteq Int
    BY FS_Interval DEF ListedOf
  <2> HIDE DEF K
  <2> QED BY <2>1, FS_Subset
<1> HIDE DEF K
<1>4. Only(tt, K) = Only(st, K)
  BY <1>1, <1>3, OnlyAgrees
<1> QED BY <1>2, <1>4 DEF ListFrom, K, tt

FeedRecords ==
    [symbol : MarketSymbols, time : Nat,
     agent : {"decision_maker", "risk_manager", "news_monitor", "technical_analyst"},
     kind : {"decision", "risk", "news", "technical"},
     direction : Opinions \cup {"SKIP", "SELL", "BUY", "APPROVED", "VETO"}, confidence : Nat,
     timeframe : Feed!SIGNAL_TIMEFRAMES \cup {Feed!None}, sentiment : BOOLEAN]
LEMMA RecordIs ==
    ASSUME NEW c \in StoredCycles, NEW k \in 1..4
    PROVE  Feed!Record(c)[k] \in FeedRecords /\ Feed!Record(c)[k].time = c.time
<1>1. k = 1 \/ k = 2 \/ k = 3 \/ k = 4
  OBVIOUS
<1>2. /\ c.symbol \in MarketSymbols /\ c.time \in Nat /\ c.technical \in Opinions
      /\ c.news \in Opinions /\ c.seen \in Nat /\ c.heard \in Nat /\ c.score \in Nat
      /\ c.timeframe \in Feed!SIGNAL_TIMEFRAMES
  BY DEF StoredCycles
<1>3. Feed!decide(c) \in {"SKIP", "SELL", "BUY"}
  BY DEF Feed!decide
<1>4. CASE k = 1
  <2>1. Feed!Record(c)[1] = [symbol |-> c.symbol, time |-> c.time,
        agent |-> "decision_maker", kind |-> "decision", direction |-> Feed!decide(c),
        confidence |-> c.score, timeframe |-> Feed!None, sentiment |-> FALSE]
    BY DEF Feed!Record
  <2> QED BY <1>2, <1>3, <1>4, <2>1 DEF FeedRecords
<1>5. CASE k = 2
  <2>1. Feed!Record(c)[2] = [symbol |-> c.symbol, time |-> c.time,
        agent |-> "risk_manager", kind |-> "risk",
        direction |-> IF c.approved THEN "APPROVED" ELSE "VETO",
        confidence |-> IF c.approved THEN 10 ELSE 0, timeframe |-> Feed!None, sentiment |-> FALSE]
    BY DEF Feed!Record
  <2> QED BY <1>2, <1>3, <1>5, <2>1 DEF FeedRecords
<1>6. CASE k = 3
  <2>1. Feed!Record(c)[3] = [symbol |-> c.symbol, time |-> c.time,
        agent |-> "news_monitor", kind |-> "news", direction |-> c.news,
        confidence |-> c.heard, timeframe |-> Feed!None, sentiment |-> TRUE]
    BY DEF Feed!Record
  <2> QED BY <1>2, <1>3, <1>6, <2>1 DEF FeedRecords
<1>7. CASE k = 4
  <2>1. Feed!Record(c)[4] = [symbol |-> c.symbol, time |-> c.time,
        agent |-> "technical_analyst", kind |-> "technical", direction |-> c.technical,
        confidence |-> c.seen, timeframe |-> c.timeframe, sentiment |-> FALSE]
    BY DEF Feed!Record
  <2> QED BY <1>2, <1>3, <1>7, <2>1 DEF FeedRecords
<1> QED BY <1>1, <1>4, <1>5, <1>6, <1>7

\* The list holds records, the newest first.
LEMMA FeedListIs ==
    ASSUME NEW st \in Seq(StoredCycles), InOrderOfTime(st), NEW s, NEW n \in 0..Len(st),
           NEW limit \in Nat
    PROVE  LET r == ListFrom(st, s, n, limit)
           IN  /\ r \in Seq(FeedRecords)
               /\ \A i, j \in DOMAIN r : i <= j => r[j].time <= r[i].time
<1> DEFINE K == ListedOf(st, s, n)
           cs == Only(st, K)
           last == Len(cs)
           len == IF 4 * last > limit THEN limit ELSE 4 * last
           r == ListFrom(st, s, n, limit)
<1>1. K \in SUBSET DOMAIN st
  BY DEF ListedOf
<1> HIDE DEF K
<1>2. /\ cs \in Seq(StoredCycles) /\ DOMAIN cs = 1..Cardinality(K) /\ Cardinality(K) \in Nat
      /\ \E from \in [1..Cardinality(K) -> K] :
           /\ \A x, y \in 1..Cardinality(K) : x < y => from[x] < from[y]
           /\ \A x \in 1..Cardinality(K) : cs[x] = st[from[x]]
  BY ZenonT(60), <1>1, OnlyIs
<1>3. InOrderOfTime(cs)
  <2>1. PICK from \in [1..Cardinality(K) -> K] :
           /\ \A x, y \in 1..Cardinality(K) : x < y => from[x] < from[y]
           /\ \A x \in 1..Cardinality(K) : cs[x] = st[from[x]]
    BY <1>2
  <2>2. ASSUME NEW x \in DOMAIN cs, NEW y \in DOMAIN cs, x <= y PROVE cs[x].time <= cs[y].time
    <3>1. from[x] \in DOMAIN st /\ from[y] \in DOMAIN st /\ from[x] \in Int /\ from[y] \in Int
      BY <1>1, <1>2, <2>1
    <3>2. from[x] <= from[y]
      BY <1>2, <2>1, <2>2, <3>1
    <3> QED BY <1>2, <2>1, <3>1, <3>2 DEF InOrderOfTime
  <2> QED BY <2>2 DEF InOrderOfTime
<1>4. r = [i \in 1..len |-> Feed!Record(cs[last - (i - 1) \div 4])[1 + ((i - 1) % 4)]]
  BY DEF ListFrom, K
<1> HIDE DEF cs, r
<1>6. last \in Nat /\ len \in Nat /\ len <= 4 * last /\ DOMAIN cs = 1..last
  BY <1>2
<1>12. \A x \in DOMAIN cs : cs[x] \in StoredCycles
  BY <1>2, ElementOfSeq
<1> HIDE DEF last
<1>7. ASSUME NEW i \in 1..len
      PROVE  /\ last - (i - 1) \div 4 \in DOMAIN cs /\ 1 + ((i - 1) % 4) \in 1..4
             /\ i \in Int /\ (i - 1) \div 4 \in Int
  BY <1>6
<1>8. ASSUME NEW i \in 1..len
      PROVE  r[i] \in FeedRecords /\ r[i].time = cs[last - (i - 1) \div 4].time
  <2>1. cs[last - (i - 1) \div 4] \in StoredCycles
    BY <1>7, <1>12
  <2> QED BY <1>4, <1>7, <2>1, RecordIs
<1>9. r \in Seq(FeedRecords) /\ DOMAIN r = 1..len
  <2>1. r \in [1..len -> FeedRecords]
    BY <1>4, <1>8
  <2> HIDE DEF len
  <2> QED BY <1>6, <2>1
<1>10. ASSUME NEW i \in DOMAIN r, NEW j \in DOMAIN r, i <= j PROVE r[j].time <= r[i].time
  <2>1. i \in 1..len /\ j \in 1..len
    BY <1>9
  <2>2. (i - 1) \div 4 <= (j - 1) \div 4
    BY <1>7, <1>10, <2>1
  <2>3. last - (j - 1) \div 4 <= last - (i - 1) \div 4
    BY <1>6, <1>7, <2>1, <2>2
  <2> QED BY <1>3, <1>7, <1>8, <2>1, <2>3 DEF InOrderOfTime
<1> QED BY <1>9, <1>10 DEF r

\* A shorter list is the beginning of a longer one.
LEMMA ShorterIs ==
    ASSUME NEW st \in Seq(StoredCycles), NEW s, NEW n \in 0..Len(st), NEW limit \in Nat,
           NEW less \in Nat, less <= limit
    PROVE  /\ \A i : i \in DOMAIN ListFrom(st, s, n, less)
                   <=> i \in DOMAIN ListFrom(st, s, n, limit) /\ i \in 1..less
           /\ \A i \in DOMAIN ListFrom(st, s, n, less) :
                ListFrom(st, s, n, less)[i] = ListFrom(st, s, n, limit)[i]
<1> DEFINE K == ListedOf(st, s, n)
           last == Len(Only(st, K))
           Length(l) == IF 4 * last > l THEN l ELSE 4 * last
           At(i) == Feed!Record(Only(st, K)[last - (i - 1) \div 4])[1 + ((i - 1) % 4)]
<1>1. \A l : ListFrom(st, s, n, l) = [i \in 1..Length(l) |-> At(i)]
  BY DEF ListFrom
<1>2. last \in Nat
  <2>1. K \in SUBSET DOMAIN st
    BY DEF ListedOf
  <2> HIDE DEF K
  <2>2. Only(st, K) \in Seq(StoredCycles)
    BY <2>1, OnlyIs
  <2> QED BY <2>2
<1> HIDE DEF At, last
<1>3. 1..Length(less) = 1..Length(limit) \cap 1..less
  BY <1>2
<1> HIDE DEF Length
<1> QED BY ZenonT(60), <1>1, <1>3

\* The list is what the store held when it was asked.
ListInv ==
    /\ sfStore \in Seq(StoredCycles) /\ InOrderOfTime(sfStore)
    /\ sfSignals.n \in 0..Len(sfStore) /\ sfRequest.n \in 0..Len(sfStore)
    /\ sfSignals.list = ListFrom(sfStore, sfSignals.of, sfSignals.n, FEED_LIMIT)

LEMMA ListInit == Feed!Init => ListInv
<1> SUFFICES ASSUME Feed!Init PROVE ListInv
  OBVIOUS
<1>1. /\ sfStore = << >>
      /\ sfSignals = [of |-> Feed!None, n |-> 0, list |-> << >>, failed |-> FALSE]
      /\ sfRequest.n = 0
  BY DEF Feed!Init, Feed!Asked
<1>2. ListedOf(sfStore, Feed!None, 0) = {} /\ Cardinality({}) = 0
  BY FS_EmptySet DEF ListedOf
<1>3. Only(sfStore, {}) = << >>
  <2>1. 1..0 = {}
    OBVIOUS
  <2> QED BY <1>2, <2>1 DEF Only
<1>4. ListFrom(sfStore, Feed!None, 0, FEED_LIMIT) = << >>
  <2> DEFINE r(i) == Feed!Record(<< >>[0 - (i - 1) \div 4])[1 + ((i - 1) % 4)]
  <2>1. Len(<< >>) = 0 /\ (IF 4 * 0 > FEED_LIMIT THEN FEED_LIMIT ELSE 4 * 0) = 0
    BY FeedAssumption
  <2>2. ListFrom(sfStore, Feed!None, 0, FEED_LIMIT) = [i \in 1..0 |-> r(i)]
    BY <1>2, <1>3, <2>1 DEF ListFrom
  <2> HIDE DEF r
  <2>3. [i \in 1..0 |-> r(i)] = << >>
    OBVIOUS
  <2> QED BY <2>2, <2>3
<1>5. /\ sfStore \in Seq(StoredCycles) /\ Len(sfStore) = 0 /\ InOrderOfTime(sfStore)
  BY <1>1 DEF InOrderOfTime
<1> QED BY <1>1, <1>4, <1>5 DEF ListInv

\* What is added to the store is later than all it holds.
LEMMA RecordKeepsList ==
    ASSUME ListInv, NEW c \in Cycles, NEW later \in {0, 1}, Feed!record_cycle(c, later)
    PROVE  ListInv'
<1> DEFINE last == IF sfStore = << >> THEN 0 ELSE sfStore[Len(sfStore)].time
           x == [f \in DOMAIN c \cup {"time"} |-> IF f = "time" THEN last + later ELSE c[f]]
<1>1. /\ sfStore' = Append(sfStore, x)
      /\ UNCHANGED << sfSignals, sfRequest >>
  BY DEF Feed!record_cycle
<1>2. sfStore \in Seq(StoredCycles) /\ InOrderOfTime(sfStore) /\ Len(sfStore) \in Nat
      /\ DOMAIN sfStore = 1..Len(sfStore)
  BY DEF ListInv
<1>3. \A i \in DOMAIN sfStore : sfStore[i] \in StoredCycles /\ sfStore[i].time \in Nat
  <2>1. \A i \in DOMAIN sfStore : sfStore[i] \in StoredCycles
    BY <1>2, ElementOfSeq
  <2> QED BY <2>1 DEF StoredCycles
<1>4. last \in Nat /\ \A i \in DOMAIN sfStore : sfStore[i].time <= last
  <2>1. CASE sfStore = << >>
    BY <2>1
  <2>2. CASE sfStore # << >>
    <3>1. Len(sfStore) \in DOMAIN sfStore
      BY <1>2, <2>2
    <3> QED BY <1>2, <1>3, <2>2, <3>1 DEF InOrderOfTime
  <2> QED BY <2>1, <2>2
<1> HIDE DEF last
<1>5. x \in StoredCycles /\ x.time = last + later
  <2>1. c \in [symbol : MarketSymbols, technical : Opinions, news : Opinions, approved : BOOLEAN,
               seen : Nat, heard : Nat, score : Nat, timeframe : Feed!SIGNAL_TIMEFRAMES]
    BY FeedAssumption DEF Opinions
  <2>2. x = [symbol |-> c.symbol, technical |-> c.technical, news |-> c.news,
             approved |-> c.approved, seen |-> c.seen, heard |-> c.heard, score |-> c.score,
             timeframe |-> c.timeframe, time |-> last + later]
    BY <2>1
  <2>3. last + later \in Nat
    BY <1>4
  <2> HIDE DEF x
  <2> QED BY <2>1, <2>2, <2>3 DEF StoredCycles
<1> HIDE DEF x
<1>6. /\ sfStore' \in Seq(StoredCycles) /\ Len(sfStore') = Len(sfStore) + 1
      /\ DOMAIN sfStore' = 1..(Len(sfStore) + 1)
      /\ \A i \in 1..Len(sfStore) : sfStore'[i] = sfStore[i]
      /\ sfStore'[Len(sfStore) + 1] = x
  BY <1>1, <1>2, <1>5
<1>7. InOrderOfTime(sfStore')
  <2>1. ASSUME NEW i \in DOMAIN sfStore', NEW j \in DOMAIN sfStore', i <= j
        PROVE  sfStore'[i].time <= sfStore'[j].time
    <3>1. CASE j \in 1..Len(sfStore)
      <4>1. i \in 1..Len(sfStore)
        BY <1>2, <1>6, <2>1, <3>1
      <4> QED BY <1>2, <1>6, <2>1, <3>1, <4>1 DEF InOrderOfTime
    <3>2. CASE j = Len(sfStore) + 1 /\ i \in 1..Len(sfStore)
      BY <1>2, <1>3, <1>4, <1>5, <1>6, <3>2
    <3>3. CASE j = Len(sfStore) + 1 /\ i = j
      BY <1>4, <1>5, <1>6, <3>3
    <3> QED BY <1>2, <1>6, <2>1, <3>1, <3>2, <3>3
  <2> QED BY <2>1 DEF InOrderOfTime
<1>8. ListFrom(sfStore', sfSignals.of, sfSignals.n, FEED_LIMIT)
        = ListFrom(sfStore, sfSignals.of, sfSignals.n, FEED_LIMIT)
  BY <1>1, <1>2, ListStays DEF ListInv
<1> QED BY <1>1, <1>2, <1>6, <1>7, <1>8 DEF ListInv

LEMMA ListStep ==
    ASSUME ListInv, FeedShapes, [Feed!Next]_(Feed!vars)
    PROVE  ListInv'
<1>1. CASE \E c \in Cycles, later \in {0, 1} : Feed!record_cycle(c, later)
  BY <1>1, RecordKeepsList
<1>2. CASE \/ Feed!CandlesCome \/ Feed!Close \/ (\E i \in 1..FEED_LIMIT : Feed!View(i))
           \/ UNCHANGED Feed!vars
  <2>1. UNCHANGED << sfStore, sfSignals, sfRequest >>
    BY <1>2 DEF Feed!CandlesCome, Feed!Held, Feed!Close, Feed!View, Feed!vars
  <2> QED BY <2>1 DEF ListInv
<1>3. CASE Feed!query \/ Feed!Fails
  <2>1. /\ UNCHANGED sfStore /\ sfRequest'.n \in {sfRequest.n, Len(sfStore)}
        /\ sfSignals'.n = sfSignals.n /\ sfSignals'.of = sfSignals.of
        /\ sfSignals'.list = sfSignals.list
    BY <1>3 DEF Feed!query, Feed!Fails, Feed!Held, FeedShapes
  <2>2. Len(sfStore) \in 0..Len(sfStore)
    BY DEF ListInv
  <2> QED BY <2>1, <2>2 DEF ListInv
<1>4. CASE Feed!Answered
  <2>1. /\ UNCHANGED sfStore /\ sfRequest'.n = sfRequest.n
        /\ sfSignals'.n = sfRequest.n /\ sfSignals'.of = sfRequest.symbol
        /\ sfSignals'.list = Feed!Listed(sfRequest.symbol, sfRequest.n, FEED_LIMIT)
    BY <1>4 DEF Feed!Answered, Feed!Held, FeedShapes
  <2>2. sfSignals'.list = ListFrom(sfStore, sfRequest.symbol, sfRequest.n, FEED_LIMIT)
    BY <2>1, ListedIsFrom
  <2> QED BY <2>1, <2>2 DEF ListInv
<1>5. ASSUME NEW f, Feed!Choose(f) PROVE ListInv'
  <2>1. UNCHANGED << sfStore, sfSignals >> /\ sfRequest'.n \in {0, sfRequest.n}
    BY <1>5 DEF Feed!Choose, Feed!Asked
  <2>2. Len(sfStore) \in Nat
    BY DEF ListInv
  <2> QED BY <2>1, <2>2 DEF ListInv
<1>6. CASE \/ \E s \in MarketSymbols \cup {"all"} : Feed!setSymbol(s)
           \/ \E x \in Feed!SIGNAL_TIMEFRAMES \cup {"all"} : Feed!setFrame(x)
           \/ \E t \in Feed!ANALYSIS_TYPES : Feed!setAnalysisType(t)
           \/ \E a \in Feed!AGENT_FILTERS : Feed!setAgent(a)
           \/ \E m \in Minimums : Feed!setMinConfidence(m)
           \/ Feed!resetFilters
  BY <1>5, <1>6 DEF Feed!setSymbol, Feed!setFrame, Feed!setAnalysisType, Feed!setAgent,
        Feed!setMinConfidence, Feed!resetFilters
<1> QED BY <1>1, <1>2, <1>3, <1>4, <1>6 DEF Feed!Next

\* Of records in order of time, the newest first, the newest of a pool is the first of it.
LEMMA NewestIsFirst ==
    ASSUME NEW S, NEW xs \in Seq(S), \A i \in DOMAIN xs : xs[i].time \in Nat,
           \A i, j \in DOMAIN xs : i <= j => xs[j].time <= xs[i].time,
           NEW pool \in SUBSET DOMAIN xs, pool # {}
    PROVE  /\ Feed!Newest(xs, pool) \in pool
           /\ \A j \in pool : Feed!Newest(xs, pool) <= j
<1> DEFINE Best(i) == \A j \in pool \ {i} :
               xs[j].time < xs[i].time \/ (xs[j].time = xs[i].time /\ i < j)
<1>1. pool \in SUBSET Int /\ IsFiniteSet(pool)
  <2>1. DOMAIN xs = 1..Len(xs) /\ Len(xs) \in Nat /\ IsFiniteSet(1..Len(xs))
    BY FS_Interval
  <2> QED BY <2>1, FS_Subset
<1>2. PICK first \in pool : \A j \in pool : first <= j
  BY <1>1, LeastIs
<1>3. Best(first)
  <2>1. ASSUME NEW j \in pool \ {first}
        PROVE  xs[j].time < xs[first].time \/ (xs[j].time = xs[first].time /\ first < j)
    <3>1. first <= j /\ first \in Int /\ j \in Int /\ first # j
      BY <1>1, <1>2
    <3>2. xs[j].time <= xs[first].time /\ xs[j].time \in Nat /\ xs[first].time \in Nat
      BY <3>1
    <3> QED BY <3>1, <3>2
  <2> QED BY <2>1
<1>4. ASSUME NEW i \in pool, Best(i) PROVE i = first
  <2>1. SUFFICES ASSUME i # first PROVE FALSE
    OBVIOUS
  <2>2. first < i /\ first \in Int /\ i \in Int
    BY <1>1, <1>2, <2>1
  <2>3. xs[first].time < xs[i].time \/ i < first
    BY <1>4, <2>1
  <2>4. xs[i].time <= xs[first].time /\ xs[i].time \in Nat /\ xs[first].time \in Nat
    BY <2>2
  <2> QED BY <2>2, <2>3, <2>4
<1>5. Feed!Newest(xs, pool) = CHOOSE i \in pool : Best(i)
  BY DEF Feed!Newest
<1> HIDE DEF Best
<1>6. Feed!Newest(xs, pool) = first
  BY <1>3, <1>4, <1>5
<1> QED BY <1>2, <1>6

\* What the page makes of a record.
LEMMA InsightIs ==
    ASSUME NEW r \in FeedRecords
    PROVE  LET x == Feed!toAnalysisInsight(r)
           IN  /\ x.time = r.time /\ x.time \in Nat /\ x.confidence = r.confidence
               /\ x.confidence \in Nat /\ x.bias \in {"Bullish", "Bearish", "Neutral"}
               /\ (x.recommendation # Feed!None /\ x.recommendation # "WAIT")
                    <=> (r.agent = "decision_maker" /\ r.direction \in {"BUY", "SELL"})
               /\ r.agent = "decision_maker" /\ r.direction \in {"BUY", "SELL"}
                    => x.recommendation = r.direction
<1>1. r.time \in Nat /\ r.confidence \in Nat
  BY DEF FeedRecords
<1> QED BY <1>1 DEF Feed!toAnalysisInsight, Feed!toRecommendation, Feed!toBias, Feed!None

\* The insights on display are in order of time.
LEMMA InsightsAre ==
    ASSUME ListInv
    PROVE  LET xs == Feed!insights
           IN  /\ xs \in Seq(Range(xs)) /\ DOMAIN xs = DOMAIN sfSignals.list
               /\ \A i \in DOMAIN xs : /\ sfSignals.list[i] \in FeedRecords
                                       /\ xs[i] = Feed!toAnalysisInsight(sfSignals.list[i])
               /\ \A i \in DOMAIN xs : xs[i].time \in Nat
               /\ \A i, j \in DOMAIN xs : i <= j => xs[j].time <= xs[i].time
<1> DEFINE xs == Feed!insights
           r == sfSignals.list
<1>1. /\ r \in Seq(FeedRecords)
      /\ \A i, j \in DOMAIN r : i <= j => r[j].time <= r[i].time
  <2>1. /\ sfStore \in Seq(StoredCycles) /\ InOrderOfTime(sfStore)
        /\ sfSignals.n \in 0..Len(sfStore)
        /\ FEED_LIMIT \in Nat /\ r = ListFrom(sfStore, sfSignals.of, sfSignals.n, FEED_LIMIT)
    BY FeedAssumption DEF ListInv
  <2> HIDE DEF r
  <2> QED BY <2>1, FeedListIs
<1>2. /\ xs = [i \in DOMAIN r |-> Feed!toAnalysisInsight(r[i])]
      /\ DOMAIN r = 1..Len(r) /\ Len(r) \in Nat
  BY <1>1 DEF Feed!insights
<1> HIDE DEF xs, r
<1>3. \A i \in DOMAIN r : r[i] \in FeedRecords
  BY <1>1, <1>2, ElementOfSeq
<1>4. DOMAIN xs = DOMAIN r /\ \A i \in DOMAIN r : xs[i] = Feed!toAnalysisInsight(r[i])
  BY <1>2
<1>5. \A i \in DOMAIN r : xs[i].time = r[i].time /\ xs[i].time \in Nat
  BY <1>3, <1>4, InsightIs
<1>6. xs \in Seq(Range(xs))
  <2>1. xs \in [1..Len(r) -> Range(xs)]
    BY <1>2 DEF Range
  <2> QED BY <1>2, <2>1
<1> QED BY <1>1, <1>3, <1>4, <1>5, <1>6 DEF xs, r

\* The two pages name the same call.
LEMMA CallsAreTheSame ==
    ASSUME ListInv, NEW s \in MarketSymbols, sfSignals.of = s,
           Feed!tradeCall(s, sfSignals.n) # << >>
    PROVE  Feed!tradeCall(s, sfSignals.n)
             = << Feed!activeCall[1].recommendation, Feed!activeCall[1].time >>
<1> DEFINE q == ListFrom(sfStore, s, sfSignals.n, DASH_LIMIT)
           r == sfSignals.list
           xs == Feed!insights
           early == {i \in DOMAIN q :
                         q[i].agent = "decision_maker" /\ q[i].direction \in {"BUY", "SELL"}}
           first == CHOOSE i \in early : \A j \in early : i <= j
           calls == {i \in DOMAIN xs : xs[i].recommendation # Feed!None}
           directional == {i \in calls : xs[i].recommendation # "WAIT"}
           newest == Feed!Newest(xs, directional)
<1>1. /\ r \in Seq(FeedRecords)
      /\ \A i : i \in DOMAIN q <=> i \in DOMAIN r /\ i \in 1..DASH_LIMIT
      /\ \A i \in DOMAIN q : q[i] = r[i]
  <2>1. /\ sfStore \in Seq(StoredCycles) /\ InOrderOfTime(sfStore)
        /\ sfSignals.n \in 0..Len(sfStore)
        /\ FEED_LIMIT \in Nat /\ DASH_LIMIT \in 0..FEED_LIMIT
        /\ r = ListFrom(sfStore, s, sfSignals.n, FEED_LIMIT)
    BY FeedAssumption DEF ListInv
  <2> HIDE DEF r
  <2>2. r \in Seq(FeedRecords)
    BY <2>1, FeedListIs
  <2>3. /\ \A i : i \in DOMAIN q <=> i \in DOMAIN r /\ i \in 1..DASH_LIMIT
        /\ \A i \in DOMAIN q : q[i] = r[i]
    BY <2>1, ShorterIs
  <2> QED BY <2>2, <2>3
<1>2. Feed!tradeCall(s, sfSignals.n)
        = IF early = {} THEN << >> ELSE << q[first].direction, q[first].time >>
  <2>1. Feed!Listed(s, sfSignals.n, DASH_LIMIT) = q
    BY ListedIsFrom
  <2> HIDE DEF q
  <2> QED BY <2>1 DEF Feed!tradeCall
<1>3. /\ xs \in Seq(Range(xs)) /\ DOMAIN xs = DOMAIN r
      /\ \A i \in DOMAIN xs : r[i] \in FeedRecords /\ xs[i] = Feed!toAnalysisInsight(r[i])
      /\ \A i \in DOMAIN xs : xs[i].time \in Nat
      /\ \A i, j \in DOMAIN xs : i <= j => xs[j].time <= xs[i].time
  BY InsightsAre
<1>4. Feed!activeCall =
        IF calls = {} THEN << >>
        ELSE << xs[Feed!Newest(xs, IF directional # {} THEN directional ELSE calls)] >>
  BY DEF Feed!activeCall, Feed!latestRecommendation
<1> HIDE DEF q, r, xs
<1>5. early # {}
  BY <1>2
<1>6. DOMAIN r = 1..Len(r) /\ Len(r) \in Nat /\ DASH_LIMIT \in Nat
  BY <1>1, FeedAssumption
<1>7. \A i \in DOMAIN xs :
        /\ i \in directional
             <=> (r[i].agent = "decision_maker" /\ r[i].direction \in {"BUY", "SELL"})
        /\ i \in directional => xs[i].recommendation = r[i].direction
        /\ xs[i].time = r[i].time
  BY <1>3, InsightIs
<1>8. early = directional \cap 1..DASH_LIMIT
  BY <1>1, <1>3, <1>7
<1>9. directional # {} /\ directional \in SUBSET DOMAIN xs /\ calls # {}
  BY <1>5, <1>8
<1> HIDE DEF early, directional, calls
<1>10. newest \in directional /\ \A j \in directional : newest <= j
  BY <1>3, <1>9, NewestIsFirst
<1> HIDE DEF newest
<1>11. newest \in early /\ \A j \in early : newest <= j
  <2>1. PICK j \in early : TRUE
    BY <1>5
  <2>2. newest <= j /\ j \in 1..DASH_LIMIT /\ newest \in 1..Len(r)
    BY <1>3, <1>6, <1>8, <1>9, <1>10
  <2>3. newest \in 1..DASH_LIMIT
    BY <1>6, <2>2
  <2> QED BY <1>8, <1>10, <2>3
<1>12. first = newest
  <2>1. first \in early /\ \A j \in early : first <= j
    BY <1>11
  <2> HIDE DEF first
  <2>2. first \in Int /\ newest \in Int
    BY <1>3, <1>6, <1>8, <1>9, <1>10, <2>1
  <2> QED BY <1>11, <2>1, <2>2
<1> HIDE DEF first
<1>13. newest \in DOMAIN q /\ newest \in DOMAIN xs
  BY <1>1, <1>3, <1>8, <1>9, <1>11
<1>14. Feed!activeCall = << xs[newest] >>
  BY <1>4, <1>9 DEF newest
<1>15. /\ Feed!activeCall[1].recommendation = r[newest].direction
       /\ Feed!activeCall[1].time = r[newest].time
  BY <1>7, <1>10, <1>13, <1>14
<1>16. q[newest].direction = r[newest].direction /\ q[newest].time = r[newest].time
  BY <1>1, <1>13
<1> QED BY <1>2, <1>5, <1>12, <1>15, <1>16

LEMMA SumsCompare ==
    ASSUME NEW a \in Nat, NEW b \in Nat, NEW c \in Nat, NEW d \in Nat,
           NEW e \in Nat, NEW f \in Nat, NEW g \in Nat, NEW h \in Nat,
           a <= e, b <= f, c <= g, d <= h
    PROVE  a + b + c + d <= e + f + g + h
OBVIOUS
LEMMA SumIsNat ==
    ASSUME NEW a \in Nat, NEW b \in Nat, NEW c \in Nat, NEW d \in Nat
    PROVE  a + b + c + d \in Nat
OBVIOUS

\* The overall bias is that of an agent of the consensus.
LEMMA BiasIsBacked == ASSUME ListInv PROVE Feed!OverallIsBacked
<1> DEFINE xs == Feed!insights
           of(t) == {i \in DOMAIN xs : xs[i].type = t}
           slots == Feed!consensus
           part(t) == IF slots[t] = << >> THEN 0 ELSE slots[t][1].confidence
           scored(t) == IF part(t) = 0 THEN 0 ELSE Feed!Value(slots[t][1].bias) * part(t)
           total == scored("Technical") + scored("News") + scored("Market Structure")
                      + scored("Sentiment")
           weight == part("Technical") + part("News") + part("Market Structure")
                       + part("Sentiment")
           Behind(side, t) ==
               slots[t] # << >> /\ slots[t][1].bias = side /\ slots[t][1].confidence > 0
<1>1. /\ xs \in Seq(Range(xs)) /\ DOMAIN xs = DOMAIN sfSignals.list
      /\ \A i \in DOMAIN xs : /\ sfSignals.list[i] \in FeedRecords
                              /\ xs[i] = Feed!toAnalysisInsight(sfSignals.list[i])
      /\ \A i \in DOMAIN xs : xs[i].time \in Nat
      /\ \A i, j \in DOMAIN xs : i <= j => xs[j].time <= xs[i].time
  BY InsightsAre
<1>2. \A t \in Feed!CONSENSUS_SLOTS :
        slots[t] = IF of(t) = {} THEN << >> ELSE << xs[Feed!Newest(xs, of(t))] >>
  BY DEF Feed!consensus
<1>3. Feed!overall = IF weight = 0 THEN "Neutral"
                     ELSE IF 10 * total >= 11 * weight THEN "Bullish"
                     ELSE IF 10 * total <= 9 * weight THEN "Bearish" ELSE "Neutral"
  <2> HIDE DEF slots, xs
  <2> QED BY DEF Feed!overall, Feed!weightedBias, slots
<1>4. Feed!CONSENSUS_SLOTS = {"Technical", "News", "Market Structure", "Sentiment"}
  BY DEF Feed!CONSENSUS_SLOTS
<1>5. Feed!OverallIsBacked =
        \A side \in {"Bullish", "Bearish"} :
            Feed!overall = side => \E t \in Feed!CONSENSUS_SLOTS : Behind(side, t)
  BY DEF Feed!OverallIsBacked
<1> HIDE DEF xs, slots
<1>6. ASSUME NEW t \in Feed!CONSENSUS_SLOTS
      PROVE  /\ part(t) \in Nat /\ scored(t) \in Nat
             /\ ~Behind("Bullish", t) => scored(t) <= part(t)
             /\ ~Behind("Bearish", t) => part(t) <= scored(t)
  <2>1. CASE of(t) = {}
    <3>1. slots[t] = << >>
      BY <1>2, <2>1
    <3>2. part(t) = 0
      BY <3>1
    <3> HIDE DEF part
    <3>3. scored(t) = 0
      BY <3>2
    <3> QED BY <3>2, <3>3
  <2>2. CASE of(t) # {}
    <3> DEFINE i == Feed!Newest(xs, of(t))
    <3>1. of(t) \in SUBSET DOMAIN xs
      OBVIOUS
    <3>2. i \in of(t)
      <4> HIDE DEF of
      <4> QED BY <1>1, <2>2, <3>1, NewestIsFirst
    <3> HIDE DEF i
    <3>3. slots[t] = << xs[i] >>
      BY <1>2, <2>2 DEF i
    <3>4. xs[i].confidence \in Nat /\ xs[i].bias \in {"Bullish", "Bearish", "Neutral"}
      BY <1>1, <3>2, InsightIs
    <3>5. part(t) = xs[i].confidence /\ slots[t][1] = xs[i] /\ slots[t] # << >>
      BY <3>3
    <3>6. Feed!Value(xs[i].bias) \in {0, 1, 2}
          /\ (xs[i].bias # "Bullish" => Feed!Value(xs[i].bias) \in {0, 1})
          /\ (xs[i].bias # "Bearish" => Feed!Value(xs[i].bias) \in {1, 2})
      BY <3>4 DEF Feed!Value
    <3>7. \A v \in {0, 1, 2}, p \in Nat : v * p \in {0, p, 2 * p} /\ (v \in {0, 1} => v * p <= p)
            /\ (v \in {1, 2} => p <= v * p)
      BY SMT
    <3> HIDE DEF slots, part
    <3>8. scored(t) = IF part(t) = 0 THEN 0 ELSE Feed!Value(xs[i].bias) * part(t)
      BY <3>5
    <3> DEFINE v == Feed!Value(xs[i].bias)
               p == part(t)
    <3>9. v * p \in Nat /\ (v \in {0, 1} => v * p <= p) /\ (v \in {1, 2} => p <= v * p) /\ p \in Nat
      BY <3>4, <3>5, <3>6, <3>7
    <3> HIDE DEF scored
    <3>10. Behind("Bullish", t) <=> xs[i].bias = "Bullish" /\ part(t) > 0
      BY <3>5
    <3>11. Behind("Bearish", t) <=> xs[i].bias = "Bearish" /\ part(t) > 0
      BY <3>5
    <3> HIDE DEF Behind
    <3> QED BY <3>6, <3>8, <3>9, <3>10, <3>11
  <2> QED BY <2>1, <2>2
<1> HIDE DEF part, scored, Behind
<1>7. ASSUME Feed!overall = "Bullish", \A t \in Feed!CONSENSUS_SLOTS : ~Behind("Bullish", t)
      PROVE  FALSE
  <2>1. total <= weight /\ total \in Nat /\ weight \in Nat
    <3>1. \A t \in {"Technical", "News", "Market Structure", "Sentiment"} :
            part(t) \in Nat /\ scored(t) \in Nat /\ scored(t) <= part(t)
      BY <1>4, <1>6, <1>7
    <3>2. /\ part("Technical") \in Nat /\ scored("Technical") \in Nat
          /\ scored("Technical") <= part("Technical")
          /\ part("News") \in Nat /\ scored("News") \in Nat
          /\ scored("News") <= part("News")
          /\ part("Market Structure") \in Nat /\ scored("Market Structure") \in Nat
          /\ scored("Market Structure") <= part("Market Structure")
          /\ part("Sentiment") \in Nat /\ scored("Sentiment") \in Nat
          /\ scored("Sentiment") <= part("Sentiment")
      BY <3>1
    <3>3. total \in Nat
      BY <3>2, SumIsNat
    <3>4. weight \in Nat
      BY <3>2, SumIsNat
    <3> QED BY <3>2, <3>3, <3>4, SumsCompare
  <2> HIDE DEF total, weight
  <2> QED BY <1>3, <1>7, <2>1
<1>8. ASSUME Feed!overall = "Bearish", \A t \in Feed!CONSENSUS_SLOTS : ~Behind("Bearish", t)
      PROVE  FALSE
  <2>1. weight <= total /\ total \in Nat /\ weight \in Nat
    <3>1. \A t \in {"Technical", "News", "Market Structure", "Sentiment"} :
            part(t) \in Nat /\ scored(t) \in Nat /\ part(t) <= scored(t)
      BY <1>4, <1>6, <1>8
    <3>2. /\ part("Technical") \in Nat /\ scored("Technical") \in Nat
          /\ part("Technical") <= scored("Technical")
          /\ part("News") \in Nat /\ scored("News") \in Nat
          /\ part("News") <= scored("News")
          /\ part("Market Structure") \in Nat /\ scored("Market Structure") \in Nat
          /\ part("Market Structure") <= scored("Market Structure")
          /\ part("Sentiment") \in Nat /\ scored("Sentiment") \in Nat
          /\ part("Sentiment") <= scored("Sentiment")
      BY <3>1
    <3>3. total \in Nat
      BY <3>2, SumIsNat
    <3>4. weight \in Nat
      BY <3>2, SumIsNat
    <3> QED BY <3>2, <3>3, <3>4, SumsCompare
  <2> HIDE DEF total, weight
  <2> QED BY <1>3, <1>8, <2>1
<1> QED BY <1>5, <1>7, <1>8

-----------------------------------------------------------------------------
\* A card of a signal and its drawer.

\* No stop is as near as a cent.
StopsAreFar == \A d \in Distances : d > Card!Cent

-----------------------------------------------------------------------------
\* The levels of a card.

\* A record has levels of its own, in order, or leaves them all to the candles.
Decided(r) == r.agent = "decision_maker" /\ r.direction \in {"BUY", "SELL", "SKIP"}
Analysed(r) ==
    /\ r.agent = "technical_analyst"
    /\ r.support \in Nat \ {0} /\ r.price \in Nat \ {0} /\ r.resistance \in Nat \ {0}
    /\ r.support <= r.price /\ r.price <= r.resistance
Unpriced(r) ==
    /\ r.agent # "decision_maker"
    /\ r.support = Card!Null /\ r.price = Card!Null /\ r.resistance = Card!Null
    /\ r.levels.entry = Card!Null
OwnLevels == Decided(scRecord) \/ Analysed(scRecord) \/ Unpriced(scRecord)
Loaded == scMarket \in Card!Markets /\ scCandles \in Card!Markets \cup {Card!NoCandles}

\* Levels that a trade could reach in turn: the stop on the losing side of the
\* entry, the targets on the other, the second beyond the first.
Sound(side, s) ==
    \/ side = "BUY" /\ s.stop < s.entry /\ s.entry < s.tp1 /\ s.tp1 < s.tp2
    \/ side = "SELL" /\ s.stop > s.entry /\ s.entry > s.tp1 /\ s.tp1 > s.tp2

\* The candles of one moment are in order.
LEMMA CandlesAreOrdered ==
    ASSUME Loaded
    PROVE  /\ scMarket.low \in Nat \ {0} /\ scMarket.price \in Nat \ {0} /\
                scMarket.high \in Nat \ {0}
           /\ scMarket.low <= scMarket.price /\ scMarket.price <= scMarket.high
           /\ (Card!Null \notin {scCandles.low, scCandles.price, scCandles.high}) =>
                scCandles.low <= scCandles.price /\ scCandles.price <= scCandles.high
<1>1. \A m \in Card!Markets :
        /\ m.low \in Nat \ {0} /\ m.price \in Nat \ {0} /\ m.high \in Nat \ {0}
        /\ m.low <= m.price /\ m.price <= m.high
  BY CardAssumption DEF Card!Markets
<1>2. CASE scCandles \in Card!Markets
  BY <1>1, <1>2 DEF Loaded
<1>3. CASE scCandles = Card!NoCandles
  BY <1>1, <1>3 DEF Loaded, Card!NoCandles, Card!Null
<1> QED BY <1>2, <1>3 DEF Loaded

\* What is shown of a record is either its own or the candles'.
LEMMA OwnLevelsAreOrdered ==
    ASSUME Loaded, OwnLevels
    PROVE  Card!LevelsAreInOrder
<1> SUFFICES ASSUME Card!recommendation(scRecord) = "none"
             PROVE Card!Ordered(Card!Card(scRecord, scCandles))
  BY DEF Card!LevelsAreInOrder
<1>1. ~Decided(scRecord)
  BY DEF Decided, Card!recommendation
<1>2. CASE Analysed(scRecord)
  BY <1>2 DEF Analysed, Card!Card, Card!PriceShown, Card!currentPrice, Card!or, Card!Ordered,
       Card!Null
<1>3. CASE Unpriced(scRecord)
  <2>1. /\ Card!Card(scRecord, scCandles).support = scCandles.low
        /\ Card!Card(scRecord, scCandles).current = scCandles.price
        /\ Card!Card(scRecord, scCandles).resistance = scCandles.high
    BY <1>3 DEF Unpriced, Card!Card, Card!PriceShown, Card!currentPrice, Card!or
  <2> QED BY <2>1, CandlesAreOrdered DEF Card!Ordered
<1> QED BY <1>1, <1>2, <1>3 DEF OwnLevels

\* Each agent publishes a record that has its levels or none.
LEMMA PublishedKeeps ==
    ASSUME Loaded,
           \/ \E d \in {"BULLISH", "BEARISH"} : Card!technical_signal(d)
           \/ \E d \in {"BULLISH", "BEARISH", "NEUTRAL"} : Card!news_signal(d)
           \/ \E d \in {"APPROVED", "VETO"} : Card!risk_assessment(d)
           \/ \E side \in {"BUY", "SELL", "SKIP"} : \E levels : Card!trade_decision(side,
                levels)
    PROVE  Loaded' /\ OwnLevels'
<1>1. Loaded'
  BY DEF Loaded, Card!technical_signal, Card!news_signal, Card!risk_assessment,
           Card!trade_decision, Card!Publish
<1>2. CASE \E d \in {"BULLISH", "BEARISH"} : Card!technical_signal(d)
  <2>1. Analysed(scRecord')
    BY <1>2, CandlesAreOrdered DEF Card!technical_signal, Card!Publish, Card!NoRecord, Analysed
  <2> QED BY <1>1, <2>1 DEF OwnLevels
<1>3. CASE \E d \in {"BULLISH", "BEARISH", "NEUTRAL"} : Card!news_signal(d)
  <2>1. Unpriced(scRecord')
    BY <1>3 DEF Card!news_signal, Card!Publish, Card!NoRecord, Card!NoLevels, Unpriced
  <2> QED BY <1>1, <2>1 DEF OwnLevels
<1>4. CASE \E d \in {"APPROVED", "VETO"} : Card!risk_assessment(d)
  <2>1. Unpriced(scRecord')
    BY <1>4 DEF Card!risk_assessment, Card!Publish, Card!NoRecord, Card!NoLevels, Unpriced
  <2> QED BY <1>1, <2>1 DEF OwnLevels
<1>5. CASE \E side \in {"BUY", "SELL", "SKIP"} : \E levels : Card!trade_decision(side, levels)
  <2>1. Decided(scRecord')
    BY <1>5 DEF Card!trade_decision, Card!Publish, Card!NoRecord, Decided
  <2> QED BY <1>1, <2>1 DEF OwnLevels
<1> QED BY <1>2, <1>3, <1>4, <1>5

\* What an agent recommends has levels or none.
Recommends == Card!recommendation(scRecord) \in {"none", "WAIT", "BUY", "SELL"}
\* The record of a call with a side has sound levels.
SoundRecord ==
    scRecord.agent = "decision_maker" /\ scRecord.direction \in {"BUY", "SELL"}
        => Sound(scRecord.direction, scRecord.levels)

CardInv == Loaded /\ OwnLevels /\ (StopsAreFar => SoundRecord)

LEMMA CardInit == Card!Init => CardInv
BY DEF Card!Init, CardInv, Loaded, OwnLevels, Unpriced, SoundRecord, Card!NoRecord,
         Card!NoLevels

-----------------------------------------------------------------------------
\* The levels of a decision.

\* Rounding to a cent moves a price by half a cent at most.
LEMMA RoundedIsNear ==
    ASSUME NEW x \in Int, NEW y \in Card!Rounded(x)
    PROVE  y \in Int /\ x - 50 <= y /\ y <= x + 50
BY DEF Card!Rounded

\* Beyond a cent rounding does not change the order of the levels (_levels).
LEMMA FarLevelsAreSound ==
    ASSUME NEW side \in {"BUY", "SELL"}, NEW entry \in Int, NEW distance \in Int,
           distance > Card!Cent, NEW s \in Card!Levels(side, entry, distance)
    PROVE  Sound(side, s)
<1>1. /\ s.entry = entry /\ s.tp1 \in Card!Rounded(entry + Card!Sign(side) * distance * 2)
      /\ s.tp2 \in Card!Rounded(entry + Card!Sign(side) * distance * 3)
      /\ s.stop \in Card!Rounded(entry - Card!Sign(side) * distance)
  BY DEF Card!Levels
<1>2. CASE side = "BUY"
  <2>1. /\ s.tp1 \in Card!Rounded(entry + distance * 2)
        /\ s.tp2 \in Card!Rounded(entry + distance * 3)
        /\ s.stop \in Card!Rounded(entry - distance)
    BY <1>1, <1>2 DEF Card!Sign
  <2>2. /\ s.tp1 \in Int /\ entry + distance * 2 - 50 <= s.tp1
        /\ s.tp1 <= entry + distance * 2 + 50
        /\ s.tp2 \in Int /\ entry + distance * 3 - 50 <= s.tp2
        /\ s.stop \in Int /\ s.stop <= entry - distance + 50
    BY <2>1, RoundedIsNear
  <2> QED BY <1>1, <1>2, <2>2 DEF Sound, Card!Cent
<1>3. CASE side = "SELL"
  <2>1. /\ s.tp1 \in Card!Rounded(entry - distance * 2)
        /\ s.tp2 \in Card!Rounded(entry - distance * 3)
        /\ s.stop \in Card!Rounded(entry + distance)
    BY <1>1, <1>3 DEF Card!Sign
  <2>2. /\ s.tp1 \in Int /\ entry - distance * 2 - 50 <= s.tp1
        /\ s.tp1 <= entry - distance * 2 + 50
        /\ s.tp2 \in Int /\ s.tp2 <= entry - distance * 3 + 50
        /\ s.stop \in Int /\ entry + distance - 50 <= s.stop
    BY <2>1, RoundedIsNear
  <2> QED BY <1>1, <1>3, <2>2 DEF Sound, Card!Cent
<1> QED BY <1>2, <1>3

\* Only calls that have a side have a strip.
LEMMA SoundRecordsHaveSoundStrips == ASSUME SoundRecord PROVE Card!StripIsSound
BY DEF SoundRecord, Card!StripIsSound, Sound, Card!Strip, Card!recommendation

\* A decision has sound levels where stops are far.
LEMMA DecisionKeeps ==
    ASSUME Loaded, NEW side \in {"BUY", "SELL", "SKIP"}, NEW distance \in Distances,
           NEW levels \in Card!Levels(side, scMarket.price, distance),
               Card!trade_decision(side, levels)
    PROVE  StopsAreFar => SoundRecord'
<1>1. /\ scRecord'.agent = "decision_maker" /\ scRecord'.direction = side
      /\ scRecord'.levels = levels
  BY DEF Card!trade_decision, Card!Publish, Card!NoRecord
<1>2. scMarket.price \in Int /\ distance \in Int /\ (StopsAreFar => distance > Card!Cent)
  BY CandlesAreOrdered, CardAssumption DEF StopsAreFar
<1>3. StopsAreFar /\ side \in {"BUY", "SELL"} => Sound(side, levels)
  BY <1>2, FarLevelsAreSound
<1> QED BY <1>1, <1>3 DEF SoundRecord

LEMMA CardStep == ASSUME CardInv, [Card!Next]_(Card!vars) PROVE CardInv'
<1>1. CASE (\E m \in Card!Markets : Card!MarketMoves(m)) \/ Card!CandlesCome \/ Card!CandlesFail
  BY <1>1 DEF Card!MarketMoves, Card!CandlesCome, Card!CandlesFail, CardInv, Loaded,
       OwnLevels, SoundRecord
<1>2. CASE Card!View \/ Card!Close \/ UNCHANGED Card!vars
  BY <1>2 DEF Card!View, Card!Close, Card!vars, CardInv, Loaded, OwnLevels, SoundRecord
<1>3. CASE \/ \E d \in {"BULLISH", "BEARISH"} : Card!technical_signal(d)
           \/ \E d \in {"BULLISH", "BEARISH", "NEUTRAL"} : Card!news_signal(d)
           \/ \E d \in {"APPROVED", "VETO"} : Card!risk_assessment(d)
  <2>1. Loaded' /\ OwnLevels'
    BY <1>3, PublishedKeeps DEF CardInv
  <2>2. SoundRecord'
    BY <1>3 DEF Card!technical_signal, Card!news_signal, Card!risk_assessment, Card!Publish,
         Card!NoRecord, SoundRecord
  <2> QED BY <2>1, <2>2 DEF CardInv
<1>4. CASE \E side \in {"BUY", "SELL", "SKIP"}, distance \in Distances :
             \E levels \in Card!Levels(side, scMarket.price,
                 distance) : Card!trade_decision(side, levels)
  <2>1. PICK side \in {"BUY", "SELL", "SKIP"}, distance \in Distances :
          \E levels \in Card!Levels(side, scMarket.price,
              distance) : Card!trade_decision(side, levels)
    BY <1>4
  <2>2. PICK levels \in Card!Levels(side, scMarket.price,
          distance) : Card!trade_decision(side, levels)
    BY <2>1
  <2>3. Loaded' /\ OwnLevels'
    BY <2>2, PublishedKeeps DEF CardInv
  <2>4. StopsAreFar => SoundRecord'
    BY <2>2, DecisionKeeps DEF CardInv
  <2> QED BY <2>3, <2>4 DEF CardInv
<1> QED BY <1>1, <1>2, <1>3, <1>4 DEF Card!Next

\* The drawer works out the strip by what has none, the card by what has one.
LEMMA CardShows ==
    ASSUME CardInv
    PROVE  Card!CardAndDrawerAgree /\ Card!LevelsAreInOrder /\
             (StopsAreFar => Card!StripIsSound)
<1>1. Recommends
  BY DEF CardInv, OwnLevels, Decided, Analysed, Unpriced, Recommends, Card!recommendation
<1>2. ASSUME NEW c
      PROVE  LET card == Card!Card(scRecord, c)
             IN \A x \in DOMAIN card : Card!Drawer(scRecord, c)[x] = card[x]
  <2>1. Card!Strip(scRecord) = IF Card!recommendation(scRecord) \in {"none",
          "WAIT"} THEN Card!NoLevels
                              ELSE scRecord.levels
    BY <1>1 DEF Card!Strip, Recommends
  <2>2. DOMAIN Card!Card(scRecord, c) = {"resistance", "current", "support", "strip", "why"}
    BY DEF Card!Card
  <2>3. /\ Card!Drawer(scRecord, c).resistance = Card!Card(scRecord, c).resistance
        /\ Card!Drawer(scRecord, c).current = Card!Card(scRecord, c).current
        /\ Card!Drawer(scRecord, c).support = Card!Card(scRecord, c).support
        /\ Card!Drawer(scRecord, c).strip = Card!Card(scRecord, c).strip
        /\ Card!Drawer(scRecord, c).why = Card!Card(scRecord, c).why
    BY <2>1 DEF Card!Card, Card!Drawer, Card!PriceShown
  <2> QED BY <2>2, <2>3
<1>3. Card!CardAndDrawerAgree
  BY <1>2 DEF Card!CardAndDrawerAgree
<1> QED BY <1>3, OwnLevelsAreOrdered, SoundRecordsHaveSoundStrips DEF CardInv

-----------------------------------------------------------------------------
\* Alert rules: what deletes them.

\* The page is open in one tab. With two the property fails, see the README.
OneTab == \A t, u \in RuleTabs : t = u

RulesTypes ==
    /\ Rules!TypeOK
    /\ arTabs \in [RuleTabs -> [st : {"away", "open", "loaded"}, rules : SUBSET Rules!Rule,
                                loaded : BOOLEAN]]
\* What a tab has loaded is what is stored, and it is here for the one user.
RulesInv == RulesTypes /\ (OneTab => Rules!ShownIsStored)

LEMMA RulesInit == Rules!Init => RulesInv
BY RulesAssumption DEF Rules!Init, RulesInv, RulesTypes, Rules!TypeOK, Rules!ShownIsStored,
     Rules!Away

\* What a commit writes is what the tab shows.
LEMMA SaveKeepsRules ==
    ASSUME RulesInv, NEW t \in RuleTabs,
           NEW tab \in [st : {"open", "loaded"}, rules : SUBSET Rules!Rule, loaded : BOOLEAN],
           Rules!Save(t, tab), arMounts' \in 0..MaxMounts
    PROVE  RulesInv'
<1>1. arTabs' = [arTabs EXCEPT ![t] = tab] /\
        arStored' = IF tab.loaded THEN tab.rules ELSE arStored
  BY DEF Rules!Save
<1>2. RulesTypes'
  BY <1>1 DEF RulesInv, RulesTypes, Rules!TypeOK
<1>3. ASSUME OneTab, NEW u \in RuleTabs, arTabs'[u].loaded PROVE arTabs'[u].rules = arStored'
  <2>1. u = t /\ arTabs'[u] = tab
    BY <1>1, <1>3 DEF OneTab, RulesInv, RulesTypes
  <2> QED BY <1>1, <1>3, <2>1
<1> QED BY <1>2, <1>3 DEF RulesInv, Rules!ShownIsStored

LEMMA ChangeKeepsRules ==
    ASSUME RulesInv, NEW t \in RuleTabs, NEW rules, rules \subseteq Rules!Rule,
             Rules!Change(t, rules)
    PROVE  RulesInv'
<1>1. arTabs[t] \in [st : {"away", "open", "loaded"}, rules : SUBSET Rules!Rule,
        loaded : BOOLEAN]
  BY DEF RulesInv, RulesTypes
<1>2. [arTabs[t] EXCEPT !.rules = rules]
        \in [st : {"open", "loaded"}, rules : SUBSET Rules!Rule, loaded : BOOLEAN]
  BY <1>1 DEF Rules!Change
<1>3. arMounts' \in 0..MaxMounts
  BY DEF Rules!Change, RulesInv, RulesTypes, Rules!TypeOK
<1> QED BY <1>2, <1>3, SaveKeepsRules DEF Rules!Change

LEMMA RulesStep == ASSUME RulesInv, [Rules!Next]_(Rules!vars) PROVE RulesInv'
<1> USE DEF Rules!Rule
<1>1. /\ arStored \subseteq Rules!Rule /\ arMounts \in 0..MaxMounts
      /\ arTabs \in [RuleTabs -> [st : {"away", "open", "loaded"}, rules : SUBSET Rules!Rule,
                                  loaded : BOOLEAN]]
  BY DEF RulesInv, RulesTypes, Rules!TypeOK
<1>2. ASSUME NEW t \in RuleTabs, Rules!Mount(t) PROVE RulesInv'
  <2>1. arMounts' \in 0..MaxMounts
    BY <1>1, <1>2, RulesAssumption DEF Rules!Mount
  <2> QED BY <1>2, <2>1, SaveKeepsRules DEF Rules!Mount
<1>3. ASSUME NEW t \in RuleTabs, Rules!Load(t) PROVE RulesInv'
  <2>1. /\ arTabs' = [arTabs EXCEPT ![t] = [st |-> "loaded", rules |-> arStored,
             loaded |-> TRUE]]
        /\ UNCHANGED << arStored, arMounts >>
    BY <1>3 DEF Rules!Load
  <2> QED BY <1>1, <2>1 DEF RulesInv, RulesTypes, Rules!TypeOK, Rules!ShownIsStored
<1>4. ASSUME NEW t \in RuleTabs, Rules!Loaded(t) PROVE RulesInv'
  <2>1. [arTabs[t] EXCEPT !.st = "open"]
          \in [st : {"open", "loaded"}, rules : SUBSET Rules!Rule, loaded : BOOLEAN]
    BY <1>1
  <2>2. arMounts' \in 0..MaxMounts
    BY <1>1, <1>4 DEF Rules!Loaded
  <2> QED BY <1>4, <2>1, <2>2, SaveKeepsRules DEF Rules!Loaded
<1>5. ASSUME NEW t \in RuleTabs, Rules!Leave(t) PROVE RulesInv'
  BY <1>1, <1>5 DEF Rules!Leave, Rules!Away, RulesInv, RulesTypes, Rules!TypeOK,
       Rules!ShownIsStored
<1>6. ASSUME NEW t \in RuleTabs, NEW id \in RuleIds, Rules!addRule(t, id) PROVE RulesInv'
  <2>1. arTabs[t].rules \subseteq Rules!Rule
    BY <1>1
  <2>2. [id |-> id, enabled |-> TRUE] \in Rules!Rule
    OBVIOUS
  <2>3. arTabs[t].rules \cup {[id |-> id, enabled |-> TRUE]} \subseteq Rules!Rule
    BY <2>1, <2>2
  <2> QED BY <1>6, <2>3, ChangeKeepsRules DEF Rules!addRule
<1>7. ASSUME NEW t \in RuleTabs, NEW id \in RuleIds, Rules!Toggle(t, id) PROVE RulesInv'
  <2> DEFINE rules == {IF r.id = id THEN [r EXCEPT !.enabled = ~@] ELSE r : r \in arTabs[t].rules}
  <2>1. rules \subseteq Rules!Rule
    <3>1. ASSUME NEW r \in arTabs[t].rules
          PROVE  (IF r.id = id THEN [r EXCEPT !.enabled = ~@] ELSE r) \in Rules!Rule
      <4>1. r \in Rules!Rule /\ (~r.enabled) \in BOOLEAN
        BY <1>1
      <4> QED BY <4>1
    <3> QED BY <3>1
  <2> QED BY <1>7, <2>1, ChangeKeepsRules DEF Rules!Toggle
<1>8. ASSUME NEW t \in RuleTabs, NEW id \in RuleIds, Rules!Delete(t, id) PROVE RulesInv'
  BY <1>1, <1>8, ChangeKeepsRules DEF Rules!Delete
<1>9. ASSUME UNCHANGED << arStored, arTabs, arMounts >> PROVE RulesInv'
  BY <1>9 DEF RulesInv, RulesTypes, Rules!TypeOK, Rules!ShownIsStored
<1> QED BY <1>2, <1>3, <1>4, <1>5, <1>6, <1>7, <1>8, <1>9
    DEF Rules!Next, Rules!Answered, Rules!setPriority, Rules!vars

Deleted(r) == (\A x \in arStored' : x.id # r.id) => \E t \in RuleTabs : Rules!Delete(t, r.id)

\* A rule that leaves the storage is one that its user deletes.
LEMMA OnlyDeleted == ASSUME RulesInv, OneTab, Rules!Next, NEW r \in arStored PROVE Deleted(r)
<1> USE DEF Rules!Rule
<1>1. /\ arTabs \in [RuleTabs -> [st : {"away", "open", "loaded"}, rules : SUBSET Rules!Rule,
                                  loaded : BOOLEAN]]
      /\ \A t \in RuleTabs : arTabs[t].loaded => arTabs[t].rules = arStored
      /\ arStored \subseteq Rules!Rule
  BY DEF RulesInv, RulesTypes, Rules!TypeOK, Rules!ShownIsStored
<1>2. ASSUME arStored' = arStored PROVE Deleted(r)
  BY <1>2 DEF Deleted
<1>3. ASSUME NEW t \in RuleTabs, NEW rules, Rules!Change(t, rules), r \in arTabs[t].rules =>
               \E x \in rules : x.id = r.id
      PROVE  Deleted(r)
  <2>1. arStored' = IF arTabs[t].loaded THEN rules ELSE arStored
    BY <1>1, <1>3 DEF Rules!Change, Rules!Save
  <2>2. CASE arTabs[t].loaded
    BY <1>1, <1>3, <2>1, <2>2 DEF Deleted
  <2> QED BY <1>2, <2>1, <2>2
<1>4. ASSUME NEW t \in RuleTabs, NEW id \in RuleIds, Rules!addRule(t, id) PROVE Deleted(r)
  BY <1>3, <1>4 DEF Rules!addRule
<1>5. ASSUME NEW t \in RuleTabs, NEW id \in RuleIds, Rules!Toggle(t, id) PROVE Deleted(r)
  <2> DEFINE new(x) == IF x.id = id THEN [x EXCEPT !.enabled = ~@] ELSE x
             rules == {new(x) : x \in arTabs[t].rules}
  <2>1. ASSUME r \in arTabs[t].rules PROVE \E x \in rules : x.id = r.id
    <3>1. new(r).id = r.id
      BY <1>1, <2>1
    <3>2. new(r) \in rules
      BY <2>1
    <3> QED BY <3>1, <3>2
  <2>2. Rules!Change(t, rules)
    BY <1>5 DEF Rules!Toggle
  <2> HIDE DEF rules
  <2> QED BY <1>3, <2>1, <2>2
<1>6. ASSUME NEW t \in RuleTabs, NEW id \in RuleIds, Rules!Delete(t, id) PROVE Deleted(r)
  <2>1. CASE id = r.id
    BY <1>6, <2>1 DEF Deleted
  <2>2. CASE id # r.id
    BY <1>3, <1>6, <2>2 DEF Rules!Delete
  <2> QED BY <2>1, <2>2
<1>7. ASSUME NEW t \in RuleTabs, Rules!Mount(t) \/ Rules!Load(t) \/
               Rules!Leave(t) PROVE Deleted(r)
  BY <1>2, <1>7 DEF Rules!Mount, Rules!Load, Rules!Leave, Rules!Save
<1>8. ASSUME NEW t \in RuleTabs, Rules!Loaded(t) PROVE Deleted(r)
  <2>1. arStored' = arStored
    BY <1>1, <1>8 DEF Rules!Loaded, Rules!Save
  <2> QED BY <1>2, <2>1
<1> QED BY <1>2, <1>4, <1>5, <1>6, <1>7, <1>8 DEF Rules!Next, Rules!Answered, Rules!setPriority

-----------------------------------------------------------------------------
\* The search of the documentation: the highlight.

\* The highlight is behind the results only where there are none.
DocsInv == Docs!TypeOK /\ (Docs!results # <<>> => dsActive \in DOMAIN Docs!results)

\* One result has the highlight on itself, and so has none.
LEMMA MostIs ==
    ASSUME NEW n \in Nat
    PROVE  /\ 0..Docs!most(n, 1) = IF n = 0 THEN 0..1 ELSE 0..n
           /\ 1 \in 0..Docs!most(n, 1) /\ \A i \in 0..n : i \in 0..Docs!most(n, 1)
<1>1. CASE n = 0
  BY <1>1 DEF Docs!most
<1>2. CASE n # 0
  <2>1. Docs!most(n, 1) = n
    BY <1>2 DEF Docs!most
  <2> QED BY <1>2, <2>1
<1> QED BY <1>1, <1>2

LEMMA ResultsAre ==
    ASSUME dsQuery \in Docs!Queries
    PROVE  /\ Len(Docs!results) \in Nat
           /\ DOMAIN Docs!results = 1..Len(Docs!results)
           /\ Len(Docs!results) = 0 <=> Docs!results = <<>>
           /\ \A i \in DOMAIN Docs!results : Docs!results[i] \in Docs!Results
<1>1. Docs!results \in Seq(Docs!Results)
  BY DocsAssumption DEF Docs!results
<1>2. \A i \in DOMAIN Docs!results : Docs!results[i] \in Docs!Results
  BY DEF Docs!results, Docs!Results
<1> QED BY <1>1, <1>2

LEMMA DocsInit == Docs!Init => DocsInv
<1> SUFFICES ASSUME Docs!Init PROVE DocsInv
  OBVIOUS
<1>1. dsQuery \in Docs!Queries /\ dsActive = 1
  BY DocsAssumption DEF Docs!Init
<1>2. /\ Len(Docs!results) \in Nat /\ DOMAIN Docs!results = 1..Len(Docs!results)
      /\ Len(Docs!results) = 0 <=> Docs!results = <<>>
  BY <1>1, ResultsAre
<1>3. Docs!results # <<>> => dsActive \in DOMAIN Docs!results
  BY <1>1, <1>2
<1>4. Docs!TypeOK
  BY <1>1, <1>2, MostIs DEF Docs!Init, Docs!TypeOK
<1> QED BY <1>3, <1>4 DEF DocsInv

\* With another query, and with the palette closed, the highlight is on the first result.
LEMMA FirstKeepsDocs ==
    ASSUME dsQuery' \in Docs!Queries, dsActive' = 1, dsAt' \in Docs!Results \cup {"start"},
           dsScrolls' \subseteq Sections
    PROVE  DocsInv'
<1>1. Docs!results' \in Seq(Docs!Results)
  BY DocsAssumption DEF Docs!results
<1>2. Docs!results' # <<>> => dsActive' \in DOMAIN Docs!results'
  BY <1>1
<1>3. dsActive' \in 0..Docs!most(Len(Docs!results'), 1)
  BY <1>1, MostIs
<1>4. Docs!TypeOK'
  BY <1>3 DEF Docs!TypeOK
<1> QED BY <1>2, <1>4 DEF DocsInv
LEMMA ClosedKeepsDocs ==
    ASSUME Docs!Closed, dsAt' \in Docs!Results \cup {"start"}, dsScrolls' \subseteq Sections
    PROVE  DocsInv'
<1>1. dsActive' = 1 /\ dsQuery' \in Docs!Queries
  BY DocsAssumption DEF Docs!Closed
<1> QED BY <1>1, FirstKeepsDocs

\* Arrows and the mouse keep the highlight within the results that there are.
LEMMA HighlightKeepsDocs ==
    ASSUME DocsInv, NEW i, Docs!Highlight(i), i \in 0..Len(Docs!results),
           i = 0 => Docs!results = <<>>
    PROVE  DocsInv'
<1>1. /\ Len(Docs!results) \in Nat /\ DOMAIN Docs!results = 1..Len(Docs!results)
      /\ i \in 0..Docs!most(Len(Docs!results), 1)
  BY ResultsAre, MostIs DEF DocsInv, Docs!TypeOK
<1>2. dsActive' = i /\ UNCHANGED << dsQuery, dsAt, dsScrolls >> /\ Docs!results' = Docs!results
  BY DEF Docs!Highlight, Docs!results
<1> QED BY <1>1, <1>2 DEF DocsInv, Docs!TypeOK

LEMMA DocsStep == ASSUME DocsInv, [Docs!Next]_(Docs!vars) PROVE DocsInv'
<1>1. /\ Docs!TypeOK /\ (Docs!results # <<>> => dsActive \in DOMAIN Docs!results)
      /\ Len(Docs!results) \in Nat
      /\ DOMAIN Docs!results = 1..Len(Docs!results)
      /\ Len(Docs!results) = 0 <=> Docs!results = <<>>
      /\ \A i \in DOMAIN Docs!results : Docs!results[i] \in Docs!Results
  BY ResultsAre DEF DocsInv, Docs!TypeOK
<1>2. dsActive \in Int /\ dsActive \in 0..Docs!most(Len(Docs!results), 1)
  BY <1>1, MostIs DEF Docs!TypeOK
<1>3. CASE Docs!Open \/ (\E s \in Docs!Results : Docs!ScrollIntoView(s)) \/ UNCHANGED Docs!vars
  <2>1. UNCHANGED << dsQuery, dsActive, dsAt >> /\ dsScrolls' \subseteq dsScrolls
    BY <1>3 DEF Docs!Open, Docs!ScrollIntoView, Docs!vars
  <2> QED BY <1>1, <2>1 DEF DocsInv, Docs!TypeOK, Docs!results
<1>4. CASE Docs!handleOpenChange
  BY <1>1, <1>4, ClosedKeepsDocs DEF Docs!handleOpenChange, Docs!TypeOK
<1>5. ASSUME NEW i \in DOMAIN Docs!results, Docs!Go(i) PROVE DocsInv'
  <2>1. dsAt' \in Docs!Results /\ dsScrolls' \subseteq Sections /\ Docs!Closed
    BY <1>1, <1>5 DEF Docs!Go, Docs!TypeOK
  <2> QED BY <2>1, ClosedKeepsDocs
<1>6. CASE Docs!Enter
  <2>1. Docs!activeIndex \in DOMAIN Docs!results
    BY <1>6 DEF Docs!Enter, Docs!Go
  <2> QED BY <1>5, <1>6, <2>1 DEF Docs!Enter
<1>7. CASE Docs!ArrowDown
  <2>1. /\ Docs!least(dsActive + 1, Len(Docs!results)) \in 0..Len(Docs!results)
        /\ Docs!least(dsActive + 1, Len(Docs!results)) = 0 => Docs!results = <<>>
    BY <1>1, <1>2 DEF Docs!least, Docs!TypeOK
  <2> QED BY <1>7, <2>1, HighlightKeepsDocs DEF Docs!ArrowDown
<1>8. CASE Docs!ArrowUp
  <2>1. CASE Docs!results # <<>>
    <3>1. Docs!most(dsActive - 1, 1) \in 1..Len(Docs!results)
      BY <1>1, <1>2, <2>1 DEF Docs!most
    <3> QED BY <1>8, <3>1, HighlightKeepsDocs DEF Docs!ArrowUp
  <2>2. CASE Docs!results = <<>>
    <3>1. Docs!most(dsActive - 1, 1) = 1
      BY <1>1, <1>2, <2>2, MostIs DEF Docs!most
    <3>2. /\ dsActive' = 1 /\ UNCHANGED << dsQuery, dsAt, dsScrolls >>
      BY <1>8, <3>1 DEF Docs!ArrowUp, Docs!Highlight
    <3> QED BY <1>1, <3>2, FirstKeepsDocs DEF Docs!TypeOK
  <2> QED BY <2>1, <2>2
<1>9. ASSUME NEW i, Docs!MouseEnter(i) PROVE DocsInv'
  <2>1. i \in DOMAIN Docs!results /\ Docs!Highlight(i)
    BY <1>9 DEF Docs!MouseEnter
  <2> QED BY <1>1, <1>2, <2>1, HighlightKeepsDocs
<1>10. ASSUME NEW q \in Docs!Queries, Docs!onQueryChange(q) PROVE DocsInv'
  <2>1. dsQuery' = q /\ dsActive' = 1 /\ UNCHANGED << dsAt, dsScrolls >>
    BY <1>10 DEF Docs!onQueryChange
  <2> QED BY <1>1, <2>1, FirstKeepsDocs DEF Docs!TypeOK
<1>11. ASSUME NEW i, Docs!Click(i) PROVE DocsInv'
  BY <1>5, <1>11 DEF Docs!Click, Docs!Go
<1> QED BY <1>3, <1>4, <1>6, <1>7, <1>8, <1>9, <1>10, <1>11 DEF Docs!Next

LEMMA DocsHighlights == DocsInv => Docs!EnterOpensTheHighlight
<1> SUFFICES ASSUME DocsInv, Docs!results # <<>> PROVE dsActive \in DOMAIN Docs!results /\
                      Docs!activeIndex = dsActive
  BY DEF Docs!EnterOpensTheHighlight
<1>1. Len(Docs!results) \in Nat /\
        DOMAIN Docs!results = 1..Len(Docs!results)
  BY ResultsAre DEF DocsInv, Docs!TypeOK
<1>2. Len(Docs!results) \in Nat /\ dsActive \in 1..Len(Docs!results)
  BY <1>1 DEF DocsInv
<1>3. Docs!most(Len(Docs!results), 1) = Len(Docs!results)
  <2>1. \A x \in Nat \ {0} : Docs!most(x, 1) = x
    BY DEF Docs!most
  <2>2. Len(Docs!results) \in Nat \ {0}
    BY <1>2
  <2> QED BY <2>1, <2>2
<1>4. Docs!activeIndex = dsActive
  BY <1>2, <1>3 DEF Docs!activeIndex, Docs!least
<1> QED BY <1>1, <1>2, <1>4

-----------------------------------------------------------------------------
\* The community page: the signals that are posted.

Sides == {"BUY", "SELL"}
\* A signal as it is laid out, and perhaps turned afterwards.
Signals == [side : Sides, entry : {0}, target : {2}, stop : {-1}]
           \cup [side : Sides, entry : {0}, target : {-2}, stop : {1}]
Images == {Community!Absent, "own", "foreign"}
Drafts ==
    [open : BOOLEAN, text : {"", "words", "quote"}, image : Images, market : BOOLEAN,
     chart : BOOLEAN, signal : {Community!NoSignal} \cup Signals, emoji : BOOLEAN]
CommunityInv ==
    /\ Community!TypeOK /\ cpDraft \in Drafts /\ cpSent.signal \in {Community!NoSignal} \cup
         Signals

LEMMA BlankIs == Community!Blank \in Drafts
BY DEF Drafts, Community!Blank, Images, Community!Absent

LEMMA CommunityInit == Community!Init => CommunityInv
<1> SUFFICES ASSUME Community!Init PROVE CommunityInv
  OBVIOUS
<1>1. cpDraft \in Drafts /\ cpDraft.image = Community!Absent /\
        cpSent.signal = Community!NoSignal
  BY BlankIs DEF Community!Init, Community!Blank, Community!Unsent
<1>2. "forYou" \in CommunityTabs /\ 1 \in 1..MaxPage
  BY CommunityAssumption
<1>3. cpTab \in CommunityTabs /\ cpPage \in 1..MaxPage /\ cpBoot \in BOOLEAN /\
        cpError \in BOOLEAN /\ cpObserved \in BOOLEAN
  BY <1>2 DEF Community!Init
<1>4. Community!TypeOK
  BY <1>1, <1>3 DEF Community!Init, Community!TypeOK
<1> QED BY <1>1, <1>4 DEF CommunityInv

LEMMA SignalsAre ==
    /\ \A side \in Sides : Community!Levels(side) \in Signals
    /\ \A s \in Signals, side \in Sides : s.side \in Sides /\
         [s EXCEPT !.side = side] \in Signals
BY DEF Community!Levels, Signals, Sides

\* A sentinel is observed or not.
LEMMA ObserveIs == ASSUME Community!Observe PROVE cpObserved' \in BOOLEAN
<1>1. Community!Listed' \in BOOLEAN /\ (cpObserved /\ Community!Listed') \in BOOLEAN
  BY DEF Community!Listed
<1> QED BY <1>1 DEF Community!Observe

\* What is browsed leaves the composer alone.
LEMMA BrowsingKeeps == ASSUME CommunityInv, Community!Browsing PROVE CommunityInv'
<1>1. /\ cpTab' \in CommunityTabs /\ cpPage' \in 1..MaxPage /\ cpBoot' \in BOOLEAN
      /\ cpError' \in BOOLEAN /\ cpObserved' \in BOOLEAN
      /\ UNCHANGED << cpDraft, cpReading, cpSent >>
  <2>1. /\ cpTab \in CommunityTabs /\ cpPage \in 1..MaxPage /\ cpBoot \in BOOLEAN
        /\ cpError \in BOOLEAN /\ cpObserved \in BOOLEAN
        /\ 1 \in 1..MaxPage /\ {"forYou", "trending"} \subseteq CommunityTabs
    BY CommunityAssumption DEF CommunityInv, Community!TypeOK
  <2>2. CASE Community!Booted
    BY <2>1, <2>2, ObserveIs DEF Community!Booted, Community!composerVars
  <2>3. CASE Community!Intersect
    BY <2>1, <2>3, ObserveIs, CommunityAssumption DEF Community!Intersect, Community!composerVars
  <2>4. CASE Community!Retry \/ Community!Discover \/
               \E t \in CommunityTabs : Community!ChooseTab(t)
    BY <2>1, <2>4, ObserveIs DEF Community!Retry, Community!Discover, Community!ChooseTab,
         Community!composerVars
  <2>5. CASE Community!OpenSearch \/ Community!CloseDialog \/ Community!OpenPost \/
               \E q \in {"", "gold"} : Community!Query(q)
    BY <2>1, <2>5, ObserveIs DEF Community!OpenSearch, Community!CloseDialog, Community!OpenPost,
         Community!Query, Community!feedVars, Community!composerVars
  <2>6. CASE \E a \in Authors : Community!OpenProfile(a) \/ Community!PickHit(a)
    BY <2>1, <2>6, ObserveIs DEF Community!OpenProfile, Community!PickHit, Community!feedVars,
         Community!composerVars
  <2>7. CASE Community!ToggleThread \/ Community!Reply
             \/ \E t \in {"posts", "replies", "media", "saved"} : Community!ProfileTab(t)
    BY <2>1, <2>7, ObserveIs DEF Community!ToggleThread, Community!Reply, Community!ProfileTab,
         Community!feedVars, Community!composerVars
  <2> QED BY <2>2, <2>3, <2>4, <2>5, <2>6, <2>7 DEF Community!Browsing
<1> QED BY <1>1 DEF CommunityInv, Community!TypeOK

\* A draft of the composer and the tab that is left open.
LEMMA DraftKeeps ==
    ASSUME CommunityInv, cpDraft' \in Drafts, cpTab' \in {cpTab, "forYou"},
           UNCHANGED << cpPage, cpBoot, cpError >>, cpObserved' \in BOOLEAN,
           cpReading' \in Images,
           cpSent'.signal \in {cpSent.signal, cpDraft.signal}
    PROVE  CommunityInv'
<1>1. cpDraft'.image \in Images /\ cpDraft.signal \in {Community!NoSignal} \cup Signals
  BY DEF CommunityInv, Drafts
<1> QED BY <1>1, CommunityAssumption DEF CommunityInv, Community!TypeOK, Images

LEMMA ComposingKeeps == ASSUME CommunityInv, Community!Composing PROVE CommunityInv'
<1>1. cpDraft \in Drafts /\ cpReading \in Images /\ cpObserved \in BOOLEAN
  BY DEF CommunityInv, Community!TypeOK, Images
<1>2. ASSUME NEW d \in Drafts, Community!Compose(d) PROVE CommunityInv'
  BY <1>1, <1>2, DraftKeeps DEF Community!Compose, Community!feedVars
<1>3. CASE Community!Expand \/ Community!Type \/ Community!InsertEmoji \/ Community!ShowEmoji
  <2>1. \E d \in Drafts : Community!Compose(d)
    BY <1>1, <1>3 DEF Community!Expand, Community!Type, Community!InsertEmoji,
         Community!ShowEmoji, Drafts
  <2> QED BY <1>2, <2>1
<1>4. CASE Community!ImportUrl \/ Community!DropImage \/ Community!AttachMarket \/
             Community!DropMarket \/ Community!AttachChart
  <2>1. \E d \in Drafts : Community!Compose(d)
    BY <1>1, <1>4
       DEF Community!ImportUrl, Community!DropImage, Community!AttachMarket,
             Community!DropMarket, Community!AttachChart, Drafts, Images, Community!Absent
  <2> QED BY <1>2, <2>1
<1>5. ASSUME NEW s \in {Community!NoSignal} \cup
               Signals PROVE [cpDraft EXCEPT !.signal = s] \in Drafts
  BY <1>1 DEF Drafts
<1>6. CASE Community!AttachSignal
  <2> DEFINE s == Community!Levels(IF cpDraft.signal = Community!NoSignal THEN "BUY" ELSE cpDraft.signal.side)
  <2>1. cpDraft.signal \in {Community!NoSignal} \cup Signals
    BY <1>1 DEF Drafts
  <2>2. s \in Signals
    BY <2>1, SignalsAre DEF Sides
  <2>3. Community!Compose([cpDraft EXCEPT !.signal = s])
    BY <1>1, <1>6 DEF Community!AttachSignal, Drafts
  <2> HIDE DEF s
  <2> QED BY <1>2, <1>5, <2>2, <2>3
<1>7. ASSUME NEW side \in Sides, Community!TurnSignal(side) PROVE CommunityInv'
  <2>1. cpDraft.signal \in Signals
    BY <1>1, <1>7 DEF Community!TurnSignal, Drafts
  <2>2. [cpDraft EXCEPT !.signal.side = side]
            = [cpDraft EXCEPT !.signal = [cpDraft.signal EXCEPT !.side = side]]
    BY <1>1 DEF Drafts
  <2> QED BY <1>2, <1>5, <1>7, <2>1, <2>2, SignalsAre DEF Community!TurnSignal
<1>8. CASE Community!DropSignal
  BY <1>2, <1>5, <1>8 DEF Community!DropSignal
<1>9. CASE Community!Quote
  <2>1. cpDraft' \in Drafts
    BY <1>1, <1>9 DEF Community!Quote, Drafts
  <2> QED BY <1>1, <1>9, <2>1, DraftKeeps, ObserveIs DEF Community!Quote
<1>10. CASE Community!PickFile \/ Community!FileRead
  <2>1. cpDraft' \in Drafts /\ cpReading' \in Images
    BY <1>1, <1>10 DEF Community!PickFile, Community!FileRead, Drafts, Images, Community!Absent
  <2> QED BY <1>1, <1>10, <2>1, DraftKeeps DEF Community!PickFile, Community!FileRead,
        Community!feedVars
<1>11. CASE Community!PostDraft \/ Community!CancelDraft
  <2>1. cpDraft' \in Drafts /\ cpReading' \in Images
    <3>1. cpDraft' = Community!Blank /\ cpReading' = Community!Stale(cpReading)
      BY <1>11 DEF Community!PostDraft, Community!CancelDraft
    <3> QED BY <3>1, BlankIs DEF Community!Stale, Images, Community!Absent
  <2>2. cpSent'.signal \in {cpSent.signal, cpDraft.signal}
    BY <1>11 DEF Community!PostDraft, Community!CancelDraft
  <2> QED BY <1>1, <1>11, <2>1, <2>2, DraftKeeps, ObserveIs DEF Community!PostDraft, Community!CancelDraft,
        Community!feedVars
<1> QED BY <1>3, <1>4, <1>6, <1>7, <1>8, <1>9, <1>10, <1>11 DEF Community!Composing, Sides

LEMMA CommunityStep == ASSUME CommunityInv,
    [Community!Next]_(Community!vars) PROVE CommunityInv'
<1>1. CASE UNCHANGED Community!vars
  BY <1>1 DEF Community!vars, CommunityInv, Community!TypeOK
<1> QED BY <1>1, BrowsingKeeps, ComposingKeeps DEF Community!Next

LEMMA CommunityPosts == CommunityInv => Community!PostedSignalsAreBracketed
BY DEF CommunityInv, Community!PostedSignalsAreBracketed, Signals

-----------------------------------------------------------------------------
\* The conversations: a reply and its question.

Texts == {"question", "answer", "generic", "the server's reason", "unreachable"}
Turns == [role : {"user", "assistant"}, q : Nat, text : Texts]
Conversations ==
    [id : Nat, title : {"New chat", "derived", "given"}, old : BOOLEAN, messages : Seq(Turns)]
Pages ==
    [at : {"open", "left"}, chats : Seq(Conversations), active : Nat, busy : BOOLEAN,
     editing : Nat, sidebar : BOOLEAN]

\* Every reply of a conversation stands behind its question.
Paired(m) ==
    \A k \in DOMAIN m : m[k].role = "assistant" =>
        k > 1 /\ m[k - 1].role = "user" /\ m[k - 1].q = m[k].q
\* A list of conversations whose numbers are below n, each of them once.
Good(cs, n) ==
    /\ cs \in Seq(Conversations)
    /\ \A i \in DOMAIN cs : cs[i].id < n /\ Paired(cs[i].messages)
    /\ \A i, j \in DOMAIN cs : cs[i].id = cs[j].id => i = j
\* The conversation that a request was asked in, if it is there, ends with the question.
EndsWith(m, q) == m # <<>> /\ m[Len(m)].role = "user" /\ m[Len(m)].q = q
Waits(cs, r) ==
    r.at = "asked" => \A i \in DOMAIN cs : cs[i].id = r.id => EndsWith(cs[i].messages, r.q)
ChatsInv ==
    /\ chSerial \in Nat \ {0} /\ chPage \in Pages /\ chPage.active < chSerial
    /\ Good(chPage.chats, chSerial) /\ Len(chPage.chats) <= MAX_SESSIONS
    /\ Good(chDisk, chSerial) /\ Len(chDisk) <= MAX_SESSIONS /\ chUnsaved \in BOOLEAN
    /\ Chats!Open /\ ~chUnsaved => chDisk = chPage.chats
    /\ chRequest.id \in Nat /\ chRequest.id < chSerial /\ chRequest.q \in Nat
    /\ Waits(chPage.chats, chRequest) /\ (Chats!Open \/ chRequest.at # "asked")

-----------------------------------------------------------------------------
\* Lists of conversations.

LEMMA ListIs ==
    ASSUME NEW n, NEW cs, Good(cs, n)
    PROVE  /\ Len(cs) \in Nat /\ DOMAIN cs = 1..Len(cs)
           /\ \A i \in DOMAIN cs :
                /\ cs[i] \in Conversations /\ cs[i].id \in Nat /\ cs[i].messages \in Seq(Turns)
                /\ cs[i].id < n /\ Paired(cs[i].messages)
<1>1. Len(cs) \in Nat /\ DOMAIN cs = 1..Len(cs) /\ cs \in Seq(Conversations)
  BY DEF Good
<1>2. \A i \in DOMAIN cs : cs[i] \in Conversations
  BY <1>1, ElementOfSeq
<1> QED BY <1>1, <1>2 DEF Good, Conversations

\* What is good stays so when a number is given away.
LEMMA StaysGood ==
    ASSUME NEW n \in Nat, NEW cs, Good(cs, n)
    PROVE  Good(cs, n + 1)
<1>1. \A i \in DOMAIN cs : cs[i].id < n + 1
  BY ListIs
<1> QED BY <1>1 DEF Good

\* A list of elements of another one, from positions of their own.
LEMMA PartIsGood ==
    ASSUME NEW n \in Nat, NEW cs, Good(cs, n), NEW ds \in Seq(Conversations),
           NEW pos \in [DOMAIN ds -> DOMAIN cs],
           \A i, j \in DOMAIN ds : pos[i] = pos[j] => i = j,
           \A i \in DOMAIN ds : ds[i] = cs[pos[i]]
    PROVE  /\ Good(ds, n)
           /\ \A r : Waits(cs, r) => Waits(ds, r)
<1>1. \A i \in DOMAIN ds : pos[i] \in DOMAIN cs
  OBVIOUS
<1>2. Good(ds, n)
  BY <1>1 DEF Good
<1>3. \A r : Waits(cs, r) => Waits(ds, r)
  BY <1>1 DEF Waits
<1> QED BY <1>2, <1>3

\* The first conversations of a list.
LEMMA PrefixIsGood ==
    ASSUME NEW n \in Nat, NEW cs, Good(cs, n), NEW k \in 0..Len(cs)
    PROVE  /\ Good(SubSeq(cs, 1, k), n)
           /\ \A r : Waits(cs, r) => Waits(SubSeq(cs, 1, k), r)
<1> DEFINE ds == SubSeq(cs, 1, k)
           pos == [i \in 1..k |-> i]
<1>1. Len(cs) \in Nat /\ DOMAIN cs = 1..Len(cs) /\ \A i \in DOMAIN cs : cs[i] \in Conversations
  BY ListIs
<1>2. ds \in Seq(Conversations) /\ Len(ds) = k /\ \A i \in 1..k : ds[i] = cs[i]
  <2>1. \A i \in 1..k : cs[i] \in Conversations
    BY <1>1
  <2>2. /\ ds \in Seq(Conversations) /\ Len(ds) = IF 1 <= k THEN k - 1 + 1 ELSE 0
        /\ \A i \in 1..(k - 1 + 1) : ds[i] = cs[1 + i - 1]
    BY <2>1, SubSeqProperties
  <2>3. k - 1 + 1 = k /\ \A i \in 1..k : 1 + i - 1 = i
    OBVIOUS
  <2>4. \A i \in 1..k : ds[i] = cs[i]
    <3> HIDE DEF ds
    <3> QED BY <2>2, <2>3
  <2> HIDE DEF ds
  <2> QED BY <2>2, <2>4
<1>3. DOMAIN ds = 1..k
  BY <1>2
<1> HIDE DEF ds
<1>4. pos \in [DOMAIN ds -> DOMAIN cs]
  BY <1>1, <1>3
<1>5. /\ \A i, j \in DOMAIN ds : pos[i] = pos[j] => i = j
      /\ \A i \in DOMAIN ds : ds[i] = cs[pos[i]]
  BY <1>2, <1>3
<1> HIDE DEF pos
<1>6. Good(ds, n) /\ \A r : Waits(cs, r) => Waits(ds, r)
  BY <1>2, <1>4, <1>5, PartIsGood
<1> QED BY <1>6 DEF ds

LEMMA SessionIs ==
    ASSUME NEW id \in Nat, NEW old \in BOOLEAN
    PROVE  Chats!Session(id, old) \in Conversations /\ Paired(Chats!Session(id, old).messages)
<1>1. <<>> \in Seq(Turns) /\ DOMAIN <<>> = {}
  OBVIOUS
<1> QED BY <1>1 DEF Chats!Session, Conversations, Paired

\* A new conversation goes before the others, the last of which may fall out.
LEMMA PrependIs ==
    ASSUME NEW n \in Nat, Good(chPage.chats, n)
    PROVE  /\ Good(Chats!Prepend(n), n + 1) /\ Len(Chats!Prepend(n)) <= MAX_SESSIONS
           /\ \A i \in DOMAIN Chats!Prepend(n) : Chats!Prepend(n)[i].id = n =>
                Chats!Prepend(n)[i] = Chats!Session(n, FALSE)
           /\ \A r : r.id < n /\ r.id \in Nat /\ Waits(chPage.chats, r) =>
                Waits(Chats!Prepend(n), r)
<1> DEFINE cs == chPage.chats
           new == Chats!Session(n, FALSE)
           all == <<new>> \o cs
<1>1. /\ cs \in Seq(Conversations) /\ Len(cs) \in Nat /\ DOMAIN cs = 1..Len(cs)
      /\ \A i \in DOMAIN cs : cs[i] \in Conversations /\ cs[i].id \in Nat /\ cs[i].id < n
      /\ \A i \in DOMAIN cs : Paired(cs[i].messages)
      /\ \A i, j \in DOMAIN cs : cs[i].id = cs[j].id => i = j
  BY ListIs DEF Good
<1>2. new \in Conversations /\ Paired(new.messages) /\ new.id = n
  BY SessionIs DEF Chats!Session
<1> HIDE DEF new, cs
<1>3. /\ all \in Seq(Conversations) /\ Len(all) = Len(cs) + 1 /\ DOMAIN all = 1..(Len(cs) + 1)
      /\ all[1] = new /\ \A i \in 2..(Len(cs) + 1) : all[i] = cs[i - 1] /\ i - 1 \in DOMAIN cs
  <2>1. <<new>> \in Seq(Conversations) /\ Len(<<new>>) = 1 /\ <<new>>[1] = new
    BY <1>2
  <2>2. /\ all \in Seq(Conversations) /\ Len(all) = 1 + Len(cs)
        /\ \A i \in 1..(1 + Len(cs)) : all[i] = IF i <= 1 THEN <<new>>[i] ELSE cs[i - 1]
    BY <1>1, <2>1, ConcatProperties
  <2> HIDE DEF all
  <2>3. DOMAIN all = 1..(Len(cs) + 1)
    BY <1>1, <2>2
  <2>4. all[1] = new
    BY <1>1, <2>1, <2>2
  <2>5. ASSUME NEW i \in 2..(Len(cs) + 1) PROVE all[i] = cs[i - 1] /\ i - 1 \in DOMAIN cs
    <3>1. i \in 1..(1 + Len(cs)) /\ ~(i <= 1) /\ i - 1 \in 1..Len(cs)
      BY <1>1
    <3> QED BY <1>1, <2>2, <3>1
  <2> QED BY <1>1, <2>2, <2>3, <2>4, <2>5
<1> HIDE DEF all
<1>4. ASSUME NEW i \in DOMAIN all
      PROVE  \/ i = 1 /\ all[i] = new
             \/ /\ i # 1 /\ i - 1 \in DOMAIN cs /\ all[i] = cs[i - 1]
                /\ all[i].id \in Nat /\ all[i].id < n /\ Paired(all[i].messages)
  <2>1. i = 1 \/ i \in 2..(Len(cs) + 1)
    BY <1>1, <1>3
  <2>2. ASSUME i \in 2..(Len(cs) + 1)
        PROVE  i # 1 /\ i - 1 \in DOMAIN cs /\ all[i] = cs[i - 1]
    BY <1>3, <2>2
  <2> QED BY <1>1, <1>3, <2>1, <2>2
<1>5. Good(all, n + 1)
  <2>1. ASSUME NEW i \in DOMAIN all PROVE all[i].id < n + 1 /\ Paired(all[i].messages)
    BY <1>2, <1>4
  <2>2. ASSUME NEW i \in DOMAIN all, NEW j \in DOMAIN all, all[i].id = all[j].id PROVE i = j
    <3>1. CASE i = 1 \/ j = 1
      BY <1>2, <1>4, <2>2, <3>1
    <3>2. CASE i # 1 /\ j # 1
      <4>1. i - 1 \in DOMAIN cs /\ j - 1 \in DOMAIN cs /\ cs[i - 1].id = cs[j - 1].id
        BY <1>4, <2>2, <3>2
      <4>2. i - 1 = j - 1 /\ i \in Int /\ j \in Int
        BY <1>1, <1>3, <4>1
      <4> QED BY <4>2
    <3> QED BY <3>1, <3>2
  <2> QED BY <1>3, <2>1, <2>2 DEF Good
<1>6. ASSUME NEW r, r.id < n, r.id \in Nat, Waits(cs, r) PROVE Waits(all, r)
  <2> SUFFICES ASSUME r.at = "asked", NEW i \in DOMAIN all, all[i].id = r.id
               PROVE  EndsWith(all[i].messages, r.q)
    BY DEF Waits
  <2>1. all[i] # new
    BY <1>2, <1>6
  <2>2. i - 1 \in DOMAIN cs /\ all[i] = cs[i - 1]
    BY <1>4, <2>1
  <2> QED BY <1>6, <2>2 DEF Waits
<1> DEFINE k == IF Len(all) < MAX_SESSIONS THEN Len(all) ELSE MAX_SESSIONS
<1>7. k \in 0..Len(all)
  BY <1>1, <1>3, ChatsAssumption
<1>8. Chats!Prepend(n) = SubSeq(all, 1, k)
  BY DEF Chats!Prepend, all, new, cs
<1>9. \A i \in DOMAIN all : all[i].id = n => all[i] = new
  <2> SUFFICES ASSUME NEW i \in DOMAIN all, all[i].id = n PROVE all[i] = new
    OBVIOUS
  <2> QED BY <1>4
<1>10. DOMAIN SubSeq(all, 1, k) = 1..k /\ \A i \in 1..k : SubSeq(all, 1, k)[i] = all[i]
  <2> HIDE DEF k
  <2>1. all \in Seq(Conversations) /\ k \in 0..Len(all)
    BY <1>3, <1>7
  <2> QED BY <2>1
<1>11. \A i \in DOMAIN Chats!Prepend(n) : Chats!Prepend(n)[i].id = n =>
         Chats!Prepend(n)[i] = new
  <2> HIDE DEF k
  <2>1. 1..k \subseteq DOMAIN all
    BY <1>1, <1>3, <1>7
  <2> QED BY <1>8, <1>9, <1>10, <2>1
<1>15. Len(Chats!Prepend(n)) <= MAX_SESSIONS
  <2>1. k <= MAX_SESSIONS
    BY <1>1, <1>3, ChatsAssumption
  <2> HIDE DEF k
  <2>2. Len(SubSeq(all, 1, k)) = k
    <3>1. all \in Seq(Conversations) /\ k \in 0..Len(all)
      BY <1>3, <1>7
    <3> QED BY <3>1
  <2> QED BY <1>8, <2>1, <2>2
<1> HIDE DEF k
<1>12. n + 1 \in Nat
  OBVIOUS
<1>13. Good(Chats!Prepend(n), n + 1) /\ \A r : Waits(all, r) => Waits(Chats!Prepend(n), r)
  BY <1>5, <1>7, <1>8, <1>12, PrefixIsGood
<1>14. \A r : r.id < n /\ r.id \in Nat /\ Waits(cs, r) => Waits(Chats!Prepend(n), r)
  BY <1>6, <1>13
<1> QED BY <1>11, <1>13, <1>14, <1>15 DEF new, cs

\* The page selects conversations as Selection does.
LEMMA SelectionIsTheSame == ASSUME NEW s, NEW K PROVE Chats!Only(s, K) = Only(s, K)
BY DEF Chats!Only, Only, Chats!Place, Place, Chats!Cardinality, Cardinality

\* The conversations that a selection leaves.
LEMMA SelectedIsGood ==
    ASSUME NEW n \in Nat, NEW cs, Good(cs, n), NEW K \in SUBSET DOMAIN cs
    PROVE  /\ Good(Only(cs, K), n) /\ Len(Only(cs, K)) <= Len(cs)
           /\ \A r : Waits(cs, r) => Waits(Only(cs, K), r)
<1>1. cs \in Seq(Conversations)
  BY DEF Good
<1> DEFINE N == 1..Cardinality(K)
<1>2. /\ Only(cs, K) \in Seq(Conversations) /\ DOMAIN Only(cs, K) = N /\ Cardinality(K) \in Nat
      /\ \E pos \in [N -> K] :
            /\ \A a, b \in N : a < b => pos[a] < pos[b]
            /\ \A a \in N : Only(cs, K)[a] = cs[pos[a]]
  BY SMTT(30), <1>1, OnlyIs
<1>3. PICK pos \in [N -> K] :
        /\ \A a, b \in N : a < b => pos[a] < pos[b]
        /\ \A a \in N : Only(cs, K)[a] = cs[pos[a]]
  BY <1>2
<1>4. ASSUME NEW a \in N, NEW b \in N, pos[a] = pos[b] PROVE a = b
  <2>1. a \in Int /\ b \in Int /\ pos[a] \in Int /\ pos[b] \in Int
    <3>1. Len(cs) \in Nat /\ DOMAIN cs = 1..Len(cs)
      BY ListIs
    <3>2. pos[a] \in DOMAIN cs /\ pos[b] \in DOMAIN cs
      OBVIOUS
    <3> QED BY <3>1, <3>2
  <2>2. ~(a < b) /\ ~(b < a)
    BY <1>3, <1>4, <2>1
  <2> QED BY <2>1, <2>2
<1>5. pos \in [N -> DOMAIN cs]
  OBVIOUS
<1>6. Len(Only(cs, K)) <= Len(cs)
  <2>1. Len(cs) \in Nat /\ DOMAIN cs = 1..Len(cs)
    BY <1>1
  <2>2. IsFiniteSet(DOMAIN cs) /\ Cardinality(DOMAIN cs) = Len(cs)
    <3>1. ASSUME NEW l \in Nat PROVE IsFiniteSet(1..l) /\ Cardinality(1..l) = l
      <4> HIDE DEF N
      <4>1. 1 \in Int /\ l \in Int
        OBVIOUS
      <4>2. /\ IsFiniteSet(1..l)
            /\ Cardinality(1..l) = IF 1 > l THEN 0 ELSE l - 1 + 1
        BY <4>1, FS_Interval
      <4> QED BY <4>2
    <3> HIDE DEF N
    <3> QED BY <2>1, <3>1
  <2>3. Cardinality(K) <= Len(cs)
    BY <2>2, FS_Subset
  <2>4. Len(Only(cs, K)) = Cardinality(K)
    BY <1>2
  <2> QED BY <2>3, <2>4
<1>7. Good(Only(cs, K), n) /\ \A r : Waits(cs, r) => Waits(Only(cs, K), r)
  <2> HIDE DEF N
  <2>1. DOMAIN Only(cs, K) = N
    BY <1>2
  <2> QED BY <1>2, <1>3, <1>4, <1>5, <2>1, PartIsGood
<1> QED BY <1>6, <1>7

\* A list whose conversations were changed where they are.
LEMMA ChangedIsGood ==
    ASSUME NEW n \in Nat, NEW cs, Good(cs, n), NEW ds,
           ds = [i \in DOMAIN cs |-> ds[i]],
           \A i \in DOMAIN cs :
                ds[i] \in Conversations /\ ds[i].id = cs[i].id /\ Paired(ds[i].messages)
    PROVE  Good(ds, n) /\ DOMAIN ds = DOMAIN cs /\ Len(ds) = Len(cs)
<1>1. Len(cs) \in Nat /\ DOMAIN cs = 1..Len(cs) /\ DOMAIN ds = DOMAIN cs
  BY ListIs
<1>2. ds \in Seq(Conversations)
  <2>1. ds \in [1..Len(cs) -> Conversations]
    BY <1>1
  <2> QED BY <1>1, <2>1
<1> QED BY <1>1, <1>2 DEF Good

\* A question may join any conversation, and a reply one that ends with its question.
LEMMA AppendedIs ==
    ASSUME NEW m \in Seq(Turns), Paired(m), NEW q \in Nat
    PROVE  /\ Append(m, Chats!User(q)) \in Seq(Turns) /\ Paired(Append(m, Chats!User(q)))
           /\ EndsWith(Append(m, Chats!User(q)), q)
           /\ \A text \in Texts : EndsWith(m, q) =>
                /\ Append(m, Chats!Assistant(q, text)) \in Seq(Turns)
                /\ Paired(Append(m, Chats!Assistant(q, text)))
<1>1. /\ Chats!User(q) \in Turns /\ Chats!User(q).role = "user" /\ Chats!User(q).q = q
      /\ \A text \in Texts : /\ Chats!Assistant(q, text) \in Turns
                             /\ Chats!Assistant(q, text).role = "assistant"
                             /\ Chats!Assistant(q, text).q = q
  BY DEF Chats!User, Chats!Assistant, Turns, Texts
<1>2. Len(m) \in Nat /\ DOMAIN m = 1..Len(m)
  OBVIOUS
<1>3. ASSUME NEW t \in Turns
      PROVE  LET a == Append(m, t)
             IN  /\ a \in Seq(Turns) /\ Len(a) = Len(m) + 1 /\ DOMAIN a = 1..(Len(m) + 1)
                 /\ a[Len(m) + 1] = t /\ \A k \in 1..Len(m) : a[k] = m[k]
  OBVIOUS
<1>4. ASSUME NEW t \in Turns,
             t.role = "user" \/ (t.role = "assistant" /\ EndsWith(m, t.q))
      PROVE  Paired(Append(m, t))
  <2> DEFINE a == Append(m, t)
  <2>1. /\ Len(a) = Len(m) + 1 /\ DOMAIN a = 1..(Len(m) + 1)
        /\ a[Len(m) + 1] = t /\ \A k \in 1..Len(m) : a[k] = m[k]
    BY <1>3
  <2> HIDE DEF a
  <2> SUFFICES ASSUME NEW k \in DOMAIN a, a[k].role = "assistant"
               PROVE  k > 1 /\ a[k - 1].role = "user" /\ a[k - 1].q = a[k].q
    BY DEF Paired, a
  <2>2. CASE k \in 1..Len(m)
    <3>1. k > 1 /\ m[k - 1].role = "user" /\ m[k - 1].q = m[k].q
      BY <1>2, <2>1, <2>2 DEF Paired
    <3>2. k - 1 \in 1..Len(m)
      BY <1>2, <2>2, <3>1
    <3> QED BY <2>1, <2>2, <3>1, <3>2
  <2>3. CASE k = Len(m) + 1
    <3>1. EndsWith(m, t.q) /\ a[k] = t
      BY <1>4, <2>1, <2>3
    <3>2. Len(m) # 0
      BY <1>2, <3>1 DEF EndsWith
    <3>3. Len(m) \in 1..Len(m) /\ k - 1 = Len(m) /\ k > 1
      BY <1>2, <2>3, <3>2
    <3> QED BY <2>1, <3>1, <3>3 DEF EndsWith
  <2> QED BY <1>2, <2>1, <2>2, <2>3
<1>5. EndsWith(Append(m, Chats!User(q)), q)
  <2> DEFINE a == Append(m, Chats!User(q))
  <2>1. Len(a) = Len(m) + 1 /\ a[Len(m) + 1] = Chats!User(q)
    BY <1>1, <1>3
  <2>2. Len(<<>>) = 0
    OBVIOUS
  <2> HIDE DEF a
  <2>3. a # <<>>
    BY <1>2, <2>1, <2>2
  <2> QED BY <1>1, <2>1, <2>3 DEF EndsWith, a
<1> QED BY <1>1, <1>3, <1>4, <1>5

-----------------------------------------------------------------------------
\* What the user and the backend do.

LEMMA ChatsInit == Chats!Init => ChatsInv
<1> SUFFICES ASSUME Chats!Init PROVE ChatsInv
  OBVIOUS
<1>1. chDisk = <<>> \/ \E s \in Chats!Earlier : chDisk = <<s>>
  BY DEF Chats!Init
<1>2. Good(chDisk, 2) /\ Len(chDisk) <= MAX_SESSIONS
  <2>1. CASE chDisk = <<>>
    BY <2>1, ChatsAssumption DEF Good
  <2>2. ASSUME NEW old \in BOOLEAN,
               chDisk = <<[Chats!Session(1, old) EXCEPT !.title = "derived",
                              !.messages = <<Chats!User(0), Chats!Assistant(0, "answer")>>]>>
        PROVE  Good(chDisk, 2) /\ Len(chDisk) <= MAX_SESSIONS
    <3> DEFINE m == <<Chats!User(0), Chats!Assistant(0, "answer")>>
               first == Chats!Session(1, old)
               s == [first EXCEPT !.title = "derived", !.messages = m]
    <3>1. chDisk = <<s>>
      BY <2>2
    <3>2. Chats!User(0) \in Turns /\ Chats!Assistant(0, "answer") \in Turns
      BY DEF Chats!User, Chats!Assistant, Turns, Texts
    <3>3. m \in Seq(Turns) /\ Paired(m)
      <4>1. DOMAIN m = {1, 2} /\ m[1] = Chats!User(0) /\ m[2] = Chats!Assistant(0, "answer")
        OBVIOUS
      <4> QED BY <3>2, <4>1 DEF Paired, Chats!User, Chats!Assistant
    <3> HIDE DEF m
    <3>4. s \in Conversations /\ s.id = 1 /\ s.messages = m
      <4>1. first \in Conversations /\ first.id = 1
        BY SessionIs DEF Chats!Session
      <4> HIDE DEF first
      <4> QED BY <3>3, <4>1 DEF Conversations
    <3> HIDE DEF s
    <3>5. <<s>> \in Seq(Conversations) /\ DOMAIN <<s>> = {1} /\ <<s>>[1] = s /\ Len(<<s>>) = 1
      BY <3>4
    <3> QED BY <3>1, <3>3, <3>4, <3>5, ChatsAssumption DEF Good
  <2> QED BY <1>1, <2>1, <2>2 DEF Chats!Earlier
<1>3. chPage = Chats!Mounted(chDisk) /\ chPage \in Pages /\ chPage.active < 2 /\
        chPage.chats = chDisk
  <2>1. chDisk # <<>> => chDisk[1].id \in Nat /\ chDisk[1].id < 2
    BY <1>2, ListIs
  <2>2. chDisk \in Seq(Conversations)
    BY <1>2 DEF Good
  <2> QED BY <2>1, <2>2 DEF Chats!Init, Chats!Mounted, Pages
<1>4. chSerial = 2 /\ chRequest = Chats!NoRequest
  BY DEF Chats!Init
<1>5. Chats!NoRequest.id = 0 /\ Chats!NoRequest.q = 0 /\ Chats!NoRequest.at # "asked"
  BY DEF Chats!NoRequest, Chats!None
<1>6. chUnsaved = FALSE
  BY DEF Chats!Init
<1>7. Waits(chPage.chats, chRequest) /\ chRequest.at # "asked"
  BY <1>4, <1>5 DEF Waits
<1>8. Good(chPage.chats, chSerial) /\ Good(chDisk, chSerial) /\ Len(chPage.chats) <= MAX_SESSIONS
  BY <1>2, <1>3, <1>4
<1>9. chRequest.id \in Nat /\ chRequest.id < chSerial /\ chRequest.q \in Nat
  BY <1>4, <1>5
<1>10. chSerial \in Nat \ {0} /\ chPage.active < chSerial
  BY <1>3, <1>4
<1>11. Len(chDisk) <= MAX_SESSIONS /\ chUnsaved \in BOOLEAN /\ chPage \in Pages /\
         chDisk = chPage.chats
  BY <1>2, <1>3, <1>6
<1> QED BY <1>7, <1>8, <1>9, <1>10, <1>11, Zenon DEF ChatsInv

\* The page gets a list, and if it can be written the storage gets the same one.
LEMMA PutKeeps ==
    ASSUME ChatsInv, NEW p \in Pages, Chats!Put(p), chSerial' \in {chSerial, chSerial + 1},
           p.active < chSerial', Good(p.chats, chSerial'), Len(p.chats) <= MAX_SESSIONS,
           chRequest'.id \in Nat,
           chRequest'.id < chSerial', chRequest'.q \in Nat, Waits(p.chats, chRequest'),
           p.at = "open"
    PROVE  ChatsInv'
<1>1. /\ chPage' = p
      /\ \E ok \in BOOLEAN :
            chDisk' = (IF ok THEN p.chats ELSE chDisk) /\ chUnsaved' = ~ok
  BY DEF Chats!Put
<1>2. chSerial \in Nat \ {0} /\ Good(chDisk, chSerial) /\ Len(chDisk) <= MAX_SESSIONS
  BY DEF ChatsInv
<1>3. Good(chDisk, chSerial')
  BY <1>2, StaysGood
<1>4. Good(chDisk', chSerial') /\ Len(chDisk') <= MAX_SESSIONS
  BY <1>1, <1>2, <1>3
<1>5. chUnsaved' \in BOOLEAN /\ (~chUnsaved' => chDisk' = chPage'.chats)
  BY <1>1
<1> QED BY <1>1, <1>2, <1>4, <1>5 DEF ChatsInv, Chats!Open

\* Something else of the page changes.
LEMMA TurnKeeps ==
    ASSUME ChatsInv, Chats!Open, NEW p \in Pages, Chats!Turn(p), p.chats = chPage.chats,
           p.at = "open", p.active < chSerial, chSerial' = chSerial, chRequest' = chRequest
    PROVE  ChatsInv'
<1>1. chPage' = p /\ UNCHANGED << chDisk, chUnsaved >>
  BY DEF Chats!Turn
<1> QED BY <1>1 DEF ChatsInv, Chats!Open

LEMMA OpenIs ==
    ASSUME ChatsInv, Chats!Open
    PROVE  /\ chSerial \in Nat \ {0} /\ chPage \in Pages /\ chPage.at = "open"
           /\ Good(chPage.chats, chSerial) /\ Len(chPage.chats) <= MAX_SESSIONS
           /\ Len(chPage.chats) \in Nat /\ chPage.active \in Nat /\ chPage.active < chSerial
           /\ chRequest.id \in Nat /\ chRequest.id < chSerial /\ chRequest.q \in Nat
           /\ Waits(chPage.chats, chRequest)
BY DEF ChatsInv, Pages, Good, Chats!Open

LEMMA ListKeeps ==
    ASSUME ChatsInv,
           Chats!newChat \/ Chats!EndRename \/ Chats!Sidebar
            \/ \E id \in Chats!Serials : Chats!Select(id) \/ Chats!deleteChat(id) \/
                 Chats!StartRename(id)
    PROVE  ChatsInv'
<1>1. Chats!Open
  BY DEF Chats!newChat, Chats!EndRename, Chats!Sidebar, Chats!Select, Chats!deleteChat,
           Chats!StartRename
<1>2. /\ chSerial \in Nat \ {0} /\ chPage \in Pages /\ chPage.at = "open" /\ Good(chPage.chats, chSerial)
      /\ Len(chPage.chats) <= MAX_SESSIONS /\ Len(chPage.chats) \in Nat
      /\ chPage.active \in Nat /\ chPage.active < chSerial /\ chRequest.id \in Nat
      /\ chRequest.id < chSerial /\ chRequest.q \in Nat /\ Waits(chPage.chats, chRequest)
  BY <1>1, OpenIs
<1>3. CASE Chats!newChat
  <2> DEFINE p == [chPage EXCEPT !.chats = Chats!Prepend(chSerial), !.active = chSerial,
        !.sidebar = FALSE]
  <2>1. Chats!Put(p) /\ chSerial' = chSerial + 1 /\ chRequest' = chRequest
    BY <1>3 DEF Chats!newChat, Chats!Set, Chats!Fresh
  <2>2. /\ Good(Chats!Prepend(chSerial), chSerial + 1)
        /\ Waits(Chats!Prepend(chSerial), chRequest)
        /\ Len(Chats!Prepend(chSerial)) <= MAX_SESSIONS
    BY <1>2, PrependIs
  <2>3. p \in Pages /\ p.active = chSerial /\ p.chats = Chats!Prepend(chSerial) /\ p.at = "open"
    BY <1>2, <2>2 DEF Pages, Good
  <2> HIDE DEF p
  <2> QED BY <1>2, <2>1, <2>2, <2>3, PutKeeps
<1>4. CASE Chats!EndRename
  <2> DEFINE to == [i \in DOMAIN chPage.chats |->
                        IF chPage.chats[i].id = chPage.editing
                        THEN [chPage.chats[i] EXCEPT !.title = "given"] ELSE chPage.chats[i]]
             p == [chPage EXCEPT !.editing = 0, !.chats = to]
             o == [chPage EXCEPT !.editing = 0]
  <2>2. (Chats!Put(p) \/ Chats!Turn(o)) /\ chSerial' = chSerial /\ chRequest' = chRequest
    BY <1>4 DEF Chats!EndRename, Chats!Set, Chats!Where
  <2>3. Good(to, chSerial) /\ Waits(to, chRequest) /\ Len(to) <= MAX_SESSIONS
    <3>1. ASSUME NEW i \in DOMAIN chPage.chats
          PROVE  /\ to[i] \in Conversations /\ to[i].id = chPage.chats[i].id
                 /\ to[i].messages = chPage.chats[i].messages
                 /\ Paired(chPage.chats[i].messages)
      <4>1. chPage.chats[i] \in Conversations /\ Paired(chPage.chats[i].messages)
        BY <1>2, ListIs
      <4>2. ASSUME NEW c \in Conversations
            PROVE  /\ [c EXCEPT !.title = "given"] \in Conversations
                   /\ [c EXCEPT !.title = "given"].id = c.id
                   /\ [c EXCEPT !.title = "given"].messages = c.messages
        BY DEF Conversations
      <4> QED BY <4>1, <4>2
    <3>2. to = [i \in DOMAIN chPage.chats |-> to[i]] /\ DOMAIN to = DOMAIN chPage.chats
      OBVIOUS
    <3> HIDE DEF to
    <3>3. Good(to, chSerial) /\ Len(to) <= MAX_SESSIONS
      <4> DEFINE cs == chPage.chats
                 n == chSerial
      <4>1. n \in Nat /\ Good(cs, n) /\ Len(cs) <= MAX_SESSIONS
        BY <1>2
      <4>2. to = [i \in DOMAIN cs |-> to[i]]
        BY <3>2
      <4>3. \A i \in DOMAIN cs :
                to[i] \in Conversations /\ to[i].id = cs[i].id /\ Paired(to[i].messages)
        BY <3>1
      <4> HIDE DEF cs, n
      <4>4. Good(to, n) /\ Len(to) = Len(cs)
        BY <4>1, <4>2, <4>3, ChangedIsGood
      <4>5. Good(to, n) /\ Len(to) <= MAX_SESSIONS
        BY <4>1, <4>4
      <4> QED BY <4>5 DEF n
    <3>4. Waits(to, chRequest)
      BY <1>2, <3>1, <3>2 DEF Waits
    <3> QED BY <3>3, <3>4
  <2> HIDE DEF to
  <2>4. p \in Pages /\ p.active = chPage.active /\ p.chats = to /\ p.at = "open"
    BY <1>2, <2>3 DEF Pages, Good
  <2>5. o \in Pages /\ o.active = chPage.active /\ o.chats = chPage.chats /\ o.at = "open"
    BY <1>2 DEF Pages
  <2> HIDE DEF p, o
  <2>6. CASE Chats!Put(p)
    BY <1>2, <2>2, <2>3, <2>4, <2>6, PutKeeps
  <2>7. CASE Chats!Turn(o)
    BY <1>1, <1>2, <2>2, <2>5, <2>7, TurnKeeps
  <2> QED BY <2>2, <2>6, <2>7
<1>5. ASSUME NEW id \in Chats!Serials, Chats!deleteChat(id) PROVE ChatsInv'
  <2> DEFINE cs == Chats!Only(chPage.chats,
        {i \in DOMAIN chPage.chats : chPage.chats[i].id # id})
             p == [chPage EXCEPT !.chats = cs, !.active = IF @ = id THEN 0 ELSE @]
  <2>1. Chats!Put(p) /\ chSerial' = chSerial /\ chRequest' = chRequest
    BY <1>5 DEF Chats!deleteChat, Chats!Set
  <2>2. /\ Good(cs, chSerial) /\ Waits(cs, chRequest) /\ Len(cs) <= MAX_SESSIONS
        /\ cs \in Seq(Conversations)
    <3>1. Good(cs, chSerial) /\ Waits(cs, chRequest) /\ Len(cs) <= Len(chPage.chats)
      BY <1>2, SelectedIsGood, SelectionIsTheSame
    <3>2. cs \in Seq(Conversations)
      BY <3>1 DEF Good
    <3> HIDE DEF cs
    <3>3. Len(cs) \in Nat
      BY <3>2
    <3> QED BY <1>2, <3>1, <3>2, <3>3, ChatsAssumption
  <2> HIDE DEF cs
  <2> DEFINE active == IF chPage.active = id THEN 0 ELSE chPage.active
  <2>3. active \in Nat /\ active < chSerial /\ cs \in Seq(Conversations)
    BY <1>2, <2>2 DEF Good
  <2>4. p = [chPage EXCEPT !.chats = cs, !.active = active]
    OBVIOUS
  <2> HIDE DEF active, p
  <2>5. p \in Pages /\ p.active < chSerial /\ p.chats = cs /\ p.at = "open"
    BY <1>2, <2>3, <2>4 DEF Pages
  <2> QED BY <1>2, <2>1, <2>2, <2>5, PutKeeps
<1>7. CASE Chats!Sidebar
  <2>1. [chPage EXCEPT !.sidebar = ~@] \in Pages
    BY <1>2 DEF Pages
  <2> QED BY <1>1, <1>2, <1>7, <2>1, TurnKeeps DEF Chats!Sidebar, Pages
<1>8. ASSUME NEW id \in Chats!Serials, Chats!Select(id) PROVE ChatsInv'
  <2> DEFINE p == [chPage EXCEPT !.active = id, !.sidebar = FALSE]
  <2>1. Chats!Turn(p) /\ chSerial' = chSerial /\ chRequest' = chRequest /\ id \in Chats!Listed
    BY <1>8 DEF Chats!Select
  <2>2. PICK i \in DOMAIN chPage.chats : chPage.chats[i].id = id
    BY <2>1 DEF Chats!Listed, Chats!Ids
  <2>3. id \in Nat /\ id < chSerial
    BY <1>2, <2>2, ListIs
  <2>4. p \in Pages /\ p.active = id /\ p.chats = chPage.chats /\ p.at = "open"
    BY <1>2, <2>3 DEF Pages
  <2> HIDE DEF p
  <2> QED BY <1>1, <2>1, <2>3, <2>4, TurnKeeps
<1>9. ASSUME NEW id \in Chats!Serials, Chats!StartRename(id) PROVE ChatsInv'
  <2> DEFINE p == [chPage EXCEPT !.editing = id]
  <2>1. Chats!Turn(p) /\ chSerial' = chSerial /\ chRequest' = chRequest /\ id \in Chats!Listed
    BY <1>9 DEF Chats!StartRename
  <2>2. PICK i \in DOMAIN chPage.chats : chPage.chats[i].id = id
    BY <2>1 DEF Chats!Listed, Chats!Ids
  <2>3. id \in Nat
    BY <1>2, <2>2, ListIs
  <2>4. p \in Pages /\ p.active = chPage.active /\ p.chats = chPage.chats /\ p.at = "open"
    BY <1>2, <2>3 DEF Pages
  <2> HIDE DEF p
  <2> QED BY <1>1, <1>2, <2>1, <2>4, TurnKeeps
<1> QED BY SMTT(30), <1>3, <1>4, <1>5, <1>7, <1>8, <1>9

LEMMA AskKeeps ==
    ASSUME ChatsInv, Chats!Open, Chats!Fresh, Chats!Ask(chSerial)
    PROVE  ChatsInv'
<1> DEFINE q == chSerial
           id == IF chPage.active = 0 THEN q ELSE chPage.active
           made == IF chPage.active = 0 THEN Chats!Prepend(id) ELSE chPage.chats
           asked == [i \in DOMAIN made |->
                        IF made[i].id # id THEN made[i]
                        ELSE [made[i] EXCEPT !.messages = Append(@, Chats!User(q)),
                                             !.title = Chats!Titled(made[i])]]
           p == [chPage EXCEPT !.active = id, !.busy = TRUE, !.chats = asked]
<1>1. /\ chSerial \in Nat \ {0} /\ chPage \in Pages /\ Good(chPage.chats, chSerial)
      /\ Len(chPage.chats) <= MAX_SESSIONS /\ chPage.active \in Nat /\ chPage.active < chSerial
      /\ chPage.at = "open"
  BY OpenIs
<1>2. Chats!Put(p) /\ chRequest'.at = "asked" /\ chRequest'.id = id /\ chRequest'.q = q /\
        chSerial' = chSerial + 1
  BY DEF Chats!Ask, Chats!Fresh
<1>3. id \in Nat /\ id < chSerial + 1
  BY <1>1
<1>4. Good(made, chSerial + 1) /\ Len(made) <= MAX_SESSIONS
  <2>1. CASE chPage.active = 0
    BY <1>1, <2>1, PrependIs
  <2>2. CASE chPage.active # 0
    <3> QED BY <1>1, <2>2, StaysGood
  <2> QED BY <2>1, <2>2
<1> HIDE DEF id, made
<1>5. ASSUME NEW i \in DOMAIN made
      PROVE  /\ asked[i] \in Conversations /\ asked[i].id = made[i].id
             /\ Paired(asked[i].messages)
             /\ asked[i].id = id => EndsWith(asked[i].messages, q)
  <2>1. /\ made[i] \in Conversations /\ made[i].messages \in Seq(Turns)
        /\ Paired(made[i].messages)
    BY <1>4, ListIs
  <2>2. CASE made[i].id # id
    BY <2>1, <2>2
  <2>3. CASE made[i].id = id
    <3> DEFINE m == Append(made[i].messages, Chats!User(q))
    <3>1. m \in Seq(Turns) /\ Paired(m) /\ EndsWith(m, q)
      BY <1>1, <2>1, AppendedIs
    <3> HIDE DEF m
    <3>2. asked[i] = [made[i] EXCEPT !.messages = m, !.title = Chats!Titled(made[i])]
      BY <2>3 DEF m
    <3>3. Chats!Titled(made[i]) \in {"New chat", "derived", "given"}
      BY <2>1 DEF Chats!Titled, Conversations
    <3> HIDE DEF asked
    <3>4. /\ asked[i] \in Conversations /\ asked[i].id = made[i].id /\ asked[i].messages = m
      BY <2>1, <3>1, <3>2, <3>3 DEF Conversations
    <3> QED BY <3>1, <3>4
  <2> QED BY <2>2, <2>3
<1>6. /\ Good(asked, chSerial + 1) /\ DOMAIN asked = DOMAIN made
      /\ Len(asked) <= MAX_SESSIONS
  <2>1. asked = [i \in DOMAIN made |-> asked[i]]
    OBVIOUS
  <2>2. chSerial + 1 \in Nat
    BY <1>1
  <2> HIDE DEF asked
  <2> QED BY <1>4, <1>5, <2>1, <2>2, ChangedIsGood
<1> HIDE DEF asked
<1>7. Waits(asked, chRequest')
  BY <1>2, <1>5, <1>6 DEF Waits
<1>8. p \in Pages /\ p.active = id /\ p.chats = asked /\ p.at = "open"
  BY <1>1, <1>3, <1>6 DEF Pages, Good
<1> HIDE DEF p
<1> QED BY <1>1, <1>2, <1>3, <1>6, <1>7, <1>8, PutKeeps

LEMMA ReplyKeeps ==
    ASSUME ChatsInv, Chats!Open, chRequest.at = "asked", NEW text \in Texts, Chats!Reply(text)
    PROVE  ChatsInv'
<1> DEFINE told == [i \in DOMAIN chPage.chats |->
                        IF chPage.chats[i].id = chRequest.id
                        THEN [chPage.chats[i] EXCEPT
                                !.messages = Append(@, Chats!Assistant(chRequest.q, text))]
                        ELSE chPage.chats[i]]
           p == [chPage EXCEPT !.busy = FALSE, !.chats = told]
<1>1. /\ chSerial \in Nat \ {0} /\ chPage \in Pages /\ Good(chPage.chats, chSerial)
      /\ Len(chPage.chats) <= MAX_SESSIONS /\ chPage.active \in Nat /\ chPage.active < chSerial
      /\ chRequest.q \in Nat /\ Waits(chPage.chats, chRequest) /\ chPage.at = "open"
  BY OpenIs
<1>2. Chats!Put(p) /\ chRequest' = Chats!NoRequest /\ chSerial' = chSerial
  BY DEF Chats!Reply, Chats!Where
<1>3. ASSUME NEW i \in DOMAIN chPage.chats
      PROVE  /\ told[i] \in Conversations /\ told[i].id = chPage.chats[i].id
             /\ Paired(told[i].messages)
  <2>1. /\ chPage.chats[i] \in Conversations /\ chPage.chats[i].messages \in Seq(Turns)
        /\ Paired(chPage.chats[i].messages)
    BY <1>1, ListIs
  <2>2. CASE chPage.chats[i].id # chRequest.id
    BY <2>1, <2>2
  <2>3. CASE chPage.chats[i].id = chRequest.id
    <3> DEFINE m == Append(chPage.chats[i].messages, Chats!Assistant(chRequest.q, text))
    <3>1. EndsWith(chPage.chats[i].messages, chRequest.q)
      BY <1>1, <2>3 DEF Waits
    <3>2. m \in Seq(Turns) /\ Paired(m)
      BY <1>1, <2>1, <3>1, AppendedIs
    <3> HIDE DEF m
    <3>3. told[i] = [chPage.chats[i] EXCEPT !.messages = m]
      BY <2>3 DEF m
    <3> HIDE DEF told
    <3> QED BY <2>1, <3>2, <3>3 DEF Conversations
  <2> QED BY <2>2, <2>3
<1>4. Good(told, chSerial) /\ Len(told) <= MAX_SESSIONS
  <2>1. told = [i \in DOMAIN chPage.chats |-> told[i]]
    OBVIOUS
  <2> HIDE DEF told
  <2> QED BY <1>1, <1>3, <2>1, ChangedIsGood
<1> HIDE DEF told
<1>5. p \in Pages /\ p.active = chPage.active /\ p.chats = told /\ p.at = "open"
  BY <1>1, <1>4 DEF Pages, Good
<1> HIDE DEF p
<1>6. Chats!NoRequest.id = 0 /\ Chats!NoRequest.q = 0 /\ Chats!NoRequest.at # "asked"
  BY DEF Chats!NoRequest, Chats!None
<1> QED BY <1>1, <1>2, <1>4, <1>5, <1>6, PutKeeps DEF Waits

\* Coming back mounts the conversations that are in the storage.
LEMMA ReturnKeeps == ASSUME ChatsInv, Chats!Return PROVE ChatsInv'
<1>1. Good(chDisk, chSerial) /\ chSerial \in Nat \ {0} /\ Len(chDisk) \in Nat /\
        Len(chDisk) <= MAX_SESSIONS
  BY ListIs DEF ChatsInv
<1>2. Chats!readChats = SubSeq(chDisk, 1, Len(chDisk))
  BY <1>1, ChatsAssumption DEF Chats!readChats
<1>3. Chats!readChats = chDisk
  BY <1>1, <1>2, SubSeqFull DEF Good
<1>4. Good(Chats!readChats, chSerial) /\ chRequest.at # "asked"
  BY <1>1, <1>3 DEF ChatsInv, Chats!Return
<1>5. /\ chPage' = Chats!Mounted(Chats!readChats) /\ chUnsaved' = FALSE
      /\ UNCHANGED << chDisk, chRequest, chSerial >>
  BY DEF Chats!Return
<1>6. Chats!Mounted(Chats!readChats) \in Pages /\
        Chats!Mounted(Chats!readChats).active < chSerial
  <2>1. Chats!readChats # <<>> => Chats!readChats[1].id \in Nat /\
          Chats!readChats[1].id < chSerial
    BY <1>4, ListIs
  <2>2. Chats!readChats \in Seq(Conversations)
    BY <1>4 DEF Good
  <2> QED BY <1>1, <2>1, <2>2 DEF Chats!Mounted, Pages
<1>7. Chats!Mounted(Chats!readChats).chats = Chats!readChats
  BY DEF Chats!Mounted
<1> QED BY <1>1, <1>3, <1>4, <1>5, <1>6, <1>7 DEF ChatsInv, Waits

LEMMA LeaveKeeps == ASSUME ChatsInv, Chats!Leave PROVE ChatsInv'
<1>1. /\ chPage' = Chats!Left /\ chRequest' = Chats!NoRequest /\ chDisk' \in {chDisk, <<>>}
      /\ UNCHANGED << chUnsaved, chSerial >>
  BY DEF Chats!Leave
<1>4. Good(<<>>, chSerial) /\ Len(<<>>) <= MAX_SESSIONS
  BY ChatsAssumption DEF Good
<1>2. /\ Chats!Left \in Pages /\ Chats!Left.active = 0 /\ Chats!Left.at # "open"
      /\ Chats!Left.chats = <<>>
  <2>1. <<>> \in Seq(Conversations)
    OBVIOUS
  <2> QED BY <2>1 DEF Chats!Left, Chats!Mounted, Pages
<1>3. Chats!NoRequest.id = 0 /\ Chats!NoRequest.q = 0 /\ Chats!NoRequest.at # "asked"
  BY DEF Chats!NoRequest, Chats!None
<1> QED BY <1>1, <1>2, <1>3, <1>4 DEF ChatsInv, Waits, Chats!Open

LEMMA ChatsStep == ASSUME ChatsInv, [Chats!Next]_(Chats!vars) PROVE ChatsInv'
<1>1. ASSUME UNCHANGED << chDisk, chUnsaved, chPage, chRequest, chSerial >> PROVE ChatsInv'
  BY <1>1 DEF ChatsInv, Chats!Open
<1>2. ASSUME Chats!Type \/ (\E m \in {"model", "timeframe", "phrases"} : Chats!Menu(m))
             \/ (\E c \in [model : Chats!ZENMUX_MODELS,
                  timeframe : {"M5", "M15", "W1"}] : Chats!Pick(c))
             \/ (\E p \in Phrases : Chats!PhraseClick(p)
                    \/ \E word \in BOOLEAN : Chats!PhraseMouseUp(p, word))
      PROVE  ChatsInv'
  BY <1>1, <1>2 DEF Chats!Type, Chats!Menu, Chats!Pick, Chats!PhraseClick,
       Chats!PhraseMouseUp, Chats!Stay
<1>3. CASE Chats!SubmitTyped
  <2>1. CASE Chats!Ask(chSerial)
    BY <1>3, <2>1, AskKeeps DEF Chats!SubmitTyped
  <2>2. CASE UNCHANGED << chDisk, chUnsaved, chPage, chRequest >>
    <3>1. chSerial' = chSerial + 1
      BY <1>3 DEF Chats!SubmitTyped, Chats!Fresh
    <3>2. chSerial \in Nat \ {0} /\ chPage.active \in Nat
      BY DEF ChatsInv, Pages
    <3>3. Good(chDisk, chSerial + 1) /\ Good(chPage.chats, chSerial + 1)
      BY <3>2, StaysGood DEF ChatsInv
    <3> QED BY <2>2, <3>1, <3>2, <3>3 DEF ChatsInv, Chats!Open
  <2> QED BY <1>3, <2>1, <2>2 DEF Chats!SubmitTyped
<1>4. CASE Chats!SendStaged
  BY <1>4, AskKeeps DEF Chats!SendStaged
<1>5. CASE Chats!Answered
  <2>1. "answer" \in Texts
    BY DEF Texts
  <2> QED BY <1>5, <2>1, ReplyKeeps DEF Chats!Answered
<1>6. CASE Chats!Failed
  <2>1. \A kind : Chats!errorMessage(kind) \in Texts
    BY DEF Chats!errorMessage, Texts
  <2>2. Chats!Open /\ chRequest.at = "asked" /\ \E kind : Chats!Reply(Chats!errorMessage(kind))
    BY <1>6 DEF Chats!Failed
  <2> QED BY <2>1, <2>2, ReplyKeeps
<1>7. CASE UNCHANGED Chats!vars
  BY <1>1, <1>7 DEF Chats!vars
<1> QED BY <1>2, <1>3, <1>4, <1>5, <1>6, <1>7, ListKeeps, LeaveKeeps, ReturnKeeps DEF Chats!Next

LEMMA ChatsAnswer ==
    ASSUME ChatsInv PROVE Chats!RepliesFollowTheirQuestion /\ Chats!EachConversationOnce
BY DEF ChatsInv, Good, Paired, Chats!RepliesFollowTheirQuestion, Chats!EachConversationOnce

-----------------------------------------------------------------------------
\* The community's store: its posts, whose counts go with their flags, its comments, of
\* which the seeded ones are of somebody else and those the server numbered the user's,
\* and the mutations on their way.
SoIds == [kind : {"none", "seed", "own", "server"}, n : Nat \cup Seeds]
Flagged(p) == \A c \in CountedFlags : p.count[c] = IF c \in p.flags THEN 1 ELSE 0
SoPosts ==
    {p \in [id : SoIds, mine : BOOLEAN, flags : SUBSET Flags, count : [CountedFlags -> {0, 1}],
            blocked : BOOLEAN] : Flagged(p)}
SoComments ==
    {c \in [id : SoIds, post : SoIds, parent : SoIds, mine : BOOLEAN, flags : SUBSET {"liked"},
            reported : BOOLEAN, deleted : BOOLEAN] :
        c.id.kind # "own" => c.mine = (c.id.kind # "seed")}
SoStores ==
    [posts : Seq(SoPosts), comments : Seq(SoComments), following : SUBSET Traders,
     followers : [Traders -> Nat], unread : Nat]
SoMessages ==
    [op : {"toggle"}, id : SoIds, flag : Flags, synced : BOOLEAN]
    \cup [op : {"toggleComment"}, id : SoIds, flag : {"liked"}, synced : BOOLEAN]
    \cup [op : {"block", "report"}, id : SoIds, synced : BOOLEAN]
    \cup [op : {"delete"}, id : {x \in SoIds : x.kind # "seed"}, synced : BOOLEAN]
    \cup [op : {"comment"}, id : SoIds, parent : SoIds, synced : BOOLEAN]
    \cup [op : {"follow", "unfollow"}, id : Traders, synced : BOOLEAN]
    \cup [op : {"post", "read"}, synced : BOOLEAN]
Visited(r) ==
    /\ r.at \in {"unmounted", "asked", "answered", "comments", "commented", "done"}
    /\ r.at = "answered" =>
        r.posts \in Seq(SoPosts) /\ r.followers \in [Traders -> Nat] /\ r.unread \in Nat
    /\ r.at = "commented" => r.comments \in Seq(SoComments)

\* What a mutation makes of a post and a comment, in the browser and on the server.
ClickedPost(p, m) ==
    IF m.op = "toggle" /\ m.id = p.id THEN Social!Toggled(p, m.flag)
    ELSE IF m.op = "block" /\ m.id = p.id THEN [p EXCEPT !.blocked = TRUE] ELSE p
ServedPost(q, m) ==
    IF m.op = "toggle" /\ m.id = q.id THEN Social!Toggled(q, m.flag)
    ELSE IF m.op = "block" /\ m.id = q.id
         THEN [q EXCEPT !.blocked = TRUE, !.flags = @ \ {"muted"}] ELSE q
ServedComment(c, m) ==
    IF m.op = "toggleComment" /\ m.id = c.id
    THEN [c EXCEPT !.flags = Social!Flip(@, m.flag)]
    ELSE IF m.op = "delete" /\ m.id = c.id THEN [c EXCEPT !.deleted = TRUE]
    ELSE IF m.op = "report" /\ m.id = c.id THEN [c EXCEPT !.reported = TRUE] ELSE c
\* A comment that the tab numbered shares its id with others: of those it only counts that
\* they stay where they are.
Takes(d, c, m) ==
    /\ d \in SoComments /\ d.id = c.id /\ d.post = c.post
    /\ c.id.kind # "own" => d = ServedComment(c, m)

\* A mutation is under way, and a toggle so often that it counts.
Some(w, op, id) == \E i \in DOMAIN w : w[i].op = op /\ w[i].id = id
Which(w, op, id, f) == {i \in DOMAIN w : w[i].op = op /\ w[i].id = id /\ w[i].flag = f}
Odd(w, op, id, f) == Cardinality(Which(w, op, id, f)) % 2 = 1
Differ(a, b) == (a \/ b) /\ ~(a /\ b)

\* A post and a comment differ from the server's by what is under way.
PostAgrees(p, q, w) ==
    /\ p.blocked <=> (q.blocked \/ Some(w, "block", p.id))
    /\ ~p.blocked =>
        \A f \in Flags : Differ(f \in p.flags, f \in q.flags) <=> Odd(w, "toggle", p.id, f)
CommentAgrees(c, d, w) ==
    /\ c.post = d.post /\ c.parent = d.parent
    /\ c.reported <=> (d.reported \/ Some(w, "report", c.id))
    /\ c.deleted <=> (d.deleted \/ Some(w, "delete", c.id))
    /\ Differ("liked" \in c.flags, "liked" \in d.flags) <=> Odd(w, "toggleComment", c.id, "liked")
Known(xs, ys) ==
    \A i \in DOMAIN xs : xs[i].id.kind = "own" \/ \E j \in DOMAIN ys : xs[i].id = ys[j].id
PostsMirror(ps, qs, w) ==
    /\ Known(ps, qs)
    /\ \A i \in DOMAIN ps, j \in DOMAIN qs : ps[i].id = qs[j].id => PostAgrees(ps[i], qs[j], w)
CommentsMirror(cs, ds, w) ==
    /\ Known(cs, ds)
    /\ \A i \in DOMAIN cs, j \in DOMAIN ds :
        cs[i].id = ds[j].id /\ cs[i].id.kind # "own" => CommentAgrees(cs[i], ds[j], w)
\* The server numbers what it is sent by the length of its list.
Numbered(xs) ==
    /\ \A i \in DOMAIN xs, n \in Nat : n >= Len(xs) => xs[i].id # Social!Id("server", n)
    /\ \A i, j \in DOMAIN xs : xs[i].id = xs[j].id => i = j
Shared(xs) == \A i \in DOMAIN xs : xs[i].id.kind # "own"
From(xs, ys) == \A i \in DOMAIN xs : \E j \in DOMAIN ys : xs[i] = ys[j]

\* As long as no request was lost and none crossed a hydration.
MirrorInv ==
    /\ Social!Hydrating => soWire = <<>>
    /\ \A v \in Visits :
        /\ soVisit[v].at = "answered" => From(soVisit[v].posts, soServer.posts)
        /\ soVisit[v].at \in {"comments", "commented"} =>
            PostsMirror(soLocal.posts, soServer.posts, soWire)
        /\ soVisit[v].at = "commented" => From(soVisit[v].comments, soServer.comments)
    /\ soSynced => /\ PostsMirror(soLocal.posts, soServer.posts, soWire)
                   /\ CommentsMirror(soLocal.comments, soServer.comments, soWire)
SocialTypes ==
    /\ soLocal \in SoStores /\ soServer \in SoStores
    /\ soStorage \in SoStores \cup {Social!Nothing}
    /\ soSerial \in [post : Nat, comment : Nat] /\ soWire \in Seq(SoMessages)
    /\ soUnsaved \in BOOLEAN /\ soSynced \in BOOLEAN /\ soLapsed \in BOOLEAN
    /\ soSeen.posts \in Seq(SoPosts) /\ soSeen.comments \in Seq(SoComments)
    /\ DOMAIN soVisit = Visits /\ \A v \in Visits : Visited(soVisit[v])
    /\ soClicks \in 0..MaxClicks /\ soReloads \in 0..MaxReloads /\ Len(soWire) <= soClicks
SocialInv ==
    /\ SocialTypes
    /\ \A u \in Traders : soServer.followers[u] = IF u \in soServer.following THEN 1 ELSE 0
    /\ Numbered(soServer.posts) /\ Shared(soServer.posts) /\ Numbered(soServer.comments)
    /\ ~soLapsed => MirrorInv
-----------------------------------------------------------------------------
\* Messages that come and go.

LEMMA RemovedIs ==
    ASSUME NEW S, NEW w \in Seq(S), NEW k \in DOMAIN w
    PROVE  LET v == Social!Without(w, k)
           IN  /\ v \in Seq(S) /\ Len(v) = Len(w) - 1 /\ DOMAIN v = 1..(Len(w) - 1)
               /\ \A i \in DOMAIN v : v[i] = w[IF i < k THEN i ELSE i + 1]
<1> DEFINE v == Social!Without(w, k)
<1>1. k \in 1..Len(w) /\ Len(w) \in Nat
  OBVIOUS
<1> DEFINE a == SubSeq(w, 1, k - 1)
           b == SubSeq(w, k + 1, Len(w))
<1>2. /\ a \in Seq(S) /\ Len(a) = k - 1 /\ \A i \in 1..(k - 1) : a[i] = w[i]
      /\ b \in Seq(S) /\ Len(b) = Len(w) - k /\ \A i \in 1..(Len(w) - k) : b[i] = w[k + i]
  BY <1>1
<1>3. v = a \o b
  BY DEF Social!Without
<1> HIDE DEF a, b, v
<1>4. v \in Seq(S) /\ Len(v) = Len(w) - 1 /\ DOMAIN v = 1..(Len(w) - 1)
  BY <1>1, <1>2, <1>3
<1>5. ASSUME NEW i \in DOMAIN v PROVE v[i] = w[IF i < k THEN i ELSE i + 1]
  <2>1. i \in 1..(Len(w) - 1)
    BY <1>4
  <2>2. v[i] = IF i <= Len(a) THEN a[i] ELSE b[i - Len(a)]
    BY <1>1, <1>2, <1>3, <2>1
  <2>3. CASE i < k
    BY <1>1, <1>2, <2>1, <2>2, <2>3
  <2>4. CASE ~(i < k)
    <3>1. ~(i <= Len(a)) /\ i - Len(a) \in 1..(Len(w) - k) /\ k + (i - Len(a)) = i + 1
      BY SMTT(30), <1>1, <1>2, <2>1, <2>4
    <3> QED BY <1>2, <2>2, <2>4, <3>1
  <2> QED BY <2>3, <2>4
<1> QED BY <1>4, <1>5 DEF v

\* Positions that close up behind one of them are as many as the others.
LEMMA ClosedUp ==
    ASSUME NEW n \in Nat, NEW k \in 1..n, NEW K \in SUBSET (1..n)
    PROVE  LET L == {i \in 1..(n - 1) : (IF i < k THEN i ELSE i + 1) \in K}
           IN  /\ IsFiniteSet(L) /\ Cardinality(L) \in Nat /\ Cardinality(K) \in Nat
               /\ Cardinality(K) = Cardinality(L) + (IF k \in K THEN 1 ELSE 0)
<1> DEFINE L == {i \in 1..(n - 1) : (IF i < k THEN i ELSE i + 1) \in K}
           up == [i \in L |-> IF i < k THEN i ELSE i + 1]
           R == K \ {k}
<1>1. IsFiniteSet(K) /\ IsFiniteSet(L) /\ IsFiniteSet(R)
  <2>1. IsFiniteSet(1..n) /\ IsFiniteSet(1..(n - 1))
    BY FS_Interval
  <2> QED BY <2>1, FS_Subset
<1>2. up \in [L -> R]
  OBVIOUS
<1>3. \A i, j \in L : up[i] = up[j] => i = j
  OBVIOUS
<1>4. ASSUME NEW r \in R PROVE \E i \in L : up[i] = r
  <2>1. r \in 1..n /\ r # k
    OBVIOUS
  <2>2. CASE r < k
    <3>1. r \in L
      BY <2>1, <2>2
    <3> QED BY <2>2, <3>1
  <2>3. CASE ~(r < k)
    <3>1. r - 1 \in L /\ ~(r - 1 < k)
      BY <2>1, <2>3
    <3>2. up[r - 1] = r
      BY <2>1, <3>1
    <3> QED BY <3>1, <3>2
  <2> QED BY <2>2, <2>3
<1>5. ExistsBijection(L, R)
  <2> HIDE DEF L, R, up
  <2> QED BY <1>2, <1>3, <1>4 DEF ExistsBijection, Bijection, Injection, Surjection, IsInjective
<1>6. Cardinality(L) = Cardinality(R)
  <2> HIDE DEF L, R
  <2> QED BY <1>1, <1>5, FS_Bijection
<1>7. Cardinality(R) = IF k \in K THEN Cardinality(K) - 1 ELSE Cardinality(K)
  BY <1>1, FS_RemoveElement
<1>8. Cardinality(K) \in Nat /\ Cardinality(L) \in Nat
  <2> HIDE DEF L
  <2> QED BY <1>1, FS_CardinalityType
<1> HIDE DEF L, R
<1>9. Cardinality(K) = Cardinality(L) + (IF k \in K THEN 1 ELSE 0)
  BY <1>6, <1>7, <1>8
<1> QED BY <1>1, <1>8, <1>9 DEF L

Is(m, op, id) == m.op = op /\ m.id = id
IsFlag(m, op, id, f) == m.op = op /\ m.id = id /\ m.flag = f

\* One more message, behind the others.
LEMMA OneMore ==
    ASSUME NEW S, NEW w \in Seq(S), NEW m \in S, NEW op, NEW id
    PROVE  LET v == Append(w, m)
           IN  /\ v \in Seq(S) /\ Len(v) = Len(w) + 1
               /\ Some(v, op, id) <=> (Some(w, op, id) \/ Is(m, op, id))
               /\ \A f : Odd(v, op, id, f) <=> Differ(Odd(w, op, id, f), IsFlag(m, op, id, f))
<1> DEFINE v == Append(w, m)
           n == Len(w)
<1>1. /\ n \in Nat /\ DOMAIN w = 1..n /\ v \in Seq(S) /\ Len(v) = n + 1 /\ DOMAIN v = 1..(n + 1)
      /\ \A i \in 1..n : v[i] = w[i]
      /\ v[n + 1] = m
  OBVIOUS
<1> HIDE DEF v, n
<1>2. Some(v, op, id) <=> (Some(w, op, id) \/ Is(m, op, id))
  <2>1. \A i \in 1..(n + 1) : i \in 1..n \/ i = n + 1
    BY <1>1
  <2>2. \A i \in 1..n : i \in 1..(n + 1)
    BY <1>1
  <2>3. n + 1 \in 1..(n + 1)
    BY <1>1
  <2> QED BY <1>1, <2>1, <2>2, <2>3 DEF Some, Is
<1>3. ASSUME NEW f
      PROVE  Odd(v, op, id, f) <=> Differ(Odd(w, op, id, f), IsFlag(m, op, id, f))
  <2> DEFINE K == Which(w, op, id, f)
  <2>1. Which(v, op, id, f) = IF IsFlag(m, op, id, f) THEN K \cup {n + 1} ELSE K
    <3>1. \A i : i \in 1..(n + 1) <=> (i \in 1..n \/ i = n + 1)
      BY <1>1
    <3> QED BY <1>1, <3>1 DEF Which, IsFlag
  <2>2. K \subseteq 1..n
    BY <1>1 DEF Which
  <2>3. IsFiniteSet(K) /\ Cardinality(K) \in Nat
    <3>1. IsFiniteSet(1..n)
      BY <1>1, FS_Interval
    <3> HIDE DEF K
    <3>2. IsFiniteSet(K)
      BY <2>2, <3>1, FS_Subset
    <3> QED BY <3>2, FS_CardinalityType
  <2>4. n + 1 \notin K
    BY <1>1, <2>2
  <2> HIDE DEF K
  <2>5. Cardinality(Which(v, op, id, f)) =
          Cardinality(K) + IF IsFlag(m, op, id, f) THEN 1 ELSE 0
    <3>1. CASE IsFlag(m, op, id, f)
      <4>1. Cardinality(K \cup {n + 1}) = Cardinality(K) + 1
        BY <2>3, <2>4, FS_AddElement
      <4> QED BY <2>1, <3>1, <4>1
    <3>2. CASE ~IsFlag(m, op, id, f)
      BY <2>1, <2>3, <3>2
    <3> QED BY <3>1, <3>2
  <2>6. \A c \in Nat : ((c + 1) % 2 = 1) <=> ~(c % 2 = 1)
    OBVIOUS
  <2>7. Odd(w, op, id, f) <=> Cardinality(K) % 2 = 1
    BY DEF Odd, K
  <2> QED BY <2>3, <2>5, <2>6, <2>7 DEF Odd, Differ
<1> QED BY <1>1, <1>2, <1>3 DEF v, n

\* One message less.
LEMMA OneLess ==
    ASSUME NEW S, NEW w \in Seq(S), NEW k \in DOMAIN w, NEW op, NEW id
    PROVE  LET v == Social!Without(w, k)
           IN  /\ v \in Seq(S) /\ Len(v) = Len(w) - 1
               /\ Some(w, op, id) <=> (Some(v, op, id) \/ Is(w[k], op, id))
               /\ \A f : Odd(v, op, id, f) <=> Differ(Odd(w, op, id, f), IsFlag(w[k], op, id, f))
<1> DEFINE v == Social!Without(w, k)
           n == Len(w)
<1>1. /\ n \in Nat /\ DOMAIN w = 1..n /\ v \in Seq(S) /\ Len(v) = n - 1 /\ DOMAIN v = 1..(n - 1)
      /\ \A i \in 1..(n - 1) : v[i] = w[IF i < k THEN i ELSE i + 1]
      /\ k \in 1..n
  BY RemovedIs
<1> HIDE DEF v, n
<1>2. Some(w, op, id) <=> (Some(v, op, id) \/ Is(w[k], op, id))
  <2>1. ASSUME NEW i \in 1..n, i # k, w[i].op = op, w[i].id = id PROVE Some(v, op, id)
    <3>1. CASE i < k
      <4>1. i \in 1..(n - 1)
        BY <1>1, <3>1
      <4> QED BY <1>1, <2>1, <3>1, <4>1 DEF Some
    <3>2. CASE ~(i < k)
      <4>1. i - 1 \in 1..(n - 1) /\ ~(i - 1 < k) /\ (i - 1) + 1 = i
        BY <1>1, <2>1, <3>2
      <4>2. v[i - 1] = w[i]
        BY <1>1, <4>1
      <4> QED BY <1>1, <2>1, <4>1, <4>2 DEF Some
    <3> QED BY <3>1, <3>2
  <2>2. ASSUME NEW i \in 1..(n - 1) PROVE (IF i < k THEN i ELSE i + 1) \in 1..n
    BY <1>1
  <2>3. Some(v, op, id) => Some(w, op, id)
    BY <1>1, <2>2 DEF Some
  <2> QED BY <1>1, <2>1, <2>3 DEF Some, Is
<1>3. ASSUME NEW f
      PROVE  Odd(v, op, id, f) <=> Differ(Odd(w, op, id, f), IsFlag(w[k], op, id, f))
  <2> DEFINE K == Which(w, op, id, f)
             L == {i \in 1..(n - 1) : (IF i < k THEN i ELSE i + 1) \in K}
  <2>1. Which(v, op, id, f) = L
    <3>1. \A i \in 1..(n - 1) : (IF i < k THEN i ELSE i + 1) \in 1..n
      BY <1>1
    <3> QED BY <1>1, <3>1 DEF Which
  <2>2. K \in SUBSET (1..n) /\ (k \in K <=> IsFlag(w[k], op, id, f))
    BY <1>1 DEF Which, IsFlag
  <2> HIDE DEF K
  <2>3. /\ Cardinality(L) \in Nat /\ Cardinality(K) \in Nat
        /\ Cardinality(K) = Cardinality(L) + (IF k \in K THEN 1 ELSE 0)
    BY <1>1, <2>2, ClosedUp
  <2> HIDE DEF L
  <2>4. \A c \in Nat : ((c + 1) % 2 = 1) <=> ~(c % 2 = 1)
    OBVIOUS
  <2>5. Odd(w, op, id, f) <=> Cardinality(K) % 2 = 1
    BY DEF Odd, K
  <2>6. Odd(v, op, id, f) <=> Cardinality(L) % 2 = 1
    BY <2>1 DEF Odd
  <2> QED BY <2>2, <2>3, <2>4, <2>5, <2>6 DEF Differ
<1> QED BY <1>1, <1>2, <1>3 DEF v, n

-----------------------------------------------------------------------------
\* Posts.

\* A toggle keeps a post's count with its flag.
LEMMA ToggledIs ==
    ASSUME NEW p \in SoPosts, NEW f \in Flags
    PROVE  /\ Social!Toggled(p, f) \in SoPosts /\ Social!Toggled(p, f).id = p.id
           /\ Social!Toggled(p, f).blocked = p.blocked
           /\ \A g : g \in Social!Toggled(p, f).flags <=> Differ(g \in p.flags, g = f)
<1> DEFINE t == Social!Toggled(p, f)
<1>1. /\ t.flags = Social!Flip(p.flags, f) /\ t.id = p.id /\ t.blocked = p.blocked
      /\ t.count = [c \in CountedFlags |->
            IF c # f THEN p.count[c] ELSE IF f \in p.flags THEN p.count[c] - 1 ELSE p.count[c] + 1]
      /\ t \in [id : {p.id}, mine : {p.mine}, flags : {t.flags}, count : {t.count},
                blocked : {p.blocked}]
  BY DEF Social!Toggled, SoPosts
<1> HIDE DEF t
<1>2. \A g : g \in t.flags <=> Differ(g \in p.flags, g = f)
  BY <1>1 DEF Social!Flip, Differ
<1>3. t.flags \in SUBSET Flags
  BY <1>2 DEF Differ, SoPosts
<1>4. ASSUME NEW c \in CountedFlags
      PROVE  t.count[c] \in {0, 1} /\ t.count[c] = IF c \in t.flags THEN 1 ELSE 0
  <2>1. p.count[c] = IF c \in p.flags THEN 1 ELSE 0
    BY DEF SoPosts, Flagged
  <2> QED BY <1>1, <1>2, <2>1 DEF Differ
<1>5. t.count \in [CountedFlags -> {0, 1}]
  BY <1>1, <1>4
<1> QED BY <1>1, <1>2, <1>3, <1>4, <1>5 DEF t, SoPosts, Flagged

LEMMA ClickedIs ==
    ASSUME NEW p \in SoPosts, NEW m \in SoMessages
    PROVE  /\ ClickedPost(p, m) \in SoPosts /\ ClickedPost(p, m).id = p.id
           /\ ClickedPost(p, m).blocked <=> (p.blocked \/ Is(m, "block", p.id))
           /\ \A f \in Flags : f \in ClickedPost(p, m).flags <=>
                Differ(f \in p.flags, IsFlag(m, "toggle", p.id, f))
<1>1. CASE m.op = "toggle" /\ m.id = p.id
  <2>1. m.flag \in Flags
    BY <1>1 DEF SoMessages
  <2> QED BY <1>1, <2>1, ToggledIs DEF ClickedPost, Is, IsFlag, Differ
<1>2. CASE m.op = "block" /\ m.id = p.id
  BY <1>2 DEF ClickedPost, Is, IsFlag, Differ, SoPosts, Flagged
<1>3. CASE ~(m.op = "toggle" /\ m.id = p.id) /\ ~(m.op = "block" /\ m.id = p.id)
  BY <1>3 DEF ClickedPost, Is, IsFlag, Differ, SoPosts
<1> QED BY <1>1, <1>2, <1>3

LEMMA ServedIs ==
    ASSUME NEW q \in SoPosts, NEW m \in SoMessages
    PROVE  /\ ServedPost(q, m) \in SoPosts /\ ServedPost(q, m).id = q.id
           /\ ServedPost(q, m).blocked <=> (q.blocked \/ Is(m, "block", q.id))
           /\ ~Is(m, "block", q.id) =>
                \A f \in Flags : f \in ServedPost(q, m).flags <=>
                    Differ(f \in q.flags, IsFlag(m, "toggle", q.id, f))
<1>1. CASE m.op = "toggle" /\ m.id = q.id
  <2>1. m.flag \in Flags
    BY <1>1 DEF SoMessages
  <2> QED BY <1>1, <2>1, ToggledIs DEF ServedPost, Is, IsFlag, Differ
<1>2. CASE m.op = "block" /\ m.id = q.id
  BY <1>2, SocialAssumption DEF ServedPost, Is, IsFlag, Differ, SoPosts, Flagged
<1>3. CASE ~(m.op = "toggle" /\ m.id = q.id) /\ ~(m.op = "block" /\ m.id = q.id)
  BY <1>3 DEF ServedPost, Is, IsFlag, Differ, SoPosts
<1> QED BY <1>1, <1>2, <1>3

\* A click changes a post and what is under way alike; the server takes both back.
LEMMA PairClicked ==
    ASSUME NEW p \in SoPosts, NEW q \in SoPosts, p.id = q.id,
           NEW w \in Seq(SoMessages), NEW m \in SoMessages, PostAgrees(p, q, w)
    PROVE  PostAgrees(ClickedPost(p, m), q, Append(w, m))
<1> DEFINE c == ClickedPost(p, m)
           v == Append(w, m)
<1>1. /\ c.id = p.id /\ (c.blocked <=> (p.blocked \/ Is(m, "block", p.id)))
      /\ \A f \in Flags : f \in c.flags <=> Differ(f \in p.flags, IsFlag(m, "toggle", p.id, f))
  BY ClickedIs
<1>2. Some(v, "block", p.id) <=> (Some(w, "block", p.id) \/ Is(m, "block", p.id))
  BY OneMore
<1>3. \A f : Odd(v, "toggle", p.id, f) <=>
        Differ(Odd(w, "toggle", p.id, f), IsFlag(m, "toggle", p.id, f))
  BY OneMore
<1> HIDE DEF c, v
<1>4. c.blocked <=> (q.blocked \/ Some(v, "block", c.id))
  BY <1>1, <1>2 DEF PostAgrees
<1>5. ASSUME ~c.blocked, NEW f \in Flags
      PROVE  Differ(f \in c.flags, f \in q.flags) <=> Odd(v, "toggle", c.id, f)
  <2>1. Differ(f \in p.flags, f \in q.flags) <=> Odd(w, "toggle", p.id, f)
    BY <1>1, <1>5 DEF PostAgrees
  <2>2. f \in c.flags <=> Differ(f \in p.flags, IsFlag(m, "toggle", p.id, f))
    BY <1>1
  <2>3. Odd(v, "toggle", c.id, f) <=>
          Differ(Odd(w, "toggle", p.id, f), IsFlag(m, "toggle", p.id, f))
    BY <1>1, <1>3
  <2> QED BY <2>1, <2>2, <2>3 DEF Differ
<1> QED BY <1>4, <1>5 DEF PostAgrees, c, v

LEMMA PairServed ==
    ASSUME NEW p \in SoPosts, NEW q \in SoPosts, p.id = q.id,
           NEW w \in Seq(SoMessages), NEW k \in DOMAIN w, PostAgrees(p, q, w)
    PROVE  PostAgrees(p, ServedPost(q, w[k]), Social!Without(w, k))
<1> DEFINE m == w[k]
           d == ServedPost(q, m)
           v == Social!Without(w, k)
<1>0. m \in SoMessages
  BY ElementOfSeq
<1>1. /\ d.blocked <=> (q.blocked \/ Is(m, "block", q.id))
      /\ ~Is(m, "block", q.id) =>
            \A f \in Flags : f \in d.flags <=> Differ(f \in q.flags, IsFlag(m, "toggle", q.id, f))
  BY <1>0, ServedIs
<1>2. Some(w, "block", p.id) <=> (Some(v, "block", p.id) \/ Is(m, "block", p.id))
  BY OneLess
<1>3. \A f : Odd(v, "toggle", p.id, f) <=>
        Differ(Odd(w, "toggle", p.id, f), IsFlag(m, "toggle", p.id, f))
  BY OneLess
<1> HIDE DEF d, v, m
<1>4. p.blocked <=> (d.blocked \/ Some(v, "block", p.id))
  BY <1>1, <1>2 DEF PostAgrees
<1>5. ASSUME ~p.blocked, NEW f \in Flags
      PROVE  Differ(f \in p.flags, f \in d.flags) <=> Odd(v, "toggle", p.id, f)
  <2>0. ~Is(m, "block", q.id)
    BY <1>1, <1>4, <1>5
  <2>1. Differ(f \in p.flags, f \in q.flags) <=> Odd(w, "toggle", p.id, f)
    BY <1>5 DEF PostAgrees
  <2>2. f \in d.flags <=> Differ(f \in q.flags, IsFlag(m, "toggle", p.id, f))
    BY <1>1, <2>0
  <2>3. Odd(v, "toggle", p.id, f) <=>
          Differ(Odd(w, "toggle", p.id, f), IsFlag(m, "toggle", p.id, f))
    BY <1>3
  <2> QED BY <2>1, <2>2, <2>3 DEF Differ
<1> QED BY <1>4, <1>5 DEF PostAgrees, d, v, m

LEMMA PostsClicked ==
    ASSUME NEW ps \in Seq(SoPosts), NEW qs \in Seq(SoPosts), NEW w \in Seq(SoMessages),
           NEW m \in SoMessages, PostsMirror(ps, qs, w),
           NEW t, DOMAIN t = DOMAIN ps, \A i \in DOMAIN ps : t[i] = ClickedPost(ps[i], m)
    PROVE  PostsMirror(t, qs, Append(w, m))
<1>1. \A i \in DOMAIN ps : ps[i] \in SoPosts /\ t[i].id = ps[i].id
  BY ElementOfSeq, ClickedIs
<1>2. \A j \in DOMAIN qs : qs[j] \in SoPosts
  BY ElementOfSeq
<1>3. ASSUME NEW i \in DOMAIN t, NEW j \in DOMAIN qs, t[i].id = qs[j].id
      PROVE  PostAgrees(t[i], qs[j], Append(w, m))
  <2>1. PostAgrees(ps[i], qs[j], w) /\ ps[i].id = qs[j].id
    BY <1>1, <1>3 DEF PostsMirror
  <2> QED BY <1>1, <1>2, <2>1, PairClicked
<1> QED BY <1>1, <1>3 DEF PostsMirror, Known

LEMMA PostsServed ==
    ASSUME NEW ps \in Seq(SoPosts), NEW qs \in Seq(SoPosts), NEW w \in Seq(SoMessages),
           NEW k \in DOMAIN w, PostsMirror(ps, qs, w),
           NEW t, DOMAIN t = DOMAIN qs, \A j \in DOMAIN qs : t[j] = ServedPost(qs[j], w[k])
    PROVE  PostsMirror(ps, t, Social!Without(w, k))
<1>0. w[k] \in SoMessages
  BY ElementOfSeq
<1>1. \A j \in DOMAIN qs : qs[j] \in SoPosts /\ t[j].id = qs[j].id
  BY SMTT(30), <1>0, ElementOfSeq, ServedIs
<1>2. \A i \in DOMAIN ps : ps[i] \in SoPosts
  BY ElementOfSeq
<1>3. ASSUME NEW i \in DOMAIN ps, NEW j \in DOMAIN t, ps[i].id = t[j].id
      PROVE  PostAgrees(ps[i], t[j], Social!Without(w, k))
  <2>1. PostAgrees(ps[i], qs[j], w) /\ ps[i].id = qs[j].id
    BY <1>1, <1>3 DEF PostsMirror
  <2> QED BY <1>1, <1>2, <2>1, PairServed
<1> QED BY <1>1, <1>3 DEF PostsMirror, Known

\* A list in front of which something is put.
LEMMA PutInFront ==
    ASSUME NEW S, NEW xs \in Seq(S), NEW x \in S
    PROVE  LET ys == <<x>> \o xs
           IN  /\ ys \in Seq(S) /\ Len(ys) = Len(xs) + 1 /\ DOMAIN ys = 1..(Len(xs) + 1)
               /\ ys[1] = x /\ 1 \in DOMAIN ys
               /\ \A i \in DOMAIN ys : i = 1 \/ (i - 1 \in DOMAIN xs /\ ys[i] = xs[i - 1])
               /\ \A i \in DOMAIN xs : i + 1 \in DOMAIN ys /\ ys[i + 1] = xs[i]
               /\ \A i \in DOMAIN ys : ys[i] = x \/ \E j \in DOMAIN xs : ys[i] = xs[j]
<1> DEFINE ys == <<x>> \o xs
<1>1. /\ <<x>> \in Seq(S) /\ Len(<<x>>) = 1 /\ <<x>>[1] = x
      /\ Len(xs) \in Nat /\ DOMAIN xs = 1..Len(xs)
  OBVIOUS
<1>2. ys \in Seq(S) /\ Len(ys) = Len(xs) + 1 /\ DOMAIN ys = 1..(Len(xs) + 1)
  BY <1>1
<1>3. \A i \in 1..(Len(xs) + 1) : ys[i] = IF i <= 1 THEN <<x>>[i] ELSE xs[i - 1]
  BY <1>1
<1> HIDE DEF ys
<1>4. ys[1] = x /\ 1 \in DOMAIN ys
  BY <1>1, <1>2, <1>3
<1>5. \A i \in DOMAIN ys : i = 1 \/ (i - 1 \in DOMAIN xs /\ ys[i] = xs[i - 1])
  BY <1>1, <1>2, <1>3
<1>6. ASSUME NEW i \in DOMAIN xs PROVE i + 1 \in DOMAIN ys /\ ys[i + 1] = xs[i]
  <2>1. i + 1 \in 1..(Len(xs) + 1) /\ ~(i + 1 <= 1) /\ (i + 1) - 1 = i
    BY <1>1
  <2> QED BY <1>2, <1>3, <2>1
<1>7. ASSUME NEW i \in DOMAIN ys PROVE ys[i] = x \/ \E j \in DOMAIN xs : ys[i] = xs[j]
  BY <1>4, <1>5
<1> QED BY <1>2, <1>4, <1>5, <1>6, <1>7 DEF ys

\* Whatever the user writes has an id that the server does not know.
LEMMA OwnPost ==
    ASSUME NEW ps \in Seq(SoPosts), NEW qs \in Seq(SoPosts), NEW w, PostsMirror(ps, qs, w),
           Shared(qs), NEW p \in SoPosts, p.id.kind = "own"
    PROVE  PostsMirror(<<p>> \o ps, qs, w)
<1> DEFINE t == <<p>> \o ps
<1>1. \A i \in DOMAIN t : t[i] = p \/ \E j \in DOMAIN ps : t[i] = ps[j]
  BY PutInFront
<1> HIDE DEF t
<1>2. Known(t, qs)
  BY <1>1 DEF PostsMirror, Known
<1>3. \A j \in DOMAIN qs : p.id # qs[j].id
  BY DEF Shared
<1>4. ASSUME NEW i \in DOMAIN t, NEW j \in DOMAIN qs, t[i].id = qs[j].id
      PROVE  PostAgrees(t[i], qs[j], w)
  <2>1. PICK k \in DOMAIN ps : t[i] = ps[k]
    BY <1>1, <1>3, <1>4
  <2> QED BY <1>4, <2>1 DEF PostsMirror
<1> QED BY <1>2, <1>4 DEF PostsMirror, t

\* What the server adds has an id that no browser knows.
LEMMA NewPost ==
    ASSUME NEW ps \in Seq(SoPosts), NEW qs \in Seq(SoPosts), NEW w, PostsMirror(ps, qs, w),
           Numbered(qs), Shared(qs), NEW q \in SoPosts, q.id = Social!Id("server", Len(qs))
    PROVE  /\ PostsMirror(ps, <<q>> \o qs, w) /\ Numbered(<<q>> \o qs)
           /\ Shared(<<q>> \o qs)
<1> DEFINE t == <<q>> \o qs
<1>1. /\ t \in Seq(SoPosts) /\ Len(t) = Len(qs) + 1 /\ Len(qs) \in Nat /\ t[1] = q
      /\ \A i \in DOMAIN t : i = 1 \/ (i - 1 \in DOMAIN qs /\ t[i] = qs[i - 1])
      /\ \A i \in DOMAIN qs : i + 1 \in DOMAIN t /\ t[i + 1] = qs[i]
      /\ \A i \in DOMAIN t : t[i] = q \/ \E j \in DOMAIN qs : t[i] = qs[j]
  BY PutInFront
<1> HIDE DEF t
<1>2. q.id.kind = "server" /\ \A i \in DOMAIN qs : qs[i].id # q.id
  BY <1>1 DEF Numbered, Social!Id
<1>3. PostsMirror(ps, t, w)
  <2>1. Known(ps, t)
    <3>1. \A j \in DOMAIN qs : \E i \in DOMAIN t : t[i] = qs[j]
      BY <1>1
    <3> QED BY <3>1 DEF PostsMirror, Known
  <2>2. ASSUME NEW i \in DOMAIN ps, NEW j \in DOMAIN t, ps[i].id = t[j].id
        PROVE  PostAgrees(ps[i], t[j], w)
    <3>1. ps[i].id # q.id
      BY <1>2 DEF PostsMirror, Known
    <3>2. PICK k \in DOMAIN qs : t[j] = qs[k]
      BY <1>1, <2>2, <3>1
    <3> QED BY <2>2, <3>2 DEF PostsMirror
  <2> QED BY <2>1, <2>2 DEF PostsMirror
<1>4. Numbered(t)
  <2>2. ASSUME NEW i \in DOMAIN t, NEW n \in Nat, n >= Len(t)
        PROVE  t[i].id # Social!Id("server", n)
    <3>1. n >= Len(qs) /\ n # Len(qs)
      BY <1>1, <2>2
    <3>2. Social!Id("server", Len(qs)) # Social!Id("server", n)
      BY <3>1 DEF Social!Id
    <3> QED BY SMTT(30), <1>1, <3>1, <3>2 DEF Numbered
  <2>3. ASSUME NEW i \in DOMAIN t, NEW j \in DOMAIN t, t[i].id = t[j].id PROVE i = j
    <3>0. i \in Int /\ j \in Int
      BY <1>1
    <3>1. CASE i = 1 \/ j = 1
      BY <1>1, <1>2, <2>3, <3>1
    <3>2. CASE i # 1 /\ j # 1
      <4>1. i - 1 = j - 1
        BY <1>1, <2>3, <3>2 DEF Numbered
      <4> QED BY <3>0, <4>1
    <3> QED BY <3>1, <3>2
  <2> QED BY <2>2, <2>3 DEF Numbered
<1>5. Shared(t)
  BY <1>1, <1>2 DEF Shared
<1> QED BY <1>3, <1>4, <1>5 DEF t

-----------------------------------------------------------------------------
\* Comments.

LEMMA CommentIs ==
    ASSUME NEW c \in SoComments, NEW m \in SoMessages
    PROVE  LET d == ServedComment(c, m)
           IN  /\ d \in SoComments /\ d.id = c.id /\ d.post = c.post /\ d.parent = c.parent
               /\ d.mine = c.mine
               /\ d.reported <=> (c.reported \/ Is(m, "report", c.id))
               /\ d.deleted <=> (c.deleted \/ Is(m, "delete", c.id))
               /\ "liked" \in d.flags <=>
                    Differ("liked" \in c.flags, IsFlag(m, "toggleComment", c.id, "liked"))
<1>1. CASE m.op = "toggleComment" /\ m.id = c.id
  <2>1. m.flag = "liked"
    BY <1>1 DEF SoMessages
  <2>2. Social!Flip(c.flags, "liked") \in SUBSET {"liked"} /\
          ("liked" \in Social!Flip(c.flags, "liked") <=> "liked" \notin c.flags)
    BY DEF Social!Flip, SoComments
  <2> QED BY <1>1, <2>1, <2>2 DEF ServedComment, Is, IsFlag, Differ, SoComments
<1>2. CASE m.op = "delete" /\ m.id = c.id
  BY <1>2 DEF ServedComment, Is, IsFlag, Differ, SoComments
<1>3. CASE m.op = "report" /\ m.id = c.id
  BY <1>3 DEF ServedComment, Is, IsFlag, Differ, SoComments
<1>4. CASE ~(m.op \in {"toggleComment", "delete", "report"} /\ m.id = c.id)
  BY <1>4 DEF ServedComment, Is, IsFlag, Differ, SoComments
<1> QED BY <1>1, <1>2, <1>3, <1>4

LEMMA CommentPairClicked ==
    ASSUME NEW c \in SoComments, NEW d \in SoComments, c.id = d.id,
           NEW w \in Seq(SoMessages), NEW m \in SoMessages, CommentAgrees(c, d, w)
    PROVE  CommentAgrees(ServedComment(c, m), d, Append(w, m))
<1> DEFINE e == ServedComment(c, m)
           v == Append(w, m)
<1>1. /\ e.id = c.id /\ e.post = c.post /\ e.parent = c.parent
      /\ e.reported <=> (c.reported \/ Is(m, "report", c.id))
      /\ e.deleted <=> (c.deleted \/ Is(m, "delete", c.id))
      /\ "liked" \in e.flags <=>
            Differ("liked" \in c.flags, IsFlag(m, "toggleComment", c.id, "liked"))
  BY CommentIs
<1>2. /\ Some(v, "report", c.id) <=> (Some(w, "report", c.id) \/ Is(m, "report", c.id))
      /\ Some(v, "delete", c.id) <=> (Some(w, "delete", c.id) \/ Is(m, "delete", c.id))
      /\ Odd(v, "toggleComment", c.id, "liked") <=>
            Differ(Odd(w, "toggleComment", c.id, "liked"),
                   IsFlag(m, "toggleComment", c.id, "liked"))
  BY OneMore
<1> HIDE DEF e, v
<1> QED BY <1>1, <1>2 DEF CommentAgrees, Differ, e, v

LEMMA CommentPairServed ==
    ASSUME NEW c \in SoComments, NEW d \in SoComments, c.id = d.id,
           NEW w \in Seq(SoMessages), NEW k \in DOMAIN w, CommentAgrees(c, d, w)
    PROVE  CommentAgrees(c, ServedComment(d, w[k]), Social!Without(w, k))
<1> DEFINE m == w[k]
           e == ServedComment(d, m)
           v == Social!Without(w, k)
<1>0. m \in SoMessages
  BY ElementOfSeq
<1>1. /\ e.id = d.id /\ e.post = d.post /\ e.parent = d.parent
      /\ e.reported <=> (d.reported \/ Is(m, "report", c.id))
      /\ e.deleted <=> (d.deleted \/ Is(m, "delete", c.id))
      /\ "liked" \in e.flags <=>
            Differ("liked" \in d.flags, IsFlag(m, "toggleComment", c.id, "liked"))
  BY <1>0, CommentIs
<1>2. /\ Some(w, "report", c.id) <=> (Some(v, "report", c.id) \/ Is(m, "report", c.id))
      /\ Some(w, "delete", c.id) <=> (Some(v, "delete", c.id) \/ Is(m, "delete", c.id))
      /\ Odd(v, "toggleComment", c.id, "liked") <=>
            Differ(Odd(w, "toggleComment", c.id, "liked"),
                   IsFlag(m, "toggleComment", c.id, "liked"))
  BY OneLess
<1> HIDE DEF e, v, m
<1> QED BY <1>1, <1>2 DEF CommentAgrees, Differ, e, v, m

LEMMA CommentsClicked ==
    ASSUME NEW cs \in Seq(SoComments), NEW ds \in Seq(SoComments), NEW w \in Seq(SoMessages),
           NEW m \in SoMessages, CommentsMirror(cs, ds, w),
           NEW t, DOMAIN t = DOMAIN cs, \A i \in DOMAIN cs : Takes(t[i], cs[i], m)
    PROVE  CommentsMirror(t, ds, Append(w, m))
<1>1. \A i \in DOMAIN cs : cs[i] \in SoComments /\ t[i].id = cs[i].id
  BY ElementOfSeq DEF Takes
<1>2. \A j \in DOMAIN ds : ds[j] \in SoComments
  BY ElementOfSeq
<1>3. ASSUME NEW i \in DOMAIN t, NEW j \in DOMAIN ds, t[i].id = ds[j].id,
             t[i].id.kind # "own"
      PROVE  CommentAgrees(t[i], ds[j], Append(w, m))
  <2>1. CommentAgrees(cs[i], ds[j], w) /\ cs[i].id = ds[j].id
    BY <1>1, <1>3 DEF CommentsMirror
  <2>2. t[i] = ServedComment(cs[i], m)
    BY <1>1, <1>3 DEF Takes
  <2> QED BY <1>1, <1>2, <2>1, <2>2, CommentPairClicked
<1> QED BY <1>1, <1>3 DEF CommentsMirror, Known

LEMMA CommentsServed ==
    ASSUME NEW cs \in Seq(SoComments), NEW ds \in Seq(SoComments), NEW w \in Seq(SoMessages),
           NEW k \in DOMAIN w, CommentsMirror(cs, ds, w),
           NEW t, DOMAIN t = DOMAIN ds, \A j \in DOMAIN ds : Takes(t[j], ds[j], w[k])
    PROVE  CommentsMirror(cs, t, Social!Without(w, k))
<1>0. w[k] \in SoMessages
  BY ElementOfSeq
<1>1. \A j \in DOMAIN ds : ds[j] \in SoComments /\ t[j].id = ds[j].id
  BY ElementOfSeq DEF Takes
<1>2. \A i \in DOMAIN cs : cs[i] \in SoComments
  BY ElementOfSeq
<1>3. ASSUME NEW i \in DOMAIN cs, NEW j \in DOMAIN t, cs[i].id = t[j].id,
             cs[i].id.kind # "own"
      PROVE  CommentAgrees(cs[i], t[j], Social!Without(w, k))
  <2>1. CommentAgrees(cs[i], ds[j], w) /\ cs[i].id = ds[j].id
    BY <1>1, <1>3 DEF CommentsMirror
  <2>2. t[j] = ServedComment(ds[j], w[k])
    BY <1>1, <1>3 DEF Takes
  <2> QED BY <1>1, <1>2, <2>1, <2>2, CommentPairServed
<1> QED BY <1>1, <1>3 DEF CommentsMirror, Known

LEMMA OwnComment ==
    ASSUME NEW cs \in Seq(SoComments), NEW ds \in Seq(SoComments), NEW w,
           CommentsMirror(cs, ds, w), NEW c \in SoComments, c.id.kind = "own"
    PROVE  CommentsMirror(<<c>> \o cs, ds, w)
<1> DEFINE t == <<c>> \o cs
<1>1. \A i \in DOMAIN t : t[i] = c \/ \E j \in DOMAIN cs : t[i] = cs[j]
  BY PutInFront
<1> HIDE DEF t
<1>2. Known(t, ds)
  BY <1>1 DEF CommentsMirror, Known
<1>4. ASSUME NEW i \in DOMAIN t, NEW j \in DOMAIN ds, t[i].id = ds[j].id,
             t[i].id.kind # "own"
      PROVE  CommentAgrees(t[i], ds[j], w)
  <2>1. PICK k \in DOMAIN cs : t[i] = cs[k]
    BY <1>1, <1>4
  <2> QED BY <1>4, <2>1 DEF CommentsMirror
<1> QED BY <1>2, <1>4 DEF CommentsMirror, t

LEMMA NewComment ==
    ASSUME NEW cs \in Seq(SoComments), NEW ds \in Seq(SoComments), NEW w,
           CommentsMirror(cs, ds, w), Numbered(ds), NEW d \in SoComments,
           d.id = Social!Id("server", Len(ds))
    PROVE  CommentsMirror(cs, Append(ds, d), w)
<1> DEFINE t == Append(ds, d)
<1>1. \A i \in DOMAIN t : t[i] = d \/ \E j \in DOMAIN ds : t[i] = ds[j]
  OBVIOUS
<1>2. \A j \in DOMAIN ds : j \in DOMAIN t /\ t[j] = ds[j]
  OBVIOUS
<1> HIDE DEF t
<1>3. d.id.kind = "server" /\ Len(ds) \in Nat /\ \A i \in DOMAIN ds : ds[i].id # d.id
  BY DEF Numbered, Social!Id
<1>4. Known(cs, t)
  BY <1>2 DEF CommentsMirror, Known
<1>5. ASSUME NEW i \in DOMAIN cs, NEW j \in DOMAIN t, cs[i].id = t[j].id,
             cs[i].id.kind # "own"
      PROVE  CommentAgrees(cs[i], t[j], w)
  <2>1. cs[i].id # d.id
    BY <1>3 DEF CommentsMirror, Known
  <2>2. PICK k \in DOMAIN ds : t[j] = ds[k]
    BY <1>1, <1>5, <2>1
  <2> QED BY <1>5, <2>2 DEF CommentsMirror
<1> QED BY <1>4, <1>5 DEF CommentsMirror, t

LEMMA NewCommentIsNumbered ==
    ASSUME NEW ds \in Seq(SoComments), Numbered(ds), NEW d \in SoComments,
           d.id = Social!Id("server", Len(ds))
    PROVE  Numbered(Append(ds, d))
<1> DEFINE t == Append(ds, d)
<1>1. /\ Len(ds) \in Nat /\ Len(t) = Len(ds) + 1 /\ DOMAIN t = 1..(Len(ds) + 1)
      /\ DOMAIN ds = 1..Len(ds)
      /\ \A i \in DOMAIN t : (i = Len(ds) + 1 /\ t[i] = d) \/ (i \in DOMAIN ds /\ t[i] = ds[i])
  OBVIOUS
<1> HIDE DEF t
<1>2. d.id.kind = "server" /\ \A i \in DOMAIN ds : ds[i].id # d.id
  BY SMTT(30), <1>1 DEF Numbered, Social!Id
<1>4. ASSUME NEW i \in DOMAIN t, NEW n \in Nat, n >= Len(t)
      PROVE  t[i].id # Social!Id("server", n)
  <2>0. Len(ds) \in Nat /\ Len(t) = Len(ds) + 1
    BY <1>1
  <2>1. n >= Len(ds) /\ n # Len(ds)
    BY <2>0, <1>4
  <2>2. Social!Id("server", Len(ds)) # Social!Id("server", n)
    BY <2>1 DEF Social!Id
  <2> QED BY <1>1, <2>1, <2>2 DEF Numbered
<1>5. \A i, j \in DOMAIN t : t[i].id = t[j].id => i = j
  BY <1>1, <1>2 DEF Numbered
<1> QED BY <1>4, <1>5 DEF Numbered, t

-----------------------------------------------------------------------------
\* What the store starts from.

LEMMA PostIs ==
    ASSUME NEW id \in SoIds, NEW mine \in BOOLEAN
    PROVE  Social!Post(id, mine) \in SoPosts /\ Social!Post(id, mine).id = id
BY DEF Social!Post, SoPosts, Flagged

LEMMA MadeCommentIs ==
    ASSUME NEW id \in SoIds, NEW post \in SoIds, NEW parent \in SoIds, NEW mine \in BOOLEAN,
           id.kind # "own" => mine = (id.kind # "seed")
    PROVE  /\ Social!Comment(id, post, parent, mine) \in SoComments
           /\ Social!Comment(id, post, parent, mine).id = id
           /\ Social!Comment(id, post, parent, mine).post = post
BY DEF Social!Comment, SoComments

LEMMA PostsToStartFrom ==
    /\ Social!SeedPosts \in Seq(SoPosts) /\ Social!SeedPosts # <<>>
    /\ Numbered(Social!SeedPosts) /\ Shared(Social!SeedPosts)
    /\ \A i \in DOMAIN Social!SeedPosts :
        Social!SeedPosts[i].id.kind = "seed" /\ ~Social!SeedPosts[i].blocked
<1> DEFINE S == {Social!Post(Social!Id("seed", s), FALSE) : s \in Seeds}
           f == Social!SeedPosts
           n == Cardinality(Seeds)
<1>1. ASSUME NEW p \in S PROVE p \in SoPosts /\ p.id.kind = "seed" /\ ~p.blocked
  <2>1. PICK s \in Seeds : p = Social!Post(Social!Id("seed", s), FALSE)
    OBVIOUS
  <2>2. Social!Id("seed", s) \in SoIds /\ Social!Id("seed", s).kind = "seed"
    BY DEF Social!Id, SoIds
  <2> HIDE DEF S
  <2>3. ~p.blocked
    BY <2>1 DEF Social!Post
  <2> QED BY <2>1, <2>2, <2>3, PostIs
<1>2. ASSUME NEW p \in S, NEW q \in S, p.id = q.id PROVE p = q
  <2>1. PICK s \in Seeds : p = Social!Post(Social!Id("seed", s), FALSE)
    OBVIOUS
  <2>2. PICK t \in Seeds : q = Social!Post(Social!Id("seed", t), FALSE)
    OBVIOUS
  <2> HIDE DEF S
  <2>3. p.id = Social!Id("seed", s) /\ q.id = Social!Id("seed", t)
    BY <2>1, <2>2 DEF Social!Post
  <2> QED BY <1>2, <2>1, <2>2, <2>3
<1>3. n \in Nat /\ n # 0
  BY SocialAssumption, FS_CardinalityType, FS_EmptySet
<1>4. \E g \in [1..n -> S] : IsInjective(g)
  <2>1. PICK k \in Nat : ExistsBijection(1..k, Seeds)
    BY SocialAssumption, FS_NatBijection
  <2>2. n = k
    BY <2>1, FS_CountingElements
  <2>3. PICK h \in [1..n -> Seeds] : IsInjective(h)
    BY <2>1, <2>2 DEF ExistsBijection, Bijection, Injection
  <2> DEFINE g == [i \in 1..n |-> Social!Post(Social!Id("seed", h[i]), FALSE)]
  <2>4. g \in [1..n -> S]
    OBVIOUS
  <2>5. \A i \in 1..n : g[i].id.n = h[i]
    BY DEF Social!Post, Social!Id
  <2> HIDE DEF g
  <2>6. IsInjective(g)
    BY <2>3, <2>4, <2>5 DEF IsInjective
  <2> QED BY <2>4, <2>6
<1>5. f \in [1..n -> S] /\ IsInjective(f)
  <2>1. f = CHOOSE g \in Injection(1..n, S) : TRUE
    BY DEF Social!SeedPosts, Social!Injection, Social!Cardinality, Cardinality,
           Social!IsInjective, Injection, IsInjective, S
  <2> HIDE DEF f, S
  <2>2. f \in Injection(1..n, S)
    BY <1>4, <2>1 DEF Injection
  <2> QED BY <2>2 DEF Injection
<1> HIDE DEF f, n, S
<1>6. f \in Seq(SoPosts) /\ Len(f) = n /\ DOMAIN f = 1..n
  BY <1>1, <1>3, <1>5
<1>7. \A i \in DOMAIN f : f[i].id.kind = "seed" /\ ~f[i].blocked /\ f[i] \in S
  BY <1>1, <1>5
<1>8. Numbered(f)
  BY <1>2, <1>5, <1>7 DEF Numbered, IsInjective, Social!Id
<1>9. Shared(f)
  BY <1>7 DEF Shared
<1> QED BY <1>3, <1>6, <1>7, <1>8, <1>9 DEF f

LEMMA ContentToStartFrom ==
    /\ Social!Seed \in SoStores /\ Social!Nothing \notin SoStores
    /\ Numbered(Social!SeedPosts) /\ Shared(Social!SeedPosts)
    /\ Social!ServerComments \in Seq(SoComments) /\ Numbered(Social!ServerComments)
    /\ From(Social!SeedComments, Social!ServerComments)
    /\ Social!Seed.followers = [u \in Traders |-> 0] /\ Social!Seed.following = {}
    /\ Social!Seed.posts = Social!SeedPosts /\ Social!Seed.comments = Social!SeedComments
<1>1. /\ Social!SeedPosts \in Seq(SoPosts) /\ Social!SeedPosts # <<>>
      /\ Numbered(Social!SeedPosts) /\ Shared(Social!SeedPosts)
  BY PostsToStartFrom
<1>2. Social!SeedPosts[1].id \in SoIds
  BY <1>1 DEF SoPosts
<1>3. /\ Social!SeedComments \in Seq(SoComments)
      /\ Social!ServerComments \in Seq(SoComments) /\ Numbered(Social!ServerComments)
      /\ From(Social!SeedComments, Social!ServerComments)
  <2> DEFINE c == Social!Comment(Social!Id("seed", 1), Social!SeedPosts[1].id,
                                 Social!NoOne, FALSE)
             d == Social!Comment(Social!Id("own", 1), Social!SeedPosts[1].id, c.id, FALSE)
             ds == Social!ServerComments
  <2>1. c \in SoComments /\ c.id.kind = "seed" /\ c.id \in SoIds
    BY <1>2 DEF Social!Comment, Social!Id, Social!NoOne, SoComments, SoIds
  <2>2. Social!SeedComments = <<c>> /\ Social!SeedComments[1] = c
    BY DEF Social!SeedComments
  <2>3. d \in SoComments /\ d.id.kind = "own"
    <3>1. Social!Id("own", 1) \in SoIds /\ Social!Id("own", 1).kind = "own"
      BY DEF Social!Id, SoIds
    <3> HIDE DEF c
    <3> QED BY <1>2, <2>1, <3>1 DEF Social!Comment, SoComments
  <2>4. ds = Append(<<c>>, d)
    BY <2>2 DEF Social!ServerComments
  <2> HIDE DEF c, d, ds
  <2>5. ds \in Seq(SoComments) /\ DOMAIN ds = {1, 2} /\ ds[1] = c /\ ds[2] = d
    BY <2>1, <2>3, <2>4
  <2>6. Numbered(ds)
    BY <2>1, <2>3, <2>5 DEF Numbered, Social!Id
  <2>7. From(Social!SeedComments, ds)
    BY <2>2, <2>5 DEF From
  <2> QED BY <2>1, <2>2, <2>5, <2>6, <2>7 DEF ds
<1> QED BY <1>1, <1>3 DEF Social!Seed, Social!Nothing, SoStores

\* What is shown is in the store.
LEMMA RenderedIs ==
    ASSUME NEW s \in SoStores
    PROVE  /\ Social!Rendered(s).posts \in Seq(SoPosts)
           /\ Social!Rendered(s).comments \in Seq(SoComments)
           /\ Social!Rendered(s).comments = s.comments
<1>1. \A K \in SUBSET DOMAIN s.posts : Social!Only(s.posts, K) \in Seq(SoPosts)
  <2>1. ASSUME NEW K PROVE Social!Only(s.posts, K) = Only(s.posts, K)
    BY DEF Social!Only, Only, Social!Place, Place, Social!Cardinality, Cardinality
  <2> QED BY <2>1, OnlyIs DEF SoStores
<1> QED BY <1>1 DEF Social!Rendered, Social!Feed, SoStores

\* Every comment but those that the tab numbered is one of the server's, and under its post:
\* so the client, which looks for the post too, means the same comment as the server.
Placed(cs, ds) ==
    \A i \in DOMAIN cs :
        cs[i].id.kind = "own" \/ \E j \in DOMAIN ds : ds[j].id = cs[i].id /\ ds[j].post = cs[i].post
PlacedInv ==
    /\ Placed(Social!SeedComments, soServer.comments)
    /\ Placed(soLocal.comments, soServer.comments)
    /\ Placed(soStorage.comments, soServer.comments)
    /\ Placed(soSeen.comments, soServer.comments)
    /\ \A v \in Visits :
        soVisit[v].at = "commented" => Placed(soVisit[v].comments, soServer.comments)

LEMMA SocialInit == Social!Init => SocialInv
<1> SUFFICES ASSUME Social!Init PROVE SocialInv
  OBVIOUS
<1>1. SocialTypes
  <2>1. /\ soLocal \in SoStores /\ soServer \in SoStores
        /\ soStorage \in SoStores \cup {Social!Nothing}
        /\ soSeen.posts \in Seq(SoPosts) /\ soSeen.comments \in Seq(SoComments)
    <3>1. soServer \in SoStores
      BY ContentToStartFrom DEF Social!Init, SoStores
    <3> QED BY <3>1, ContentToStartFrom, RenderedIs DEF Social!Init
  <2>2. DOMAIN soVisit = Visits /\ \A v \in Visits : Visited(soVisit[v])
    BY DEF Social!Init, Visited
  <2>3. /\ soSerial \in [post : Nat, comment : Nat] /\ soWire \in Seq(SoMessages)
        /\ soUnsaved \in BOOLEAN /\ soSynced \in BOOLEAN /\ soLapsed \in BOOLEAN
        /\ soClicks \in 0..MaxClicks /\ soReloads \in 0..MaxReloads /\ Len(soWire) <= soClicks
    <3>1. /\ soSerial = [post |-> 0, comment |-> 0] /\ soWire = <<>> /\ soSynced = FALSE
          /\ soUnsaved = FALSE /\ soLapsed = FALSE /\ soClicks = 0 /\ soReloads = 0
      BY DEF Social!Init
    <3>2. soWire \in Seq(SoMessages) /\ Len(soWire) = 0
      BY <3>1
    <3>3. 0 \in 0..MaxClicks /\ 0 \in 0..MaxReloads
      BY SocialAssumption
    <3>4. soUnsaved \in BOOLEAN /\ soSynced \in BOOLEAN /\ soLapsed \in BOOLEAN
      BY <3>1
    <3>5. soSerial \in [post : Nat, comment : Nat]
      BY <3>1
    <3> QED BY <3>1, <3>2, <3>3, <3>4, <3>5
  <2> QED BY <2>1, <2>2, <2>3 DEF SocialTypes
<1>2. MirrorInv
  BY DEF Social!Init, MirrorInv, Social!Hydrating
<1>3. /\ soServer.posts = Social!SeedPosts /\ soServer.comments = Social!ServerComments
      /\ soServer.following = {} /\ soServer.followers = [u \in Traders |-> 0]
  BY ContentToStartFrom DEF Social!Init, SoStores
<1> QED BY <1>1, <1>2, <1>3, ContentToStartFrom DEF SocialInv
-----------------------------------------------------------------------------
\* The clicks.

\* A mutation, as it is sent.
Sent(m) == [k \in DOMAIN m \cup {"synced"} |-> IF k = "synced" THEN soSynced ELSE m[k]]

\* A click changes the store, and the storage too if that can be written.
LEMMA ClickIs ==
    ASSUME SocialInv, NEW new, NEW m, Social!Click(new, m)
    PROVE  /\ soLocal' = new /\ soWire' = Append(soWire, Sent(m))
           /\ soUnsaved' \in BOOLEAN /\ (~soUnsaved' => soStorage' = new)
           /\ soStorage' \in {new, soStorage}
           /\ soClicks' \in {soClicks + 1, soClicks + 2} /\ soClicks' <= MaxClicks
           /\ soLapsed' = (soLapsed \/ Social!Hydrating)
           /\ UNCHANGED <<soSynced, soVisit, soSeen, soServer, soReloads>>
<1>1. soClicks + (1 + 1) = soClicks + 2
  BY DEF SocialInv, SocialTypes
<1> QED BY <1>1 DEF Social!Click, Social!Persist, Social!Spend, Sent

\* A click changes the posts and the comments as its mutation says.
LEMMA ClickKeeps ==
    ASSUME SocialInv, NEW new \in SoStores, NEW m, Sent(m) \in SoMessages,
           Social!Click(new, m), soSerial' \in [post : Nat, comment : Nat],
           PostsMirror(soLocal.posts, soServer.posts, soWire) =>
             PostsMirror(new.posts, soServer.posts, Append(soWire, Sent(m))),
           CommentsMirror(soLocal.comments, soServer.comments, soWire) =>
             CommentsMirror(new.comments, soServer.comments, Append(soWire, Sent(m)))
    PROVE  SocialInv'
<1>1. /\ soClicks' \in {soClicks + 1, soClicks + 2} /\ soClicks' <= MaxClicks
      /\ soLocal' = new /\ soStorage' \in {new, soStorage} /\ soUnsaved' \in BOOLEAN
      /\ soWire' = Append(soWire, Sent(m)) /\ soLapsed' = (soLapsed \/ Social!Hydrating)
      /\ UNCHANGED <<soSynced, soVisit, soSeen, soServer, soReloads>>
  BY ClickIs
<1>2. soWire' \in Seq(SoMessages) /\ Len(soWire') = Len(soWire) + 1
  BY <1>1 DEF SocialInv, SocialTypes
<1>3. SocialTypes'
  <2>1. soClicks' \in 0..MaxClicks /\ Len(soWire') <= soClicks'
    <3>1. soClicks \in 0..MaxClicks /\ Len(soWire) <= soClicks /\ Len(soWire) \in Nat
      BY DEF SocialInv, SocialTypes
    <3> QED BY <1>1, <1>2, <3>1, SocialAssumption
  <2>2. \A v \in Visits : Visited(soVisit'[v])
    BY <1>1 DEF SocialInv, SocialTypes
  <2>3. soLapsed' \in BOOLEAN
    BY <1>1 DEF SocialInv, SocialTypes, Social!Hydrating
  <2> QED BY <1>1, <1>2, <2>1, <2>2, <2>3 DEF SocialInv, SocialTypes
<1>4. ASSUME ~soLapsed' PROVE MirrorInv'
  <2>1. MirrorInv /\ ~Social!Hydrating
    BY <1>1, <1>4 DEF SocialInv
  <2>2. \A v \in Visits : soVisit'[v].at \notin {"answered", "comments", "commented"}
    BY <1>1, <2>1 DEF Social!Hydrating
  <2>3. soSynced' => /\ PostsMirror(soLocal'.posts, soServer'.posts, soWire')
                     /\ CommentsMirror(soLocal'.comments, soServer'.comments, soWire')
    BY <1>1, <2>1 DEF MirrorInv
  <2> QED BY <2>2, <2>3 DEF MirrorInv, Social!Hydrating
<1>5. (\A u \in Traders : soServer.followers[u] = IF u \in soServer.following THEN 1 ELSE 0)'
  BY <1>1 DEF SocialInv
<1>6. Numbered(soServer.posts)' /\ Shared(soServer.posts)' /\ Numbered(soServer.comments)'
  BY <1>1 DEF SocialInv
<1> QED BY <1>3, <1>4, <1>5, <1>6 DEF SocialInv

\* A message that is about no post, and one that is about no comment.
LEMMA OtherPosts ==
    ASSUME SocialInv, NEW m \in SoMessages, m.op \notin {"toggle", "block"}
    PROVE  PostsMirror(soLocal.posts, soServer.posts, soWire) =>
             PostsMirror(soLocal.posts, soServer.posts, Append(soWire, m))
<1>1. \A p : ClickedPost(p, m) = p
  BY DEF ClickedPost
<1> QED BY <1>1, PostsClicked DEF SocialInv, SocialTypes, SoStores

LEMMA OtherComments ==
    ASSUME SocialInv, NEW m \in SoMessages, m.op \notin {"toggleComment", "delete", "report"}
    PROVE  CommentsMirror(soLocal.comments, soServer.comments, soWire) =>
             CommentsMirror(soLocal.comments, soServer.comments, Append(soWire, m))
<1>1. \A c : ServedComment(c, m) = c
  BY DEF ServedComment
<1>2. soLocal.comments \in Seq(SoComments)
  BY DEF SocialInv, SocialTypes, SoStores
<1>3. \A i \in DOMAIN soLocal.comments : Takes(soLocal.comments[i], soLocal.comments[i], m)
  BY <1>1, <1>2, ElementOfSeq DEF Takes
<1> QED BY <1>2, <1>3, CommentsClicked DEF SocialInv, SocialTypes, SoStores

\* What a click does to the posts it is about, and to the comments.
LEMMA PostClickKeeps ==
    ASSUME SocialInv, NEW new, NEW m, Sent(m) \in SoMessages, Social!Click(new, m), Social!Same,
           Sent(m).op \in {"toggle", "block"},
           NEW t, DOMAIN t = DOMAIN soLocal.posts,
           \A i \in DOMAIN soLocal.posts : t[i] = ClickedPost(soLocal.posts[i], Sent(m)),
           new = [soLocal EXCEPT !.posts = t], t \in Seq(SoPosts)
    PROVE  SocialInv'
<1>1. new \in SoStores /\ new.posts = t /\ new.comments = soLocal.comments
  BY DEF SocialInv, SocialTypes, SoStores
<1>2. soSerial' \in [post : Nat, comment : Nat]
  BY DEF Social!Same, SocialInv, SocialTypes
<1>3. PostsMirror(soLocal.posts, soServer.posts, soWire) =>
        PostsMirror(new.posts, soServer.posts, Append(soWire, Sent(m)))
  BY <1>1, PostsClicked DEF SocialInv, SocialTypes, SoStores
<1>4. CommentsMirror(soLocal.comments, soServer.comments, soWire) =>
        CommentsMirror(new.comments, soServer.comments, Append(soWire, Sent(m)))
  BY <1>1, OtherComments
<1> QED BY <1>1, <1>2, <1>3, <1>4, ClickKeeps

LEMMA CommentClickKeeps ==
    ASSUME SocialInv, NEW new, NEW m, Sent(m) \in SoMessages, Social!Click(new, m), Social!Same,
           Sent(m).op \in {"toggleComment", "delete", "report"},
           NEW t, DOMAIN t = DOMAIN soLocal.comments,
           \A i \in DOMAIN soLocal.comments : Takes(t[i], soLocal.comments[i], Sent(m)),
           new = [soLocal EXCEPT !.comments = t], t \in Seq(SoComments)
    PROVE  SocialInv'
<1>1. new \in SoStores /\ new.comments = t /\ new.posts = soLocal.posts
  BY DEF SocialInv, SocialTypes, SoStores
<1>2. soSerial' \in [post : Nat, comment : Nat]
  BY DEF Social!Same, SocialInv, SocialTypes
<1>3. CommentsMirror(soLocal.comments, soServer.comments, soWire) =>
        CommentsMirror(new.comments, soServer.comments, Append(soWire, Sent(m)))
  BY <1>1, CommentsClicked DEF SocialInv, SocialTypes, SoStores
<1>4. PostsMirror(soLocal.posts, soServer.posts, soWire) =>
        PostsMirror(new.posts, soServer.posts, Append(soWire, Sent(m)))
  BY <1>1, OtherPosts
<1> QED BY <1>1, <1>2, <1>3, <1>4, ClickKeeps

\* A sequence that is changed element by element.
LEMMA MappedIs ==
    ASSUME NEW S, NEW T, NEW s \in Seq(S), NEW t, DOMAIN t = DOMAIN s,
           t = [i \in DOMAIN s |-> t[i]], \A i \in DOMAIN s : t[i] \in T
    PROVE  t \in Seq(T)
<1>1. Len(s) \in Nat /\ DOMAIN s = 1..Len(s)
  OBVIOUS
<1>2. t \in [1..Len(s) -> T]
  BY <1>1
<1> QED BY <1>1, <1>2

\* What a mutation makes of a list.
LEMMA ListsMapped ==
    ASSUME NEW m \in SoMessages
    PROVE  /\ \A ps \in Seq(SoPosts) : [i \in DOMAIN ps |-> ClickedPost(ps[i], m)] \in Seq(SoPosts)
           /\ \A ps \in Seq(SoPosts) : [i \in DOMAIN ps |-> ServedPost(ps[i], m)] \in Seq(SoPosts)
<1>1. ASSUME NEW ps \in Seq(SoPosts)
      PROVE  [i \in DOMAIN ps |-> ClickedPost(ps[i], m)] \in Seq(SoPosts)
  <2> DEFINE t == [i \in DOMAIN ps |-> ClickedPost(ps[i], m)]
  <2>1. \A i \in DOMAIN ps : t[i] \in SoPosts
    BY ElementOfSeq, ClickedIs
  <2> QED BY <2>1, MappedIs
<1>2. ASSUME NEW ps \in Seq(SoPosts)
      PROVE  [i \in DOMAIN ps |-> ServedPost(ps[i], m)] \in Seq(SoPosts)
  <2> DEFINE t == [i \in DOMAIN ps |-> ServedPost(ps[i], m)]
  <2>1. \A i \in DOMAIN ps : t[i] \in SoPosts
    BY ElementOfSeq, ServedIs
  <2> QED BY <2>1, MappedIs
<1> QED BY <1>1, <1>2

LEMMA ToggleKeeps ==
    ASSUME SocialInv, NEW id \in SoIds, NEW f \in Flags, Social!ClickToggle(id, f)
    PROVE  SocialInv'
<1> DEFINE m == [op |-> "toggle", id |-> id, flag |-> f]
           new == Social!TogglePost(soLocal, id, f)
<1>1. Social!Click(new, m) /\ Social!Same
  BY DEF Social!ClickToggle
<1>2. Sent(m) \in SoMessages /\ Sent(m).op = "toggle" /\ Sent(m).id = id /\ Sent(m).flag = f
  <2>1. Sent(m) = [op |-> "toggle", id |-> id, flag |-> f, synced |-> soSynced]
    BY DEF Sent
  <2> QED BY <2>1 DEF SoMessages, SocialInv, SocialTypes
<1> HIDE DEF m
<1> DEFINE ps == soLocal.posts
           t == [i \in DOMAIN ps |-> ClickedPost(ps[i], Sent(m))]
<1>3. new = [soLocal EXCEPT !.posts = t]
  <2> DEFINE u == [i \in DOMAIN ps |->
                    IF ps[i].id = id THEN Social!Toggled(ps[i], f) ELSE ps[i]]
  <2>1. new = [soLocal EXCEPT !.posts = u]
    BY DEF Social!TogglePost, Social!OnPost
  <2>2. \A p : ClickedPost(p, Sent(m)) = IF p.id = id THEN Social!Toggled(p, f) ELSE p
    BY <1>2 DEF ClickedPost
  <2>3. u = t
    BY <2>2
  <2> HIDE DEF u, t, new
  <2> QED BY <2>1, <2>3
<1>4. t \in Seq(SoPosts)
  BY <1>2, ListsMapped DEF SocialInv, SocialTypes, SoStores
<1> HIDE DEF new
<1> QED BY <1>1, <1>2, <1>3, <1>4, PostClickKeeps

LEMMA BlockKeeps ==
    ASSUME SocialInv, NEW id \in SoIds, Social!ClickBlock(id) PROVE  SocialInv'
<1> DEFINE m == [op |-> "block", id |-> id]
           new == Social!BlockPost(soLocal, id)
<1>1. Social!Click(new, m) /\ Social!Same
  BY DEF Social!ClickBlock
<1>2. Sent(m) \in SoMessages /\ Sent(m).op = "block" /\ Sent(m).id = id
  <2>1. Sent(m) = [op |-> "block", id |-> id, synced |-> soSynced]
    BY DEF Sent
  <2> QED BY <2>1 DEF SoMessages, SocialInv, SocialTypes
<1> HIDE DEF m
<1> DEFINE ps == soLocal.posts
           t == [i \in DOMAIN ps |-> ClickedPost(ps[i], Sent(m))]
<1>3. new = [soLocal EXCEPT !.posts = t]
  <2> DEFINE u == [i \in DOMAIN ps |->
                    IF ps[i].id = id THEN [ps[i] EXCEPT !.blocked = TRUE] ELSE ps[i]]
  <2>1. new = [soLocal EXCEPT !.posts = u]
    BY DEF Social!BlockPost, Social!OnPost
  <2>2. \A p : ClickedPost(p, Sent(m)) = IF p.id = id THEN [p EXCEPT !.blocked = TRUE] ELSE p
    BY <1>2 DEF ClickedPost
  <2>3. u = t
    BY <2>2
  <2> HIDE DEF u, t, new
  <2> QED BY <2>1, <2>3
<1>4. t \in Seq(SoPosts)
  BY <1>2, ListsMapped DEF SocialInv, SocialTypes, SoStores
<1> HIDE DEF new
<1> QED BY <1>1, <1>2, <1>3, <1>4, PostClickKeeps

\* The comments that a click means are those of the id, but for an id of the tab's own.
LEMMA TakenAre ==
    ASSUME NEW cs \in Seq(SoComments), NEW m \in SoMessages, NEW W,
           \A i \in DOMAIN cs : cs[i].id = m.id /\ cs[i].id.kind # "own" => i \in W,
           \A i \in DOMAIN cs : i \in W => cs[i].id = m.id
    PROVE  LET u == [i \in DOMAIN cs |-> IF i \in W THEN ServedComment(cs[i], m) ELSE cs[i]]
           IN  /\ u \in Seq(SoComments) /\ DOMAIN u = DOMAIN cs
               /\ \A i \in DOMAIN cs : Takes(u[i], cs[i], m)
<1> DEFINE u == [i \in DOMAIN cs |-> IF i \in W THEN ServedComment(cs[i], m) ELSE cs[i]]
<1>1. ASSUME NEW i \in DOMAIN cs PROVE Takes(u[i], cs[i], m)
  <2>1. cs[i] \in SoComments
    BY ElementOfSeq
  <2>2. CASE i \in W
    <3>1. u[i] = ServedComment(cs[i], m)
      BY <2>2
    <3> QED BY <2>1, <3>1, CommentIs DEF Takes
  <2>3. CASE i \notin W
    <3>1. u[i] = cs[i]
      BY <2>3
    <3>2. cs[i].id.kind # "own" => ServedComment(cs[i], m) = cs[i]
      BY <2>3 DEF ServedComment
    <3> QED BY <2>1, <3>1, <3>2 DEF Takes
  <2> QED BY <2>2, <2>3
<1>2. u \in Seq(SoComments)
  <2>1. \A i \in DOMAIN cs : u[i] \in SoComments
    BY <1>1 DEF Takes
  <2> QED BY <2>1, MappedIs
<1> QED BY <1>1, <1>2

LEMMA MeantAre ==
    ASSUME SocialInv, PlacedInv, NEW c \in Social!ShownComments
    PROVE  /\ c \in SoComments
           /\ \A i \in DOMAIN soLocal.comments :
                /\ i \in Social!Meant(soLocal, c) => soLocal.comments[i].id = c.id
                /\ soLocal.comments[i].id = c.id /\ soLocal.comments[i].id.kind # "own" =>
                     i \in Social!Meant(soLocal, c)
<1> DEFINE cs == soLocal.comments
           ds == soServer.comments
<1>1. PICK n \in DOMAIN soSeen.comments : c = soSeen.comments[n]
  BY DEF Social!ShownComments
<1>2. c \in SoComments
  BY <1>1, ElementOfSeq DEF SocialInv, SocialTypes
<1>3. ASSUME NEW i \in DOMAIN cs, i \in Social!Meant(soLocal, c) PROVE cs[i].id = c.id
  BY <1>3 DEF Social!Meant, Social!Called
<1>4. ASSUME NEW i \in DOMAIN cs, cs[i].id = c.id, cs[i].id.kind # "own"
      PROVE  i \in Social!Meant(soLocal, c)
  <2>1. PICK j \in DOMAIN ds : ds[j].id = c.id /\ ds[j].post = c.post
    BY <1>1, <1>4 DEF PlacedInv, Placed
  <2>2. PICK k \in DOMAIN ds : ds[k].id = c.id /\ ds[k].post = cs[i].post
    BY <1>4 DEF PlacedInv, Placed
  <2>3. j = k
    BY <2>1, <2>2 DEF SocialInv, Numbered
  <2> QED BY <1>4, <2>1, <2>2, <2>3 DEF Social!Meant, Social!Called
<1> QED BY <1>2, <1>3, <1>4

LEMMA OnCommentKeeps ==
    ASSUME SocialInv, PlacedInv, NEW c \in Social!ShownComments, Social!ClickOnComment(c),
           Social!Same
    PROVE  SocialInv'
<1> DEFINE cs == soLocal.comments
           W == Social!Meant(soLocal, c)
<1>1. /\ c \in SoComments /\ c.id \in SoIds /\ (c.mine => c.id.kind # "seed")
      /\ cs \in Seq(SoComments)
  BY MeantAre DEF SoComments, SocialInv, SocialTypes, SoStores
<1>2. \A i \in DOMAIN cs : /\ i \in W => cs[i].id = c.id
                           /\ cs[i].id = c.id /\ cs[i].id.kind # "own" => i \in W
  BY MeantAre
<1> HIDE DEF W
<1>3. CASE Social!Click(Social!ToggleComment(soLocal, W, "liked"),
                        [op |-> "toggleComment", id |-> c.id, flag |-> "liked"])
  <2> DEFINE m == [op |-> "toggleComment", id |-> c.id, flag |-> "liked"]
             new == Social!ToggleComment(soLocal, W, "liked")
             u == [i \in DOMAIN cs |-> IF i \in W THEN [cs[i] EXCEPT !.flags = Social!Flip(@, "liked")] ELSE cs[i]]
  <2>0. Social!Click(new, m)
    BY <1>3
  <2>1. /\ Sent(m) \in SoMessages /\ Sent(m).op = "toggleComment" /\ Sent(m).id = c.id
        /\ Sent(m).flag = "liked"
    <3>1. Sent(m) = [op |-> "toggleComment", id |-> c.id, flag |-> "liked", synced |-> soSynced]
      BY DEF Sent
    <3> QED BY <1>1, <3>1 DEF SoMessages, SocialInv, SocialTypes
  <2> HIDE DEF m
  <2>2. new = [soLocal EXCEPT !.comments = u]
    BY DEF Social!ToggleComment, Social!OnComments
  <2>3. u = [i \in DOMAIN cs |-> IF i \in W THEN ServedComment(cs[i], Sent(m)) ELSE cs[i]]
    BY <1>2, <2>1 DEF ServedComment
  <2> HIDE DEF new, u
  <2>4. /\ u \in Seq(SoComments) /\ DOMAIN u = DOMAIN cs
        /\ \A i \in DOMAIN cs : Takes(u[i], cs[i], Sent(m))
    <3>1. \A i \in DOMAIN cs :
            /\ i \in W => cs[i].id = Sent(m).id
            /\ cs[i].id = Sent(m).id /\ cs[i].id.kind # "own" => i \in W
      BY <1>2, <2>1
    <3> HIDE DEF cs
    <3> QED BY ZenonT(60), <1>1, <2>1, <2>3, <3>1, TakenAre
  <2> QED BY <2>0, <2>1, <2>2, <2>4, CommentClickKeeps
<1>4. CASE c.mine /\ Social!Click(Social!DeleteComment(soLocal, W),
                        [op |-> "delete", id |-> c.id])
  <2> DEFINE m == [op |-> "delete", id |-> c.id]
             new == Social!DeleteComment(soLocal, W)
             u == [i \in DOMAIN cs |-> IF i \in W THEN [cs[i] EXCEPT !.deleted = TRUE] ELSE cs[i]]
  <2>0. Social!Click(new, m)
    BY <1>4
  <2>1. /\ Sent(m) \in SoMessages /\ Sent(m).op = "delete" /\ Sent(m).id = c.id
    <3>1. Sent(m) = [op |-> "delete", id |-> c.id, synced |-> soSynced]
      BY DEF Sent
    <3> QED BY <1>1, <1>4, <3>1 DEF SoMessages, SocialInv, SocialTypes
  <2> HIDE DEF m
  <2>2. new = [soLocal EXCEPT !.comments = u]
    BY DEF Social!DeleteComment, Social!OnComments
  <2>3. u = [i \in DOMAIN cs |-> IF i \in W THEN ServedComment(cs[i], Sent(m)) ELSE cs[i]]
    BY <1>2, <2>1 DEF ServedComment
  <2> HIDE DEF new, u
  <2>4. /\ u \in Seq(SoComments) /\ DOMAIN u = DOMAIN cs
        /\ \A i \in DOMAIN cs : Takes(u[i], cs[i], Sent(m))
    <3>1. \A i \in DOMAIN cs :
            /\ i \in W => cs[i].id = Sent(m).id
            /\ cs[i].id = Sent(m).id /\ cs[i].id.kind # "own" => i \in W
      BY <1>2, <2>1
    <3> HIDE DEF cs
    <3> QED BY ZenonT(60), <1>1, <2>1, <2>3, <3>1, TakenAre
  <2> QED BY <2>0, <2>1, <2>2, <2>4, CommentClickKeeps
<1>5. CASE Social!Click(Social!ReportComment(soLocal, W),
                        [op |-> "report", id |-> c.id])
  <2> DEFINE m == [op |-> "report", id |-> c.id]
             new == Social!ReportComment(soLocal, W)
             u == [i \in DOMAIN cs |-> IF i \in W THEN [cs[i] EXCEPT !.reported = TRUE] ELSE cs[i]]
  <2>0. Social!Click(new, m)
    BY <1>5
  <2>1. /\ Sent(m) \in SoMessages /\ Sent(m).op = "report" /\ Sent(m).id = c.id
    <3>1. Sent(m) = [op |-> "report", id |-> c.id, synced |-> soSynced]
      BY DEF Sent
    <3> QED BY <1>1, <3>1 DEF SoMessages, SocialInv, SocialTypes
  <2> HIDE DEF m
  <2>2. new = [soLocal EXCEPT !.comments = u]
    BY DEF Social!ReportComment, Social!OnComments
  <2>3. u = [i \in DOMAIN cs |-> IF i \in W THEN ServedComment(cs[i], Sent(m)) ELSE cs[i]]
    BY <1>2, <2>1 DEF ServedComment
  <2> HIDE DEF new, u
  <2>4. /\ u \in Seq(SoComments) /\ DOMAIN u = DOMAIN cs
        /\ \A i \in DOMAIN cs : Takes(u[i], cs[i], Sent(m))
    <3>1. \A i \in DOMAIN cs :
            /\ i \in W => cs[i].id = Sent(m).id
            /\ cs[i].id = Sent(m).id /\ cs[i].id.kind # "own" => i \in W
      BY <1>2, <2>1
    <3> HIDE DEF cs
    <3> QED BY ZenonT(60), <1>1, <2>1, <2>3, <3>1, TakenAre
  <2> QED BY <2>0, <2>1, <2>2, <2>4, CommentClickKeeps
<1> QED BY <1>3, <1>4, <1>5 DEF Social!ClickOnComment, W

LEMMA OwnPostKeeps == ASSUME SocialInv, Social!ClickPost PROVE SocialInv'
<1> DEFINE id == Social!Id("own", soSerial'.post)
           m == [op |-> "post"]
           new == Social!AddPost(soLocal, id)
<1>1. /\ Social!Click(new, m) /\ soSerial' = [soSerial EXCEPT !.post = @ + 1]
      /\ soSerial' \in [post : Nat, comment : Nat]
  BY DEF Social!ClickPost, SocialInv, SocialTypes
<1>2. id \in SoIds /\ id.kind = "own"
  BY <1>1 DEF Social!Id, SoIds
<1>3. Sent(m) \in SoMessages /\ Sent(m).op = "post"
  <2>1. Sent(m) = [op |-> "post", synced |-> soSynced]
    BY DEF Sent
  <2> QED BY <2>1 DEF SoMessages, SocialInv, SocialTypes
<1> HIDE DEF m, id
<1> DEFINE p == Social!Post(id, TRUE)
<1>4. p \in SoPosts /\ p.id = id
  BY <1>2, PostIs
<1>5. new = [soLocal EXCEPT !.posts = <<p>> \o @]
  BY DEF Social!AddPost
<1>6. <<p>> \o soLocal.posts \in Seq(SoPosts)
  BY <1>4, PutInFront DEF SocialInv, SocialTypes, SoStores
<1> HIDE DEF new, p
<1>7. new \in SoStores /\ new.posts = <<p>> \o soLocal.posts /\ new.comments = soLocal.comments
  BY <1>5, <1>6 DEF SocialInv, SocialTypes, SoStores
<1>8. PostsMirror(soLocal.posts, soServer.posts, soWire) =>
        PostsMirror(new.posts, soServer.posts, Append(soWire, Sent(m)))
  <2>1. /\ soLocal.posts \in Seq(SoPosts) /\ soServer.posts \in Seq(SoPosts)
        /\ Shared(soServer.posts)
    BY DEF SocialInv, SocialTypes, SoStores
  <2> SUFFICES ASSUME PostsMirror(soLocal.posts, soServer.posts, soWire)
               PROVE  PostsMirror(new.posts, soServer.posts, Append(soWire, Sent(m)))
    OBVIOUS
  <2>2. PostsMirror(soLocal.posts, soServer.posts, Append(soWire, Sent(m)))
    BY <1>3, OtherPosts
  <2> QED BY <1>2, <1>4, <1>7, <2>1, <2>2, OwnPost
<1>9. CommentsMirror(soLocal.comments, soServer.comments, soWire) =>
        CommentsMirror(new.comments, soServer.comments, Append(soWire, Sent(m)))
  BY <1>3, <1>7, OtherComments
<1> QED BY <1>1, <1>3, <1>7, <1>8, <1>9, ClickKeeps

LEMMA OwnCommentKeeps ==
    ASSUME SocialInv, NEW post \in SoIds, Social!ClickComment(post) PROVE SocialInv'
<1> DEFINE id == Social!Id("own", soSerial'.comment)
<1>1. /\ soSerial' = [soSerial EXCEPT !.comment = @ + 1]
      /\ soSerial' \in [post : Nat, comment : Nat]
  BY DEF Social!ClickComment, SocialInv, SocialTypes
<1>2. id \in SoIds /\ id.kind = "own"
  BY <1>1 DEF Social!Id, SoIds
<1>3. PICK parent \in {Social!NoOne} \cup
                {c.id : c \in {d \in Social!ShownComments : d.post = post}} :
        Social!Click(Social!AddComment(soLocal, id, post, parent),
                     [op |-> "comment", id |-> post, parent |-> parent])
  BY DEF Social!ClickComment
<1>4. parent \in SoIds
  <2>1. Social!NoOne \in SoIds
    BY DEF Social!NoOne, SoIds
  <2>2. \A c \in Social!ShownComments : c.id \in SoIds
    BY ElementOfSeq DEF Social!ShownComments, SocialInv, SocialTypes, SoComments
  <2> QED BY <2>1, <2>2
<1> DEFINE m == [op |-> "comment", id |-> post, parent |-> parent]
           new == Social!AddComment(soLocal, id, post, parent)
           c == Social!Comment(id, post, parent, TRUE)
<1>5. Sent(m) \in SoMessages /\ Sent(m).op = "comment"
  <2>1. Sent(m) = [op |-> "comment", id |-> post, parent |-> parent, synced |-> soSynced]
    BY DEF Sent
  <2> QED BY <1>4, <2>1 DEF SoMessages, SocialInv, SocialTypes
<1>6. Social!Click(new, m)
  BY <1>3
<1> HIDE DEF m, id
<1>7. c \in SoComments /\ c.id = id
  BY <1>2, <1>4, MadeCommentIs
<1>8. new = [soLocal EXCEPT !.comments = <<c>> \o @, !.unread = @ + 1]
  BY DEF Social!AddComment
<1>9. <<c>> \o soLocal.comments \in Seq(SoComments)
  BY <1>7, PutInFront DEF SocialInv, SocialTypes, SoStores
<1> HIDE DEF new, c
<1>10. /\ new \in SoStores /\ new.posts = soLocal.posts
       /\ new.comments = <<c>> \o soLocal.comments
  <2>1. soLocal \in SoStores /\ soLocal.unread + 1 \in Nat
    BY DEF SocialInv, SocialTypes, SoStores
  <2> QED BY <1>8, <1>9, <2>1 DEF SoStores
<1>11. PostsMirror(soLocal.posts, soServer.posts, soWire) =>
         PostsMirror(new.posts, soServer.posts, Append(soWire, Sent(m)))
  BY <1>5, <1>10, OtherPosts
<1>12. CommentsMirror(soLocal.comments, soServer.comments, soWire) =>
         CommentsMirror(new.comments, soServer.comments, Append(soWire, Sent(m)))
  <2>1. soLocal.comments \in Seq(SoComments) /\ soServer.comments \in Seq(SoComments)
    BY DEF SocialInv, SocialTypes, SoStores
  <2> SUFFICES ASSUME CommentsMirror(soLocal.comments, soServer.comments, soWire)
               PROVE  CommentsMirror(new.comments, soServer.comments, Append(soWire, Sent(m)))
    OBVIOUS
  <2>2. CommentsMirror(soLocal.comments, soServer.comments, Append(soWire, Sent(m)))
    BY <1>5, OtherComments
  <2> QED BY <1>2, <1>7, <1>10, <2>1, <2>2, OwnComment
<1> QED BY <1>1, <1>5, <1>6, <1>10, <1>11, <1>12, ClickKeeps

\* A click that is about neither posts nor comments.
LEMMA OtherClickKeeps ==
    ASSUME SocialInv, NEW new \in SoStores, NEW m, Sent(m) \in SoMessages, Social!Click(new, m),
           Social!Same, Sent(m).op \in {"follow", "unfollow", "read"},
           new.posts = soLocal.posts, new.comments = soLocal.comments
    PROVE  SocialInv'
<1>1. soSerial' \in [post : Nat, comment : Nat]
  BY DEF Social!Same, SocialInv, SocialTypes
<1> QED BY <1>1, OtherPosts, OtherComments, ClickKeeps

\* Who is followed, and by how many.
LEMMA FollowIs ==
    ASSUME NEW s \in SoStores, NEW u \in Traders
    PROVE  /\ Social!Follow(s, u) \in SoStores /\ Social!Unfollow(s, u) \in SoStores
           /\ Social!Follow(s, u).posts = s.posts /\ Social!Follow(s, u).comments = s.comments
           /\ Social!Unfollow(s, u).posts = s.posts
           /\ Social!Unfollow(s, u).comments = s.comments
           /\ (\A t \in Traders : s.followers[t] = IF t \in s.following THEN 1 ELSE 0) =>
                /\ \A t \in Traders : Social!Follow(s, u).followers[t] =
                        IF t \in Social!Follow(s, u).following THEN 1 ELSE 0
                /\ u \in s.following =>
                    \A t \in Traders : Social!Unfollow(s, u).followers[t] =
                        IF t \in Social!Unfollow(s, u).following THEN 1 ELSE 0
<1>1. Social!Lesser(s.followers[u]) \in Nat
  BY DEF Social!Lesser, SoStores
<1>2. Social!Unfollow(s, u) \in SoStores
  BY <1>1 DEF Social!Unfollow, SoStores
<1>3. Social!Follow(s, u) \in SoStores
  <2> DEFINE t == [s EXCEPT !.following = @ \cup {u}, !.followers[u] = @ + 1, !.unread = @ + 1]
  <2>1. /\ s.followers[u] + 1 \in Nat /\ s.unread + 1 \in Nat
        /\ s.following \cup {u} \in SUBSET Traders
    BY DEF SoStores
  <2>2. [s.followers EXCEPT ![u] = @ + 1] \in [Traders -> Nat]
    BY <2>1 DEF SoStores
  <2>3. t \in SoStores
    BY <2>1, <2>2 DEF SoStores
  <2> QED BY <2>3 DEF Social!Follow
<1> QED BY SMTT(30), <1>2, <1>3 DEF Social!Follow, Social!Unfollow, Social!Lesser, SoStores

LEMMA FollowKeeps ==
    ASSUME SocialInv, NEW u \in Traders, Social!ClickFollow(u) PROVE SocialInv'
<1>0. soLocal \in SoStores
  BY DEF SocialInv, SocialTypes
<1>1. CASE u \in soSeen.following
  <2> DEFINE m == [op |-> "unfollow", id |-> u]
  <2>1. Social!Click(Social!Unfollow(soLocal, u), m) /\ Social!Same
    BY <1>1 DEF Social!ClickFollow
  <2>2. Sent(m) \in SoMessages /\ Sent(m).op = "unfollow"
    <3>1. Sent(m) = [op |-> "unfollow", id |-> u, synced |-> soSynced]
      BY DEF Sent
    <3> QED BY <3>1 DEF SoMessages, SocialInv, SocialTypes
  <2> HIDE DEF m
  <2> QED BY <1>0, <2>1, <2>2, FollowIs, OtherClickKeeps
<1>2. CASE u \notin soSeen.following
  <2> DEFINE m == [op |-> "follow", id |-> u]
  <2>1. Social!Click(Social!Follow(soLocal, u), m) /\ Social!Same
    BY <1>2 DEF Social!ClickFollow
  <2>2. Sent(m) \in SoMessages /\ Sent(m).op = "follow"
    <3>1. Sent(m) = [op |-> "follow", id |-> u, synced |-> soSynced]
      BY DEF Sent
    <3> QED BY <3>1 DEF SoMessages, SocialInv, SocialTypes
  <2> HIDE DEF m
  <2> QED BY <1>0, <2>1, <2>2, FollowIs, OtherClickKeeps
<1> QED BY <1>1, <1>2

LEMMA MarkedIs ==
    ASSUME NEW s \in SoStores
    PROVE  LET t == Social!MarkRead(s)
           IN  /\ t \in SoStores /\ t.posts = s.posts /\ t.comments = s.comments
               /\ t.followers = s.followers /\ t.following = s.following
BY DEF Social!MarkRead, SoStores

LEMMA ReadKeeps == ASSUME SocialInv, Social!ClickRead PROVE SocialInv'
<1> DEFINE m == [op |-> "read"]
           new == Social!MarkRead(soLocal)
<1>1. Social!Click(new, m) /\ Social!Same
  BY DEF Social!ClickRead
<1>2. Sent(m) \in SoMessages /\ Sent(m).op = "read"
  <2>1. Sent(m) = [op |-> "read", synced |-> soSynced]
    BY DEF Sent
  <2> QED BY <2>1 DEF SoMessages, SocialInv, SocialTypes
<1>3. new \in SoStores /\ new.posts = soLocal.posts /\ new.comments = soLocal.comments
  BY MarkedIs DEF SocialInv, SocialTypes
<1> HIDE DEF m, new
<1> QED BY <1>1, <1>2, <1>3, OtherClickKeeps

LEMMA ClickingKeeps == ASSUME SocialInv, PlacedInv, Social!Clicking PROVE SocialInv'
<1>1. \A id \in Social!Shown : id \in SoIds
  BY ElementOfSeq DEF Social!Shown, Social!Ids, SocialInv, SocialTypes, SoPosts
<1>3. CASE \E id \in Social!Shown : Social!ClickBlock(id) \/ Social!ClickComment(id)
                \/ \E f \in Flags : Social!ClickToggle(id, f)
  BY <1>1, <1>3, BlockKeeps, OwnCommentKeeps, ToggleKeeps
<1>4. CASE \E c \in Social!ShownComments : Social!ClickOnComment(c) /\ Social!Same
  BY <1>4, OnCommentKeeps
<1> QED BY <1>3, <1>4, OwnPostKeeps, ReadKeeps, FollowKeeps DEF Social!Clicking

-----------------------------------------------------------------------------
\* What is rendered, lost and loaded again.

\* As long as nothing else changes, what is shown may.
LEMMA RenderKeeps == ASSUME SocialInv, Social!Render PROVE SocialInv'
<1>1. /\ UNCHANGED <<soLocal, soStorage, soUnsaved, soSerial, soSynced, soVisit, soWire, soServer, soClicks,
                     soReloads, soLapsed>>
      /\ soSeen' = Social!Rendered(soLocal)
  BY DEF Social!Render, Social!stored
<1>2. soSeen'.posts \in Seq(SoPosts) /\ soSeen'.comments \in Seq(SoComments)
  BY <1>1, RenderedIs DEF SocialInv, SocialTypes
<1>3. SocialTypes'
  BY <1>1, <1>2 DEF SocialInv, SocialTypes
<1>4. ~soLapsed' => MirrorInv'
  BY <1>1 DEF SocialInv, MirrorInv, Social!Hydrating
<1> QED BY <1>1, <1>3, <1>4 DEF SocialInv

\* What a visit comes to, with the store, what is stored and synced, and what is shown.
LEMMA HydrateKeeps ==
    ASSUME SocialInv, NEW v \in Visits, NEW r, Visited(r), Social!SetVisit(v, r),
           soLocal' \in SoStores, soStorage' \in SoStores \cup {Social!Nothing},
           soUnsaved' \in BOOLEAN, soSynced' \in BOOLEAN,
           soSeen'.posts \in Seq(SoPosts), soSeen'.comments \in Seq(SoComments),
           soLapsed' \in BOOLEAN, soClicks' \in 0..MaxClicks, soClicks <= soClicks',
           UNCHANGED <<soSerial, soWire, soServer, soReloads>>, ~soLapsed' => MirrorInv'
    PROVE  SocialInv'
<1>1. /\ DOMAIN soVisit' = Visits
      /\ \A u \in Visits : soVisit'[u] = IF u = v THEN r ELSE soVisit[u]
  BY DEF Social!SetVisit, SocialInv, SocialTypes
<1>2. \A u \in Visits : Visited(soVisit'[u])
  BY <1>1 DEF SocialInv, SocialTypes
<1>3. Len(soWire') <= soClicks'
  <2>1. Len(soWire) <= soClicks /\ Len(soWire) \in Nat /\ soClicks \in Int /\ soClicks' \in Int
    BY DEF SocialInv, SocialTypes
  <2> QED BY <2>1
<1>4. SocialTypes'
  BY <1>1, <1>2, <1>3 DEF SocialInv, SocialTypes
<1> QED BY <1>4 DEF SocialInv

\* With nothing under way there is nothing to count.
LEMMA NothingIsUnderWay ==
    /\ \A op, id : ~Some(<<>>, op, id)
    /\ \A op, id, f : ~Odd(<<>>, op, id, f)
<1>1. \A op, id, f : Which(<<>>, op, id, f) = {}
  BY DEF Which
<1>2. Cardinality({}) = 0 /\ ~(0 % 2 = 1)
  BY FS_EmptySet
<1>3. ASSUME NEW op, NEW id, NEW f PROVE ~Odd(<<>>, op, id, f)
  BY <1>1, <1>2 DEF Odd
<1>4. \A op, id : ~Some(<<>>, op, id)
  BY DEF Some
<1> QED BY <1>3, <1>4

\* What the server has is mirrored when nothing is under way.
LEMMA FromMirrors ==
    ASSUME Numbered(soServer.posts), Numbered(soServer.comments)
    PROVE  /\ \A ps : From(ps, soServer.posts) => PostsMirror(ps, soServer.posts, <<>>)
           /\ \A cs : From(cs, soServer.comments) => CommentsMirror(cs, soServer.comments, <<>>)
<1>0. /\ \A op, id : ~Some(<<>>, op, id)
      /\ \A op, id, f : ~Odd(<<>>, op, id, f)
  BY NothingIsUnderWay
<1>1. ASSUME NEW ps, From(ps, soServer.posts) PROVE PostsMirror(ps, soServer.posts, <<>>)
  <2>1. Known(ps, soServer.posts)
    BY <1>1 DEF From, Known
  <2>2. ASSUME NEW i \in DOMAIN ps, NEW j \in DOMAIN soServer.posts,
               ps[i].id = soServer.posts[j].id
        PROVE  PostAgrees(ps[i], soServer.posts[j], <<>>)
    <3>1. ps[i] = soServer.posts[j]
      BY <1>1, <2>2 DEF From, Numbered
    <3> QED BY <1>0, <3>1 DEF PostAgrees, Differ
  <2> QED BY <2>1, <2>2 DEF PostsMirror
<1>2. ASSUME NEW cs, From(cs, soServer.comments) PROVE CommentsMirror(cs, soServer.comments, <<>>)
  <2>1. Known(cs, soServer.comments)
    BY <1>2 DEF From, Known
  <2>2. ASSUME NEW i \in DOMAIN cs, NEW j \in DOMAIN soServer.comments,
               cs[i].id = soServer.comments[j].id
        PROVE  CommentAgrees(cs[i], soServer.comments[j], <<>>)
    <3>1. cs[i] = soServer.comments[j]
      BY <1>2, <2>2 DEF From, Numbered
    <3> QED BY <1>0, <3>1 DEF CommentAgrees, Differ
  <2> QED BY <2>1, <2>2 DEF CommentsMirror
<1> QED BY <1>1, <1>2

\* What the server selects of its own.
LEMMA ChosenAre ==
    ASSUME NEW S, NEW xs \in Seq(S), NEW K \in SUBSET DOMAIN xs
    PROVE  LET ys == Social!Only(xs, K)
           IN  ys \in Seq(S) /\ \A n \in DOMAIN ys : \E i \in K : ys[n] = xs[i]
<1>1. Social!Only(xs, K) = Only(xs, K)
  BY DEF Social!Only, Only, Social!Place, Place, Social!Cardinality, Cardinality
<1>2. Only(xs, K) \in Seq(S) /\ \A n \in DOMAIN Only(xs, K) : \E i \in K : Only(xs, K)[n] = xs[i]
  BY OnlyIs
<1> QED BY <1>1, <1>2

LEMMA SelectedIs ==
    ASSUME NEW S, NEW xs \in Seq(S), NEW K \in SUBSET DOMAIN xs
    PROVE  Social!Only(xs, K) \in Seq(S) /\ From(Social!Only(xs, K), xs)
BY ChosenAre DEF From

LEMMA LoseKeeps == ASSUME SocialInv, NEW i, Social!Lose(i) PROVE SocialInv'
<1>1. /\ i \in DOMAIN soWire /\ soWire' = Social!Without(soWire, i) /\ soLapsed' = TRUE
      /\ UNCHANGED <<soLocal, soStorage, soUnsaved, soSerial, soSynced, soVisit, soSeen, soServer, soClicks,
                     soReloads>>
  BY DEF Social!Lose, Social!budgets, Social!stored
<1>2. soWire' \in Seq(SoMessages) /\ Len(soWire') = Len(soWire) - 1
  BY <1>1, RemovedIs DEF SocialInv, SocialTypes
<1>3. Len(soWire') <= soClicks
  <2>1. Len(soWire) <= soClicks /\ soClicks \in Int /\ Len(soWire) \in Nat
    BY DEF SocialInv, SocialTypes
  <2> QED BY <1>2, <2>1
<1>4. SocialTypes'
  BY <1>1, <1>2, <1>3 DEF SocialInv, SocialTypes
<1> QED BY <1>1, <1>4 DEF SocialInv

LEMMA ReloadKeeps == ASSUME SocialInv, Social!Reload PROVE SocialInv'
<1>1. /\ soReloads < MaxReloads /\ soReloads' = soReloads + 1 /\ soLocal' = Social!Loaded
      /\ soSerial' = [post |-> 0, comment |-> 0] /\ soSynced' = FALSE
      /\ soVisit' = [v \in Visits |-> [at |-> "unmounted"]] /\ soSeen' = Social!Rendered(soLocal')
      /\ soUnsaved' = FALSE /\ UNCHANGED <<soStorage, soWire, soServer, soClicks, soLapsed>>
  BY DEF Social!Reload
<1>2. soLocal' \in SoStores
  <2>1. /\ soStorage \in SoStores \cup {Social!Nothing} /\ Social!Seed \in SoStores
        /\ Social!SeedPosts \in Seq(SoPosts)
    BY ContentToStartFrom, PostsToStartFrom DEF SocialInv, SocialTypes
  <2> QED BY <1>1, <2>1 DEF Social!Loaded, SoStores
<1>3. soSeen'.posts \in Seq(SoPosts) /\ soSeen'.comments \in Seq(SoComments)
  BY <1>1, <1>2, RenderedIs
<1>4. \A v \in Visits : soVisit'[v].at = "unmounted" /\ Visited(soVisit'[v])
  BY <1>1 DEF Visited
<1>5. soReloads' \in 0..MaxReloads
  BY <1>1, SocialAssumption DEF SocialInv, SocialTypes
<1>6. SocialTypes'
  BY <1>1, <1>2, <1>3, <1>4, <1>5 DEF SocialInv, SocialTypes
<1>7. MirrorInv'
  BY <1>1, <1>4 DEF MirrorInv, Social!Hydrating
<1> QED BY <1>1, <1>6, <1>7 DEF SocialInv

LEMMA SignOutKeeps == ASSUME SocialInv, Social!SignOut PROVE SocialInv'
<1>1. /\ soClicks' = soClicks + 1 /\ soClicks' <= MaxClicks
      /\ soStorage' = Social!Nothing /\ soUnsaved' = TRUE
      /\ UNCHANGED <<soLocal, soSerial, soSynced, soVisit, soSeen, soWire, soServer, soReloads,
                     soLapsed>>
  BY DEF Social!SignOut, Social!Spend
<1>2. soClicks' \in 0..MaxClicks /\ Len(soWire') <= soClicks'
  <2>1. Len(soWire) <= soClicks /\ soClicks \in Nat /\ Len(soWire) \in Nat
    BY DEF SocialInv, SocialTypes
  <2> QED BY <1>1, <2>1, SocialAssumption
<1>3. SocialTypes'
  BY <1>1, <1>2 DEF SocialInv, SocialTypes
<1>4. ~soLapsed' => MirrorInv'
  BY <1>1 DEF SocialInv, MirrorInv, Social!Hydrating
<1> QED BY <1>1, <1>3, <1>4 DEF SocialInv

-----------------------------------------------------------------------------
\* Hydration.

LEMMA MountKeeps == ASSUME SocialInv, NEW v \in Visits, Social!Mount(v) PROVE SocialInv'
<1> DEFINE r == [at |-> IF soSynced THEN "done" ELSE "asked"]
<1>1. /\ Social!SetVisit(v, r) /\ soSeen' = Social!Rendered(soLocal)
      /\ UNCHANGED <<soLocal, soStorage, soUnsaved, soSerial, soSynced, soWire, soServer, soClicks, soReloads,
                     soLapsed>>
  BY DEF Social!Mount, Social!budgets, Social!stored
<1>2. r.at \in {"done", "asked"} /\ Visited(r)
  BY DEF Visited
<1> HIDE DEF r
<1>3. soSeen'.posts \in Seq(SoPosts) /\ soSeen'.comments \in Seq(SoComments)
  BY <1>1, RenderedIs DEF SocialInv, SocialTypes
<1>4. \A u \in Visits : soVisit'[u] = IF u = v THEN r ELSE soVisit[u]
  BY <1>1 DEF Social!SetVisit, SocialInv, SocialTypes
<1>5. ~soLapsed' => MirrorInv'
  BY <1>1, <1>2, <1>4 DEF SocialInv, MirrorInv, Social!Hydrating
<1> QED BY <1>1, <1>2, <1>3, <1>5, HydrateKeeps DEF SocialInv, SocialTypes

LEMMA UnreachableKeeps ==
    ASSUME SocialInv, NEW v \in Visits, Social!Unreachable(v) PROVE SocialInv'
<1> DEFINE r == [at |-> "done"]
<1>1. /\ Social!SetVisit(v, r)
      /\ UNCHANGED <<soLocal, soStorage, soUnsaved, soSerial, soSynced, soSeen, soWire, soServer,
                     soClicks, soReloads, soLapsed>>
  BY DEF Social!Unreachable, Social!budgets, Social!stored
<1>2. r.at = "done" /\ Visited(r)
  BY DEF Visited
<1> HIDE DEF r
<1>4. \A u \in Visits : soVisit'[u] = IF u = v THEN r ELSE soVisit[u]
  BY <1>1 DEF Social!SetVisit, SocialInv, SocialTypes
<1>5. ~soLapsed' => MirrorInv'
  BY <1>1, <1>2, <1>4 DEF SocialInv, MirrorInv, Social!Hydrating
<1> QED BY <1>1, <1>2, <1>5, HydrateKeeps DEF SocialInv, SocialTypes

LEMMA AnswerFeedKeeps ==
    ASSUME SocialInv, NEW v \in Visits, Social!AnswerFeed(v) PROVE SocialInv'
<1> DEFINE K == {i \in DOMAIN soServer.posts : ~soServer.posts[i].blocked}
           ps == Social!Only(soServer.posts, K)
           r == [at |-> "answered", posts |-> ps, followers |-> soServer.followers,
                 unread |-> soServer.unread]
<1>1. /\ Social!SetVisit(v, r) /\ soLapsed' = (soLapsed \/ soWire # <<>>)
      /\ UNCHANGED <<soLocal, soStorage, soUnsaved, soSerial, soSynced, soSeen, soWire, soServer,
                     soClicks, soReloads>>
  BY DEF Social!AnswerFeed, Social!budgets, Social!stored
<1>2. ps \in Seq(SoPosts) /\ From(ps, soServer.posts)
  <2>1. soServer.posts \in Seq(SoPosts) /\ K \in SUBSET DOMAIN soServer.posts
    BY DEF SocialInv, SocialTypes, SoStores
  <2> QED BY <2>1, SelectedIs
<1> HIDE DEF ps
<1>3. r.at = "answered" /\ r.posts = ps /\ Visited(r)
  BY <1>2 DEF Visited, SocialInv, SocialTypes, SoStores
<1> HIDE DEF r
<1>4. \A u \in Visits : soVisit'[u] = IF u = v THEN r ELSE soVisit[u]
  BY <1>1 DEF Social!SetVisit, SocialInv, SocialTypes
<1>5. ASSUME ~soLapsed' PROVE MirrorInv'
  <2>1. MirrorInv /\ soWire' = <<>>
    BY <1>1, <1>5 DEF SocialInv
  <2> QED BY <1>1, <1>2, <1>3, <1>4, <2>1 DEF MirrorInv
<1>6. soLapsed' \in BOOLEAN
  BY <1>1 DEF SocialInv, SocialTypes
<1> QED BY <1>1, <1>3, <1>5, <1>6, HydrateKeeps DEF SocialInv, SocialTypes

LEMMA ApplyFeedKeeps ==
    ASSUME SocialInv, NEW v \in Visits, Social!ApplyFeed(v) PROVE SocialInv'
<1> DEFINE a == soVisit[v]
           r == [at |-> "comments", posts |-> Social!Ids(a.posts)]
<1>1. /\ Social!SetVisit(v, r) /\ a.at = "answered"
      /\ soLocal' = [soLocal EXCEPT !.posts = a.posts, !.followers = a.followers,
                                    !.unread = a.unread]
      /\ UNCHANGED <<soStorage, soUnsaved, soSerial, soSynced, soSeen, soWire, soServer, soClicks, soReloads,
                     soLapsed>>
  BY DEF Social!ApplyFeed, Social!budgets, Social!stored
<1>2. a.posts \in Seq(SoPosts) /\ a.followers \in [Traders -> Nat] /\ a.unread \in Nat
  BY <1>1 DEF SocialInv, SocialTypes, Visited
<1>3. r.at = "comments" /\ Visited(r)
  BY DEF Visited
<1>4. soLocal' \in SoStores /\ soLocal'.posts = a.posts /\ soLocal'.comments = soLocal.comments
  <2>1. soLocal \in SoStores
    BY DEF SocialInv, SocialTypes
  <2> HIDE DEF a
  <2> QED BY <1>1, <1>2, <2>1 DEF SoStores
<1>5. \A u \in Visits : soVisit'[u] = IF u = v THEN r ELSE soVisit[u]
  BY <1>1 DEF Social!SetVisit, SocialInv, SocialTypes
<1>6. ASSUME ~soLapsed' PROVE MirrorInv'
  <2>1. MirrorInv
    BY <1>1, <1>6 DEF SocialInv
  <2>2. Social!Hydrating /\ soWire = <<>> /\ From(a.posts, soServer.posts)
    BY <1>1, <2>1 DEF MirrorInv, Social!Hydrating
  <2>3. PostsMirror(a.posts, soServer.posts, soWire)
    BY <2>2, FromMirrors DEF SocialInv
  <2> HIDE DEF a, r
  <2> QED BY <1>1, <1>3, <1>4, <1>5, <2>1, <2>2, <2>3 DEF MirrorInv
<1> HIDE DEF a, r
<1> QED BY <1>1, <1>3, <1>4, <1>6, HydrateKeeps DEF SocialInv, SocialTypes

LEMMA AnswerCommentsKeeps ==
    ASSUME SocialInv, NEW v \in Visits, Social!AnswerComments(v) PROVE SocialInv'
<1>1. PICK got \in {soVisit[v].posts, {}} :
        Social!SetVisit(v, [at |-> "commented",
           comments |-> Social!Only(soServer.comments,
               {i \in DOMAIN soServer.comments : soServer.comments[i].post \in got})])
  BY DEF Social!AnswerComments
<1> DEFINE K == {i \in DOMAIN soServer.comments : soServer.comments[i].post \in got}
           cs == Social!Only(soServer.comments, K)
           r == [at |-> "commented", comments |-> cs]
<1>2. /\ Social!SetVisit(v, r) /\ soLapsed' = (soLapsed \/ soWire # <<>>)
      /\ soVisit[v].at = "comments"
      /\ UNCHANGED <<soLocal, soStorage, soUnsaved, soSerial, soSynced, soSeen, soWire, soServer,
                     soClicks, soReloads>>
  BY <1>1 DEF Social!AnswerComments, Social!budgets, Social!stored
<1>3. cs \in Seq(SoComments) /\ From(cs, soServer.comments)
  <2>1. soServer.comments \in Seq(SoComments) /\ K \in SUBSET DOMAIN soServer.comments
    BY DEF SocialInv, SocialTypes, SoStores
  <2> QED BY <2>1, SelectedIs
<1> HIDE DEF cs
<1>4. r.at = "commented" /\ r.comments = cs /\ Visited(r)
  BY <1>3 DEF Visited
<1> HIDE DEF r
<1>5. \A u \in Visits : soVisit'[u] = IF u = v THEN r ELSE soVisit[u]
  BY <1>2 DEF Social!SetVisit, SocialInv, SocialTypes
<1>6. ASSUME ~soLapsed' PROVE MirrorInv'
  <2>1. MirrorInv /\ soWire' = <<>>
    BY <1>2, <1>6 DEF SocialInv
  <2> QED BY <1>2, <1>3, <1>4, <1>5, <2>1 DEF MirrorInv
<1>7. soLapsed' \in BOOLEAN
  BY <1>2 DEF SocialInv, SocialTypes
<1> QED BY <1>2, <1>4, <1>6, <1>7, HydrateKeeps DEF SocialInv, SocialTypes

LEMMA FinishKeeps == ASSUME SocialInv, NEW v \in Visits, Social!Finish(v) PROVE SocialInv'
<1> DEFINE a == soVisit[v]
           r == [at |-> "done"]
<1>1. /\ Social!SetVisit(v, r) /\ a.at = "commented"
      /\ soLocal' = [soLocal EXCEPT !.comments = a.comments]
      /\ soSynced' = TRUE
      /\ UNCHANGED <<soSerial, soSeen, soWire, soServer, soReloads, soLapsed>>
  BY DEF Social!Finish
<1>0. /\ soStorage' \in {soLocal', soStorage} /\ soUnsaved' \in BOOLEAN
      /\ soClicks' \in 0..MaxClicks /\ soClicks <= soClicks'
  <2>1. soClicks \in 0..MaxClicks /\ soClicks + 0 = soClicks /\ soClicks + (0 + 1) = soClicks + 1
    BY DEF SocialInv, SocialTypes
  <2>2. /\ soStorage' \in {soLocal', soStorage} /\ soUnsaved' \in BOOLEAN
        /\ soClicks' \in {soClicks, soClicks + 1} /\ soClicks' <= MaxClicks
    BY <2>1 DEF Social!Finish, Social!Persist, Social!Spend
  <2> QED BY <2>1, <2>2, SocialAssumption
<1>2. a.comments \in Seq(SoComments)
  BY <1>1 DEF SocialInv, SocialTypes, Visited
<1>3. r.at = "done" /\ Visited(r)
  BY DEF Visited
<1>4. soLocal' \in SoStores /\ soLocal'.comments = a.comments /\ soLocal'.posts = soLocal.posts
  <2>1. soLocal \in SoStores
    BY DEF SocialInv, SocialTypes
  <2> HIDE DEF a
  <2> QED BY <1>1, <1>2, <2>1 DEF SoStores
<1>5. \A u \in Visits : soVisit'[u] = IF u = v THEN r ELSE soVisit[u]
  BY <1>1 DEF Social!SetVisit, SocialInv, SocialTypes
<1>6. ASSUME ~soLapsed' PROVE MirrorInv'
  <2>1. MirrorInv
    BY <1>1, <1>6 DEF SocialInv
  <2>2. /\ Social!Hydrating /\ soWire = <<>> /\ From(a.comments, soServer.comments)
        /\ PostsMirror(soLocal.posts, soServer.posts, soWire)
    BY <1>1, <2>1 DEF MirrorInv, Social!Hydrating
  <2>3. CommentsMirror(a.comments, soServer.comments, soWire)
    BY <2>2, FromMirrors DEF SocialInv
  <2> HIDE DEF a, r
  <2> QED BY <1>1, <1>3, <1>4, <1>5, <2>1, <2>2, <2>3 DEF MirrorInv
<1> HIDE DEF a, r
<1> QED BY <1>0, <1>1, <1>3, <1>4, <1>6, HydrateKeeps DEF SocialInv, SocialTypes

LEMMA HydrationKeeps == ASSUME SocialInv, Social!Hydration PROVE SocialInv'
BY MountKeeps, AnswerFeedKeeps, ApplyFeedKeeps, AnswerCommentsKeeps, FinishKeeps,
   UnreachableKeeps DEF Social!Hydration

-----------------------------------------------------------------------------
\* What the server does with a mutation.

\* A change of the lists that leaves their ids as they are leaves them numbered.
LEMMA StaysNumbered ==
    ASSUME NEW xs, Numbered(xs), NEW ys, DOMAIN ys = DOMAIN xs, Len(ys) = Len(xs),
           \A i \in DOMAIN xs : ys[i].id = xs[i].id
    PROVE  Numbered(ys)
BY DEF Numbered

LEMMA ServedPostsAre ==
    ASSUME SocialInv, NEW m \in SoMessages, m.op \in {"toggle", "block"}
    PROVE  /\ Social!Handled(soServer, m) =
                [soServer EXCEPT !.posts = [i \in DOMAIN @ |-> ServedPost(@[i], m)]]
           /\ Numbered([i \in DOMAIN soServer.posts |-> ServedPost(soServer.posts[i], m)])
           /\ Shared([i \in DOMAIN soServer.posts |-> ServedPost(soServer.posts[i], m)])
<1> DEFINE qs == soServer.posts
           t == [i \in DOMAIN qs |-> ServedPost(qs[i], m)]
<1>1. soServer \in SoStores /\ qs \in Seq(SoPosts) /\ Numbered(qs) /\ Shared(qs)
  BY DEF SocialInv, SocialTypes, SoStores
<1>2. t \in Seq(SoPosts)
  BY <1>1, ListsMapped
<1>3. Numbered(t) /\ Shared(t)
  <2>1. \A i \in DOMAIN qs : t[i].id = qs[i].id
    BY <1>1, ElementOfSeq, ServedIs
  <2>2. DOMAIN t = DOMAIN qs /\ Len(t) = Len(qs)
    BY <1>1
  <2> HIDE DEF t, qs
  <2> QED BY <1>1, <2>1, <2>2, StaysNumbered DEF Shared
<1>4. CASE m.op = "toggle"
  <2> DEFINE u == [i \in DOMAIN qs |->
                    IF qs[i].id = m.id THEN Social!Toggled(qs[i], m.flag) ELSE qs[i]]
  <2>1. Social!Handled(soServer, m) = [soServer EXCEPT !.posts = u]
    BY <1>4 DEF Social!Handled, Social!TogglePost, Social!OnPost
  <2>2. \A q : ServedPost(q, m) = IF q.id = m.id THEN Social!Toggled(q, m.flag) ELSE q
    BY <1>4 DEF ServedPost
  <2>3. u = t
    BY <2>2
  <2> QED BY <1>3, <2>1, <2>3
<1>5. CASE m.op = "block"
  <2> DEFINE u == [i \in DOMAIN qs |->
                    IF qs[i].id = m.id
                    THEN [qs[i] EXCEPT !.blocked = TRUE, !.flags = @ \ {"muted"}] ELSE qs[i]]
  <2>1. Social!Handled(soServer, m) = [soServer EXCEPT !.posts = u]
    BY <1>5 DEF Social!Handled, Social!OnPost
  <2>2. \A q : ServedPost(q, m) = IF q.id = m.id
                 THEN [q EXCEPT !.blocked = TRUE, !.flags = @ \ {"muted"}] ELSE q
    BY <1>5 DEF ServedPost
  <2>3. u = t
    BY <2>2
  <2> QED BY <1>3, <2>1, <2>3
<1> QED BY <1>4, <1>5

LEMMA ServedCommentsAre ==
    ASSUME SocialInv, NEW m \in SoMessages, m.op \in {"toggleComment", "delete", "report"}
    PROVE  \E u \in Seq(SoComments) :
             /\ Social!Handled(soServer, m) = [soServer EXCEPT !.comments = u]
             /\ Numbered(u) /\ DOMAIN u = DOMAIN soServer.comments
             /\ \A i \in DOMAIN u : Takes(u[i], soServer.comments[i], m)
<1> DEFINE ds == soServer.comments
<1>1. soServer \in SoStores /\ ds \in Seq(SoComments) /\ Numbered(ds)
  BY DEF SocialInv, SocialTypes, SoStores
<1> DEFINE Goal == \E u \in Seq(SoComments) :
             /\ Social!Handled(soServer, m) = [soServer EXCEPT !.comments = u]
             /\ Numbered(u) /\ DOMAIN u = DOMAIN ds
             /\ \A i \in DOMAIN u : Takes(u[i], ds[i], m)
<1>2. ASSUME NEW u \in Seq(SoComments), DOMAIN u = DOMAIN ds,
             \A i \in DOMAIN ds : Takes(u[i], ds[i], m),
             Social!Handled(soServer, m) = [soServer EXCEPT !.comments = u]
      PROVE  Goal
  <2>1. Len(u) = Len(ds) /\ \A i \in DOMAIN ds : u[i].id = ds[i].id
    BY <1>1, <1>2 DEF Takes
  <2>2. Numbered(u)
    BY <1>1, <1>2, <2>1, StaysNumbered
  <2> QED BY <1>2, <2>2
<1> HIDE DEF Goal
<1>3. ASSUME m.op = "toggleComment" PROVE Goal
  <2> DEFINE W == Social!Called(soServer, m.id)
             u == [i \in DOMAIN ds |-> IF i \in W THEN [ds[i] EXCEPT !.flags = Social!Flip(@, m.flag)] ELSE ds[i]]
  <2>1. Social!Handled(soServer, m) = [soServer EXCEPT !.comments = u]
    BY <1>3 DEF Social!Handled, Social!ToggleComment, Social!OnComments
  <2>3. \A i \in DOMAIN ds :
          /\ i \in W => ds[i].id = m.id
          /\ ds[i].id = m.id /\ ds[i].id.kind # "own" => i \in W
    BY DEF Social!Called
  <2> HIDE DEF W
  <2>4. u = [i \in DOMAIN ds |-> IF i \in W THEN ServedComment(ds[i], m) ELSE ds[i]]
    BY <1>3, <2>3 DEF ServedComment
  <2> HIDE DEF u, ds
  <2>5. /\ u \in Seq(SoComments) /\ DOMAIN u = DOMAIN ds
        /\ \A i \in DOMAIN ds : Takes(u[i], ds[i], m)
    BY ZenonT(60), <1>1, <2>3, <2>4, TakenAre
  <2> QED BY <1>2, <2>1, <2>5
<1>4. ASSUME m.op = "delete" PROVE Goal
  <2> DEFINE W == {i \in Social!Called(soServer, m.id) : ds[i].mine}
             u == [i \in DOMAIN ds |-> IF i \in W THEN [ds[i] EXCEPT !.deleted = TRUE] ELSE ds[i]]
  <2>1. Social!Handled(soServer, m) = [soServer EXCEPT !.comments = u]
    BY <1>4 DEF Social!Handled, Social!DeleteComment, Social!OnComments
  <2>2. \A i \in DOMAIN ds : ds[i].id = m.id /\ ds[i].id.kind # "own" => ds[i].mine
    <3>1. m.id.kind # "seed"
      BY <1>4 DEF SoMessages
    <3>2. \A i \in DOMAIN ds : ds[i] \in SoComments
      BY <1>1, ElementOfSeq
    <3> QED BY <3>1, <3>2 DEF SoComments
  <2>3. \A i \in DOMAIN ds :
          /\ i \in W => ds[i].id = m.id
          /\ ds[i].id = m.id /\ ds[i].id.kind # "own" => i \in W
    BY <2>2 DEF Social!Called
  <2> HIDE DEF W
  <2>4. u = [i \in DOMAIN ds |-> IF i \in W THEN ServedComment(ds[i], m) ELSE ds[i]]
    BY <1>4, <2>3 DEF ServedComment
  <2> HIDE DEF u, ds
  <2>5. /\ u \in Seq(SoComments) /\ DOMAIN u = DOMAIN ds
        /\ \A i \in DOMAIN ds : Takes(u[i], ds[i], m)
    BY <1>1, <2>3, <2>4, TakenAre
  <2> QED BY <1>2, <2>1, <2>5
<1>5. ASSUME m.op = "report" PROVE Goal
  <2> DEFINE W == Social!Called(soServer, m.id)
             u == [i \in DOMAIN ds |-> IF i \in W THEN [ds[i] EXCEPT !.reported = TRUE] ELSE ds[i]]
  <2>1. Social!Handled(soServer, m) = [soServer EXCEPT !.comments = u]
    BY <1>5 DEF Social!Handled, Social!ReportComment, Social!OnComments
  <2>3. \A i \in DOMAIN ds :
          /\ i \in W => ds[i].id = m.id
          /\ ds[i].id = m.id /\ ds[i].id.kind # "own" => i \in W
    BY DEF Social!Called
  <2> HIDE DEF W
  <2>4. u = [i \in DOMAIN ds |-> IF i \in W THEN ServedComment(ds[i], m) ELSE ds[i]]
    BY <1>5, <2>3 DEF ServedComment
  <2> HIDE DEF u, ds
  <2>5. /\ u \in Seq(SoComments) /\ DOMAIN u = DOMAIN ds
        /\ \A i \in DOMAIN ds : Takes(u[i], ds[i], m)
    BY <1>1, <2>3, <2>4, TakenAre
  <2> QED BY <1>2, <2>1, <2>5
<1> QED BY <1>3, <1>4, <1>5 DEF Goal

\* Once the server has what it makes of a message, both sides are as before.
LEMMA ServeKeeps ==
    ASSUME SocialInv, NEW k \in DOMAIN soWire, Social!Serve(k),
           NEW t \in SoStores, soServer' = t, Numbered(t.posts), Shared(t.posts),
           Numbered(t.comments),
           \A u \in Traders : t.followers[u] = IF u \in t.following THEN 1 ELSE 0,
           PostsMirror(soLocal.posts, soServer.posts, soWire) =>
             PostsMirror(soLocal.posts, t.posts, Social!Without(soWire, k)),
           CommentsMirror(soLocal.comments, soServer.comments, soWire) =>
             CommentsMirror(soLocal.comments, t.comments, Social!Without(soWire, k))
    PROVE  SocialInv'
<1>1. /\ soWire' = Social!Without(soWire, k)
      /\ UNCHANGED <<soLocal, soStorage, soUnsaved, soSerial, soSynced, soVisit, soSeen, soClicks,
                     soReloads, soLapsed>>
  BY DEF Social!Serve, Social!budgets, Social!stored
<1>2. soWire' \in Seq(SoMessages) /\ Len(soWire') = Len(soWire) - 1
  BY <1>1, RemovedIs DEF SocialInv, SocialTypes
<1>3. Len(soWire') <= soClicks
  <2>1. Len(soWire) <= soClicks /\ soClicks \in Int /\ Len(soWire) \in Nat
    BY DEF SocialInv, SocialTypes
  <2> QED BY <1>2, <2>1
<1>4. SocialTypes'
  BY <1>1, <1>2, <1>3 DEF SocialInv, SocialTypes
<1>5. ASSUME ~soLapsed' PROVE MirrorInv'
  <2>1. MirrorInv /\ soWire # <<>>
    BY <1>1, <1>5 DEF SocialInv
  <2>2. \A v \in Visits : soVisit'[v].at \notin {"answered", "comments", "commented"}
    BY <1>1, <2>1 DEF MirrorInv, Social!Hydrating
  <2> QED BY <1>1, <2>1, <2>2 DEF MirrorInv, Social!Hydrating
<1> QED BY <1>1, <1>4, <1>5 DEF SocialInv

\* What the mutation is not about, is as it was.
LEMMA UnservedPosts ==
    ASSUME SocialInv, NEW k \in DOMAIN soWire, soWire[k].op \notin {"toggle", "block"}
    PROVE  PostsMirror(soLocal.posts, soServer.posts, soWire) =>
             PostsMirror(soLocal.posts, soServer.posts, Social!Without(soWire, k))
<1>1. \A q : ServedPost(q, soWire[k]) = q
  BY DEF ServedPost
<1> QED BY <1>1, PostsServed DEF SocialInv, SocialTypes, SoStores

LEMMA UnservedComments ==
    ASSUME SocialInv, NEW k \in DOMAIN soWire,
           soWire[k].op \notin {"toggleComment", "delete", "report"}
    PROVE  CommentsMirror(soLocal.comments, soServer.comments, soWire) =>
             CommentsMirror(soLocal.comments, soServer.comments, Social!Without(soWire, k))
<1>1. \A d : ServedComment(d, soWire[k]) = d
  BY DEF ServedComment
<1>2. soServer.comments \in Seq(SoComments)
  BY DEF SocialInv, SocialTypes, SoStores
<1>3. \A j \in DOMAIN soServer.comments :
        Takes(soServer.comments[j], soServer.comments[j], soWire[k])
  BY <1>1, <1>2, ElementOfSeq DEF Takes
<1> QED BY <1>2, <1>3, CommentsServed DEF SocialInv, SocialTypes, SoStores

LEMMA ServeStep == ASSUME SocialInv, NEW k, Social!Serve(k) PROVE SocialInv'
<1> DEFINE m == soWire[k]
           v == Social!Without(soWire, k)
           t == Social!Handled(soServer, m)
           qs == soServer.posts
           ds == soServer.comments
<1>1. k \in DOMAIN soWire /\ soServer' = t
  BY DEF Social!Serve
<1>2. m \in SoMessages
  BY <1>1, ElementOfSeq DEF SocialInv, SocialTypes
<1>3. /\ soServer \in SoStores /\ qs \in Seq(SoPosts) /\ ds \in Seq(SoComments)
      /\ soLocal.posts \in Seq(SoPosts) /\ soLocal.comments \in Seq(SoComments)
      /\ soWire \in Seq(SoMessages) /\ Numbered(qs) /\ Shared(qs) /\ Numbered(ds)
      /\ \A u \in Traders : soServer.followers[u] = IF u \in soServer.following THEN 1 ELSE 0
  BY DEF SocialInv, SocialTypes, SoStores
<1>4. m.op \in {"toggle", "block", "post", "comment", "toggleComment", "delete", "report",
                "follow", "unfollow", "read"}
  BY <1>2 DEF SoMessages
<1> HIDE DEF m
<1>5. CASE m.op \in {"toggle", "block"}
  <2> DEFINE u == [i \in DOMAIN qs |-> ServedPost(qs[i], m)]
  <2>1. t = [soServer EXCEPT !.posts = u] /\ Numbered(u) /\ Shared(u)
    BY <1>2, <1>5, ServedPostsAre
  <2>2. u \in Seq(SoPosts)
    BY <1>2, <1>3, ListsMapped
  <2>3. DOMAIN u = DOMAIN qs /\ \A i \in DOMAIN qs : u[i] = ServedPost(qs[i], m)
    OBVIOUS
  <2> HIDE DEF u, t
  <2>4. /\ t \in SoStores /\ t.posts = u /\ t.comments = ds
        /\ t.followers = soServer.followers /\ t.following = soServer.following
    BY <1>3, <2>1, <2>2 DEF SoStores
  <2>5. PostsMirror(soLocal.posts, qs, soWire) => PostsMirror(soLocal.posts, t.posts, v)
    BY <1>1, <1>3, <2>3, <2>4, PostsServed DEF m
  <2>6. CommentsMirror(soLocal.comments, ds, soWire) =>
          CommentsMirror(soLocal.comments, t.comments, v)
    BY <1>1, <1>5, <2>4, UnservedComments DEF m
  <2> QED BY <1>1, <1>3, <2>1, <2>4, <2>5, <2>6, ServeKeeps
<1>6. CASE m.op \in {"toggleComment", "delete", "report"}
  <2>1. PICK u \in Seq(SoComments) :
          /\ t = [soServer EXCEPT !.comments = u] /\ Numbered(u) /\ DOMAIN u = DOMAIN ds
          /\ \A i \in DOMAIN ds : Takes(u[i], ds[i], m)
    BY <1>2, <1>6, ServedCommentsAre
  <2> HIDE DEF t
  <2>4. /\ t \in SoStores /\ t.posts = qs /\ t.comments = u
        /\ t.followers = soServer.followers /\ t.following = soServer.following
    BY <1>3, <2>1 DEF SoStores
  <2>5. CommentsMirror(soLocal.comments, ds, soWire) =>
          CommentsMirror(soLocal.comments, t.comments, v)
    BY <1>1, <1>3, <2>1, <2>4, CommentsServed DEF m
  <2>6. PostsMirror(soLocal.posts, qs, soWire) => PostsMirror(soLocal.posts, t.posts, v)
    BY <1>1, <1>6, <2>4, UnservedPosts DEF m
  <2> QED BY <1>1, <1>3, <2>1, <2>4, <2>5, <2>6, ServeKeeps
<1>7. ASSUME m.op \notin {"toggle", "block", "toggleComment", "delete", "report"}
      PROVE  /\ PostsMirror(soLocal.posts, qs, soWire) => PostsMirror(soLocal.posts, qs, v)
             /\ CommentsMirror(soLocal.comments, ds, soWire) =>
                  CommentsMirror(soLocal.comments, ds, v)
  BY <1>1, <1>7, UnservedPosts, UnservedComments DEF m
<1>8. ASSUME t \in SoStores, t.posts = qs, t.comments = ds,
             \A u \in Traders : t.followers[u] = IF u \in t.following THEN 1 ELSE 0,
             m.op \notin {"toggle", "block", "toggleComment", "delete", "report"}
      PROVE  SocialInv'
  BY <1>1, <1>3, <1>7, <1>8, ServeKeeps
<1>9. CASE m.op = "post"
  <2> DEFINE id == Social!Id("server", Len(qs))
             q == Social!Post(id, TRUE)
  <2>1. id \in SoIds /\ q \in SoPosts /\ q.id = id
    <3>1. id \in SoIds
      BY <1>3 DEF Social!Id, SoIds
    <3> QED BY <3>1, PostIs
  <2>2. t = [soServer EXCEPT !.posts = <<q>> \o @]
    BY <1>9 DEF Social!Handled, Social!AddPost
  <2>3. <<q>> \o qs \in Seq(SoPosts)
    BY <1>3, <2>1, PutInFront
  <2> HIDE DEF q, t
  <2>4. /\ t \in SoStores /\ t.posts = <<q>> \o qs /\ t.comments = ds
        /\ t.followers = soServer.followers /\ t.following = soServer.following
    BY <1>3, <2>2, <2>3 DEF SoStores
  <2>5. Numbered(t.posts) /\ Shared(t.posts)
    <3>1. <<>> \in Seq(SoPosts) /\ PostsMirror(<<>>, qs, <<>>)
      BY DEF PostsMirror, Known
    <3> HIDE DEF qs
    <3> QED BY <1>3, <2>1, <2>4, <3>1, NewPost DEF qs
  <2>6. PostsMirror(soLocal.posts, qs, soWire) => PostsMirror(soLocal.posts, t.posts, v)
    <3> SUFFICES ASSUME PostsMirror(soLocal.posts, qs, soWire)
                 PROVE  PostsMirror(soLocal.posts, t.posts, v)
      OBVIOUS
    <3>1. PostsMirror(soLocal.posts, qs, v)
      BY <1>7, <1>9
    <3> HIDE DEF v
    <3> QED BY <1>3, <2>1, <2>4, <3>1, NewPost
  <2>7. CommentsMirror(soLocal.comments, ds, soWire) =>
          CommentsMirror(soLocal.comments, t.comments, v)
    BY <1>7, <1>9, <2>4
  <2> QED BY <1>1, <1>3, <2>4, <2>5, <2>6, <2>7, ServeKeeps
<1>10. CASE m.op = "comment"
  <2> DEFINE id == Social!Id("server", Len(ds))
             d == Social!Comment(id, m.id, m.parent, TRUE)
  <2>1. CASE m.id \in Social!Ids(qs) /\ m.parent \in Social!Ids(ds) \cup {Social!NoOne}
    <3>1. d \in SoComments /\ d.id = id
      <4>1. id \in SoIds /\ id.kind = "server"
        BY <1>3 DEF Social!Id, SoIds
      <4>2. m.id \in SoIds /\ m.parent \in SoIds
        BY <1>2, <1>10 DEF SoMessages
      <4> QED BY <4>1, <4>2, MadeCommentIs
    <3>2. t = [soServer EXCEPT !.comments = Append(@, d), !.unread = @ + 1]
      BY <1>10, <2>1 DEF Social!Handled
    <3> HIDE DEF d, t
    <3>3. Append(ds, d) \in Seq(SoComments)
      BY <1>3, <3>1, AppendProperties
    <3>4. /\ t \in SoStores /\ t.posts = qs /\ t.comments = Append(ds, d)
          /\ t.followers = soServer.followers /\ t.following = soServer.following
      <4>1. soServer.unread + 1 \in Nat
        BY <1>3 DEF SoStores
      <4> QED BY <1>3, <3>2, <3>3, <4>1 DEF SoStores
    <3>5. Numbered(t.comments)
      BY <1>3, <3>1, <3>4, NewCommentIsNumbered
    <3>6. CommentsMirror(soLocal.comments, ds, soWire) =>
            CommentsMirror(soLocal.comments, t.comments, v)
      <4> SUFFICES ASSUME CommentsMirror(soLocal.comments, ds, soWire)
                   PROVE  CommentsMirror(soLocal.comments, t.comments, v)
        OBVIOUS
      <4>1. CommentsMirror(soLocal.comments, ds, v)
        BY <1>7, <1>10
      <4> HIDE DEF v
      <4> QED BY <1>3, <3>1, <3>4, <4>1, NewComment
    <3>7. PostsMirror(soLocal.posts, qs, soWire) => PostsMirror(soLocal.posts, t.posts, v)
      BY <1>7, <1>10, <3>4
    <3> QED BY <1>1, <1>3, <3>4, <3>5, <3>6, <3>7, ServeKeeps
  <2>2. CASE ~(m.id \in Social!Ids(qs) /\ m.parent \in Social!Ids(ds) \cup {Social!NoOne})
    <3>1. t = soServer
      BY <1>10, <2>2 DEF Social!Handled
    <3> QED BY <1>3, <1>8, <1>10, <3>1
  <2> QED BY <2>1, <2>2
<1>11. CASE m.op = "follow"
  <2>1. m.id \in Traders
    BY <1>2, <1>11 DEF SoMessages
  <2>2. t = Social!Follow(soServer, m.id)
    BY <1>11 DEF Social!Handled
  <2> HIDE DEF t
  <2>3. t \in SoStores /\ t.posts = qs /\ t.comments = ds
    BY <1>3, <2>1, <2>2, FollowIs
  <2>4. \A u \in Traders : t.followers[u] = IF u \in t.following THEN 1 ELSE 0
    BY <1>3, <2>1, <2>2, FollowIs
  <2> QED BY <1>8, <1>11, <2>3, <2>4
<1>12. CASE m.op = "unfollow"
  <2>1. m.id \in Traders
    BY <1>2, <1>12 DEF SoMessages
  <2>2. t = IF m.id \in soServer.following THEN Social!Unfollow(soServer, m.id) ELSE soServer
    BY <1>12 DEF Social!Handled
  <2> HIDE DEF t
  <2>3. t \in SoStores /\ t.posts = qs /\ t.comments = ds
    BY <1>3, <2>1, <2>2, FollowIs
  <2>4. \A u \in Traders : t.followers[u] = IF u \in t.following THEN 1 ELSE 0
    BY <1>3, <2>1, <2>2, FollowIs
  <2> QED BY <1>8, <1>12, <2>3, <2>4
<1>13. CASE m.op = "read"
  <2>1. t = Social!MarkRead(soServer)
    BY <1>13 DEF Social!Handled
  <2> HIDE DEF t
  <2>2. /\ t \in SoStores /\ t.posts = qs /\ t.comments = ds
        /\ t.followers = soServer.followers /\ t.following = soServer.following
    BY <1>3, <2>1, MarkedIs
  <2> QED BY <1>3, <1>8, <1>13, <2>2
<1> QED BY <1>4, <1>5, <1>6, <1>9, <1>10, <1>11, <1>12, <1>13

-----------------------------------------------------------------------------
LEMMA SocialStep ==
    ASSUME SocialInv, PlacedInv, [Social!Next]_(Social!vars) PROVE SocialInv'
<1>1. CASE UNCHANGED Social!vars
  BY <1>1 DEF Social!vars, SocialInv, SocialTypes, MirrorInv, Social!Hydrating
<1>2. CASE Social!Next
  BY <1>2, ClickingKeeps, RenderKeeps, HydrationKeeps, ReloadKeeps, SignOutKeeps, ServeStep,
     LoseKeeps
     DEF Social!Next
<1> QED BY <1>1, <1>2

\* Counts go with their flags, and with nothing under way both sides agree on what is
\* known by an id of the seed or of the server.
LEMMA SocialAgrees == SocialInv => Social!CountsMatchFlags /\ Social!MirrorAgrees
<1> SUFFICES ASSUME SocialInv PROVE Social!CountsMatchFlags /\ Social!MirrorAgrees
  OBVIOUS
<1> DEFINE ps == soLocal.posts
           qs == soServer.posts
           cs == soLocal.comments
           ds == soServer.comments
<1>1. /\ \A i \in DOMAIN ps : ps[i] \in SoPosts
      /\ \A i \in DOMAIN qs : qs[i] \in SoPosts
      /\ \A i \in DOMAIN cs : cs[i] \in SoComments
      /\ \A i \in DOMAIN ds : ds[i] \in SoComments
  <2>1. /\ ps \in Seq(SoPosts) /\ qs \in Seq(SoPosts)
        /\ cs \in Seq(SoComments) /\ ds \in Seq(SoComments)
    BY DEF SocialInv, SocialTypes, SoStores
  <2> QED BY <2>1, ElementOfSeq
<1>2. Social!CountsMatchFlags
  BY <1>1 DEF Social!CountsMatchFlags, SocialInv, SoPosts, Flagged
<1>3. ASSUME Social!Settled
      PROVE  /\ PostsMirror(ps, qs, <<>>) /\ CommentsMirror(cs, ds, <<>>)
             /\ \A op, id : ~Some(<<>>, op, id)
             /\ \A op, id, f : ~Odd(<<>>, op, id, f)
  BY <1>3, NothingIsUnderWay DEF Social!Settled, SocialInv, MirrorInv
<1>4. ASSUME Social!Settled, NEW i \in DOMAIN ps, NEW j \in DOMAIN qs, ps[i].id = qs[j].id
      PROVE  /\ ps[i].blocked = qs[j].blocked
             /\ ~ps[i].blocked => ps[i].flags = qs[j].flags /\ ps[i].count = qs[j].count
  <2> DEFINE p == ps[i]
             q == qs[j]
  <2>1. p \in SoPosts /\ q \in SoPosts /\ PostAgrees(p, q, <<>>)
    BY <1>1, <1>3, <1>4 DEF PostsMirror
  <2> HIDE DEF p, q
  <2>2. p.blocked = q.blocked
    BY <1>3, <1>4, <2>1 DEF PostAgrees, SoPosts
  <2>3. ASSUME ~p.blocked PROVE p.flags = q.flags /\ p.count = q.count
    <3>1. \A f \in Flags : f \in p.flags <=> f \in q.flags
      BY <1>3, <1>4, <2>1, <2>3 DEF PostAgrees, Differ
    <3>2. p.flags = q.flags
      BY <2>1, <3>1 DEF SoPosts
    <3>3. \A c \in CountedFlags : p.count[c] = q.count[c]
      BY <2>1, <3>2 DEF SoPosts, Flagged
    <3>4. p.count \in [CountedFlags -> {0, 1}] /\ q.count \in [CountedFlags -> {0, 1}]
      BY <2>1 DEF SoPosts
    <3> QED BY <3>2, <3>3, <3>4
  <2> QED BY <2>2, <2>3 DEF p, q
<1>5. ASSUME Social!Settled, NEW i \in DOMAIN cs, NEW j \in DOMAIN ds, cs[i].id = ds[j].id,
             cs[i].id.kind # "own"
      PROVE  cs[i] = ds[j]
  <2> DEFINE c == cs[i]
             d == ds[j]
  <2>1. /\ c \in SoComments /\ d \in SoComments /\ CommentAgrees(c, d, <<>>)
        /\ c.id = d.id /\ c.id.kind # "own"
    BY <1>1, <1>3, <1>5 DEF CommentsMirror
  <2> HIDE DEF c, d
  <2>2. c.post = d.post /\ c.parent = d.parent /\ c.mine = d.mine
    BY <2>1 DEF CommentAgrees, SoComments
  <2>3. c.reported = d.reported /\ c.deleted = d.deleted
    BY <1>3, <1>5, <2>1 DEF CommentAgrees, SoComments
  <2>4. c.flags = d.flags
    <3>1. "liked" \in c.flags <=> "liked" \in d.flags
      BY <1>3, <1>5, <2>1 DEF CommentAgrees, Differ
    <3>2. c.flags \subseteq {"liked"} /\ d.flags \subseteq {"liked"}
      BY <2>1 DEF SoComments
    <3> QED BY <3>1, <3>2
  <2>5. /\ c \in [id : SoIds, post : SoIds, parent : SoIds, mine : BOOLEAN,
                  flags : SUBSET {"liked"}, reported : BOOLEAN, deleted : BOOLEAN]
        /\ d \in [id : SoIds, post : SoIds, parent : SoIds, mine : BOOLEAN,
                  flags : SUBSET {"liked"}, reported : BOOLEAN, deleted : BOOLEAN]
    BY <2>1 DEF SoComments
  <2>6. c = d
    BY <2>1, <2>2, <2>3, <2>4, <2>5
  <2> QED BY <2>6 DEF c, d
<1>6. Social!MirrorAgrees
  BY <1>4, <1>5 DEF Social!MirrorAgrees
<1> QED BY <1>2, <1>6

-----------------------------------------------------------------------------
\* The types of the pages, as far as the invariants above do not say them already. Each
\* lemma below may use the invariant of its page.

\* An attempt is counted for a drop.
TicksTypes ==
    /\ tsMarket.symbols \subseteq Ticks!Symbols /\ tsMarket.symbol \in Ticks!Symbols
    /\ DOMAIN tsMarket = {"symbols", "symbol", "health"}
    /\ tsTicks \subseteq Ticks!Symbols /\ tsLate \in {Ticks!None, "opening", "open"}
    /\ tsDrops \in 0..MaxDrops /\ tsSocket.attempt <= tsDrops

LEMMA TicksTypesInit == Ticks!Init => TicksTypes
<1> SUFFICES ASSUME Ticks!Init PROVE TicksTypes
  OBVIOUS
<1>1. PICK s \in DEFAULT_SYMBOLS :
        tsMarket = [symbols |-> DEFAULT_SYMBOLS, symbol |-> s, health |-> "asked"]
  BY DEF Ticks!Init
<1> QED BY <1>1, TicksAssumption DEF Ticks!Init, TicksTypes, Ticks!Symbols

LEMMA TicksTypesStep ==
    ASSUME TicksInv, TicksTypes, [Ticks!Next]_(Ticks!vars)
    PROVE  TicksTypes'
<1>0. tsSocket \in Sockets
  BY DEF TicksInv
<1>1. CASE Ticks!Opens
  BY <1>1, <1>0, TicksAssumption DEF Ticks!Opens, Ticks!Kept, TicksTypes
<1>2. CASE Ticks!Closes
  BY <1>2, <1>0, TicksAssumption DEF Ticks!Closes, Ticks!Kept, TicksTypes, Sockets
<1>3. CASE Ticks!Retries
  BY <1>3, <1>0 DEF Ticks!Retries, Ticks!Dialled, Ticks!Kept, TicksTypes, Sockets
<1>4. ASSUME NEW new \in SUBSET Ticks!Symbols, NEW status, Ticks!Frame(new, status)
      PROVE  TicksTypes'
  BY <1>4, <1>0 DEF Ticks!Frame, Ticks!Kept, TicksTypes, Sockets
<1>5. CASE Ticks!Snapshot \/ Ticks!ErrorFrame \/ \E s \in Ticks!Symbols : Ticks!Tick(s)
  BY <1>4, <1>5 DEF Ticks!Snapshot, Ticks!ErrorFrame, Ticks!Tick, TicksTypes
<1>6. CASE Ticks!OldSocketCloses
  BY <1>6, <1>0 DEF Ticks!OldSocketCloses, TicksTypes, Sockets
<1>7. CASE \E s \in Ticks!Symbols : Ticks!setSymbol(s)
  BY <1>7 DEF Ticks!setSymbol, TicksTypes
<1>8. ASSUME NEW symbols \in {DEFAULT_SYMBOLS, Served}, Ticks!HealthAnswers(symbols)
      PROVE  TicksTypes'
  <2>1. symbols \subseteq Ticks!Symbols
    BY DEF Ticks!Symbols
  <2>2. /\ tsMarket'.symbols = symbols /\ tsMarket'.symbol = tsMarket.symbol
        /\ DOMAIN tsMarket' = DOMAIN tsMarket
    BY <1>8 DEF Ticks!HealthAnswers, TicksTypes
  <2>3. tsSocket'.attempt = tsSocket.attempt /\ tsLate' \in {tsLate, Ticks!None, tsSocket.st}
        /\ (tsLate' # tsLate => tsLate' # "waiting")
    BY <1>8, <1>0 DEF Ticks!HealthAnswers, Ticks!Dialled, Sockets, Ticks!None
  <2> QED BY <1>8, <1>0, <2>1, <2>2, <2>3 DEF Ticks!HealthAnswers, TicksTypes, Sockets
<1>9. CASE UNCHANGED Ticks!vars
  BY <1>9 DEF Ticks!vars, TicksTypes
<1> QED BY <1>1, <1>2, <1>3, <1>5, <1>6, <1>7, <1>8, <1>9 DEF Ticks!Next

LEMMA TicksAreTyped == TicksInv /\ TicksTypes => Ticks!TypeOK
BY TicksAssumption DEF TicksInv, TicksTypes, Ticks!TypeOK, Sockets

\* What is chosen and asked for is offered; conversations have one of three titles.
ChatsTypes ==
    /\ chSurface \in {"ai", "zenmux"} /\ DOMAIN chChoice = {"model", "timeframe"}
    /\ chChoice.timeframe \in Chats!Timeframes /\ chRequest.timeframe \in Chats!Apis

LEMMA ChatsTypesInit == Chats!Init => ChatsTypes
BY DEF Chats!Init, ChatsTypes, Chats!Timeframes, Chats!ZENMUX_TIMEFRAMES, Chats!Apis,
       Chats!NoRequest

LEMMA ChatsTypesStep ==
    ASSUME ChatsTypes, [Chats!Next]_(Chats!vars)
    PROVE  ChatsTypes'
<1>1. /\ "M5" \in Chats!Timeframes' /\ "D1" \in Chats!Apis
      /\ \A t \in Chats!Timeframes : Chats!toApiTimeframe(t) \in Chats!Apis
  BY DEF Chats!Timeframes, Chats!ZENMUX_TIMEFRAMES, Chats!Apis, Chats!toApiTimeframe
<1>2. /\ chSurface' = chSurface
      /\ Chats!Timeframes' = Chats!Timeframes
  <2>1. chSurface' = chSurface
    BY DEF Chats!Next, Chats!vars, Chats!newChat, Chats!EndRename, Chats!Sidebar, Chats!Type,
           Chats!Select, Chats!deleteChat, Chats!StartRename, Chats!Menu, Chats!Pick,
           Chats!Stay, Chats!PhraseClick, Chats!PhraseMouseUp, Chats!SubmitTyped,
           Chats!SendStaged, Chats!Answered, Chats!Failed, Chats!Reply, Chats!Leave,
           Chats!Return
  <2> QED BY SMTT(30), <2>1 DEF Chats!Timeframes
<1>3. /\ DOMAIN chChoice' = {"model", "timeframe"}
      /\ chChoice' # chChoice => chChoice'.timeframe \in Chats!Timeframes
  <2>1. CASE \E c \in [model : Chats!ZENMUX_MODELS, timeframe : {"M5", "M15", "W1"}] :
                Chats!Pick(c)
    BY <2>1 DEF Chats!Pick
  <2>2. CASE Chats!Leave
    BY <1>1, <1>2, <2>2 DEF Chats!Leave
  <2>3. CASE chChoice' = chChoice
    BY SMTT(30), <2>3 DEF ChatsTypes
  <2> QED
    BY <2>1, <2>2, <2>3
    DEF Chats!Next, Chats!vars, Chats!newChat, Chats!EndRename, Chats!Sidebar, Chats!Type,
        Chats!Select, Chats!deleteChat, Chats!StartRename, Chats!Menu,
        Chats!PhraseClick, Chats!PhraseMouseUp, Chats!SubmitTyped,
        Chats!SendStaged, Chats!Answered, Chats!Failed, Chats!Reply, Chats!Return
<1>4. chRequest'.timeframe \in Chats!Apis
  <2>1. CASE Chats!SubmitTyped \/ Chats!SendStaged
    <3>1. chRequest' = chRequest \/ \E q : Chats!Ask(q)
      BY <2>1 DEF Chats!SubmitTyped, Chats!SendStaged
    <3>2. ASSUME NEW q, Chats!Ask(q) PROVE chRequest'.timeframe = Chats!toApiTimeframe(chChoice.timeframe)
      BY <3>2 DEF Chats!Ask
    <3> QED BY <1>1, <3>1, <3>2 DEF ChatsTypes
  <2>2. CASE chRequest' \in {chRequest, Chats!NoRequest}
    BY <1>1, <2>2 DEF ChatsTypes, Chats!NoRequest
  <2> QED
    BY <2>1, <2>2
    DEF Chats!Next, Chats!vars, Chats!newChat, Chats!EndRename, Chats!Sidebar, Chats!Type,
        Chats!Select, Chats!deleteChat, Chats!StartRename, Chats!Menu, Chats!Pick,
        Chats!Stay, Chats!PhraseClick, Chats!PhraseMouseUp,
        Chats!Answered, Chats!Failed, Chats!Reply, Chats!Leave, Chats!Return
<1> QED BY <1>2, <1>3, <1>4 DEF ChatsTypes

LEMMA ChatsAreTyped == ChatsInv /\ ChatsTypes => Chats!TypeOK
<1> SUFFICES ASSUME ChatsInv, ChatsTypes PROVE Chats!TypeOK
  OBVIOUS
<1>1. chPage.active \in 0..chSerial
  BY DEF ChatsInv, Pages
<1>2. Len(chPage.chats) <= MAX_SESSIONS
  BY DEF ChatsInv
<1>3. \A i \in DOMAIN chDisk : chDisk[i].title \in {"New chat", "derived", "given"}
  BY ListIs DEF ChatsInv, Conversations
<1> QED BY <1>1, <1>2, <1>3 DEF ChatsTypes, Chats!TypeOK

\* An analysis is in the store or under way for a submit of its own, or that of others.
RunsOf(s) == {r \in dbRuns : r.symbol = s}
DashboardCounts ==
    /\ dbMoves \in 0..DashboardMoves /\ IsFiniteSet(dbRuns)
    /\ \A s \in MarketSymbols : dbServer[s] + Cardinality(RunsOf(s)) <= dbMoves
    /\ dbClosing \subseteq Dashboard!Panels
    /\ dbClosed \in {Dashboard!User} \cup Dashboard!Panels

LEMMA DashboardCountsInit == Dashboard!Init => DashboardCounts
<1> SUFFICES ASSUME Dashboard!Init PROVE DashboardCounts
  OBVIOUS
<1>1. dbRuns = {} /\ dbMoves = 0 /\ dbServer = [s \in MarketSymbols |-> 0]
      /\ dbClosing = {} /\ dbClosed = 0
  BY DEF Dashboard!Init
<1>2. \A s \in MarketSymbols : RunsOf(s) = {}
  BY <1>1 DEF RunsOf
<1> QED BY <1>1, <1>2, FS_EmptySet, DashboardAssumption DEF DashboardCounts, Dashboard!Panels

LEMMA DashboardCountsStep ==
    ASSUME DashboardInv, DashboardCounts, [Dashboard!Next]_(Dashboard!vars)
    PROVE  DashboardCounts'
<1>0. /\ dbRuns \subseteq [by : Dashboard!Panels, symbol : MarketSymbols]
      /\ dbServer \in [MarketSymbols -> Nat] /\ dbPanel.n \in Dashboard!Panels
      /\ IsFiniteSet(dbRuns) /\ dbMoves \in Nat
  BY DEF DashboardInv, DashboardTypes, DashboardCounts, Dialogs
<1>1. \A s \in MarketSymbols : IsFiniteSet(RunsOf(s)) /\ Cardinality(RunsOf(s)) \in Nat
  <2>1. \A s \in MarketSymbols : RunsOf(s) \in SUBSET dbRuns
    BY DEF RunsOf
  <2> QED BY <1>0, <2>1, FS_Subset, FS_CardinalityType
<1>2. ASSUME dbRuns' = dbRuns, dbServer' = dbServer, dbMoves' \in {dbMoves, dbMoves + 1},
             dbMoves' <= DashboardMoves,
             dbClosing' \subseteq dbClosing, dbClosed' \in {Dashboard!User} \cup Dashboard!Panels
      PROVE  DashboardCounts'
  <2>1. \A s \in MarketSymbols : RunsOf(s)' = RunsOf(s)
    BY <1>2 DEF RunsOf
  <2>2. ASSUME NEW s \in MarketSymbols
        PROVE  dbServer'[s] + Cardinality(RunsOf(s)') <= dbMoves'
    BY <1>0, <1>1, <1>2, <2>1 DEF DashboardCounts
  <2> QED BY <1>0, <1>2, <2>2, DashboardAssumption DEF DashboardCounts
<1>3. CASE Dashboard!submit
  <2> DEFINE r == [by |-> dbPanel.n, symbol |-> dbPanel.market]
  <2>1. dbRuns' = dbRuns \cup {r} /\ dbServer' = dbServer /\ dbMoves' = dbMoves + 1
        /\ dbMoves < DashboardMoves /\ dbClosing' = dbClosing /\ dbClosed' = dbClosed
    BY <1>3 DEF Dashboard!submit, Dashboard!Move, Dashboard!Selected
  <2>2. ASSUME NEW s \in MarketSymbols
        PROVE  dbServer'[s] + Cardinality(RunsOf(s)') <= dbMoves'
    <3>1. RunsOf(s)' \in {RunsOf(s), RunsOf(s) \cup {r}}
      BY <2>1 DEF RunsOf
    <3> HIDE DEF r
    <3>2. Cardinality(RunsOf(s) \cup {r}) \in {Cardinality(RunsOf(s)), Cardinality(RunsOf(s)) + 1}
      BY <1>1, FS_AddElement
    <3> DEFINE c == Cardinality(RunsOf(s))
    <3>3. Cardinality(RunsOf(s)') \in {c, c + 1}
      BY <3>1, <3>2
    <3>4. c \in Nat /\ dbServer[s] \in Nat /\ dbServer[s] + c <= dbMoves
      BY <1>0, <1>1 DEF DashboardCounts
    <3> HIDE DEF c
    <3> QED BY <1>0, <2>1, <3>3, <3>4
  <2>3. IsFiniteSet(dbRuns')
    BY <1>0, <2>1, FS_AddElement
  <2> QED BY <1>0, <2>1, <2>2, <2>3, DashboardAssumption DEF DashboardCounts
<1>4. ASSUME NEW q \in dbRuns, Dashboard!AnalysisEnds(q) \/ Dashboard!AnalysisFails(q)
      PROVE  DashboardCounts'
  <2>1. /\ dbRuns' = dbRuns \ {q} /\ dbMoves' = dbMoves /\ dbClosed' = dbClosed
        /\ dbClosing' = dbClosing \cup {q.by}
        /\ dbServer' \in {dbServer, [dbServer EXCEPT ![q.symbol] = @ + 1]}
    BY <1>4 DEF Dashboard!AnalysisEnds, Dashboard!AnalysisFails, Dashboard!Ended,
         Dashboard!Recorded
  <2>2. q.by \in Dashboard!Panels /\ q.symbol \in MarketSymbols
    BY <1>0
  <2>3. ASSUME NEW s \in MarketSymbols
        PROVE  dbServer'[s] + Cardinality(RunsOf(s)') <= dbMoves'
    <3>1. CASE q.symbol = s
      <4>1. RunsOf(s)' = RunsOf(s) \ {q} /\ q \in RunsOf(s)
        BY <2>1, <3>1 DEF RunsOf
      <4>2. Cardinality(RunsOf(s)') = Cardinality(RunsOf(s)) - 1
        BY <1>1, <4>1, FS_RemoveElement
      <4>3. dbServer'[s] \in {dbServer[s], dbServer[s] + 1}
        BY <1>0, <2>1
      <4> QED BY <1>0, <1>1, <2>1, <4>2, <4>3 DEF DashboardCounts
    <3>2. CASE q.symbol # s
      <4>1. RunsOf(s)' = RunsOf(s)
        BY <2>1, <3>2 DEF RunsOf
      <4>2. dbServer'[s] = dbServer[s]
        BY <1>0, <2>1, <3>2
      <4> QED BY <1>0, <1>1, <2>1, <4>1, <4>2 DEF DashboardCounts
    <3> QED BY <3>1, <3>2
  <2>4. IsFiniteSet(dbRuns')
    BY <1>0, <2>1, FS_RemoveElement
  <2> QED BY <2>1, <2>2, <2>3, <2>4 DEF DashboardCounts
<1>5. CASE \E n \in Dashboard!Panels : Dashboard!TimeIsUp(n)
  <2>1. dbRuns' = dbRuns /\ dbServer' = dbServer /\ dbMoves' = dbMoves
        /\ dbClosing' \subseteq dbClosing /\ dbClosed' \in {dbClosed} \cup Dashboard!Panels
    BY <1>5 DEF Dashboard!TimeIsUp
  <2> QED BY <1>0, <1>2, <2>1 DEF DashboardCounts
<1>6. ASSUME dbRuns' = dbRuns, dbServer' = dbServer, dbClosing' = dbClosing,
             dbMoves' = dbMoves \/ Dashboard!Move, dbClosed' \in {dbClosed, Dashboard!User}
      PROVE  DashboardCounts'
  <2>1. dbMoves' \in {dbMoves, dbMoves + 1} /\ dbMoves' <= DashboardMoves
    BY <1>0, <1>6, DashboardAssumption DEF Dashboard!Move, DashboardCounts
  <2> QED BY <1>2, <1>6, <2>1 DEF DashboardCounts
<1>7. CASE \/ \E m \in [symbol : MarketSymbols, timeframe : MarketTimeframes] :
                 Dashboard!Select(m) \/ Dashboard!Choose(m)
           \/ \E x \in {"All", "Bullish", "Bearish"} : Dashboard!FilterHistory(x)
           \/ \E a \in PanelAgents : Dashboard!toggleAgent(a)
           \/ Dashboard!openSignalDialog \/ Dashboard!Dismiss \/ Dashboard!SelectAll
           \/ Dashboard!MultiTimeframe
  BY <1>6, <1>7
  DEF Dashboard!Select, Dashboard!Choose, Dashboard!FilterHistory, Dashboard!toggleAgent,
      Dashboard!openSignalDialog, Dashboard!Dismiss, Dashboard!SelectAll,
      Dashboard!MultiTimeframe, Dashboard!Edit, Dashboard!Selected
<1>8. CASE \E f \in Dashboard!Fetches :
              f \in dbFetches /\ (Dashboard!Reads(f) \/ Dashboard!Answered(f) \/ Dashboard!Fails(f))
  BY <1>6, <1>8 DEF Dashboard!Reads, Dashboard!Answered, Dashboard!Fails, Dashboard!Held
<1>9. CASE UNCHANGED Dashboard!vars
  BY <1>6, <1>9 DEF Dashboard!vars
<1>10. ASSUME NEW q \in MarketSymbols, Dashboard!OthersAnalyse(q) PROVE DashboardCounts'
  <2>1. /\ dbRuns' = dbRuns /\ dbMoves' = dbMoves + 1 /\ dbMoves < DashboardMoves
        /\ dbClosing' = dbClosing /\ dbClosed' = dbClosed
        /\ dbServer' = [dbServer EXCEPT ![q] = @ + 1]
    BY <1>10 DEF Dashboard!OthersAnalyse, Dashboard!Move, Dashboard!Recorded
  <2>2. ASSUME NEW s \in MarketSymbols
        PROVE  dbServer'[s] + Cardinality(RunsOf(s)') <= dbMoves'
    <3>1. RunsOf(s)' = RunsOf(s) /\ dbServer'[s] \in {dbServer[s], dbServer[s] + 1}
      BY <1>0, <2>1 DEF RunsOf
    <3>2. /\ Cardinality(RunsOf(s)) \in Nat /\ dbServer[s] \in Nat
          /\ dbServer[s] + Cardinality(RunsOf(s)) <= dbMoves
      BY <1>0, <1>1 DEF DashboardCounts
    <3> QED BY <1>0, <2>1, <3>1, <3>2
  <2> QED BY <1>0, <2>1, <2>2, DashboardAssumption DEF DashboardCounts
<1> QED BY <1>3, <1>4, <1>5, <1>7, <1>8, <1>9, <1>10 DEF Dashboard!Next

LEMMA DashboardIsTyped == DashboardInv /\ DashboardCounts => Dashboard!TypeOK
<1> SUFFICES ASSUME DashboardInv, DashboardCounts PROVE Dashboard!TypeOK
  OBVIOUS
<1>1. ASSUME NEW s \in MarketSymbols PROVE dbServer[s] \in 0..DashboardMoves
  <2>1. RunsOf(s) \in SUBSET dbRuns /\ IsFiniteSet(dbRuns)
    BY DEF RunsOf, DashboardCounts
  <2>2. Cardinality(RunsOf(s)) \in Nat
    BY <2>1, FS_Subset, FS_CardinalityType
  <2> QED BY <2>2, DashboardAssumption DEF DashboardCounts, DashboardInv, DashboardTypes
<1>2. dbServer \in [MarketSymbols -> 0..DashboardMoves]
  BY <1>1 DEF DashboardInv, DashboardTypes
<1>3. dbPanel.config.agents \subseteq PanelAgents /\ dbPanel.status \in {"idle", "done"}
  BY DEF DashboardInv, DashboardTypes, Dialogs, Configs
<1>4. dbAsked \in 0..DashboardMoves
  <2>1. dbMarket.symbol \in MarketSymbols /\ dbAsked \in Nat
        /\ dbAsked <= dbServer[dbMarket.symbol]
    BY DEF DashboardInv, DashboardTypes, LiveIsCurrent
  <2> QED BY <1>1, <2>1, DashboardAssumption
<1> QED BY <1>2, <1>3, <1>4 DEF DashboardInv, DashboardTypes, DashboardCounts,
      Dashboard!TypeOK

\* The session is bounded by a guard.
LEMMA PreLengthInit == PreSignal!Init => Len(psSession) \in 1..MaxSession
<1> SUFFICES ASSUME PreSignal!Init PROVE Len(psSession) \in 1..MaxSession
  OBVIOUS
<1>1. psSession \in [{1} -> PreSignal!Bar]
  BY DEF PreSignal!Init
<1>2. Len(psSession) = 1
  BY <1>1
<1> QED BY <1>2, PreSignalAssumption

LEMMA PreLengthStep ==
    ASSUME PreInv, Len(psSession) \in 1..MaxSession, [PreSignal!Next]_(PreSignal!vars)
    PROVE  (Len(psSession) \in 1..MaxSession)'
<1>1. psSession \in Seq(PreSignal!Bar)
  BY DEF PreInv
<1>2. ASSUME NEW b \in PreSignal!Bar, PreSignal!NewBar(b) \/ PreSignal!Revise(b) \/ PreSignal!NewDay(b)
      PROVE  (Len(psSession) \in 1..MaxSession)'
  <2>1. /\ Len(Append(psSession, b)) = Len(psSession) + 1 /\ Len(<<b>>) = 1
        /\ Len([psSession EXCEPT ![Len(psSession)] = b]) = Len(psSession)
    BY <1>1
  <2> QED
    BY SMTT(30), <1>2, <2>1, PreSignalAssumption
    DEF PreSignal!NewBar, PreSignal!Revise, PreSignal!NewDay
<1>3. CASE UNCHANGED PreSignal!vars
  BY <1>3 DEF PreSignal!vars
<1> QED BY <1>2, <1>3 DEF PreSignal!Next

\* Of the feed: symbols are those there are, and one insight is in the drawer at most.
FeedTypes ==
    /\ Len(sfStore) <= MaxCycles /\ sfFilters.symbol \in MarketSymbols \cup {"all"}
    /\ sfSignals.of \in MarketSymbols \cup {"all", Feed!None}
    /\ sfRequest.st \in {"asked", "read", "here"}
    /\ sfReads.here \subseteq MarketSymbols /\ Len(sfSelected) <= 1

LEMMA TrackedAreSymbols == ASSUME ListInv PROVE Feed!Tracked \subseteq MarketSymbols
<1> DEFINE rs == sfSignals.list
           seen(i) == {rs[j].symbol : j \in 1..i}
<1>1. /\ DOMAIN rs = 1..Len(rs) /\ Len(rs) \in Nat
      /\ \A i \in DOMAIN rs : rs[i] \in FeedRecords
  BY InsightsAre
<1>2. \A i \in DOMAIN rs : rs[i].symbol \in MarketSymbols
  BY <1>1 DEF FeedRecords
<1>3. ASSUME NEW i \in DOMAIN rs PROVE seen(i) \subseteq MarketSymbols
  <2>1. 1..i \subseteq DOMAIN rs
    BY <1>1
  <2> QED BY <1>2, <2>1
<1> HIDE DEF seen
<1>4. Feed!Tracked = UNION {seen(i) : i \in {j \in DOMAIN rs : Cardinality(seen(j)) <= MAX_SYMBOLS}}
  BY DEF Feed!Tracked, seen, Cardinality, Feed!Cardinality
<1> QED BY <1>3, <1>4

LEMMA FeedTypesInit == Feed!Init => FeedTypes
<1> SUFFICES ASSUME Feed!Init PROVE FeedTypes
  OBVIOUS
<1>1. sfFilters.symbol = "all"
  BY DEF Feed!Init, Feed!DEFAULT_FILTERS
<1>2. Len(<<>>) = 0
  OBVIOUS
<1> QED BY <1>1, <1>2, FeedAssumption DEF Feed!Init, FeedTypes, Feed!Asked

LEMMA FeedTypesStep ==
    ASSUME FeedInv, ListInv, FeedTypes, [Feed!Next]_(Feed!vars)
    PROVE  FeedTypes'
<1>0. /\ Feed!Tracked \subseteq MarketSymbols /\ sfReads.asked = Feed!Tracked
      /\ sfRequest.symbol = sfFilters.symbol /\ Len(<<>>) = 0 /\ \A x : Len(<<x>>) = 1
      /\ DOMAIN sfReads = {"here", "asked", "waits"}
      /\ DOMAIN sfRequest = {"st", "symbol", "n"}
      /\ DOMAIN sfSignals = {"of", "n", "list", "failed"}
  BY TrackedAreSymbols DEF FeedInv, FeedShapes
<1>1. ASSUME NEW c \in Cycles, NEW later \in {0, 1}, Feed!record_cycle(c, later)
      PROVE  FeedTypes'
  <2>1. PICK x : sfStore' = Append(sfStore, x)
    BY <1>1 DEF Feed!record_cycle
  <2>2. Len(sfStore') = Len(sfStore) + 1 /\ Len(sfStore) \in Nat
    BY <2>1 DEF ListInv
  <2> QED BY <1>1, <2>2, FeedAssumption DEF Feed!record_cycle, FeedTypes
<1>2. CASE Feed!query \/ Feed!Fails \/ Feed!CandlesCome
  BY <1>0, <1>2 DEF Feed!query, Feed!Fails, Feed!CandlesCome, Feed!Held, FeedTypes
<1>3. CASE Feed!Answered
  BY <1>0, <1>3 DEF Feed!Answered, Feed!Follow, Feed!Held, FeedTypes
<1>4. ASSUME NEW f, Feed!Choose(f), f.symbol \in MarketSymbols \cup {"all"}
      PROVE  FeedTypes'
  BY <1>4 DEF Feed!Choose, Feed!Asked, FeedTypes
<1>5. CASE \/ \E s \in MarketSymbols \cup {"all"} : Feed!setSymbol(s)
           \/ \E x \in Feed!SIGNAL_TIMEFRAMES \cup {"all"} : Feed!setFrame(x)
           \/ \E t \in Feed!ANALYSIS_TYPES : Feed!setAnalysisType(t)
           \/ \E a \in Feed!AGENT_FILTERS : Feed!setAgent(a)
           \/ \E m \in Minimums : Feed!setMinConfidence(m)
           \/ Feed!resetFilters
  <2>1. DOMAIN sfFilters = {"symbol", "frame", "type", "agent", "min"}
    BY DEF FeedInv, FeedShapes
  <2>2. \A s : /\ [sfFilters EXCEPT !.symbol = s].symbol = s
               /\ [sfFilters EXCEPT !.frame = s].symbol = sfFilters.symbol
               /\ [sfFilters EXCEPT !.type = s].symbol = sfFilters.symbol
               /\ [sfFilters EXCEPT !.agent = s].symbol = sfFilters.symbol
               /\ [sfFilters EXCEPT !.min = s].symbol = sfFilters.symbol
    BY <2>1
  <2>3. Feed!DEFAULT_FILTERS.symbol = "all" /\ sfFilters.symbol \in MarketSymbols \cup {"all"}
    BY DEF Feed!DEFAULT_FILTERS, FeedTypes
  <2> QED BY <1>4, <1>5, <2>2, <2>3
          DEF Feed!setSymbol, Feed!setFrame, Feed!setAnalysisType, Feed!setAgent,
              Feed!setMinConfidence, Feed!resetFilters
<1>6. CASE Feed!Close \/ \E i \in 1..FEED_LIMIT : Feed!View(i)
  <2>1. ASSUME Feed!Close PROVE Len(sfSelected') <= 1
    BY <1>0, <2>1 DEF Feed!Close
  <2>2. ASSUME NEW i \in 1..FEED_LIMIT, Feed!View(i) PROVE Len(sfSelected') <= 1
    <3>1. PICK x : sfSelected' = <<x>>
      BY <2>2 DEF Feed!View
    <3> QED BY <1>0, <3>1
  <2>3. Len(sfSelected') <= 1
    BY <1>6, <2>1, <2>2
  <2> QED BY <1>6, <2>3 DEF Feed!Close, Feed!View, FeedTypes
<1>7. CASE UNCHANGED Feed!vars
  BY <1>7 DEF Feed!vars, FeedTypes
<1> QED BY <1>1, <1>2, <1>3, <1>5, <1>6, <1>7 DEF Feed!Next

LEMMA FeedIsTyped == FeedInv /\ ListInv /\ FeedTypes => Feed!TypeOK
BY TrackedAreSymbols DEF FeedInv, ListInv, FeedTypes, Feed!TypeOK

\* Records come from one of the agents.
CardTypes ==
    scRecord.agent \in Card!Agents \cup {"none"} /\ scDrawer.agent \in Card!Agents \cup {"none"}

LEMMA CardTypesInit == Card!Init => CardTypes
BY DEF Card!Init, Card!NoRecord, CardTypes

LEMMA CardTypesStep == ASSUME CardTypes, [Card!Next]_(Card!vars) PROVE CardTypes'
<1>1. CASE \/ \E d \in {"BULLISH", "BEARISH"} : Card!technical_signal(d)
           \/ \E d \in {"BULLISH", "BEARISH", "NEUTRAL"} : Card!news_signal(d)
           \/ \E d \in {"APPROVED", "VETO"} : Card!risk_assessment(d)
           \/ \E side \in {"BUY", "SELL", "SKIP"}, distance \in Distances :
                \E levels \in Card!Levels(side, scMarket.price, distance) :
                    Card!trade_decision(side, levels)
  BY <1>1 DEF Card!technical_signal, Card!news_signal, Card!risk_assessment,
              Card!trade_decision, Card!Publish, Card!NoRecord, Card!Agents, CardTypes
<1>2. CASE Card!View \/ Card!Close
  BY <1>2 DEF Card!View, Card!Close, Card!NoRecord, CardTypes
<1>3. ASSUME UNCHANGED <<scRecord, scDrawer>> PROVE CardTypes'
  BY <1>3 DEF CardTypes
<1> QED BY <1>1, <1>2, <1>3
        DEF Card!Next, Card!MarketMoves, Card!CandlesCome, Card!CandlesFail, Card!vars

LEMMA CardIsTyped == CardInv /\ CardTypes => Card!TypeOK
BY DEF CardInv, Loaded, CardTypes, Card!TypeOK

\* Scores are clamped, and what is clamped is a number.
LEMMA IntelTypesStep ==
    ASSUME miCycles \in Seq(Calls), [Intel!Next]_(Intel!vars)
    PROVE  miCycles' \in Seq(Calls)
<1>1. ASSUME NEW c \in Calls, Intel!AnalysisEnds(c) PROVE miCycles' \in Seq(Calls)
  BY <1>1 DEF Intel!AnalysisEnds
<1>2. CASE miCycles' = miCycles
  BY <1>2
<1> QED BY <1>1, <1>2 DEF Intel!Next, Intel!CandlesCome, Intel!SelectTimeframe, Intel!vars

LEMMA ClampedIs ==
    ASSUME NEW x \in Int PROVE Intel!clamp01(x) \in 0..Intel!Points /\ Intel!clamp01(x) \in Int
<1>1. Intel!clamp01(x) \in Int /\ 0 <= Intel!clamp01(x) /\ Intel!clamp01(x) <= Intel!Points
  BY DEF Intel!clamp01, Intel!clamp, Intel!Points
<1>2. ASSUME NEW a \in Int, NEW top \in Int, 0 <= a, a <= top PROVE a \in 0..top
  BY <1>2
<1>3. Intel!Points \in Int
  BY DEF Intel!Points
<1> QED BY <1>1, <1>2, <1>3

LEMMA SentimentIs ==
    ASSUME NEW cs \in Seq(Calls) PROVE Intel!sentimentScore(cs) \in Int
<1> DEFINE votes == [i \in DOMAIN cs |-> Intel!Mapped(cs[i].sentiment) * cs[i].heard * 500]
<1>1. CASE cs = <<>>
  BY <1>1 DEF Intel!sentimentScore
<1>2. CASE cs # <<>>
  <2>1. DOMAIN cs = 1..Len(cs) /\ Len(cs) \in Nat \ {0} /\ IsFiniteSet(DOMAIN cs)
    BY <1>2, FS_Interval
  <2>2. ASSUME NEW i \in DOMAIN cs
        PROVE  Intel!Mapped(cs[i].sentiment) * cs[i].heard * 500 \in Int
    <3>1. cs[i].heard \in Nat
      BY ElementOfSeq, IntelAssumption
    <3>2. Intel!Mapped(cs[i].sentiment) \in Nat
      BY DEF Intel!Mapped
    <3>3. ASSUME NEW m \in Nat, NEW h \in Nat PROVE m * h * 500 \in Int
      BY SMT
    <3> QED BY <3>1, <3>2, <3>3
  <2>3. votes \in [DOMAIN cs -> Int]
    BY <2>2
  <2> HIDE DEF votes
  <2>4. SumFunction(votes) \in Int
    BY <2>1, <2>3, SumFunctionIsInt
  <2>5. Intel!SumFunction(votes) = SumFunction(votes)
    BY DEF Intel!SumFunction, SumFunction, Intel!SumFunctionOnSet, SumFunctionOnSet,
           Intel!FoldFunctionOnSet, FoldFunctionOnSet, Intel!MapThenFoldSet, MapThenFoldSet
  <2>6. SumFunction(votes) \div Len(cs) \in Int
    BY <2>1, <2>4
  <2> QED BY <1>2, <2>5, <2>6, ClampedIs DEF Intel!sentimentScore, votes
<1> QED BY <1>1, <1>2

LEMMA ScoresAre ==
    ASSUME IntelInv
    PROVE  /\ Intel!technicalScore(miMarket) \in Int /\ Intel!momentumScore(miMarket) \in Int
           /\ Intel!volumeScore(miMarket) \in Int
<1>1. Intel!trendScore(miMarket) \in Int
  <2>1. \A a, b : Intel!Vote(a, b, 35) \in Int /\ Intel!Vote(a, b, 25) \in Int /\
                  Intel!Vote(a, b, 20) \in Int /\ Intel!Vote(a, b, 10) \in Int
    BY DEF Intel!Vote
  <2> QED BY <2>1 DEF Intel!trendScore
<1>2. (miMarket.rsi # Intel!Null => miMarket.rsi \in Int)
      /\ (miMarket.histogram # Intel!Null => miMarket.histogram \in Int)
      /\ (miMarket.volume # Intel!Null => miMarket.volume \in Int)
  <2>1. \A n : Intel!volumes(n) \subseteq Int
    BY IntelAssumption DEF Intel!volumes, Intel!Null
  <2>2. miMarket.volume \in Int
    BY <2>1 DEF IntelInv, Intel!Readings
  <2> QED BY <2>2, ReadingsAre
<1>3. Intel!technicalScore(miMarket) \in Int
  <2> DEFINE r == IF miMarket.rsi = Intel!Null THEN 50000
                  ELSE Intel!clamp01((miMarket.rsi - 30) * 2500)
             h == IF miMarket.histogram = Intel!Null THEN 50000
                  ELSE Intel!clamp01(50000 + miMarket.histogram * 500)
             t == Intel!clamp01(50000 + 500 * Intel!trendScore(miMarket))
  <2>1. r \in Int /\ h \in Int /\ t \in Int
    BY <1>1, <1>2, ClampedIs
  <2>2. Intel!technicalScore(miMarket) = Intel!clamp01((55 * t + 25 * r + 20 * h) \div 100)
    BY DEF Intel!technicalScore
  <2> HIDE DEF r, h, t
  <2>3. (55 * t + 25 * r + 20 * h) \div 100 \in Int
    BY <2>1
  <2> QED BY <2>2, <2>3, ClampedIs
<1>4. Intel!momentumScore(miMarket) \in Int
  <2>1. Intel!clamp(Intel!Share(miMarket, 400), -150000, 150000) \in Int
    BY ShareIs, ClampIs
  <2>2. Intel!momentumStrength(miMarket) \in Int
    BY <1>2, <2>1 DEF Intel!momentumStrength
  <2>3. 50000 + Intel!momentumStrength(miMarket) \div 3 \in Int
    BY <2>2
  <2> QED BY <2>3, ClampedIs DEF Intel!momentumScore
<1>5. Intel!volumeScore(miMarket) \in Int
  BY <1>2, ClampedIs DEF Intel!volumeScore
<1> QED BY <1>3, <1>4, <1>5

LEMMA IntelIsTyped == IntelInv /\ miCycles \in Seq(Calls) => Intel!TypeOK
<1> SUFFICES ASSUME IntelInv, miCycles \in Seq(Calls) PROVE Intel!TypeOK
  OBVIOUS
<1>1. Intel!score(miMarket, miCycles) \in 0..Intel!Points
  <2> DEFINE total == Intel!technicalScore(miMarket) + Intel!momentumScore(miMarket)
                        + Intel!volumeScore(miMarket) + Intel!sentimentScore(miCycles)
  <2>1. total \div 4 \in Int
    BY ScoresAre, SentimentIs
  <2> QED BY <2>1, ClampedIs DEF Intel!score
<1>2. miMarket.bars \in BarCounts \cup {0}
  BY DEF IntelInv, Intel!Readings
<1> QED BY <1>1, <1>2 DEF Intel!TypeOK

\* What is in the pages' invariants as it stands.
LEMMA LiveIsTyped == LiveInv => Live!TypeOK
BY DEF LiveInv, LiveTypes, Charts, Views, Live!TypeOK

LEMMA SocialIsTyped == SocialInv => Social!TypeOK
<1> SUFFICES ASSUME SocialInv PROVE Social!TypeOK
  OBVIOUS
<1>1. ASSUME NEW s \in SoStores \cup {Social!Nothing}
      PROVE  /\ DOMAIN s = DOMAIN Social!Seed
             /\ \A i \in DOMAIN s.posts : s.posts[i].flags \subseteq Flags
             /\ s.following \subseteq Traders /\ \A u \in Traders : s.followers[u] >= 0
  <2>1. DOMAIN s = {"posts", "comments", "following", "followers", "unread"}
        /\ s.posts \in Seq(SoPosts) /\ s.following \subseteq Traders
        /\ s.followers \in [Traders -> Nat]
    <3>1. CASE s \in SoStores
      BY <3>1 DEF SoStores
    <3>2. CASE s = Social!Nothing
      BY <3>2 DEF Social!Nothing
    <3> QED BY <3>1, <3>2
  <2>2. \A i \in DOMAIN s.posts : s.posts[i] \in SoPosts
    BY <2>1, ElementOfSeq
  <2>3. \A i \in DOMAIN s.posts : s.posts[i].flags \subseteq Flags
    BY <2>2 DEF SoPosts
  <2> QED BY <2>1, <2>3 DEF Social!Seed
<1> QED BY <1>1 DEF SocialInv, SocialTypes, Social!TypeOK

-----------------------------------------------------------------------------
\* What is blocked. Ids of the tab's own posts come again after a reload; the others are
\* of one post each.

\* What is blocked in the first list is blocked in the second.
StillBlocked(xs, ys) ==
    \A i \in DOMAIN xs, j \in DOMAIN ys :
        xs[i].blocked /\ xs[i].id.kind # "own" /\ ys[j].id = xs[i].id => ys[j].blocked
NoneBlocked(xs) == \A i \in DOMAIN xs : ~xs[i].blocked
\* The server has it blocked, or will have.
BlocksArrive(xs, qs, w) ==
    /\ Known(xs, qs)
    /\ \A i \in DOMAIN xs, j \in DOMAIN qs :
        xs[i].id = qs[j].id /\ xs[i].blocked => qs[j].blocked \/ Some(w, "block", xs[i].id)

BlockInv ==
    /\ Known(Social!SeedPosts, soServer.posts)
    /\ StillBlocked(soLocal.posts, soLocal.posts)
    /\ StillBlocked(soStorage.posts, soStorage.posts)
    /\ ~soUnsaved => /\ StillBlocked(soLocal.posts, soStorage.posts)
                     /\ soStorage.posts = <<>> => NoneBlocked(soLocal.posts)
    /\ \A v \in Visits : soVisit[v].at = "answered" => NoneBlocked(soVisit[v].posts)
    /\ ~soLapsed => /\ BlocksArrive(soLocal.posts, soServer.posts, soWire)
                    /\ BlocksArrive(soStorage.posts, soServer.posts, soWire)

LEMMA UnblockedIsFine ==
    ASSUME NEW xs, NoneBlocked(xs)
    PROVE  (\A ys : StillBlocked(xs, ys)) /\ (\A qs, w : Known(xs, qs) => BlocksArrive(xs, qs, w))
BY DEF NoneBlocked, StillBlocked, BlocksArrive

LEMMA BlockInit == Social!Init => BlockInv
<1> SUFFICES ASSUME Social!Init PROVE BlockInv
  OBVIOUS
<1>1. /\ soLocal.posts = Social!SeedPosts /\ soServer.posts = Social!SeedPosts
      /\ soStorage.posts = <<>> /\ \A v \in Visits : soVisit[v].at = "unmounted"
  BY ContentToStartFrom DEF Social!Init, Social!Nothing
<1>2. NoneBlocked(Social!SeedPosts) /\ Known(Social!SeedPosts, Social!SeedPosts)
  BY PostsToStartFrom DEF NoneBlocked, Known
<1>3. NoneBlocked(<<>>) /\ Known(<<>>, Social!SeedPosts)
  BY DEF NoneBlocked, Known
<1> QED BY <1>1, <1>2, <1>3, UnblockedIsFine DEF BlockInv

\* A click blocks what its message says, and brings no post but the tab's own.
Clicked(xs, ys, m) ==
    \A j \in DOMAIN ys :
        \/ ys[j].id.kind = "own"
        \/ \E i \in DOMAIN xs : /\ ys[j].id = xs[i].id
                                /\ ys[j].blocked <=> (xs[i].blocked \/ Is(m, "block", xs[i].id))

LEMMA ClickChanges ==
    ASSUME SocialInv, Social!Clicking
    PROVE  \E m \in SoMessages :
             /\ soWire' = Append(soWire, m) /\ Clicked(soLocal.posts, soLocal'.posts, m)
             /\ Placed(soLocal'.comments, soLocal.comments)
             /\ soStorage' \in {soLocal', soStorage} /\ (~soUnsaved' => soStorage' = soLocal')
             /\ (~soLapsed' => ~soLapsed)
             /\ UNCHANGED <<soServer, soVisit, soSeen, soReloads>>
<1> DEFINE Goal(m) == /\ soWire' = Append(soWire, m)
                      /\ Clicked(soLocal.posts, soLocal'.posts, m)
                      /\ Placed(soLocal'.comments, soLocal.comments)
                      /\ soStorage' \in {soLocal', soStorage}
                      /\ (~soUnsaved' => soStorage' = soLocal') /\ (~soLapsed' => ~soLapsed)
                      /\ UNCHANGED <<soServer, soVisit, soSeen, soReloads>>
<1>0. /\ soLocal \in SoStores /\ soLocal.posts \in Seq(SoPosts) /\ soSynced \in BOOLEAN
      /\ soLocal.comments \in Seq(SoComments)
      /\ Placed(soLocal.comments, soLocal.comments)
  BY DEF SocialInv, SocialTypes, SoStores, Placed
<1>1. /\ \A id \in Social!Shown : id \in SoIds
      /\ \A c \in Social!ShownComments : c.id \in SoIds /\ (c.mine => c.id.kind # "seed")
  <2>1. \A id \in Social!Shown : id \in SoIds
    BY ElementOfSeq DEF Social!Shown, Social!Ids, SocialInv, SocialTypes, SoPosts
  <2>2. \A c \in Social!ShownComments : c \in SoComments
    BY ElementOfSeq DEF Social!ShownComments, SocialInv, SocialTypes
  <2>3. \A c \in SoComments : c.id \in SoIds /\ (c.mine => c.id.kind # "seed")
    BY DEF SoComments
  <2> QED BY <2>1, <2>2, <2>3
<1>2. ASSUME NEW new, NEW m, Social!Click(new, m), Sent(m) \in SoMessages,
             Sent(m).op # "block", new.posts = soLocal.posts,
             Placed(new.comments, soLocal.comments)
      PROVE  Goal(Sent(m))
  BY <1>2, ClickIs DEF Clicked, Is
<1>3. ASSUME NEW id \in Social!Shown, NEW f \in Flags, Social!ClickToggle(id, f)
      PROVE  \E m \in SoMessages : Goal(m)
  <2> DEFINE new == Social!TogglePost(soLocal, id, f)
             m == [op |-> "toggle", id |-> id, flag |-> f]
  <2>1. Sent(m) = [op |-> "toggle", id |-> id, flag |-> f, synced |-> soSynced]
    BY DEF Sent
  <2>2. Sent(m) \in SoMessages /\ Sent(m).op = "toggle"
    BY <1>0, <1>1, <2>1 DEF SoMessages
  <2>3. new.posts = [i \in DOMAIN soLocal.posts |->
            IF soLocal.posts[i].id = id THEN Social!Toggled(soLocal.posts[i], f)
            ELSE soLocal.posts[i]]
    BY <1>0 DEF Social!TogglePost, Social!OnPost, SoStores
  <2>4. \A i \in DOMAIN soLocal.posts :
            /\ Social!Toggled(soLocal.posts[i], f).id = soLocal.posts[i].id
            /\ Social!Toggled(soLocal.posts[i], f).blocked = soLocal.posts[i].blocked
    BY <1>0, ElementOfSeq DEF Social!Toggled, SoPosts
  <2>5. Social!Click(new, m) /\ new.comments = soLocal.comments
    BY <1>0, <1>3 DEF Social!ClickToggle, Social!TogglePost, Social!OnPost, SoStores
  <2> HIDE DEF new, m
  <2>6. Clicked(soLocal.posts, new.posts, Sent(m))
    BY <2>2, <2>3, <2>4 DEF Clicked, Is
  <2>7. Goal(Sent(m))
    BY <1>0, <2>5, <2>6, ClickIs
  <2> QED BY <2>2, <2>7
<1>4. ASSUME NEW id \in Social!Shown, Social!ClickBlock(id)
      PROVE  \E m \in SoMessages : Goal(m)
  <2> DEFINE new == Social!BlockPost(soLocal, id)
             m == [op |-> "block", id |-> id]
  <2>1. Sent(m) = [op |-> "block", id |-> id, synced |-> soSynced]
    BY DEF Sent
  <2>2. Sent(m) \in SoMessages /\ Sent(m).op = "block" /\ Sent(m).id = id
    BY <1>0, <1>1, <2>1 DEF SoMessages
  <2>3. new.posts = [i \in DOMAIN soLocal.posts |->
            IF soLocal.posts[i].id = id THEN [soLocal.posts[i] EXCEPT !.blocked = TRUE]
            ELSE soLocal.posts[i]]
    BY <1>0 DEF Social!BlockPost, Social!OnPost, SoStores
  <2>4. \A i \in DOMAIN soLocal.posts :
            LET p == [soLocal.posts[i] EXCEPT !.blocked = TRUE]
            IN  p.id = soLocal.posts[i].id /\ p.blocked
    BY <1>0, ElementOfSeq DEF SoPosts
  <2>5. Social!Click(new, m) /\ new.comments = soLocal.comments
    BY <1>0, <1>4 DEF Social!ClickBlock, Social!BlockPost, Social!OnPost, SoStores
  <2> HIDE DEF new, m
  <2>6. Clicked(soLocal.posts, new.posts, Sent(m))
    BY <2>2, <2>3, <2>4 DEF Clicked, Is
  <2>7. Goal(Sent(m))
    BY <1>0, <2>5, <2>6, ClickIs
  <2> QED BY <2>2, <2>7
<1>5. ASSUME Social!ClickPost PROVE \E m \in SoMessages : Goal(m)
  <2> DEFINE id == Social!Id("own", soSerial'.post)
             p == Social!Post(id, TRUE)
             new == Social!AddPost(soLocal, id)
             m == [op |-> "post"]
  <2>1. Sent(m) = [op |-> "post", synced |-> soSynced]
    BY DEF Sent
  <2>2. Sent(m) \in SoMessages /\ Sent(m).op = "post"
    BY <1>0, <2>1 DEF SoMessages
  <2>3. id \in SoIds /\ id.kind = "own"
    BY <1>5 DEF Social!ClickPost, SocialInv, SocialTypes, Social!Id, SoIds
  <2>4. /\ Social!Click(new, m) /\ new.posts = <<p>> \o soLocal.posts
        /\ new.comments = soLocal.comments
    BY <1>0, <1>5 DEF Social!ClickPost, Social!AddPost, SoStores
  <2> HIDE DEF id, new, m
  <2>5. p \in SoPosts /\ p.id = id
    BY <2>3, PostIs
  <2> HIDE DEF p
  <2>6. \A j \in DOMAIN new.posts :
          new.posts[j] = p \/ \E i \in DOMAIN soLocal.posts : new.posts[j] = soLocal.posts[i]
    BY <1>0, <2>4, <2>5, PutInFront
  <2>7. Clicked(soLocal.posts, new.posts, Sent(m))
    BY <2>2, <2>3, <2>5, <2>6 DEF Clicked, Is
  <2>8. Goal(Sent(m))
    BY <1>0, <2>4, <2>7, ClickIs
  <2> QED BY <2>2, <2>8
<1>6. ASSUME NEW id \in Social!Shown, Social!ClickComment(id)
      PROVE  \E m \in SoMessages : Goal(m)
  <2>1. PICK parent \in {Social!NoOne} \cup
                  {c.id : c \in {d \in Social!ShownComments : d.post = id}} :
          Social!Click(Social!AddComment(soLocal, Social!Id("own", soSerial'.comment), id, parent),
                       [op |-> "comment", id |-> id, parent |-> parent])
    BY <1>6 DEF Social!ClickComment
  <2> DEFINE new == Social!AddComment(soLocal, Social!Id("own", soSerial'.comment), id, parent)
             m == [op |-> "comment", id |-> id, parent |-> parent]
  <2>2. Sent(m) = [op |-> "comment", id |-> id, parent |-> parent, synced |-> soSynced]
    BY DEF Sent
  <2>3. parent \in SoIds
    BY <1>1 DEF Social!NoOne, SoIds
  <2>4. Sent(m) \in SoMessages /\ Sent(m).op = "comment"
    BY <1>0, <1>1, <2>2, <2>3 DEF SoMessages
  <2>5. Social!Click(new, m) /\ new.posts = soLocal.posts
    BY <1>0, <2>1 DEF Social!AddComment, SoStores
  <2>6. Placed(new.comments, soLocal.comments)
    <3> DEFINE own == Social!Id("own", soSerial'.comment)
               c == Social!Comment(own, id, parent, TRUE)
    <3>1. new.comments = <<c>> \o soLocal.comments
      BY <1>0 DEF Social!AddComment, SoStores
    <3>2. own \in SoIds /\ own.kind = "own"
      BY <1>6 DEF Social!ClickComment, SocialInv, SocialTypes, Social!Id, SoIds
    <3> HIDE DEF own
    <3>3. c \in SoComments /\ c.id = own
      <4>1. id \in SoIds /\ TRUE \in BOOLEAN
        BY <1>1
      <4> QED BY <2>3, <3>2, <4>1, MadeCommentIs
    <3> HIDE DEF new, c
    <3>4. \A i \in DOMAIN new.comments :
            new.comments[i] = c \/ \E j \in DOMAIN soLocal.comments :
                                     new.comments[i] = soLocal.comments[j]
      BY <1>0, <3>1, <3>3, PutInFront
    <3> QED BY <3>2, <3>3, <3>4 DEF Placed
  <2> HIDE DEF new, m
  <2> QED BY <1>2, <2>4, <2>5, <2>6
<1>7. ASSUME NEW c \in Social!ShownComments, Social!ClickOnComment(c)
      PROVE  \E m \in SoMessages : Goal(m)
  <2> DEFINE W == Social!Meant(soLocal, c)
             x == Social!ToggleComment(soLocal, W, "liked")
             y == Social!DeleteComment(soLocal, W)
             z == Social!ReportComment(soLocal, W)
  <2>1. /\ x.posts = soLocal.posts /\ y.posts = soLocal.posts /\ z.posts = soLocal.posts
        /\ Placed(x.comments, soLocal.comments) /\ Placed(y.comments, soLocal.comments)
        /\ Placed(z.comments, soLocal.comments)
    <3> DEFINE cs == soLocal.comments
    <3>1. /\ x = [soLocal EXCEPT !.comments = [i \in DOMAIN cs |->
                    IF i \in W THEN [cs[i] EXCEPT !.flags = Social!Flip(@, "liked")] ELSE cs[i]]]
          /\ y = [soLocal EXCEPT !.comments = [i \in DOMAIN cs |->
                    IF i \in W THEN [cs[i] EXCEPT !.deleted = TRUE] ELSE cs[i]]]
          /\ z = [soLocal EXCEPT !.comments = [i \in DOMAIN cs |->
                    IF i \in W THEN [cs[i] EXCEPT !.reported = TRUE] ELSE cs[i]]]
      BY DEF Social!ToggleComment, Social!DeleteComment, Social!ReportComment,
         Social!OnComments
    <3>2. \A i \in DOMAIN cs : cs[i] \in SoComments
      BY <1>0, ElementOfSeq
    <3> HIDE DEF W, x, y, z
    <3>3. ASSUME NEW u, u \in {x, y, z}
          PROVE  /\ u.posts = soLocal.posts /\ DOMAIN u.comments = DOMAIN cs
                 /\ \A i \in DOMAIN cs :
                      u.comments[i].id = cs[i].id /\ u.comments[i].post = cs[i].post
      <4>1. CASE u = x
        BY <1>0, <3>1, <3>2, <4>1 DEF SoStores, SoComments
      <4>2. CASE u = y
        BY <1>0, <3>1, <3>2, <4>2 DEF SoStores, SoComments
      <4>3. CASE u = z
        BY <1>0, <3>1, <3>2, <4>3 DEF SoStores, SoComments
      <4> QED BY <3>3, <4>1, <4>2, <4>3
    <3>4. ASSUME NEW u, u \in {x, y, z}
          PROVE  Placed(u.comments, cs)
      BY <3>3, <3>4 DEF Placed
    <3> QED BY <3>3, <3>4
  <2> DEFINE a == [op |-> "toggleComment", id |-> c.id, flag |-> "liked"]
             b == [op |-> "delete", id |-> c.id]
             d == [op |-> "report", id |-> c.id]
  <2>2. /\ Sent(a) = [op |-> "toggleComment", id |-> c.id, flag |-> "liked", synced |-> soSynced]
        /\ Sent(b) = [op |-> "delete", id |-> c.id, synced |-> soSynced]
        /\ Sent(d) = [op |-> "report", id |-> c.id, synced |-> soSynced]
    BY DEF Sent
  <2>3. /\ Sent(a) \in SoMessages /\ Sent(a).op # "block"
        /\ Sent(d) \in SoMessages /\ Sent(d).op # "block"
        /\ c.mine => Sent(b) \in SoMessages /\ Sent(b).op # "block"
    BY <1>0, <1>1, <2>2 DEF SoMessages
  <2>4. \/ Social!Click(x, a)
        \/ c.mine /\ Social!Click(y, b)
        \/ Social!Click(z, d)
    BY <1>7 DEF Social!ClickOnComment
  <2> HIDE DEF a, b, d, Goal, W, x, y, z
  <2> QED BY <1>2, <2>1, <2>3, <2>4
<1>8. ASSUME NEW u \in Traders, Social!ClickFollow(u)
      PROVE  \E m \in SoMessages : Goal(m)
  <2> DEFINE a == [op |-> "unfollow", id |-> u]
             b == [op |-> "follow", id |-> u]
  <2>1. /\ Sent(a) = [op |-> "unfollow", id |-> u, synced |-> soSynced]
        /\ Sent(b) = [op |-> "follow", id |-> u, synced |-> soSynced]
    BY DEF Sent
  <2>2. /\ Sent(a) \in SoMessages /\ Sent(a).op # "block"
        /\ Sent(b) \in SoMessages /\ Sent(b).op # "block"
    BY <1>0, <2>1 DEF SoMessages
  <2>3. Social!Click(Social!Unfollow(soLocal, u), a) \/ Social!Click(Social!Follow(soLocal, u), b)
    BY <1>8 DEF Social!ClickFollow
  <2> HIDE DEF a, b, Goal
  <2> QED BY <1>0, <1>2, <2>2, <2>3, FollowIs
<1>9. ASSUME Social!ClickRead PROVE \E m \in SoMessages : Goal(m)
  <2> DEFINE a == [op |-> "read"]
  <2>1. Sent(a) = [op |-> "read", synced |-> soSynced]
    BY DEF Sent
  <2>2. Sent(a) \in SoMessages /\ Sent(a).op # "block"
    BY <1>0, <2>1 DEF SoMessages
  <2>3. Social!Click(Social!MarkRead(soLocal), a)
    BY <1>9 DEF Social!ClickRead
  <2> HIDE DEF a, Goal
  <2> QED BY <1>0, <1>2, <2>2, <2>3, MarkedIs
<1> HIDE DEF Goal
<1>10. \E m \in SoMessages : Goal(m)
  BY <1>3, <1>4, <1>5, <1>6, <1>7, <1>8, <1>9 DEF Social!Clicking
<1> QED BY <1>10 DEF Goal

LEMMA BlockClicked ==
    ASSUME SocialInv, BlockInv, Social!Clicking
    PROVE  BlockInv' /\ StillBlocked(soLocal.posts, soLocal'.posts)
<1>1. PICK m \in SoMessages :
         /\ soWire' = Append(soWire, m) /\ Clicked(soLocal.posts, soLocal'.posts, m)
         /\ soStorage' \in {soLocal', soStorage} /\ (~soUnsaved' => soStorage' = soLocal')
         /\ (~soLapsed' => ~soLapsed)
         /\ UNCHANGED <<soServer, soVisit>>
  BY ClickChanges
<1> DEFINE xs == soLocal.posts
           ys == soLocal'.posts
           w == soWire'
<1>2. StillBlocked(xs, ys) /\ StillBlocked(ys, ys)
  BY <1>1 DEF Clicked, StillBlocked, BlockInv
<1>3. ASSUME ~soLapsed'
      PROVE  BlocksArrive(ys, soServer.posts, w) /\ BlocksArrive(soStorage.posts, soServer.posts, w)
  <2>1. BlocksArrive(xs, soServer.posts, soWire) /\ BlocksArrive(soStorage.posts, soServer.posts, soWire)
    BY <1>1, <1>3 DEF BlockInv
  <2>2. Known(ys, soServer.posts)
    BY <1>1, <2>1 DEF Clicked, BlocksArrive, Known
  <2>3. \A id : Some(w, "block", id) <=> (Some(soWire, "block", id) \/ Is(m, "block", id))
    BY <1>1, OneMore DEF SocialInv, SocialTypes
  <2>4. \A j \in DOMAIN soServer.posts : soServer.posts[j].id.kind # "own"
    BY DEF SocialInv, Shared
  <2>5. ASSUME NEW i \in DOMAIN ys, NEW j \in DOMAIN soServer.posts,
               ys[i].id = soServer.posts[j].id, ys[i].blocked
        PROVE  soServer.posts[j].blocked \/ Some(w, "block", ys[i].id)
    <3>1. PICK k \in DOMAIN xs :
            ys[i].id = xs[k].id /\ (xs[k].blocked \/ Is(m, "block", xs[k].id))
      BY <1>1, <2>4, <2>5 DEF Clicked
    <3> QED BY <2>1, <2>3, <2>5, <3>1 DEF BlocksArrive
  <2>6. BlocksArrive(soStorage.posts, soServer.posts, w)
    BY <2>1, <2>3 DEF BlocksArrive
  <2> HIDE DEF xs, ys, w
  <2> QED BY <2>2, <2>5, <2>6 DEF BlocksArrive
<1>4. NoneBlocked(<<>>)
  BY DEF NoneBlocked
<1>5. soStorage'.posts \in {ys, soStorage.posts} /\ (~soUnsaved' => soStorage'.posts = ys)
  BY <1>1
<1>6. StillBlocked(soStorage'.posts, soStorage'.posts)
  BY <1>2, <1>5 DEF BlockInv
<1>7. ~soUnsaved' => /\ StillBlocked(ys, soStorage'.posts)
                     /\ soStorage'.posts = <<>> => NoneBlocked(ys)
  BY <1>2, <1>4, <1>5
<1>8. ~soLapsed' => BlocksArrive(soStorage'.posts, soServer.posts, w)
  BY <1>3, <1>5
<1> HIDE DEF xs, ys, w
<1> QED BY <1>1, <1>2, <1>3, <1>6, <1>7, <1>8 DEF BlockInv, xs, ys, w

\* What the server makes of its posts.
Handles(qs, ts, m) ==
    /\ \A j \in DOMAIN qs : \E k \in DOMAIN ts : ts[k].id = qs[j].id
    /\ \A k \in DOMAIN ts :
        \/ ts[k].id = Social!Id("server", Len(qs))
        \/ \E j \in DOMAIN qs : /\ ts[k].id = qs[j].id
                                /\ ts[k].blocked <=> (qs[j].blocked \/ Is(m, "block", qs[j].id))

LEMMA ServerHandles ==
    ASSUME SocialInv, NEW m \in SoMessages
    PROVE  Handles(soServer.posts, Social!Handled(soServer, m).posts, m)
<1> DEFINE qs == soServer.posts
           t == Social!Handled(soServer, m)
<1>1. soServer \in SoStores /\ qs \in Seq(SoPosts)
  BY DEF SocialInv, SocialTypes, SoStores
<1>2. CASE m.op \in {"toggle", "block"}
  <2> DEFINE u == [i \in DOMAIN qs |-> ServedPost(qs[i], m)]
  <2>1. t = [soServer EXCEPT !.posts = u]
    BY <1>2, ServedPostsAre
  <2>2. t.posts = u
    BY <1>1, <2>1 DEF SoStores
  <2>3. \A i \in DOMAIN qs :
          u[i].id = qs[i].id /\ (u[i].blocked <=> (qs[i].blocked \/ Is(m, "block", qs[i].id)))
    BY <1>1, ElementOfSeq, ServedIs
  <2>4. DOMAIN u = DOMAIN qs
    OBVIOUS
  <2> HIDE DEF u, t, qs
  <2> QED BY <2>2, <2>3, <2>4 DEF Handles, qs, t
<1>3. CASE m.op = "post"
  <2> DEFINE q == Social!Post(Social!Id("server", Len(qs)), TRUE)
  <2>1. t.posts = <<q>> \o qs
    BY <1>1, <1>3 DEF Social!Handled, Social!AddPost, SoStores
  <2>2. q \in SoPosts /\ q.id = Social!Id("server", Len(qs))
    <3>1. Social!Id("server", Len(qs)) \in SoIds
      BY <1>1 DEF Social!Id, SoIds
    <3> QED BY <3>1, PostIs
  <2> HIDE DEF q
  <2>3. /\ \A i \in DOMAIN qs : i + 1 \in DOMAIN t.posts /\ t.posts[i + 1] = qs[i]
        /\ \A k \in DOMAIN t.posts : t.posts[k] = q \/ \E j \in DOMAIN qs : t.posts[k] = qs[j]
    BY <1>1, <2>1, <2>2, PutInFront
  <2>4. \A id : ~Is(m, "block", id)
    BY <1>3 DEF Is
  <2> HIDE DEF t, qs
  <2> QED BY <2>2, <2>3, <2>4 DEF Handles, qs, t
<1>4. ASSUME t.posts = qs, m.op # "block" PROVE Handles(qs, t.posts, m)
  BY <1>4 DEF Handles, Is
<1>5. CASE m.op = "comment"
  BY <1>1, <1>4, <1>5 DEF Social!Handled, SoStores
<1>6. CASE m.op \in {"toggleComment", "delete", "report"}
  <2>1. PICK u : t = [soServer EXCEPT !.comments = u]
    BY <1>6, ServedCommentsAre
  <2>2. t.posts = qs
    BY <1>1, <2>1 DEF SoStores
  <2> QED BY <1>4, <1>6, <2>2
<1>7. CASE m.op \in {"follow", "unfollow"}
  <2>1. m.id \in Traders
    BY <1>7 DEF SoMessages
  <2>2. t \in {Social!Follow(soServer, m.id), Social!Unfollow(soServer, m.id), soServer}
    BY <1>7 DEF Social!Handled
  <2> HIDE DEF t
  <2>3. t.posts = qs
    BY <1>1, <2>1, <2>2, FollowIs
  <2> QED BY <1>4, <1>7, <2>3 DEF t
<1>8. CASE m.op = "read"
  BY <1>1, <1>4, <1>8, MarkedIs DEF Social!Handled
<1>9. m.op \in {"toggle", "block", "post", "comment", "toggleComment", "delete", "report",
                "follow", "unfollow", "read"}
  BY DEF SoMessages
<1> QED BY <1>2, <1>3, <1>5, <1>6, <1>7, <1>8, <1>9

LEMMA BlockServed ==
    ASSUME SocialInv, BlockInv, NEW k, Social!Serve(k) PROVE BlockInv'
<1> DEFINE m == soWire[k]
           qs == soServer.posts
           ts == soServer'.posts
           v == soWire'
<1>1. /\ k \in DOMAIN soWire /\ soServer' = Social!Handled(soServer, m)
      /\ v = Social!Without(soWire, k)
      /\ UNCHANGED <<soLocal, soStorage, soUnsaved, soVisit, soLapsed>>
  BY DEF Social!Serve, Social!stored
<1>2. Handles(qs, ts, m)
  <2>1. m \in SoMessages
    BY <1>1, ElementOfSeq DEF SocialInv, SocialTypes
  <2> QED BY <1>1, <2>1, ServerHandles
<1>3. \A id : Some(soWire, "block", id) <=> (Some(v, "block", id) \/ Is(m, "block", id))
  BY <1>1, OneLess DEF SocialInv, SocialTypes
<1>4. /\ \A j \in DOMAIN qs : qs[j].id # Social!Id("server", Len(qs)) /\ qs[j].id.kind # "own"
      /\ Social!Id("server", Len(qs)).kind # "own"
  <2>1. Len(qs) \in Nat /\ Social!Id("server", Len(qs)) = [kind |-> "server", n |-> Len(qs)]
    BY DEF SocialInv, SocialTypes, SoStores, Social!Id
  <2>2. Numbered(qs) /\ Shared(qs)
    BY DEF SocialInv
  <2> HIDE DEF qs
  <2> QED BY <2>1, <2>2 DEF Numbered, Shared
<1> HIDE DEF qs, ts, v, m
<1>5. ASSUME NEW xs, Known(xs, qs) PROVE Known(xs, ts)
  <2>1. ASSUME NEW i \in DOMAIN xs, xs[i].id.kind # "own" PROVE \E j \in DOMAIN ts : xs[i].id = ts[j].id
    <3>1. PICK j \in DOMAIN qs : xs[i].id = qs[j].id
      BY <1>5, <2>1 DEF Known
    <3> QED BY <1>2, <3>1 DEF Handles
  <2> QED BY <2>1 DEF Known
<1>6. ASSUME NEW xs, BlocksArrive(xs, qs, soWire) PROVE BlocksArrive(xs, ts, v)
  <2>1. ASSUME NEW i \in DOMAIN xs, NEW j \in DOMAIN ts, xs[i].id = ts[j].id, xs[i].blocked
        PROVE  ts[j].blocked \/ Some(v, "block", xs[i].id)
    <3>1. ts[j].id # Social!Id("server", Len(qs))
      <4> SUFFICES ASSUME ts[j].id = Social!Id("server", Len(qs)) PROVE FALSE
        OBVIOUS
      <4>1. \E n \in DOMAIN qs : xs[i].id = qs[n].id
        BY <1>4, <1>6, <2>1 DEF BlocksArrive, Known
      <4> QED BY <1>4, <2>1, <4>1
    <3>2. PICK n \in DOMAIN qs :
            ts[j].id = qs[n].id /\ (ts[j].blocked <=> (qs[n].blocked \/ Is(m, "block", qs[n].id)))
      BY <1>2, <3>1 DEF Handles
    <3>3. qs[n].blocked \/ Some(soWire, "block", xs[i].id)
      BY <1>6, <2>1, <3>2 DEF BlocksArrive
    <3> QED BY <1>3, <2>1, <3>2, <3>3
  <2> QED BY <1>5, <1>6, <2>1 DEF BlocksArrive
<1> QED BY <1>1, <1>5, <1>6 DEF BlockInv, qs, ts, v

LEMMA BlockHydrated ==
    ASSUME SocialInv, BlockInv, NEW v \in Visits,
           \/ Social!Mount(v) \/ Social!AnswerFeed(v) \/ Social!ApplyFeed(v)
           \/ Social!AnswerComments(v) \/ Social!Finish(v) \/ Social!Unreachable(v)
    PROVE  BlockInv' /\ (~soLapsed' => StillBlocked(soLocal.posts, soLocal'.posts))
<1>0. DOMAIN soVisit = Visits /\ soLocal \in SoStores
  BY DEF SocialInv, SocialTypes
<1>1. CASE Social!Mount(v) \/ Social!AnswerComments(v) \/ Social!Unreachable(v)
  <2>1. PICK r : soVisit' = [soVisit EXCEPT ![v] = r] /\ r.at # "answered"
    BY <1>1 DEF Social!Mount, Social!AnswerComments, Social!Unreachable, Social!SetVisit
  <2>2. \A u \in Visits : soVisit'[u].at = "answered" => soVisit'[u] = soVisit[u]
    BY <1>0, <2>1
  <2>3. /\ UNCHANGED <<soLocal, soStorage, soUnsaved, soWire, soServer>>
        /\ (~soLapsed' => ~soLapsed)
    <3>1. CASE Social!Mount(v)
      BY <3>1 DEF Social!Mount, Social!stored
    <3>2. CASE Social!AnswerComments(v)
      BY <3>2 DEF Social!AnswerComments, Social!stored
    <3>3. CASE Social!Unreachable(v)
      BY <3>3 DEF Social!Unreachable, Social!stored
    <3> QED BY <1>1, <3>1, <3>2, <3>3
  <2> QED BY <2>2, <2>3 DEF BlockInv
<1>2. CASE Social!AnswerFeed(v)
  <2> DEFINE K == {i \in DOMAIN soServer.posts : ~soServer.posts[i].blocked}
             ps == Social!Only(soServer.posts, K)
             r == [at |-> "answered", posts |-> ps, followers |-> soServer.followers,
                   unread |-> soServer.unread]
  <2>1. soVisit' = [soVisit EXCEPT ![v] = r]
    BY <1>2 DEF Social!AnswerFeed, Social!SetVisit
  <2>2. NoneBlocked(ps)
    <3>1. soServer.posts \in Seq(SoPosts) /\ K \in SUBSET DOMAIN soServer.posts
      BY DEF SocialInv, SocialTypes, SoStores
    <3>2. \A n \in DOMAIN ps : \E i \in K : ps[n] = soServer.posts[i]
      BY <3>1, ChosenAre
    <3> HIDE DEF ps
    <3> QED BY <3>2 DEF NoneBlocked
  <2>3. r.posts = ps
    OBVIOUS
  <2> HIDE DEF r, ps
  <2>4. \A u \in Visits : soVisit'[u] = IF u = v THEN r ELSE soVisit[u]
    BY <1>0, <2>1
  <2>5. /\ UNCHANGED <<soLocal, soStorage, soUnsaved, soWire, soServer>>
        /\ (~soLapsed' => ~soLapsed)
    BY <1>2 DEF Social!AnswerFeed, Social!stored
  <2> QED BY <2>2, <2>3, <2>4, <2>5 DEF BlockInv
<1>3. CASE Social!ApplyFeed(v)
  <2> DEFINE ps == soVisit[v].posts
  <2>1. /\ soVisit[v].at = "answered" /\ soLocal'.posts = ps
        /\ UNCHANGED <<soStorage, soUnsaved, soWire, soServer, soLapsed>>
    BY <1>0, <1>3 DEF Social!ApplyFeed, Social!stored, SoStores
  <2>2. \A u \in Visits : soVisit'[u].at = "answered" => soVisit'[u] = soVisit[u]
    BY <1>0, <1>3 DEF Social!ApplyFeed, Social!SetVisit
  <2>3. NoneBlocked(ps)
    BY <2>1 DEF BlockInv
  <2>4. ASSUME ~soLapsed
        PROVE  Known(ps, soServer.posts) /\ StillBlocked(soLocal.posts, ps)
    <3>1. soWire = <<>> /\ From(ps, soServer.posts)
      BY <2>1, <2>4 DEF SocialInv, MirrorInv, Social!Hydrating
    <3>2. Known(ps, soServer.posts)
      BY <3>1 DEF From, Known
    <3>3. ASSUME NEW i \in DOMAIN soLocal.posts, NEW j \in DOMAIN ps,
                 soLocal.posts[i].blocked, ps[j].id = soLocal.posts[i].id
          PROVE  FALSE
      <4>1. PICK n \in DOMAIN soServer.posts : ps[j] = soServer.posts[n]
        BY <3>1 DEF From
      <4>2. soServer.posts[n].blocked \/ Some(<<>>, "block", soLocal.posts[i].id)
        BY <2>4, <3>1, <3>3, <4>1 DEF BlockInv, BlocksArrive
      <4> QED BY <2>3, <4>1, <4>2, NothingIsUnderWay DEF NoneBlocked
    <3> QED BY <3>2, <3>3 DEF StillBlocked
  <2> QED BY <2>1, <2>2, <2>3, <2>4, UnblockedIsFine DEF BlockInv
<1>4. CASE Social!Finish(v)
  <2>1. /\ soLocal'.posts = soLocal.posts /\ soStorage' \in {soLocal', soStorage}
        /\ (~soUnsaved' => soStorage' = soLocal')
        /\ UNCHANGED <<soWire, soServer, soLapsed>>
    BY <1>0, <1>4 DEF Social!Finish, Social!Persist, SoStores
  <2>2. \A u \in Visits : soVisit'[u].at = "answered" => soVisit'[u] = soVisit[u]
    BY <1>0, <1>4 DEF Social!Finish, Social!SetVisit
  <2>3. NoneBlocked(<<>>)
    BY DEF NoneBlocked
  <2> QED BY <2>1, <2>2, <2>3 DEF BlockInv
<1> QED BY <1>1, <1>2, <1>3, <1>4

LEMMA BlockReloaded ==
    ASSUME SocialInv, BlockInv, Social!Reload
    PROVE  BlockInv' /\ (~soUnsaved => StillBlocked(soLocal.posts, soLocal'.posts))
<1>1. /\ soLocal' = Social!Loaded /\ UNCHANGED <<soStorage, soWire, soServer, soLapsed>>
      /\ \A v \in Visits : soVisit'[v].at = "unmounted"
  BY DEF Social!Reload
<1>2. NoneBlocked(Social!SeedPosts)
  BY PostsToStartFrom DEF NoneBlocked
<1>3. CASE soLocal'.posts = Social!SeedPosts /\ soStorage.posts = <<>>
  <2>1. ~soUnsaved => StillBlocked(soLocal.posts, Social!SeedPosts)
    BY <1>3, UnblockedIsFine DEF BlockInv
  <2> QED BY <1>1, <1>2, <1>3, <2>1, UnblockedIsFine DEF BlockInv
<1>4. CASE soLocal'.posts = soStorage.posts /\ soStorage.posts # <<>>
  BY <1>1, <1>4 DEF BlockInv
<1>5. \/ soLocal'.posts = Social!SeedPosts /\ soStorage.posts = <<>>
      \/ soLocal'.posts = soStorage.posts /\ soStorage.posts # <<>>
  <2>1. soStorage \in SoStores \cup {Social!Nothing} /\ Social!Nothing.posts = <<>>
    BY DEF SocialInv, SocialTypes, Social!Nothing
  <2> QED BY <1>1, <2>1, ContentToStartFrom DEF Social!Loaded, SoStores
<1> QED BY <1>3, <1>4, <1>5

\* A step keeps what is blocked, unless a request is lost or crosses a hydration, or the
\* tab is reloaded of which the storage did not have it all.
LEMMA BlockStep ==
    ASSUME SocialInv, BlockInv, [Social!Next]_(Social!vars)
    PROVE  /\ BlockInv'
           /\ ~soLapsed' /\ (soUnsaved => soReloads' = soReloads) =>
                StillBlocked(soLocal.posts, soLocal'.posts)
<1>1. ASSUME UNCHANGED <<soLocal, soStorage, soUnsaved, soVisit, soServer>>,
             ~soLapsed' => ~soLapsed /\ UNCHANGED soWire
      PROVE  BlockInv' /\ StillBlocked(soLocal.posts, soLocal'.posts)
  BY <1>1 DEF BlockInv
<1>2. CASE Social!Render
  BY <1>1, <1>2 DEF Social!Render, Social!stored
<1>3. ASSUME NEW i, Social!Serve(i)
      PROVE  BlockInv' /\ StillBlocked(soLocal.posts, soLocal'.posts)
  BY <1>3, BlockServed DEF Social!Serve, BlockInv
<1>4. ASSUME NEW i, Social!Lose(i)
      PROVE  BlockInv' /\ StillBlocked(soLocal.posts, soLocal'.posts)
  BY <1>1, <1>4 DEF Social!Lose, Social!stored
<1>5. CASE UNCHANGED Social!vars
  BY <1>1, <1>5 DEF Social!vars
<1>6. CASE Social!Hydration
  BY <1>6, BlockHydrated DEF Social!Hydration
<1>7. CASE Social!SignOut
  <2>1. /\ soStorage'.posts = <<>> /\ soUnsaved' = TRUE
        /\ UNCHANGED <<soLocal, soVisit, soWire, soServer, soLapsed>>
    BY <1>7 DEF Social!SignOut, Social!Nothing
  <2>2. StillBlocked(<<>>, <<>>) /\ BlocksArrive(<<>>, soServer.posts, soWire)
    BY DEF StillBlocked, BlocksArrive, Known
  <2>3. StillBlocked(soLocal.posts, soLocal'.posts)
    BY <2>1 DEF BlockInv
  <2> QED BY <2>1, <2>2, <2>3 DEF BlockInv
<1>8. CASE Social!Reload
  <2>1. soReloads' # soReloads
    BY <1>8 DEF Social!Reload, SocialInv, SocialTypes
  <2> QED BY <1>8, <2>1, BlockReloaded
<1> QED BY <1>2, <1>3, <1>4, <1>5, <1>6, <1>7, <1>8, BlockClicked DEF Social!Next

-----------------------------------------------------------------------------
\* Where the comments stand. No step moves one, or takes one from the server.

LEMMA PlacedOn ==
    ASSUME NEW cs, NEW ds, NEW es, Placed(cs, ds), Placed(ds, es) PROVE Placed(cs, es)
BY DEF Placed

LEMMA PlacedInit == Social!Init => PlacedInv
<1> SUFFICES ASSUME Social!Init PROVE PlacedInv
  OBVIOUS
<1>1. /\ soLocal = Social!Seed /\ soStorage = Social!Nothing
      /\ soServer = [Social!Seed EXCEPT !.comments = Social!ServerComments]
      /\ soSeen = Social!Rendered(Social!Seed)
      /\ \A v \in Visits : soVisit[v].at = "unmounted"
  BY DEF Social!Init
<1>2. /\ soLocal.comments = Social!SeedComments /\ soStorage.comments = <<>>
      /\ soServer.comments = Social!ServerComments /\ soSeen.comments = Social!SeedComments
  BY <1>1, ContentToStartFrom, RenderedIs DEF Social!Nothing, SoStores
<1>3. Placed(Social!SeedComments, Social!ServerComments)
  BY ContentToStartFrom DEF From, Placed
<1> QED BY <1>1, <1>2, <1>3 DEF PlacedInv, Placed

LEMMA ServerPlaces ==
    ASSUME SocialInv, NEW m \in SoMessages
    PROVE  Placed(soServer.comments, Social!Handled(soServer, m).comments)
<1> DEFINE ds == soServer.comments
           t == Social!Handled(soServer, m)
<1>1. soServer \in SoStores /\ ds \in Seq(SoComments)
  BY DEF SocialInv, SocialTypes, SoStores
<1>2. ASSUME t.comments = ds PROVE Placed(ds, t.comments)
  BY <1>2 DEF Placed
<1>3. CASE m.op \in {"toggle", "block"}
  <2>1. PICK u : t = [soServer EXCEPT !.posts = u]
    BY <1>3, ServedPostsAre
  <2> QED BY <1>1, <1>2, <2>1 DEF SoStores
<1>4. CASE m.op = "post"
  BY <1>1, <1>2, <1>4 DEF Social!Handled, Social!AddPost, SoStores
<1>5. CASE m.op = "comment"
  <2>1. \/ t.comments = ds
        \/ \E d : t.comments = Append(ds, d)
    BY <1>1, <1>5 DEF Social!Handled, SoStores
  <2>2. ASSUME NEW d, t.comments = Append(ds, d) PROVE Placed(ds, t.comments)
    <3>1. \A i \in DOMAIN ds : i \in DOMAIN Append(ds, d) /\ Append(ds, d)[i] = ds[i]
      BY <1>1
    <3> HIDE DEF t, ds
    <3> QED BY <2>2, <3>1 DEF Placed
  <2> QED BY <1>2, <2>1, <2>2
<1>6. CASE m.op \in {"toggleComment", "delete", "report"}
  <2>1. PICK u \in Seq(SoComments) :
          /\ t = [soServer EXCEPT !.comments = u] /\ DOMAIN u = DOMAIN ds
          /\ \A i \in DOMAIN u : Takes(u[i], ds[i], m)
    BY <1>6, ServedCommentsAre
  <2>2. t.comments = u
    BY <1>1, <2>1 DEF SoStores
  <2> HIDE DEF t, ds
  <2> QED BY <2>1, <2>2 DEF Placed, Takes, t, ds
<1>7. CASE m.op \in {"follow", "unfollow"}
  <2>1. m.id \in Traders
    BY <1>7 DEF SoMessages
  <2>2. t \in {Social!Follow(soServer, m.id), Social!Unfollow(soServer, m.id), soServer}
    BY <1>7 DEF Social!Handled
  <2> HIDE DEF t
  <2> QED BY <1>1, <1>2, <2>1, <2>2, FollowIs DEF t
<1>8. CASE m.op = "read"
  BY <1>1, <1>2, <1>8, MarkedIs DEF Social!Handled
<1>9. m.op \in {"toggle", "block", "post", "comment", "toggleComment", "delete", "report",
                "follow", "unfollow", "read"}
  BY DEF SoMessages
<1> QED BY <1>3, <1>4, <1>5, <1>6, <1>7, <1>8, <1>9

LEMMA PlacedHydrated ==
    ASSUME SocialInv, PlacedInv, NEW v \in Visits,
           \/ Social!Mount(v) \/ Social!AnswerFeed(v) \/ Social!ApplyFeed(v)
           \/ Social!AnswerComments(v) \/ Social!Finish(v) \/ Social!Unreachable(v)
    PROVE  PlacedInv'
<1>0. DOMAIN soVisit = Visits /\ soLocal \in SoStores
  BY DEF SocialInv, SocialTypes
<1>1. CASE Social!Mount(v) \/ Social!AnswerFeed(v) \/ Social!Unreachable(v)
  <2>1. PICK r : soVisit' = [soVisit EXCEPT ![v] = r] /\ r.at # "commented"
    BY <1>1 DEF Social!Mount, Social!AnswerFeed, Social!Unreachable, Social!SetVisit
  <2>2. \A u \in Visits : soVisit'[u].at = "commented" => soVisit'[u] = soVisit[u]
    BY <1>0, <2>1
  <2>3. /\ UNCHANGED <<soLocal, soStorage, soServer>>
        /\ soSeen'.comments \in {soSeen.comments, soLocal.comments}
    <3>1. CASE Social!Mount(v)
      BY <1>0, <3>1, RenderedIs DEF Social!Mount, Social!stored
    <3>2. CASE Social!AnswerFeed(v)
      BY <3>2 DEF Social!AnswerFeed, Social!stored
    <3>3. CASE Social!Unreachable(v)
      BY <3>3 DEF Social!Unreachable, Social!stored
    <3> QED BY <1>1, <3>1, <3>2, <3>3
  <2> QED BY <2>2, <2>3 DEF PlacedInv
<1>2. CASE Social!ApplyFeed(v)
  <2>1. soLocal'.comments = soLocal.comments /\ UNCHANGED <<soStorage, soServer, soSeen>>
    BY <1>0, <1>2 DEF Social!ApplyFeed, Social!stored, SoStores
  <2>2. \A u \in Visits : soVisit'[u].at = "commented" => soVisit'[u] = soVisit[u]
    BY <1>0, <1>2 DEF Social!ApplyFeed, Social!SetVisit
  <2> QED BY <2>1, <2>2 DEF PlacedInv
<1>3. CASE Social!AnswerComments(v)
  <2>1. PICK got :
          soVisit' = [soVisit EXCEPT ![v] = [at |-> "commented",
            comments |-> Social!Only(soServer.comments,
                {i \in DOMAIN soServer.comments : soServer.comments[i].post \in got})]]
    BY <1>3 DEF Social!AnswerComments, Social!SetVisit
  <2> DEFINE K == {i \in DOMAIN soServer.comments : soServer.comments[i].post \in got}
             cs == Social!Only(soServer.comments, K)
             r == [at |-> "commented", comments |-> cs]
  <2>2. From(cs, soServer.comments)
    <3>1. soServer.comments \in Seq(SoComments) /\ K \in SUBSET DOMAIN soServer.comments
      BY DEF SocialInv, SocialTypes, SoStores
    <3> QED BY <3>1, SelectedIs
  <2>3. soVisit' = [soVisit EXCEPT ![v] = r] /\ r.comments = cs
    BY <2>1
  <2> HIDE DEF cs, r
  <2>4. Placed(cs, soServer.comments)
    BY <2>2 DEF From, Placed
  <2>5. \A u \in Visits : soVisit'[u] = IF u = v THEN r ELSE soVisit[u]
    BY <1>0, <2>3
  <2>6. UNCHANGED <<soLocal, soStorage, soServer, soSeen>>
    BY <1>3 DEF Social!AnswerComments, Social!stored
  <2> QED BY <2>3, <2>4, <2>5, <2>6 DEF PlacedInv
<1>4. CASE Social!Finish(v)
  <2>1. /\ soLocal'.comments = soVisit[v].comments /\ soVisit[v].at = "commented"
        /\ soStorage' \in {soLocal', soStorage} /\ UNCHANGED <<soServer, soSeen>>
    BY <1>0, <1>4 DEF Social!Finish, Social!Persist, SoStores
  <2>2. \A u \in Visits : soVisit'[u].at = "commented" => soVisit'[u] = soVisit[u]
    BY <1>0, <1>4 DEF Social!Finish, Social!SetVisit
  <2> QED BY <2>1, <2>2 DEF PlacedInv
<1> QED BY <1>1, <1>2, <1>3, <1>4

LEMMA PlacedStep ==
    ASSUME SocialInv, SocialInv', PlacedInv, [Social!Next]_(Social!vars) PROVE PlacedInv'
<1>1. CASE Social!Clicking
  <2>1. /\ Placed(soLocal'.comments, soLocal.comments) /\ soStorage' \in {soLocal', soStorage}
        /\ UNCHANGED <<soServer, soVisit, soSeen>>
    BY <1>1, ClickChanges
  <2>2. Placed(soLocal'.comments, soServer.comments)
    BY <2>1, PlacedOn DEF PlacedInv
  <2> QED BY <2>1, <2>2 DEF PlacedInv
<1>2. CASE Social!Render
  <2>1. soSeen'.comments = soLocal.comments
    BY <1>2, RenderedIs DEF Social!Render, SocialInv, SocialTypes
  <2>2. UNCHANGED <<soLocal, soStorage, soServer, soVisit>>
    BY <1>2 DEF Social!Render, Social!stored
  <2> QED BY <2>1, <2>2 DEF PlacedInv
<1>3. CASE Social!Hydration
  BY <1>3, PlacedHydrated DEF Social!Hydration
<1>4. CASE Social!Reload
  <2>1. soLocal'.comments \in {Social!SeedComments, soStorage.comments}
    <3>1. soStorage \in SoStores \cup {Social!Nothing} /\ soLocal' = Social!Loaded
      BY <1>4 DEF Social!Reload, SocialInv, SocialTypes
    <3> QED BY <3>1, ContentToStartFrom DEF Social!Loaded, SoStores
  <2>2. soSeen'.comments = soLocal'.comments
    BY <1>4, RenderedIs DEF Social!Reload, SocialInv, SocialTypes
  <2>3. UNCHANGED <<soStorage, soServer>> /\ \A v \in Visits : soVisit'[v].at = "unmounted"
    BY <1>4 DEF Social!Reload
  <2> QED BY <2>1, <2>2, <2>3 DEF PlacedInv
<1>5. CASE Social!SignOut
  <2>1. soStorage'.comments = <<>> /\ UNCHANGED <<soLocal, soServer, soVisit, soSeen>>
    BY <1>5 DEF Social!SignOut, Social!Nothing
  <2> QED BY <2>1 DEF PlacedInv, Placed
<1>6. ASSUME NEW k, Social!Serve(k) PROVE PlacedInv'
  <2>1. k \in DOMAIN soWire /\ soWire[k] \in SoMessages
    BY <1>6, ElementOfSeq DEF Social!Serve, SocialInv, SocialTypes
  <2>2. /\ soServer' = Social!Handled(soServer, soWire[k])
        /\ UNCHANGED <<soLocal, soStorage, soVisit, soSeen>>
    BY <1>6 DEF Social!Serve, Social!stored
  <2>3. Placed(soServer.comments, soServer'.comments)
    BY <2>1, <2>2, ServerPlaces
  <2>4. \A cs : Placed(cs, soServer.comments) => Placed(cs, soServer'.comments)
    BY <2>3, PlacedOn
  <2> QED BY <2>2, <2>4 DEF PlacedInv
<1>7. ASSUME NEW k, Social!Lose(k) PROVE PlacedInv'
  BY <1>7 DEF Social!Lose, Social!stored, PlacedInv
<1>8. CASE UNCHANGED Social!vars
  BY <1>8 DEF Social!vars, PlacedInv
<1> QED BY <1>1, <1>2, <1>3, <1>4, <1>5, <1>6, <1>7, <1>8 DEF Social!Next

-----------------------------------------------------------------------------
\* What a reload would bring back.

HalfHydrated == \E v \in Visits : soVisit[v].at \in {"comments", "commented"}
\* As long as it could be stored and was not wiped, the store is what a reload would load.
\* A list of posts that became empty comes back as the seed, and a hydration stores its
\* posts only when it ends.
StoredInv == ~soUnsaved =>
    /\ soLocal.following = Social!Loaded.following /\ soLocal.comments = Social!Loaded.comments
    /\ ~HalfHydrated /\ soLocal.posts # <<>> => soLocal.posts = Social!Loaded.posts

LEMMA StoredInit == Social!Init => StoredInv
BY DEF Social!Init, StoredInv, Social!Loaded

\* What is stored is loaded, but for an empty list of posts.
LEMMA StoredAgain ==
    ASSUME soLocal' \in SoStores, ~soUnsaved' => soStorage' = soLocal' PROVE StoredInv'
<1>1. ~soUnsaved' => soStorage' # Social!Nothing
  BY ContentToStartFrom
<1> QED BY <1>1 DEF StoredInv, Social!Loaded, SoStores

LEMMA StoredHydrated ==
    ASSUME SocialInv, SocialInv', StoredInv, NEW v \in Visits,
           \/ Social!Mount(v) \/ Social!AnswerFeed(v) \/ Social!ApplyFeed(v)
           \/ Social!AnswerComments(v) \/ Social!Finish(v) \/ Social!Unreachable(v)
    PROVE  StoredInv' /\ UNCHANGED soReloads
<1>0. /\ DOMAIN soVisit = Visits /\ soLocal \in SoStores /\ soLocal' \in SoStores
  BY DEF SocialInv, SocialTypes
<1>1. ASSUME NEW r, soVisit' = [soVisit EXCEPT ![v] = r], HalfHydrated => HalfHydrated',
             UNCHANGED <<soLocal, soStorage, soUnsaved>>
      PROVE  StoredInv'
  BY <1>1 DEF StoredInv, Social!Loaded
<1>2. ASSUME soVisit[v].at \notin {"comments", "commented"},
             NEW r, soVisit' = [soVisit EXCEPT ![v] = r]
      PROVE  HalfHydrated => HalfHydrated'
  BY <1>0, <1>2 DEF HalfHydrated
<1>3. CASE Social!Mount(v) \/ Social!AnswerFeed(v) \/ Social!Unreachable(v)
  <2>1. /\ soVisit[v].at \in {"unmounted", "asked"}
        /\ \E r : soVisit' = [soVisit EXCEPT ![v] = r]
        /\ UNCHANGED <<soLocal, soStorage, soUnsaved, soReloads>>
    <3>1. CASE Social!Mount(v)
      BY <3>1 DEF Social!Mount, Social!SetVisit, Social!budgets, Social!stored
    <3>2. CASE Social!AnswerFeed(v)
      BY <3>2 DEF Social!AnswerFeed, Social!SetVisit, Social!budgets, Social!stored
    <3>3. CASE Social!Unreachable(v)
      BY <3>3 DEF Social!Unreachable, Social!SetVisit, Social!budgets, Social!stored
    <3> QED BY <1>3, <3>1, <3>2, <3>3
  <2> QED BY <1>1, <1>2, <2>1
<1>4. CASE Social!ApplyFeed(v)
  <2>1. /\ soLocal'.following = soLocal.following /\ soLocal'.comments = soLocal.comments
        /\ soVisit'[v].at = "comments" /\ UNCHANGED <<soStorage, soUnsaved, soReloads>>
    BY <1>0, <1>4 DEF Social!ApplyFeed, Social!SetVisit, Social!budgets, Social!stored, SoStores
  <2> QED BY <2>1 DEF StoredInv, HalfHydrated, Social!Loaded
<1>5. CASE Social!AnswerComments(v)
  <2>1. PICK cs : soVisit' = [soVisit EXCEPT ![v] = [at |-> "commented", comments |-> cs]]
    BY <1>5 DEF Social!AnswerComments, Social!SetVisit
  <2>2. HalfHydrated'
    <3>1. soVisit'[v].at = "commented"
      BY <1>0, <2>1
    <3> QED BY <3>1 DEF HalfHydrated
  <2>3. UNCHANGED <<soLocal, soStorage, soUnsaved, soReloads>>
    BY <1>5 DEF Social!AnswerComments, Social!budgets, Social!stored
  <2> QED BY <1>1, <2>1, <2>2, <2>3
<1>6. CASE Social!Finish(v)
  <2>1. (~soUnsaved' => soStorage' = soLocal') /\ UNCHANGED soReloads
    BY <1>6 DEF Social!Finish, Social!Persist
  <2> QED BY <1>0, <2>1, StoredAgain
<1> QED BY <1>3, <1>4, <1>5, <1>6

\* A reload loads what is stored, and no other step reloads.
LEMMA StoredStep ==
    ASSUME SocialInv, SocialInv', StoredInv, [Social!Next]_(Social!vars)
    PROVE  StoredInv' /\ (soReloads' # soReloads => soLocal' = Social!Loaded)
<1>1. ASSUME UNCHANGED <<soLocal, soStorage, soUnsaved, soVisit, soReloads>>
      PROVE  StoredInv' /\ UNCHANGED soReloads
  BY <1>1 DEF StoredInv, Social!Loaded, HalfHydrated
<1>2. CASE Social!Clicking
  BY <1>2, ClickChanges, StoredAgain DEF SocialInv, SocialTypes
<1>3. CASE Social!Render
  BY <1>1, <1>3 DEF Social!Render, Social!stored
<1>4. CASE Social!Hydration
  BY <1>4, StoredHydrated DEF Social!Hydration
<1>5. CASE Social!Reload
  <2>1. soLocal' = Social!Loaded /\ Social!Loaded' = Social!Loaded
    BY <1>5 DEF Social!Reload, Social!Loaded
  <2> QED BY <2>1 DEF StoredInv
<1>6. ASSUME NEW i, Social!Serve(i) \/ Social!Lose(i)
      PROVE  StoredInv' /\ UNCHANGED soReloads
  BY <1>1, <1>6 DEF Social!Serve, Social!Lose, Social!budgets, Social!stored
<1>7. CASE UNCHANGED Social!vars
  BY <1>1, <1>7 DEF Social!vars
<1>8. CASE Social!SignOut
  BY <1>8 DEF Social!SignOut, StoredInv
<1> QED BY <1>2, <1>3, <1>4, <1>5, <1>6, <1>7, <1>8 DEF Social!Next

-----------------------------------------------------------------------------
\* The page that is open keeps its invariant, and the others do not run.

WebContentInv ==
    /\ at \in {"social", "community", "chats", "ticks", "chart", "dashboard", "presignal",
              "signals", "intel", "alerts", "card", "docs"}
    /\ at = "social" => SocialInv /\ PlacedInv /\ BlockInv /\ StoredInv
    /\ at = "community" => CommunityInv
    /\ at = "chats" => ChatsInv
    /\ at = "ticks" => TicksInv
    /\ at = "chart" => LiveInv
    /\ at = "dashboard" => DashboardInv
    /\ at = "presignal" => PreInv
    /\ at = "signals" => FeedInv /\ ListInv
    /\ at = "intel" => IntelInv
    /\ at = "alerts" => RulesInv
    /\ at = "card" => CardInv
    /\ at = "docs" => DocsInv

LEMMA WebContentInit == Init => WebContentInv
BY SocialInit, PlacedInit, BlockInit, StoredInit, CommunityInit, ChatsInit, TicksInit, LiveInit,
   DashboardInit, PreInit, FeedInit, ListInit, IntelInit, RulesInit, CardInit, DocsInit
DEF Init, WebContentInv

\* A step is one of the page that is open, which stays open.
LEMMA OnePageRuns ==
    ASSUME [Next]_vars
    PROVE  /\ at' = at
           /\ at = "social" => [Social!Next]_(Social!vars)
           /\ at = "community" => [Community!Next]_(Community!vars)
           /\ at = "chats" => [Chats!Next]_(Chats!vars)
           /\ at = "ticks" => [Ticks!Next]_(Ticks!vars)
           /\ at = "chart" => [Live!Next]_(Live!vars)
           /\ at = "dashboard" => [Dashboard!Next]_(Dashboard!vars)
           /\ at = "presignal" => [PreSignal!Next]_(PreSignal!vars)
           /\ at = "signals" => [Feed!Next]_(Feed!vars)
           /\ at = "intel" => [Intel!Next]_(Intel!vars)
           /\ at = "alerts" => [Rules!Next]_(Rules!vars)
           /\ at = "card" => [Card!Next]_(Card!vars)
           /\ at = "docs" => [Docs!Next]_(Docs!vars)
<1> USE DEF Posting, Reading, Asking, Streaming, Charting, Analysing, Nearing, Listing,
            Judging, Alerting, Carding, Searching
<1>1. CASE UNCHANGED vars
  BY <1>1 DEF vars, soVars, cpVars, chVars, tsVars, lmVars, dbVars, psVars, sfVars, miVars, arVars,
              scVars, dsVars, Social!vars, Community!vars, Chats!vars,
              Ticks!vars, Live!vars,
              Dashboard!vars, PreSignal!vars, Feed!vars, Intel!vars, Rules!vars, Card!vars,
              Docs!vars
<1>2. CASE Next
  BY <1>2 DEF Next
<1> QED BY <1>1, <1>2

LEMMA WebContentKept == WebContentInv /\ [Next]_vars => WebContentInv'
<1> SUFFICES ASSUME WebContentInv, [Next]_vars PROVE WebContentInv'
  OBVIOUS
<1>1. at' = at
  BY OnePageRuns
<1>2. at = "community" => CommunityInv'
  BY OnePageRuns, CommunityStep DEF WebContentInv
<1>3. at = "chats" => ChatsInv'
  BY OnePageRuns, ChatsStep DEF WebContentInv
<1>4. at = "ticks" => TicksInv'
  BY OnePageRuns, TicksStep DEF WebContentInv
<1>5. at = "chart" => LiveInv'
  BY OnePageRuns, LiveStep DEF WebContentInv
<1>6. at = "dashboard" => DashboardInv'
  BY OnePageRuns, DashboardStep DEF WebContentInv
<1>7. at = "presignal" => PreInv'
  BY OnePageRuns, PreStep DEF WebContentInv
<1>8. at = "signals" => FeedInv' /\ ListInv'
  BY OnePageRuns, FeedStep, ListStep DEF WebContentInv, FeedInv
<1>9. at = "intel" => IntelInv'
  BY OnePageRuns, IntelStep DEF WebContentInv
<1>10. at = "alerts" => RulesInv'
  BY OnePageRuns, RulesStep DEF WebContentInv
<1>11. at = "card" => CardInv'
  BY OnePageRuns, CardStep DEF WebContentInv
<1>12. at = "docs" => DocsInv'
  BY OnePageRuns, DocsStep DEF WebContentInv
<1>13. at = "social" => SocialInv' /\ PlacedInv' /\ BlockInv' /\ StoredInv'
  BY OnePageRuns, SocialStep, PlacedStep, BlockStep, StoredStep DEF WebContentInv
<1> QED BY <1>1, <1>2, <1>3, <1>4, <1>5, <1>6, <1>7, <1>8, <1>9, <1>10, <1>11, <1>12, <1>13
        DEF WebContentInv

\* Whatever is clicked, loaded and streamed, the page that is open keeps its invariant:
\* every other theorem about it follows.
THEOREM ContentIsSound == Spec => []WebContentInv
BY WebContentInit, WebContentKept, PTL DEF Spec

\* What the types of a page need beyond its invariant.
TypesInv ==
    /\ at = "chats" => ChatsTypes
    /\ at = "ticks" => TicksTypes
    /\ at = "dashboard" => DashboardCounts
    /\ at = "presignal" => Len(psSession) \in 1..MaxSession
    /\ at = "signals" => FeedTypes
    /\ at = "intel" => miCycles \in Seq(Calls)
    /\ at = "card" => CardTypes

LEMMA TypesInit == Init => TypesInv
<1>1. Intel!Init => miCycles \in Seq(Calls)
  BY DEF Intel!Init
<1> QED BY <1>1, ChatsTypesInit, TicksTypesInit, DashboardCountsInit, PreLengthInit, FeedTypesInit,
           CardTypesInit
        DEF Init, TypesInv

LEMMA TypesKept == WebContentInv /\ TypesInv /\ [Next]_vars => TypesInv'
<1> SUFFICES ASSUME WebContentInv, TypesInv, [Next]_vars PROVE TypesInv'
  OBVIOUS
<1>1. at' = at
  BY OnePageRuns
<1>2. at = "chats" => ChatsTypes'
  BY OnePageRuns, ChatsTypesStep DEF WebContentInv, TypesInv
<1>3. at = "ticks" => TicksTypes'
  BY OnePageRuns, TicksTypesStep DEF WebContentInv, TypesInv
<1>4. at = "dashboard" => DashboardCounts'
  BY OnePageRuns, DashboardCountsStep DEF WebContentInv, TypesInv
<1>5. at = "presignal" => (Len(psSession) \in 1..MaxSession)'
  BY OnePageRuns, PreLengthStep DEF WebContentInv, TypesInv
<1>6. at = "signals" => FeedTypes'
  BY OnePageRuns, FeedTypesStep DEF WebContentInv, TypesInv
<1>7. at = "intel" => miCycles' \in Seq(Calls)
  BY OnePageRuns, IntelTypesStep DEF WebContentInv, TypesInv
<1>8. at = "card" => CardTypes'
  BY OnePageRuns, CardTypesStep DEF WebContentInv, TypesInv
<1> QED BY <1>1, <1>2, <1>3, <1>4, <1>5, <1>6, <1>7, <1>8 DEF TypesInv

\* The page that is open keeps its types, for any lists, prices and bounds: the tick
\* socket counts no more attempts than it lost connections, the store has at most one
\* signal of a symbol for each analysis that was asked for, the signals feed asks for the
\* candles of known symbols only and has one insight in its drawer at most, and the score
\* of a market is between 0 and 100 whatever its readings and its news.
THEOREM ContentKeepsItsTypes == Spec => []PagesAreTyped
<1>1. ASSUME WebContentInv, TypesInv PROVE PagesAreTyped
  <2>1. CASE at = "social"
    BY <1>1, <2>1, SocialIsTyped DEF WebContentInv, PagesAreTyped
  <2>2. CASE at = "community"
    BY <1>1, <2>2 DEF WebContentInv, CommunityInv, PagesAreTyped
  <2>3. CASE at = "chats"
    BY <1>1, <2>3, ChatsAreTyped DEF WebContentInv, TypesInv, PagesAreTyped
  <2>4. CASE at = "ticks"
    BY <1>1, <2>4, TicksAreTyped DEF WebContentInv, TypesInv, PagesAreTyped
  <2>5. CASE at = "chart"
    BY <1>1, <2>5, LiveIsTyped DEF WebContentInv, PagesAreTyped
  <2>6. CASE at = "dashboard"
    BY <1>1, <2>6, DashboardIsTyped DEF WebContentInv, TypesInv, PagesAreTyped
  <2>7. CASE at = "presignal"
    BY <1>1, <2>7 DEF WebContentInv, PreInv, TypesInv, PreSignal!TypeOK, PagesAreTyped
  <2>8. CASE at = "signals"
    BY <1>1, <2>8, FeedIsTyped DEF WebContentInv, TypesInv, PagesAreTyped
  <2>9. CASE at = "intel"
    BY <1>1, <2>9, IntelIsTyped DEF WebContentInv, TypesInv, PagesAreTyped
  <2>10. CASE at = "alerts"
    BY <1>1, <2>10 DEF WebContentInv, RulesInv, RulesTypes, PagesAreTyped
  <2>11. CASE at = "card"
    BY <1>1, <2>11, CardIsTyped DEF WebContentInv, TypesInv, PagesAreTyped
  <2>12. CASE at = "docs"
    BY <1>1, <2>12 DEF WebContentInv, DocsInv, PagesAreTyped
  <2> QED BY <1>1, <2>1, <2>2, <2>3, <2>4, <2>5, <2>6, <2>7, <2>8, <2>9, <2>10, <2>11, <2>12
          DEF WebContentInv
<1> QED BY <1>1, TypesInit, TypesKept, ContentIsSound, PTL DEF Spec

\* However clicks, hydrations, reloads, failing writes and lost requests overlap, a count
\* stays what its flags make it, in the browser and on the server; and as long as no
\* request was lost and none crossed a hydration, a quiet store has what the server has,
\* of every post that is not blocked and of every comment that has its id from the seed
\* or from the server. Of the ids that the tab numbers nothing is said: they are given
\* again after a reload, and the server's seed has one of them (use-social.ts, cid).
THEOREM CountsGoWithFlags == Spec => []CountsMatchFlags
<1>1. WebContentInv => CountsMatchFlags
  BY SocialAgrees DEF WebContentInv, CountsMatchFlags
<1> QED BY <1>1, ContentIsSound, PTL

\* What the user blocked stays blocked for as long as it is listed, through clicks,
\* hydrations and reloads, as long as no request was lost and none crossed a hydration,
\* and through a reload only if the storage had what the store had (persist drops a write
\* that fails, and a sign-out wipes the storage); posts of the tab's own excepted, whose
\* ids start over with a reload (use-social.ts, pid).
THEOREM BlocksAreKept == Spec /\ at = "social" => Social!BlockIsKept
<1>1. at = "social" /\ [Next]_vars => (at = "social")'
  BY OnePageRuns
<1>2. WebContentInv /\ at = "social" /\ [Next]_vars =>
        [~soLapsed' /\ (soUnsaved => soReloads' = soReloads) =>
            \A i \in DOMAIN soLocal.posts, j \in DOMAIN soLocal'.posts :
              soLocal.posts[i].blocked /\ soLocal.posts[i].id.kind # "own"
                /\ soLocal'.posts[j].id = soLocal.posts[i].id
                => soLocal'.posts[j].blocked]_(Social!vars)
  <2> SUFFICES ASSUME WebContentInv, at = "social", [Next]_vars, ~soLapsed',
                      soUnsaved => soReloads' = soReloads
               PROVE  StillBlocked(soLocal.posts, soLocal'.posts)
    BY DEF StillBlocked
  <2> QED BY OnePageRuns, BlockStep DEF WebContentInv
<1> QED BY <1>1, <1>2, ContentIsSound, PTL DEF Spec, Social!BlockIsKept

\* What the user did survives a reload of the tab, whichever requests are under way: who
\* is followed, the comments and, unless the list was empty, the posts. It does not if the
\* last write failed or a sign-out has wiped the storage since, and of a hydration that the
\* reload cuts short the posts it put in the store are lost (use-social.ts, persist, load).
THEOREM ReloadsBringItBack == Spec /\ at = "social" => Social!ReloadKeeps
<1>1. at = "social" /\ [Next]_vars => (at = "social")'
  BY OnePageRuns
<1>2. WebContentInv /\ at = "social" /\ [Next]_vars =>
        [/\ soReloads' # soReloads /\ ~soUnsaved
         /\ \A v \in Visits : soVisit[v].at \notin {"comments", "commented"}
         => /\ soLocal'.following = soLocal.following /\ soLocal'.comments = soLocal.comments
            /\ soLocal.posts # <<>> => soLocal'.posts = soLocal.posts]_(Social!vars)
  <2> SUFFICES ASSUME WebContentInv, at = "social", [Next]_vars, soReloads' # soReloads,
                      ~soUnsaved, \A v \in Visits : soVisit[v].at \notin {"comments", "commented"}
               PROVE  /\ soLocal'.following = soLocal.following
                      /\ soLocal'.comments = soLocal.comments
                      /\ soLocal.posts # <<>> => soLocal'.posts = soLocal.posts
    OBVIOUS
  <2>1. soLocal' = Social!Loaded
    BY OnePageRuns, SocialStep, StoredStep DEF WebContentInv
  <2> QED BY <2>1 DEF WebContentInv, StoredInv, HalfHydrated
<1> QED BY <1>1, <1>2, ContentIsSound, PTL DEF Spec, Social!ReloadKeeps

\* The status says live only of a socket that is open, and of an open one never that it
\* is being connected, whatever a replaced socket still reports (useTickStream).
THEOREM StatusIsTrue == Spec => []StatusFollowsTheSocket
<1>1. WebContentInv => StatusFollowsTheSocket
  BY TicksFollow DEF WebContentInv, StatusFollowsTheSocket
<1> QED BY <1>1, ContentIsSound, PTL

\* A chart shows the candles of the selected market in the selected type, whichever
\* imports and requests end late (PriceChart, useOhlc); with nothing under way the
\* dashboard's list is one that the backend has had of the selected symbol since the page
\* last had reason to ask, whatever runs were recorded whose reply was lost and whoever
\* else analyses there, and each of its panels runs one analysis at a time (useSignals,
\* GenerateAnalysisDialog). The page does not poll: the list need not be the newest.
THEOREM SelectionIsShown == Spec => []ShownIsCurrent
<1>1. WebContentInv => ShownIsCurrent
  BY DashboardShows DEF WebContentInv, LiveInv, ShownIsCurrent
<1> QED BY <1>1, ContentIsSound, PTL

\* An alarm of the pre-signal card has a reference level that the price is near, for any
\* prices, volumes and ranges (detectPreSignal).
THEOREM AlarmsHaveReasons == Spec => []AlarmsAreWarranted
<1>1. WebContentInv => AlarmsAreWarranted
  BY PreAlarms DEF WebContentInv, AlarmsAreWarranted
<1> QED BY <1>1, ContentIsSound, PTL

\* A trend has an average that backs it, and where the price has left both averages
\* behind neither the trend nor the reading contradicts it, for any readings
\* (deriveMarketIntel, biasFromBars).
THEOREM TrendsHaveReasons == Spec => []TrendIsBacked
<1>1. WebContentInv => TrendIsBacked
  BY IntelSays DEF WebContentInv, TrendIsBacked
<1> QED BY <1>1, ContentIsSound, PTL

\* Where the dashboard names a call for a symbol, the feed that lists this symbol as of
\* the same moment names the same one, whatever cycles were stored; the overall bias is
\* that of an agent of the consensus; and with nothing under way the feed lists the
\* selected symbol, unless its request failed, with the candles of the symbols it lists
\* (latestRecommendation, weightedBias, useSignals, useSymbolIntel).
THEOREM PagesNameOneCall == Spec => []CallsAgree
<1>1. WebContentInv => CallsAgree
  <2>1. ASSUME ListInv PROVE Feed!CallsAgree
    BY <2>1, CallsAreTheSame DEF Feed!CallsAgree
  <2> QED BY <2>1, BiasIsBacked DEF WebContentInv, CallsAgree, FeedInv
<1> QED BY <1>1, ContentIsSound, PTL

\* A card and its drawer say the same of a record, and on every card but the Decision
\* Maker's the price stands between its support and its resistance, whatever the market
\* did since (AnalysisCard, AnalysisDetail); nor is a signal posted whose levels do not
\* enclose its entry (PostComposer).
THEOREM CardsAgree == Spec => []CardsHoldTogether
<1>1. WebContentInv => CardsHoldTogether
  BY CardShows, CommunityPosts DEF WebContentInv, CardsHoldTogether
<1> QED BY <1>1, ContentIsSound, PTL

\* "The stop sits on the losing side of entry", "TP1 and TP2 differ": so it is on every
\* card as long as stops are further than a cent from the entry (_levels).
THEOREM FarStopsAreSound ==
    ASSUME StopsAreFar PROVE Spec => [](at = "card" => Card!StripIsSound)
<1>1. WebContentInv => (at = "card" => Card!StripIsSound)
  BY CardShows DEF WebContentInv
<1> QED BY <1>1, ContentIsSound, PTL

\* Enter opens the result that is highlighted, for any results of any query: no list is
\* taken to be longer than another, nor any to have a result at all (DocsSearch).
THEOREM EnterFollows == Spec => []EnterOpensTheHighlight
<1>1. WebContentInv => EnterOpensTheHighlight
  BY DocsHighlights DEF WebContentInv, EnterOpensTheHighlight
<1> QED BY <1>1, ContentIsSound, PTL

\* A reply of the assistant stands right behind its own question, in the list and in the
\* storage, and the history lists a conversation once, whatever is opened, renamed,
\* deleted or left while it is awaited; and unless the last write failed, the storage has
\* the conversations of the page, those of the writes that failed before among them
\* (ZenmuxView.submit, AiView).
THEOREM RepliesHaveTheirPlace == Spec => []RepliesFollowTheirQuestion
<1>1. WebContentInv => RepliesFollowTheirQuestion
  BY ChatsAnswer DEF WebContentInv, RepliesFollowTheirQuestion
<1> QED BY <1>1, ContentIsSound, PTL

\* An alert rule leaves the storage only when its user deletes it, as long as the page is
\* open in one tab (AlertsView).
THEOREM OnlyItsUserDeletes == ASSUME OneTab PROVE Spec => RulesAreKept
<1>1. WebContentInv /\ [Next]_vars =>
        [at = "alerts" => \A r \in arStored :
            (\A x \in arStored' : x.id # r.id) => \E t \in RuleTabs : Rules!Delete(t, r.id)]_arVars
  <2> SUFFICES ASSUME WebContentInv, [Next]_vars, arVars' # arVars, at = "alerts",
                      NEW r \in arStored
               PROVE  Deleted(r)
    BY DEF Deleted
  <2>1. RulesInv /\ Rules!Next
    BY DEF WebContentInv, Next, Posting, Reading, Asking, Streaming, Charting, Analysing,
           Nearing, Listing, Judging, Alerting, Carding, Searching, vars
  <2> QED BY <2>1, OnlyDeleted
<1> QED BY <1>1, ContentIsSound, PTL DEF Spec, RulesAreKept
===============================================================================
