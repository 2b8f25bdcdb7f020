------------------------------- MODULE SignalFeed -------------------------------
(* The AI Market Analysis feed. The backend stores the four outputs of every  *)
(* analysis cycle; the page lists the newest records of one symbol or of all, *)
(* turns them into insights, filters them, and shows above them the agents'   *)
(* consensus and the trade signal of the Decision Maker. The candles behind   *)
(* the cards are read for the first few symbols of the list.                  *)
EXTENDS Integers, Sequences, FiniteSets, Selection

CONSTANTS
    Symbols,
    Cycles,         \* the cycles that may be stored, see Record
    TIMEFRAME,      \* the timeframe that is selected in the market context
    Minimums,       \* minimum confidences that can be set, in tenths
    FEED_LIMIT,     \* records the feed asks for
    DASH_LIMIT,     \* records the dashboard asks for
    MAX_SYMBOLS,    \* symbols whose candles are read
    MaxCycles,      \* bound on the cycles that are stored
    MaxMoves        \* bound on what the user does

VARIABLES
    store,      \* the backend's cycles, oldest first
    filters,
    signals,    \* useSignals: the symbol, the store's length and the list answered last
    request,    \* the request for the list that has not been aborted
    reads,      \* useSymbolIntel: the symbols whose candles are here, or on their way
    selected,   \* the insight in the drawer, as a sequence of none or one
    moves

vars == <<store, filters, signals, request, reads, selected, moves>>

None == "none"
ANALYSIS_TYPES == {"All", "Technical", "News", "Market Structure", "Sentiment", "AI Consensus"}
AGENT_FILTERS == {"All", "Technical Analyst", "News Monitor", "Market Structure Analyst",
                  "Sentiment Analyst", "AI Consensus"}
SIGNAL_TIMEFRAMES == {"M5", "H1"}

-----------------------------------------------------------------------------
\* The records. Those of a cycle have one time; the newest comes first. A cycle
\* gives the sides of the Technical Analyst and of the news, their confidences,
\* the risk verdict and the Decision Maker's score. News always has a sentiment.

decide(c) == IF ~c.approved THEN "SKIP" ELSE IF c.technical = "BEARISH" THEN "SELL" ELSE "BUY"
Record(c) ==
    LET r(agent, kind, direction, confidence, timeframe) ==
            [symbol |-> c.symbol, time |-> c.time, agent |-> agent, kind |-> kind,
             direction |-> direction, confidence |-> confidence, timeframe |-> timeframe,
             sentiment |-> kind = "news"]
    IN << r("decision_maker", "decision", decide(c), c.score, None),
          r("risk_manager", "risk", IF c.approved THEN "APPROVED" ELSE "VETO",
            IF c.approved THEN 10 ELSE 0, None),
          r("news_monitor", "news", c.news, c.heard, None),
          r("technical_analyst", "technical", c.technical, c.seen, c.timeframe) >>
\* The cycles of the first n that are listed for s.
Of(s, n) == {i \in 1..n : s \in {"all", store[i].symbol}}
Listed(s, n, limit) ==
    LET cycles == Only(store, Of(s, n))
        last == Len(cycles)
        length == IF 4 * last > limit THEN limit ELSE 4 * last
    IN [i \in 1..length |-> Record(cycles[last - (i - 1) \div 4])[1 + ((i - 1) % 4)]]

toBias(direction) ==
    IF direction \in {"BULLISH", "BUY"} THEN "Bullish"
    ELSE IF direction \in {"BEARISH", "SELL"} THEN "Bearish" ELSE "Neutral"
toRecommendation(r) ==
    IF r.agent # "decision_maker" THEN None
    ELSE IF r.direction \in {"BUY", "SELL"} THEN r.direction ELSE "WAIT"
\* News with a sentiment counts as sentiment.
analysisTypeFor(r) ==
    CASE r.kind = "news" -> IF r.sentiment THEN "Sentiment" ELSE "News"
      [] r.kind = "risk" -> "Market Structure" [] r.kind = "decision" -> "AI Consensus"
      [] OTHER -> "Technical"
agentFor(r) ==
    CASE r.kind = "news" -> IF r.sentiment THEN "Sentiment Analyst" ELSE "News Monitor"
      [] r.kind = "risk" -> "Market Structure Analyst" [] r.kind = "decision" -> "AI Consensus"
      [] OTHER -> "Technical Analyst"
toAnalysisInsight(r) ==
    [symbol |-> r.symbol, time |-> r.time, confidence |-> r.confidence,
     timeframe |-> IF r.timeframe = None THEN TIMEFRAME ELSE r.timeframe,
     type |-> analysisTypeFor(r), agent |-> agentFor(r), bias |-> toBias(r.direction),
     recommendation |-> toRecommendation(r)]

-----------------------------------------------------------------------------
\* What is shown.

insights == LET records == signals.list IN [i \in DOMAIN records |-> toAnalysisInsight(records[i])]
Passes(x) ==
    /\ filters.symbol \in {"all", x.symbol} /\ filters.frame \in {"all", x.timeframe}
    /\ filters.type \in {"All", x.type} /\ filters.agent \in {"All", x.agent}
    /\ x.confidence >= filters.min
filtered ==
    LET all == insights IN Only(all, {i \in DOMAIN all : Passes(all[i])})

\* Mutant: the last one wins where times are equal.
NewestLast(xs, pool) ==
    CHOOSE i \in pool : \A j \in pool \ {i} :
        xs[j].time < xs[i].time \/ (xs[j].time = xs[i].time /\ j < i)
\* The position of the newest insight of a pool of positions. The first one wins
\* where times are equal.
Newest(xs, pool) ==
    CHOOSE i \in pool : \A j \in pool \ {i} :
        xs[j].time < xs[i].time \/ (xs[j].time = xs[i].time /\ i < j)
latestRecommendation(xs) ==
    LET calls == {i \in DOMAIN xs : xs[i].recommendation # None}
        directional == {i \in calls : xs[i].recommendation # "WAIT"}
    IN IF calls = {} THEN <<>>
       ELSE <<xs[Newest(xs, IF directional # {} THEN directional ELSE calls)]>>
activeCall == latestRecommendation(insights)

CONSENSUS_SLOTS == {"Technical", "News", "Market Structure", "Sentiment"}
\* The latest insight of each type, and none where there is no such insight.
consensus ==
    LET all == insights
        of(t) == {i \in DOMAIN all : all[i].type = t}
    IN [t \in CONSENSUS_SLOTS |-> IF of(t) = {} THEN <<>> ELSE <<all[Newest(all, of(t))]>>]
\* A bullish insight counts 2, a neutral one 1; 0.55 and 0.45 are 11/20 and 9/20.
Value(bias) == CASE bias = "Bullish" -> 2 [] bias = "Bearish" -> 0 [] OTHER -> 1
weightedBias(slots) ==
    LET inSlots(of(_)) == of("Technical") + of("News") + of("Market Structure") + of("Sentiment")
        part(t) == IF slots[t] = <<>> THEN 0 ELSE slots[t][1].confidence
        total == inSlots(LAMBDA t : IF part(t) = 0 THEN 0 ELSE Value(slots[t][1].bias) * part(t))
        weight == inSlots(part)
    IN IF weight = 0 THEN "Neutral"
       ELSE IF 10 * total >= 11 * weight THEN "Bullish"
       ELSE IF 10 * total <= 9 * weight THEN "Bearish" ELSE "Neutral"
overall == weightedBias(consensus)

\* The dashboard's trade call: the first directional decision of its own list.
tradeCall(s, n) ==
    LET rs == Listed(s, n, DASH_LIMIT)
        directional == {i \in DOMAIN rs :
            rs[i].agent = "decision_maker" /\ rs[i].direction \in {"BUY", "SELL"}}
        first == CHOOSE i \in directional : \A j \in directional : i <= j
    IN IF directional = {} THEN <<>> ELSE <<rs[first].direction, rs[first].time>>

\* The symbols whose candles are asked for: the first few of the list.
Tracked ==
    LET records == signals.list
        seen(i) == {records[j].symbol : j \in 1..i}
    IN UNION {seen(i) : i \in {j \in DOMAIN records : Cardinality(seen(j)) <= MAX_SYMBOLS}}

-----------------------------------------------------------------------------
DEFAULT_FILTERS ==
    [symbol |-> "all", frame |-> TIMEFRAME, type |-> "All", agent |-> "All", min |-> 0]
Asked(s) == [st |-> "asked", symbol |-> s, n |-> 0]
Init ==
    /\ store = <<>> /\ selected = <<>> /\ moves = 0
    /\ \E m \in Minimums : filters = [DEFAULT_FILTERS EXCEPT !.min = m]
    /\ signals = [of |-> None, n |-> 0, list |-> <<>>, failed |-> FALSE] /\ request = Asked("all")
    /\ reads = [here |-> {}, asked |-> {}, waits |-> TRUE]

\* A cycle ends in the backend, in the same millisecond as the last one or later.
record_cycle(c, later) ==
    /\ Len(store) < MaxCycles
    /\ LET last == IF store = <<>> THEN 0 ELSE store[Len(store)].time
           timed == [f \in DOMAIN c \cup {"time"} |-> IF f = "time" THEN last + later ELSE c[f]]
       IN store' = Append(store, timed)
    /\ UNCHANGED <<filters, signals, request, reads, selected, moves>>

Held == UNCHANGED <<store, filters, selected, moves>>
query ==
    /\ request.st = "asked" /\ request' = [request EXCEPT !.st = "read", !.n = Len(store)]
    /\ Held /\ UNCHANGED <<signals, reads>>
\* The list has come. If it makes the page track other symbols, their candles
\* are asked for, and an earlier request for candles is aborted.
Follow == reads' = IF Tracked' = reads.asked THEN reads
                   ELSE [reads EXCEPT !.asked = Tracked', !.waits = TRUE]
Answered ==
    /\ request.st = "read" /\ request' = [request EXCEPT !.st = "here"]
    /\ signals' = [of |-> request.symbol, n |-> request.n, failed |-> FALSE,
                   list |-> Listed(request.symbol, request.n, FEED_LIMIT)]
    /\ Held /\ Follow
\* A request that fails leaves the list of before.
Fails ==
    /\ request.st = "asked" /\ request' = [request EXCEPT !.st = "here"]
    /\ signals' = [signals EXCEPT !.failed = TRUE] /\ Held /\ UNCHANGED reads
\* The candles have come: of every symbol, an empty series where one failed.
CandlesCome ==
    /\ reads.waits /\ reads' = [reads EXCEPT !.here = reads.asked, !.waits = FALSE]
    /\ Held /\ UNCHANGED <<signals, request>>

Choose(f) ==
    /\ f # filters /\ moves < MaxMoves /\ moves' = moves + 1 /\ filters' = f
    /\ request' = IF f.symbol = filters.symbol THEN request ELSE Asked(f.symbol)
    /\ UNCHANGED <<store, signals, reads, selected>>
setSymbol(s) == Choose([filters EXCEPT !.symbol = s])
setFrame(x) == Choose([filters EXCEPT !.frame = x])
setAnalysisType(t) == Choose([filters EXCEPT !.type = t])
setAgent(a) == Choose([filters EXCEPT !.agent = a])
setMinConfidence(m) == Choose([filters EXCEPT !.min = m])
resetFilters == Choose(DEFAULT_FILTERS)
View(i) ==
    /\ selected = <<>> /\ moves < MaxMoves /\ moves' = moves + 1
    /\ LET feed == filtered IN i \in DOMAIN feed /\ selected' = <<feed[i]>>
    /\ UNCHANGED <<store, filters, signals, request, reads>>
Close ==
    /\ selected # <<>> /\ selected' = <<>>
    /\ UNCHANGED <<store, filters, signals, request, reads, moves>>

Next ==
    \/ \E c \in Cycles, later \in {0, 1} : record_cycle(c, later)
    \/ query \/ Answered \/ Fails \/ CandlesCome
    \/ \E s \in Symbols \cup {"all"} : setSymbol(s)
    \/ \E x \in SIGNAL_TIMEFRAMES \cup {"all"} : setFrame(x)
    \/ \E t \in ANALYSIS_TYPES : setAnalysisType(t)
    \/ \E a \in AGENT_FILTERS : setAgent(a)
    \/ \E m \in Minimums : setMinConfidence(m)
    \/ resetFilters \/ Close \/ \E i \in 1..FEED_LIMIT : View(i)
\* Requests end.
Fairness ==
    /\ WF_vars(query \/ Fails) /\ WF_vars(Answered) /\ WF_vars(CandlesCome)
Spec == Init /\ [][Next]_vars /\ Fairness

-----------------------------------------------------------------------------
TypeOK ==
    /\ Len(store) <= MaxCycles /\ signals.n <= Len(store)
    /\ signals.of \in Symbols \cup {"all", None}
    /\ request.st \in {"asked", "read", "here"} /\ reads.here \subseteq Symbols
    /\ reads.asked \subseteq Symbols /\ Len(selected) <= 1

\* The feed and the dashboard work the trade signal out in two ways, from two
\* lists of different lengths. Where the dashboard names a call for a symbol, the
\* feed that lists this symbol as of the same moment names the same one, and so
\* no reader of the two pages is told BUY on one and SELL on the other.
CallsAgree ==
    \A s \in Symbols :
        (signals.of = s /\ tradeCall(s, signals.n) # <<>>)
            => tradeCall(s, signals.n) = <<activeCall[1].recommendation, activeCall[1].time>>

\* The overall bias is never against everybody: it is bullish only where an agent
\* of the consensus is, and bearish only where one is.
OverallIsBacked ==
    \A side \in {"Bullish", "Bearish"} :
        overall = side =>
            \E t \in CONSENSUS_SLOTS :
                consensus[t] # <<>> /\ consensus[t][1].bias = side /\ consensus[t][1].confidence > 0

\* When nothing is under way the list is that of the selected symbol, unless the
\* request failed, and the candles are those of the symbols on display.
FeedIsSettled ==
    /\ request.st = "here" /\ ~signals.failed => signals.of = filters.symbol
    /\ ~reads.waits => reads.here = Tracked

\* A symbol that is picked is answered, or its request fails, and the candles come.
FeedLoads == request.st # "here" ~> request.st = "here" /\ (reads.waits ~> ~reads.waits)

\* Not kept by the code, see the README.
\* The consensus hears the news: once a cycle is listed, the News slot is filled.
NewsIsHeard == insights # <<>> => consensus["News"] # <<>>
\* Not kept by the code, see the README.
\* The trade signal in the header is one of the symbol that is selected.
CallIsOfTheSymbol == activeCall # <<>> => filters.symbol \in {"all", activeCall[1].symbol}
===============================================================================
