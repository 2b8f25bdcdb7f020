------------------------------- MODULE SignalCard -------------------------------
(* What a card of the signals feed shows of one record, and what its drawer   *)
(* shows. A record keeps the prices of the moment it was made at, the candles *)
(* are those of the moment they were loaded at, and a field that the one does *)
(* not have is taken from the other. Prices are in hundredths of a cent, and  *)
(* the Decision Maker rounds its levels to a cent.                            *)
EXTENDS Integers

CONSTANTS
    Prices,
    Distances,      \* between the entry and the stop that the Risk Manager gives
    MaxMoves        \* bound on the moves of the market

VARIABLES
    market,     \* the last price, and the extremes of the bars before it
    record,     \* the newest record of an agent
    candles,    \* what the page has loaded: the market as it was then, or nothing
    drawer,     \* the record that is open in the drawer, or nothing
    moves

vars == <<market, record, candles, drawer, moves>>

Null == 0
Cent == 100
Markets == {m \in [low : Prices, price : Prices, high : Prices] :
                m.low <= m.price /\ m.price <= m.high}
NoCandles == [low |-> Null, price |-> Null, high |-> Null]
Agents == {"technical_analyst", "news_monitor", "risk_manager", "decision_maker"}

\* Any number of whole cents next to x; which one, where two are as near, is up
\* to the binary fraction.
Rounded(x) == {y \in (x - 50)..(x + 50) : y % Cent = 0}
Sign(side) == IF side = "BUY" THEN 1 ELSE -1
\* entry, take profit and stop of a decision. A veto is worked out as a sale.
Levels(side, entry, distance) ==
    [entry : {entry}, tp1 : Rounded(entry + Sign(side) * distance * 2),
     tp2 : Rounded(entry + Sign(side) * distance * 3),
     stop : Rounded(entry - Sign(side) * distance)]
NoLevels == [entry |-> Null, tp1 |-> Null, tp2 |-> Null, stop |-> Null]
NoRecord ==
    [agent |-> "none", direction |-> "none", price |-> Null, support |-> Null,
     resistance |-> Null, levels |-> NoLevels, sentiment |-> FALSE, indicators |-> FALSE]

-----------------------------------------------------------------------------
\* What is shown of a record r with the candles c. What is read off the candles
\* uses the levels of the symbol's newest record where it has any; that record is
\* a decision, which has none.

or(a, b) == IF a # Null THEN a ELSE b
recommendation(r) ==
    IF r.agent # "decision_maker" THEN "none"
    ELSE IF r.direction = "SKIP" THEN "WAIT" ELSE r.direction
\* The insight's current price: the payload's price, or else its entry.
currentPrice(r) == or(r.price, r.levels.entry)
\* Mutant: the price of the candles goes before that of the record.
NewestPrice(r, c) == or(c.price, currentPrice(r))
PriceShown(r, c) == or(currentPrice(r), c.price)
\* The entry, target and stop are there for a call that has a side.
Strip(r) == IF recommendation(r) \in {"BUY", "SELL"} THEN r.levels ELSE NoLevels
reasonsFromPayload(r) == r.sentiment \/ r.indicators
\* Why: from the candles where there are any, and otherwise from the payload.
Why(r, c) ==
    IF c # NoCandles THEN "candles" ELSE IF reasonsFromPayload(r) THEN "payload" ELSE "none"
Card(r, c) ==
    [resistance |-> or(r.resistance, c.high), current |-> PriceShown(r, c),
     support |-> or(r.support, c.low), strip |-> Strip(r), why |-> Why(r, c)]
\* The drawer has a readout of the candles besides, and the parts of a confidence,
\* which are those of the candles where there are any.
Drawer(r, c) ==
    [resistance |-> or(r.resistance, c.high), current |-> or(currentPrice(r), c.price),
     support |-> or(r.support, c.low), why |-> Why(r, c),
     strip |-> IF recommendation(r) \in {"none", "WAIT"} THEN NoLevels ELSE r.levels,
     readout |-> c # NoCandles, parts |-> IF c # NoCandles THEN "candles" ELSE "confidence"]

-----------------------------------------------------------------------------
Init ==
    /\ market \in Markets /\ record = NoRecord /\ candles = NoCandles
    /\ drawer = NoRecord /\ moves = 0

MarketMoves(m) ==
    /\ m # market /\ moves < MaxMoves /\ moves' = moves + 1 /\ market' = m
    /\ UNCHANGED <<record, candles, drawer>>
Publish(r) == record' = r /\ UNCHANGED <<market, candles, drawer, moves>>
\* The Technical Analyst gives its price, and the extremes of its own bars.
technical_signal(direction) ==
    Publish([NoRecord EXCEPT !.agent = "technical_analyst", !.direction = direction,
             !.price = market.price, !.support = market.low, !.resistance = market.high,
             !.indicators = TRUE])
news_signal(direction) ==
    Publish([NoRecord EXCEPT !.agent = "news_monitor", !.direction = direction,
             !.sentiment = TRUE])
risk_assessment(direction) ==
    Publish([NoRecord EXCEPT !.agent = "risk_manager", !.direction = direction])
trade_decision(side, levels) ==
    Publish([NoRecord EXCEPT !.agent = "decision_maker", !.direction = side,
             !.levels = levels])

CandlesCome ==
    /\ candles' = market /\ UNCHANGED <<market, record, drawer, moves>>
CandlesFail ==
    /\ candles' = NoCandles /\ UNCHANGED <<market, record, drawer, moves>>
View ==
    /\ record # NoRecord /\ drawer = NoRecord /\ drawer' = record
    /\ UNCHANGED <<market, record, candles, moves>>
Close ==
    /\ drawer # NoRecord /\ drawer' = NoRecord /\ UNCHANGED <<market, record, candles, moves>>

Next ==
    \/ \E m \in Markets : MarketMoves(m)
    \/ \E d \in {"BULLISH", "BEARISH"} : technical_signal(d)
    \/ \E d \in {"BULLISH", "BEARISH", "NEUTRAL"} : news_signal(d)
    \/ \E d \in {"APPROVED", "VETO"} : risk_assessment(d)
    \/ \E side \in {"BUY", "SELL", "SKIP"}, distance \in Distances :
        \E levels \in Levels(side, market.price, distance) : trade_decision(side, levels)
    \/ CandlesCome \/ CandlesFail \/ View \/ Close
Spec == Init /\ [][Next]_vars

-----------------------------------------------------------------------------
TypeOK ==
    /\ market \in Markets /\ candles \in Markets \cup {NoCandles}
    /\ record.agent \in Agents \cup {"none"} /\ drawer.agent \in Agents \cup {"none"}

Ordered(x) ==
    (Null \notin {x.support, x.current, x.resistance})
        => x.support <= x.current /\ x.current <= x.resistance
\* The key levels are put together of two moments, that of the record and that of
\* the candles. On the card of every agent but the Decision Maker the price stands
\* between its support and its resistance all the same.
LevelsAreInOrder == recommendation(record) = "none" => Ordered(Card(record, candles))

\* The drawer works out for itself what the card has worked out, and whichever
\* candles come or go, the two say the same of a record.
CardAndDrawerAgree ==
    drawer = record =>
        LET card == Card(record, candles)
        IN \A x \in DOMAIN card : Drawer(drawer, candles)[x] = card[x]

\* Not kept by the code, see the README.
\* The same of the Decision Maker's card, which has an entry and no levels.
CallsAreInOrder == Ordered(Card(record, candles))
\* Not kept by the code, see the README.
\* The overall confidence of the drawer is that of the record, and the parts above
\* it are parts of the same.
PartsAreOfTheWhole == Drawer(drawer, candles).parts = "confidence"
\* Not kept by the code, see the README.
\* "The stop sits on the losing side of entry", "TP1 and TP2 differ".
StripIsSound ==
    LET s == Strip(record) IN
    s # NoLevels =>
        \/ record.direction = "BUY" /\ s.stop < s.entry /\ s.entry < s.tp1 /\ s.tp1 < s.tp2
        \/ record.direction = "SELL" /\ s.stop > s.entry /\ s.entry > s.tp1 /\ s.tp1 > s.tp2
===============================================================================
