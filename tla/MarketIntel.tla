------------------------------ MODULE MarketIntel ------------------------------
(* What the dashboard says of a market: trend, momentum, volatility, volume,  *)
(* the composite score and the structure it gives, the reading of one         *)
(* timeframe, and the headlines that put them beside the agents' calls. The   *)
(* candles stay as they were loaded until another timeframe is selected; the  *)
(* list of signals grows when an analysis has ended. Scores are in points,    *)
(* 100000 for 1.                                                              *)
EXTENDS Integers, Sequences, Functions

CONSTANTS
    Bars,           \* the numbers of candles that may be loaded
    Prices,         \* values of the price and of its averages
    Rsis,
    Histograms,     \* MACD line minus signal line, in hundredths
    AtrRatios,      \* average true range against its median, in percent
    VolumeRatios,   \* volume of the last candle against the mean, in percent
    Cycles,         \* [call, score, sentiment, heard], both numbers in percent
    MaxCycles       \* bound on the analyses of the symbol

VARIABLES
    market,     \* the readings of the candles that are loaded
    cycles      \* the analyses of the symbol, newest first

vars == <<market, cycles>>

Null == -1
Points == 100000
clamp(x, low, high) == IF x < low THEN low ELSE IF x > high THEN high ELSE x
clamp01(x) == clamp(x, 0, Points)
bucket(x, low, high) == IF x < low THEN "Low" ELSE IF x > high THEN "High" ELSE "Medium"

-----------------------------------------------------------------------------
\* An indicator is null until it has enough candles, and then anything.

ema(n, period) == IF n >= period THEN Prices ELSE {Null}
rsi(n) == IF n > 14 THEN Rsis ELSE {Null}
macd(n) == IF n >= 34 THEN Histograms ELSE {Null}
atr(n) == IF n > 14 THEN AtrRatios ELSE {Null}
volumes(n) == IF n > 1 THEN VolumeRatios ELSE {Null}
Readings(n) ==
    [bars : {n}, price : ema(n, 1), ema20 : ema(n, 20), ema50 : ema(n, 50),
     previousEma50 : ema(n, 55), ema200 : ema(n, 200), rsi : rsi(n), histogram : macd(n),
     atr : atr(n), volume : volumes(n)]
NoCandles == CHOOSE m \in Readings(0) : TRUE

\* Mutant: an average that is not there votes as if it were low.
VoteOfNull(a, b, weight) == IF a > b THEN weight ELSE -weight
\* Trend, in hundredths: the price against its averages, and their slope.
Vote(a, b, weight) == IF Null \in {a, b} THEN 0 ELSE IF a > b THEN weight ELSE -weight
trendScore(m) ==
    Vote(m.price, m.ema50, 35) + Vote(m.price, m.ema20, 25) + Vote(m.ema20, m.ema50, 20)
        + Vote(m.price, m.ema200, 20) + Vote(m.ema50, m.previousEma50, 10)
trend(m) ==
    IF trendScore(m) > 20 THEN "Bullish" ELSE IF trendScore(m) < -20 THEN "Bearish" ELSE "Neutral"

\* The histogram as a share of the price, times a factor.
Share(m, factor) ==
    IF m.histogram = Null THEN 0 ELSE (m.histogram * factor * (Points \div 100)) \div m.price
momentumStrength(m) ==
    (IF m.rsi = Null THEN 0 ELSE (m.rsi - 50) * 4000) + clamp(Share(m, 400), -150000, 150000)
momentum(m) ==
    LET s == momentumStrength(m) IN
    IF s >= 140000 \/ s <= -140000 THEN "Strong"
    ELSE IF s >= 60000 \/ s <= -60000 THEN "Moderate" ELSE "Weak"
volatility(m) == IF m.atr = Null THEN "Medium" ELSE bucket(m.atr, 70, 140)
volume(m) == IF m.volume = Null THEN "Medium" ELSE bucket(m.volume, 80, 125)

technicalScore(m) ==
    LET ofRsi == IF m.rsi = Null THEN 50000 ELSE clamp01((m.rsi - 30) * 2500)
        ofMacd == IF m.histogram = Null THEN 50000 ELSE clamp01(50000 + m.histogram * 500)
    IN clamp01((55 * clamp01(50000 + 500 * trendScore(m)) + 25 * ofRsi + 20 * ofMacd) \div 100)
momentumScore(m) == clamp01(50000 + momentumStrength(m) \div 3)
volumeScore(m) == clamp01(50000 + (IF m.volume = Null THEN 0 ELSE (m.volume - 100) * 500))

\* The mean of the news, each weighed by its confidence; half without news.
Mapped(sentiment) == CASE sentiment = "BULLISH" -> 2 [] sentiment = "BEARISH" -> 0 [] OTHER -> 1
sentimentScore(cs) ==
    LET votes == [i \in DOMAIN cs |-> Mapped(cs[i].sentiment) * cs[i].heard * 500]
    IN IF cs = <<>> THEN 50000 ELSE clamp01(SumFunction(votes) \div Len(cs))
score(m, cs) ==
    clamp01((technicalScore(m) + momentumScore(m) + volumeScore(m) + sentimentScore(cs)) \div 4)
structure ==
    LET s == score(market, cycles)
    IN IF s >= 55000 THEN "Bullish" ELSE IF s <= 45000 THEN "Bearish" ELSE "Neutral"

\* The first of the reasons: where the price is.
EmaReason ==
    IF Null \in {market.price, market.ema20, market.ema50} THEN "none"
    ELSE IF market.price > market.ema20 /\ market.price > market.ema50 THEN "above" ELSE "below"
\* The row of an average in the technical readout: "EMA 20" is "Above price".
EmaRow(e) ==
    IF Null \in {market.price, e} THEN "none" ELSE IF market.price > e THEN "Above" ELSE "Below"

\* The reading of a timeframe in the multi-timeframe row.
readScore(m) ==
    50000 + Vote(m.price, m.ema20, 12000) + Vote(m.price, m.ema50, 14000)
        + (IF m.rsi = Null THEN 0
           ELSE (clamp01(((m.rsi - 45) * Points) \div 30) * 14) \div 100 - 7000)
        + clamp(Share(m, 30), -10000, 10000)
biasFromBars(m) ==
    IF m.bars < 30 THEN "Neutral"
    ELSE IF readScore(m) >= 55000 THEN "Bullish"
    ELSE IF readScore(m) <= 45000 THEN "Bearish" ELSE "Neutral"

-----------------------------------------------------------------------------
\* The headlines. The newest record of a symbol is the decision of its newest
\* cycle; the trade call is the newest decision that has a side.

signalBias(call) ==
    CASE call = "BUY" -> "Bullish" [] call = "SELL" -> "Bearish" [] OTHER -> "Neutral"
Sided == SelectSeq(cycles, LAMBDA c : c.call # "SKIP")
\* MarketSummary: the call of one record, the confidence and the age of another.
Summary ==
    IF cycles = <<>> THEN [says |-> "none", confidence |-> Null]
    ELSE [says |-> IF Sided # <<>> THEN signalBias(Sided[1].call) ELSE "Neutral",
          confidence |-> cycles[1].score]
\* AiAnalysisPanel: the newest record, or the structure where there is none.
Panel ==
    IF cycles = <<>> THEN [says |-> structure, confidence |-> score(market, cycles)]
    ELSE [says |-> signalBias(cycles[1].call), confidence |-> cycles[1].score]
MomentumTone ==
    IF momentum(market) = "Weak" THEN "flat" ELSE IF structure = "Bullish" THEN "bull" ELSE "bear"

-----------------------------------------------------------------------------
Init == market = NoCandles /\ cycles = <<>>
CandlesCome(m) == market.bars = 0 /\ market' = m /\ UNCHANGED cycles
SelectTimeframe == market.bars > 0 /\ market' = NoCandles /\ UNCHANGED cycles
AnalysisEnds(c) ==
    Len(cycles) < MaxCycles /\ cycles' = <<c>> \o cycles /\ UNCHANGED market
Next ==
    \/ \E n \in Bars : \E m \in Readings(n) : CandlesCome(m)
    \/ SelectTimeframe \/ \E c \in Cycles : AnalysisEnds(c)
Spec == Init /\ [][Next]_vars

-----------------------------------------------------------------------------
TypeOK ==
    /\ market.bars \in Bars \cup {0} /\ cycles \in Seq(Cycles)
    /\ score(market, cycles) \in 0..Points

\* The trend and the reading of a timeframe are worked out by two functions with
\* weights of their own. Where the price has left both averages behind, neither
\* contradicts it, whatever the slope, the momentum and the long average vote.
ReadsFollowTheAverages ==
    (Null \notin {market.ema20, market.ema50}) =>
        /\ (market.price > market.ema20 /\ market.price > market.ema50)
            => biasFromBars(market) = "Bullish" /\ trend(market) # "Bearish"
        /\ (market.price < market.ema20 /\ market.price < market.ema50)
            => biasFromBars(market) = "Bearish" /\ trend(market) # "Bullish"

\* No trend without an average: it is bullish only where the price is above one of
\* its two short averages, and bearish only where it is not above one of them.
TrendIsBacked ==
    LET above(e) == e # Null /\ market.price > e
        under(e) == e # Null /\ market.price <= e
    IN /\ trend(market) = "Bullish" => above(market.ema20) \/ above(market.ema50)
       /\ trend(market) = "Bearish" => under(market.ema20) \/ under(market.ema50)

\* Not kept by the code, see the README.
\* "Every bullet is derived from a computed value, never invented": below both
\* averages is said only where the price is.
ReasonsAreTrue ==
    EmaReason = "below" => market.price <= market.ema20 /\ market.price <= market.ema50
EmaRowsAreTrue ==
    \A e \in {market.ema20, market.ema50} : EmaRow(e) = "Above" => e > market.price
\* Not kept by the code, see the README.
\* The headline's call and its confidence are those of one decision.
HeadlineIsOneRecord ==
    \A c \in {"Bullish", "Bearish"} : Summary.says = c => signalBias(cycles[1].call) = c
\* Not kept by the code, see the README.
\* The two headlines of the dashboard say the same.
HeadlinesAgree == cycles # <<>> => Summary.says = Panel.says
\* Not kept by the code, see the README.
\* Good news does not make the market worse.
GoodNewsHelps ==
    [][\A c \in Cycles : AnalysisEnds(c) /\ c.sentiment = "BULLISH"
        => score(market', cycles') >= score(market, cycles)]_vars
\* Not kept by the code, see the README.
\* An arrow that points down stands for a momentum that does.
ArrowsAreTrue == MomentumTone = "bear" => momentumStrength(market) < 0
===============================================================================
