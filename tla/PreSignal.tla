------------------------------- MODULE PreSignal -------------------------------
(* The warning drawn on every chart: how near the last close is to the two    *)
(* reference levels of the day, the volume-weighted average price (BE) and    *)
(* the opening price (OP), measured in average true ranges. The chart gets a  *)
(* new candle, the last candle is revised by the next poll, and with a new    *)
(* UTC day the session starts again.                                          *)
EXTENDS Integers, Sequences, FiniteSets, Functions

CONSTANTS
    Prices,
    Volumes,
    Ranges,         \* values of the average true range
    MIN_BARS,       \* candles below which nothing is classified
    MaxSession      \* bound on the candles of a day

VARIABLES
    candles,        \* the number of candles on the chart, counted up to MIN_BARS
    session,        \* the candles of the last one's UTC day, oldest first
    atr

vars == <<candles, session, atr>>

Bar == {b \in [open : Prices, high : Prices, low : Prices, close : Prices, volume : Volumes] :
            b.low <= b.open /\ b.low <= b.close /\ b.high >= b.open /\ b.high >= b.close}
Init ==
    /\ candles \in 1..MIN_BARS /\ session \in [{1} -> Bar] /\ atr \in Ranges

Counted == IF candles < MIN_BARS THEN candles + 1 ELSE candles
NewBar(b) ==
    /\ Len(session) < MaxSession
    /\ session' = Append(session, b) /\ candles' = Counted /\ atr' \in Ranges
\* The poll revises the open candle; what it opened at stays.
Revise(b) ==
    /\ b.open = session[Len(session)].open
    /\ session' = [session EXCEPT ![Len(session)] = b] /\ atr' \in Ranges /\ UNCHANGED candles
NewDay(b) == session' = <<b>> /\ candles' = Counted /\ atr' \in Ranges

-----------------------------------------------------------------------------
\* detectPreSignal. Prices are fractions with the denominator Scale, so that the
\* average needs no division.

ready == candles >= MIN_BARS
Volume == SumFunction([i \in DOMAIN session |-> session[i].volume])
PriceVolume ==
    SumFunction([i \in DOMAIN session |->
        (session[i].high + session[i].low + session[i].close) * session[i].volume])
Scale == IF Volume > 0 THEN 3 * Volume ELSE 1
lastClose == session[Len(session)].close * Scale
openingPrice == Head(session).open * Scale
\* Without volume the average falls back on the opening price.
vwap == IF Volume > 0 THEN PriceVolume ELSE openingPrice
Distance(price) == IF price > lastClose THEN price - lastClose ELSE lastClose - price

BE == [key |-> "be", price |-> vwap]
OP == [key |-> "op", price |-> openingPrice]
\* The sort compares b with a: the greater distance comes first.
zones == IF Distance(OP.price) > Distance(BE.price) THEN <<OP, BE>> ELSE <<BE, OP>>
nearest == Head(zones)
Within(n) == atr > 0 /\ Distance(nearest.price) <= n * atr * Scale
\* Mutant: a level is crossed from above.
crossedDown == lastClose <= nearest.price
crossed == lastClose >= nearest.price
Severity == Cardinality({n \in 1..3 : Within(n)})
level == IF ~ready THEN 0 ELSE IF Severity = 3 /\ crossed THEN 4 ELSE Severity
\* Neutral within a quarter of the range.
direction ==
    IF ~ready \/ 4 * Distance(nearest.price) < atr * Scale THEN "neutral"
    ELSE IF lastClose > nearest.price THEN "bullish" ELSE "bearish"

Next == \E b \in Bar : NewBar(b) \/ Revise(b) \/ NewDay(b)
Spec == Init /\ [][Next]_vars

-----------------------------------------------------------------------------
TypeOK ==
    /\ candles \in 1..MIN_BARS /\ session \in Seq(Bar) /\ atr \in Ranges
    /\ Len(session) \in 1..MaxSession

\* No alarm without a cause: READY and ACTION are shown only when the close is
\* within one range of a reference level, PREPARE within two, WATCH within three,
\* and ACTION only at or above one of them, never as a bearish approach.
AlarmsAreWarranted ==
    level > 0 =>
        /\ \E z \in {BE, OP} :
            Distance(z.price) <= (IF level = 4 THEN 1 ELSE 4 - level) * atr * Scale
        /\ level = 4 => direction # "bearish" /\ \E z \in {BE, OP} : lastClose >= z.price

\* Not kept by the code, see the README.
\* "The zone price is currently closest to."
NearestIsNearest == ready => \A z \in {BE, OP} : Distance(nearest.price) <= Distance(z.price)

\* Not kept by the code, see the README.
\* "True when price has crossed the nearest zone": the close of the candle before
\* was on the other side of it.
CrossedMeansCrossed ==
    (ready /\ level = 4 /\ Len(session) > 1)
        => session[Len(session) - 1].close * Scale <= nearest.price
===============================================================================
