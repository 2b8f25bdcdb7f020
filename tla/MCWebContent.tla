---------------------------- MODULE MCWebContent ----------------------------
EXTENDS WebContent

\* The one author that can be followed.
OneTrader == {[kind |-> "trader", n |-> 1]}
\* A histogram far below zero and one above.
SomeHistograms == {-700, 50}
\* The posts that each tab of the community page keeps: all, none, and some.
SomeMatching == [forYou |-> 1..3, following |-> {}, trending |-> {1, 2}]
\* Cycles of the feed: sides of the Technical Analyst and the news, whether the Risk
\* Manager approved, three confidences in tenths.
Cycle(s, t, n, ok, seen, heard, score) ==
    [symbol |-> s, technical |-> t, news |-> n, approved |-> ok, seen |-> seen, heard |-> heard,
     score |-> score, timeframe |-> "H1"]
SomeCycles ==
    {Cycle("XAUUSD", "BULLISH", "BEARISH", TRUE, 4, 9, 5),
     Cycle("XAUUSD", "BEARISH", "NEUTRAL", TRUE, 9, 0, 4),
     Cycle("XAUUSD", "BEARISH", "BEARISH", FALSE, 9, 4, 2),
     Cycle("BTCUSD", "BULLISH", "BULLISH", TRUE, 9, 9, 9)}
\* Analyses of one symbol as the dashboard weighs them, in percent.
Call(call, score, sentiment, heard) ==
    [call |-> call, score |-> score, sentiment |-> sentiment, heard |-> heard]
SomeCalls ==
    {Call("BUY", 70, "BULLISH", 40), Call("SELL", 30, "BEARISH", 90),
     Call("SKIP", 20, "BULLISH", 90)}
\* Queries of the documentation's palette, with more results than none typed, with one,
\* and without any.
SomeMatches ==
    [empty |-> <<"start", "tick">>, e |-> <<"start", "tick", "errors">>, err |-> <<"errors">>,
     none |-> <<>>]
=============================================================================
