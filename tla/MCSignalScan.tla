----------------------------- MODULE MCSignalScan -----------------------------
EXTENDS SignalScan

\* Bars of one and of two ticks.
TwoTimeframes == {1, 2}
OneTimeframe == {1}
\* The shortest cooldown that still lets every bar be announced.
ShortCooldown == [tf \in Timeframes |-> 1]
\* Two bars: alerts can be spaced, and still too many for the hour.
MiddleCooldown == [tf \in Timeframes |-> 2]
\* As in the defaults, a cooldown is longer than the bars it is for.
LongCooldown == [tf \in Timeframes |-> 3]
=============================================================================
