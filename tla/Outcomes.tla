------------------------------- MODULE Outcomes -------------------------------
(***************************************************************************)
(* How the Telegram bot settles the signals of one pair: every signal is   *)
(* stored with a stop and a target, and each time a bar computes to a      *)
(* signal the scanner settles open ones against the newest bar             *)
(* (telegram_bot/scanner.py, _resolve_outcomes; telegram_bot/engine.py,    *)
(* update_signal_outcome).  The performance figures count what it wrote.   *)
(*                                                                         *)
(* Bars are numbered in the order they close; the frame that is scanned    *)
(* ends with the newest one.  The distances of stop and target are         *)
(* constants here, as if the ATR did not change.                           *)
(***************************************************************************)
EXTENDS Integers, FiniteSets, Sequences

CONSTANTS
    Bars,               \* the bars that may come: [low, close, high]
    StopDistance,       \* sl_atr_mult times the ATR
    TargetDistance,     \* tp1_atr_mult times the ATR
    MaxBars             \* bound

ASSUME OutcomesAssumption ==
    /\ Bars \subseteq [low : Nat, close : Nat, high : Nat]
    /\ \A b \in Bars : b.low <= b.close /\ b.close <= b.high
    /\ {StopDistance, TargetDistance} \subseteq Nat \ {0}
    /\ MaxBars \in Nat

VARIABLES
    bars,       \* the bars that have closed
    action,     \* what the newest bar computes to
    signals     \* the signals table

vars == << bars, action, signals >>

Actions == {"BUY", "SELL"}
Quiet == "no signal"
Open == "open"
Win == "win"
Loss == "loss"

\* closedBy is the bar that a signal was settled at, 0 while it is open.
Signal == [bar : 1 .. MaxBars, action : Actions, entry : Nat,
           outcome : {Open, Win, Loss}, closedBy : 0 .. MaxBars]

TypeOK ==
    /\ bars \in Seq(Bars)
    /\ action \in Actions \cup {Quiet}
    /\ signals \subseteq Signal
    /\ \A r \in signals : r.bar <= Len(bars)

Init ==
    /\ bars = << >>
    /\ action = Quiet
    /\ signals = {}

\* A bar closes.
Close ==
    /\ Len(bars) < MaxBars
    /\ \E b \in Bars : bars' = Append(bars, b)
    /\ action' \in Actions \cup {Quiet}
    /\ UNCHANGED signals

----------------------------------------------------------------------------
Newest == Len(bars)

StopHit(signal, b) ==
    IF signal.action = "BUY" THEN b.low <= signal.entry - StopDistance
                             ELSE b.high >= signal.entry + StopDistance

TargetHit(signal, b) ==
    IF signal.action = "BUY" THEN b.high >= signal.entry + TargetDistance
                             ELSE b.low <= signal.entry - TargetDistance

\* Mutant: a bar that reaches both counts for the target.
OutcomeHopeful(signal, b) ==
    IF TargetHit(signal, b) THEN Win ELSE IF StopHit(signal, b) THEN Loss ELSE Open

\* update_signal_outcome
Outcome(signal, b) ==
    IF StopHit(signal, b) THEN Loss ELSE IF TargetHit(signal, b) THEN Win ELSE Open

\* Mutant: the signal is of the bar that is still forming.
ComputedAhead ==
    [bar |-> Newest + 1, action |-> action, entry |-> bars[Newest].close,
     outcome |-> Open, closedBy |-> 0]

\* The signal that compute_signal made of the newest bar.
Computed ==
    [bar |-> Newest, action |-> action, entry |-> bars[Newest].close,
     outcome |-> Open, closedBy |-> 0]

Settled(row, outcome) ==
    [row EXCEPT !.outcome = outcome, !.closedBy = IF outcome = Open THEN 0 ELSE Newest]

\* Mutant: the bar of a signal settles it too.
ResolvedAtOnce(rows) ==
    LET outcome == Outcome(Computed, bars[Newest])
    IN  {IF r.outcome = Open THEN Settled(r, outcome) ELSE r : r \in rows}

\* Mutant: what is settled is settled again.
ResolvedAgain(rows) ==
    LET outcome == Outcome(Computed, bars[Newest])
    IN  {IF r.bar < Newest THEN Settled(r, outcome) ELSE r : r \in rows}

\* _resolve_outcomes: the open rows of earlier bars, each by what becomes of the
\* signal just computed on the newest bar.
Resolved(rows) ==
    LET outcome == Outcome(Computed, bars[Newest])
    IN  {IF r.outcome = Open /\ r.bar < Newest THEN Settled(r, outcome) ELSE r : r \in rows}

Known(signal) == \E r \in signals : r.bar = signal.bar /\ r.action = signal.action

\* A scan of the pair: nothing happens unless the newest bar has a signal.
Scan ==
    /\ Newest > 0 /\ action # Quiet
    /\ signals' = Resolved(signals) \cup IF Known(Computed) THEN {} ELSE {Computed}
    /\ UNCHANGED << bars, action >>

Next == Close \/ Scan

Spec == Init /\ [][Next]_vars

----------------------------------------------------------------------------
(* Properties *)

\* The bar that a signal is computed from never settles it, however often the
\* bar is scanned again (_resolve_outcomes).
OwnBarSettlesNothing ==
    \A r \in signals : r.outcome # Open => r.closedBy > r.bar

\* A row keeps the outcome, and the levels, it was given (open_signals).
OutcomesAreFinal ==
    [][\A r \in signals : r.outcome # Open => r \in signals']_vars

\* No win is written for a bar on which the signal that was judged had met its
\* stop as well: the order within a bar is unknown, and the stop is assumed
\* (update_signal_outcome, lines 521 to 524 of engine.py).
WinsAreCertain ==
    \A r \in signals : r.outcome = Win =>
        \E judged \in Actions :
            LET b == bars[r.closedBy]
                fresh == [bar |-> r.closedBy, action |-> judged, entry |-> b.close,
                          outcome |-> Open, closedBy |-> 0]
            IN  TargetHit(fresh, b) /\ ~StopHit(fresh, b)

\* Settling as a whole: by later bars only, without hopeful wins, and for good.
SettledSoundly == [](OwnBarSettlesNothing /\ WinsAreCertain) /\ OutcomesAreFinal

\* A signal is settled when a later bar reaches the target or the stop that is
\* stored with it (scanner.py, lines 279 to 282).
OutcomesAreEarned ==
    \A r \in signals : r.outcome # Open =>
        LET b == bars[r.closedBy]
        IN  IF r.outcome = Win THEN TargetHit(r, b) ELSE StopHit(r, b)
=============================================================================
