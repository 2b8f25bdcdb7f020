------------------------------ MODULE SignalScan ------------------------------
(***************************************************************************)
(* The scans of the Telegram bot: per timeframe a cron job                 *)
(* (telegram_bot/scheduler.py) runs a pass of the scanner                  *)
(* (telegram_bot/scanner.py) over the symbols and broadcasts what it       *)
(* decided to announce (telegram_bot/app.py) to the subscribers.           *)
(*                                                                         *)
(* The jobs share one event loop and one SQLite database.  A pass awaits   *)
(* each fetch and a broadcast awaits each message; what happens in between *)
(* is one step.  The database survives a restart, a pass does not.         *)
(*                                                                         *)
(* A timeframe is the length of its bars in ticks, and a bar is named by   *)
(* the time it closes.  Of the market only the signal that each bar        *)
(* computes to is kept.  The broadcast gate is passed by every signal:     *)
(* none is computed below a confidence of 0.60, and the gate asks for 0.40.*)
(***************************************************************************)
EXTENDS Integers, SequencesExt, FiniteSetsExt

CONSTANTS
    Symbols, Timeframes, Actions, Chats,
    Blocked,            \* the chats that have blocked the bot
    Cooldown,           \* per timeframe, in ticks
    MaxPerHour, Hour,   \* the cap, and the window it is about
    QuietTimes,         \* ticks in which nothing is to be sent
    WindowCandles,      \* confluence window, in bars
    FeedMayLag,         \* whether the feed can be one bar late
    WritesMayFail,      \* whether the database can refuse a row
    ErrorsMayEscape,    \* whether a pair can fail other than in its fetch
    MaxTime, MaxRestarts \* bounds

ASSUME ScanAssumption ==
    /\ Timeframes \subseteq Nat \ {0}
    /\ Blocked \subseteq Chats
    /\ Cooldown \in [Timeframes -> Nat]
    /\ {MaxPerHour, Hour, WindowCandles} \subseteq Nat \ {0}
    /\ QuietTimes \subseteq Nat
    /\ {MaxTime, MaxRestarts} \subseteq Nat
    /\ {FeedMayLag, WritesMayFail, ErrorsMayEscape} \subseteq BOOLEAN

VARIABLES
    now,            \* the clock
    market,         \* per pair, what each closed bar computes to
    signals,        \* the signals table
    subscribers,    \* the chats that are subscribed, in the database too
    passes,         \* per timeframe, what its job is doing
    fired,          \* per timeframe, when its job was last due and started
    heard,          \* history: what reached each chat
    announced,      \* history: the signals handed to delivery
    withheld,       \* history: the signals suppressed outside quiet hours
    restarts

vars == << now, market, signals, subscribers, passes, fired, heard, announced, withheld, restarts >>

Quiet == "no signal"
Pairs == Symbols \X Timeframes

Idle == [at |-> "idle"]
Signal == [symbol : Symbols, timeframe : Timeframes, bar : Nat \ {0}, action : Actions, sentAt : Nat]
Confluence == [symbol : Symbols, action : Actions, timeframes : SUBSET Timeframes, trigger : Nat]
Alert == Signal \cup Confluence
\* now_ts is read once per pass; the symbols still to fetch; what to deliver.
Scanning == [at : {"scanning"}, since : Nat, todo : SUBSET Symbols,
             delivered : Seq(Signal), confluences : Seq(Confluence)]
\* The alerts to broadcast, and the chats that the first has yet to go to.
Sending == [at : {"sending"}, alerts : Seq(Alert), targets : SUBSET Chats]

TypeOK ==
    /\ now \in Nat
    /\ market \in [Pairs -> Seq(Actions \cup {Quiet})]
    /\ signals \subseteq Signal
    /\ subscribers \subseteq Chats
    /\ passes \in [Timeframes -> {Idle} \cup Scanning \cup Sending]
    /\ fired \in [Timeframes -> Nat]
    /\ heard \in [Chats -> Seq(Alert)]
    /\ announced \subseteq Signal
    /\ withheld \subseteq Signal
    /\ restarts \in Nat

Init ==
    /\ now = 0
    /\ market = [p \in Pairs |-> << >>]
    /\ signals = {}
    /\ subscribers = {}
    /\ passes = [tf \in Timeframes |-> Idle]
    /\ fired = [tf \in Timeframes |-> 0]
    /\ heard = [c \in Chats |-> << >>]
    /\ announced = {}
    /\ withheld = {}
    /\ restarts = 0

\* Time passes, and the bars that end then close.
Tick ==
    /\ now < MaxTime
    /\ now' = now + 1
    /\ \E computed \in [Pairs -> Actions \cup {Quiet}] :
        market' = [p \in Pairs |-> IF now' % p[2] = 0 THEN Append(market[p], computed[p])
                                   ELSE market[p]]
    /\ UNCHANGED << signals, subscribers, passes, fired, heard, announced, withheld, restarts >>

----------------------------------------------------------------------------
(* What the scanner asks of the database *)

Of(s, tf) == {r \in signals : r.symbol = s /\ r.timeframe = tf}

\* Mutant: only the newest row of the pair is looked at.
KnownNewest(signal) ==
    LET rows == Of(signal.symbol, signal.timeframe)
    IN  \E r \in rows : r.sentAt = signal.sentAt /\ r.action = signal.action

\* Database.has_signal
Known(signal) ==
    \E r \in Of(signal.symbol, signal.timeframe) : r.bar = signal.bar /\ r.action = signal.action

\* Mutant: the cooldown is over a bar early.
CoolingEarly(s, tf, at) == \E r \in Of(s, tf) : at - r.bar < Cooldown[tf] - tf

\* Database.last_signal_time, against the pair's cooldown.
Cooling(s, tf, at) ==
    LET rows == Of(s, tf)
    IN  rows # {} /\ at - Max({r.bar : r \in rows}) < Cooldown[tf]

\* Mutant: the window leaves out its first tick.
CappedLate(s, tf, at) == Cardinality({r \in Of(s, tf) : r.sentAt > at - Hour}) >= MaxPerHour

\* Database.count_signals_for_pair_since, against the cap.
Capped(s, tf, at) == Cardinality({r \in Of(s, tf) : r.sentAt >= at - Hour}) >= MaxPerHour

\* Mutant: any direction counts as agreement.
AgreeingAnyway(rows, signal) ==
    {r \in rows : /\ r.symbol = signal.symbol
                  /\ r.timeframe <= signal.timeframe
                  /\ r.bar \in signal.sentAt - signal.timeframe * WindowCandles .. signal.sentAt}

\* detect_confluence: recent rows of the symbol and the action, on timeframes
\* that are no coarser than the one of the signal.
Agreeing(rows, signal) ==
    {r \in rows : /\ r.symbol = signal.symbol
                  /\ r.action = signal.action
                  /\ r.timeframe <= signal.timeframe
                  /\ r.bar \in signal.sentAt - signal.timeframe * WindowCandles .. signal.sentAt}

Confluences(rows, signal) ==
    LET agreeing == {r.timeframe : r \in Agreeing(rows, signal)}
    IN  IF Cardinality(agreeing) < 2 THEN << >>
        ELSE << [symbol |-> signal.symbol, action |-> signal.action,
                 timeframes |-> agreeing, trigger |-> signal.sentAt] >>

----------------------------------------------------------------------------
(* A pass *)

\* The job of a timeframe is due when its bars close, and never runs twice at once.
Fire(tf) ==
    /\ passes[tf] = Idle
    /\ now % tf = 0 /\ fired[tf] < now
    /\ fired' = [fired EXCEPT ![tf] = now]
    /\ passes' = [passes EXCEPT ![tf] =
        [at |-> "scanning", since |-> now, todo |-> Symbols, delivered |-> << >>, confluences |-> << >>]]
    /\ UNCHANGED << now, market, signals, subscribers, heard, announced, withheld, restarts >>

\* Bot.broadcast reads its targets once per message.
Broadcast(alerts) ==
    IF alerts = << >> \/ subscribers = {} THEN Idle
    ELSE [at |-> "sending", alerts |-> alerts, targets |-> subscribers]

\* A pair is done.  After the last one the results are delivered, the signals
\* before the confluences, and only if there is a signal.
Proceed(tf, s, delivered, confluences) ==
    LET pass == passes[tf]
        todo == pass.todo \ {s}
    IN  passes' = [passes EXCEPT ![tf] =
            IF todo = {} THEN Broadcast(delivered \o confluences)
            ELSE [pass EXCEPT !.todo = todo, !.delivered = delivered, !.confluences = confluences]]

Scans(tf, s) == passes[tf].at = "scanning" /\ s \in passes[tf].todo

\* The newest bar of the pair's frame that had closed when the pass began.
NewestBars(tf) ==
    LET newest == passes[tf].since \div tf
    IN  {newest} \cup IF FeedMayLag THEN {newest - 1} ELSE {}

\* Mutant: a bar is named by the time it opened.
ComputedByOpening(tf, s) ==
    {[symbol |-> s, timeframe |-> tf, bar |-> (n - 1) * tf, action |-> market[<< s, tf >>][n],
      sentAt |-> passes[tf].since] :
        n \in {m \in NewestBars(tf) : m > 0 /\ market[<< s, tf >>][m] # Quiet}}

\* What compute_signal makes of one of them, named by the time it closed.
Computed(tf, s) ==
    {[symbol |-> s, timeframe |-> tf, bar |-> n * tf, action |-> market[<< s, tf >>][n],
      sentAt |-> passes[tf].since] :
        n \in {m \in NewestBars(tf) : m > 0 /\ market[<< s, tf >>][m] # Quiet}}

\* The fetch failed, or the bar is unknown, quiet or already in the table.
Ignore(tf, s) ==
    /\ Scans(tf, s)
    /\ Proceed(tf, s, passes[tf].delivered, passes[tf].confluences)
    /\ UNCHANGED << now, market, signals, subscribers, fired, heard, announced, withheld, restarts >>

\* _suppression_reason
InQuietHour(signal) == signal.sentAt \in QuietTimes
Held(signal) ==
    \/ Cooling(signal.symbol, signal.timeframe, signal.sentAt)
    \/ Capped(signal.symbol, signal.timeframe, signal.sentAt)

\* _record: a row that cannot be written is logged and forgotten.
Recorded(signal) ==
    \/ signals' = signals \cup {signal}
    \/ /\ WritesMayFail
       /\ signals' = signals

Withhold(tf, s) ==
    /\ Scans(tf, s)
    /\ \E signal \in Computed(tf, s) :
        /\ ~Known(signal)
        /\ InQuietHour(signal) \/ Held(signal)
        /\ Recorded(signal)
        /\ withheld' = IF InQuietHour(signal) THEN withheld ELSE withheld \cup {signal}
    /\ Proceed(tf, s, passes[tf].delivered, passes[tf].confluences)
    /\ UNCHANGED << now, market, subscribers, fired, heard, announced, restarts >>

Announce(tf, s) ==
    /\ Scans(tf, s)
    /\ \E signal \in Computed(tf, s) :
        /\ ~Known(signal)
        /\ ~InQuietHour(signal) /\ ~Held(signal)
        /\ Recorded(signal)
        /\ announced' = announced \cup {signal}
        /\ Proceed(tf, s, Append(passes[tf].delivered, signal),
                   passes[tf].confluences \o Confluences(signals', signal))
    /\ UNCHANGED << now, market, subscribers, fired, heard, withheld, restarts >>

\* An error that is not one of the fetch ends the job.
Break(tf) ==
    /\ ErrorsMayEscape
    /\ passes[tf].at = "scanning"
    /\ passes' = [passes EXCEPT ![tf] = Idle]
    /\ UNCHANGED << now, market, signals, subscribers, fired, heard, announced, withheld, restarts >>

----------------------------------------------------------------------------
(* The broadcast *)

\* Mutant: a chat that cannot be reached is tried again.
RemainingTargets(pass, c, reached) == IF reached THEN pass.targets \ {c} ELSE pass.targets

\* A message that fails is logged and its chat skipped.
Remaining(pass, c, reached) == pass.targets \ {c}

Send(tf, c, reached) ==
    /\ passes[tf].at = "sending" /\ c \in passes[tf].targets
    /\ reached => c \notin Blocked
    /\ LET pass == passes[tf]
           left == Remaining(pass, c, reached)
       IN  /\ heard' = IF reached THEN [heard EXCEPT ![c] = Append(@, Head(pass.alerts))] ELSE heard
           /\ passes' = [passes EXCEPT ![tf] =
                IF left = {} THEN Broadcast(Tail(pass.alerts)) ELSE [pass EXCEPT !.targets = left]]
    /\ UNCHANGED << now, market, signals, subscribers, fired, announced, withheld, restarts >>

Subscribe(c) ==
    /\ subscribers' = subscribers \cup {c}
    /\ UNCHANGED << now, market, signals, passes, fired, heard, announced, withheld, restarts >>

Unsubscribe(c) ==
    /\ subscribers' = subscribers \ {c}
    /\ UNCHANGED << now, market, signals, passes, fired, heard, announced, withheld, restarts >>

\* The process dies and is started again: its jobs and their results are gone.
Restart ==
    /\ restarts < MaxRestarts
    /\ restarts' = restarts + 1
    /\ passes' = [tf \in Timeframes |-> Idle]
    /\ UNCHANGED << now, market, signals, subscribers, fired, heard, announced, withheld >>

Work(tf) ==
    \/ \E s \in Symbols : Ignore(tf, s) \/ Withhold(tf, s) \/ Announce(tf, s)
    \/ \E c \in Chats, reached \in BOOLEAN : Send(tf, c, reached)

Next ==
    \/ Tick
    \/ \E tf \in Timeframes : Fire(tf) \/ Work(tf) \/ Break(tf)
    \/ \E c \in Chats : Subscribe(c) \/ Unsubscribe(c)
    \/ Restart

Spec == Init /\ [][Next]_vars

\* Fetches and messages end: both have timeouts.
FairSpec == Spec /\ \A tf \in Timeframes : WF_vars(Work(tf))

----------------------------------------------------------------------------
(* Properties *)

IsSignal(alert) == "bar" \in DOMAIN alert
SamePair(a, b) == a.symbol = b.symbol /\ a.timeframe = b.timeframe
SameBar(a, b) == SamePair(a, b) /\ a.bar = b.bar /\ a.action = b.action

\* No chat hears of the same bar twice, through late bars, overlapping passes
\* and restarts (has_signal; test_a_re_scan_of_the_same_bar_does_not_restate_the_signal).
AnnouncedOnce ==
    \A c \in Chats : \A i, j \in DOMAIN heard[c] :
        IsSignal(heard[c][i]) /\ IsSignal(heard[c][j]) /\ SameBar(heard[c][i], heard[c][j]) => i = j

\* The alerts of a pair that are in the table.
Stored(pairOf) == {a \in announced \cap signals : SamePair(a, pairOf)}

\* After an alert that is on record its pair is silent until a cooldown has gone
\* by since the bar that it was about, whatever was stored, withheld or could not
\* be written in between (_suppression_reason).
AlertsAreSpaced ==
    \A b \in announced : \A a \in Stored(b) :
        a.sentAt < b.sentAt => b.sentAt - a.bar >= Cooldown[a.timeframe]

\* An alert and the recorded ones of its pair in the hour before it, both ends
\* included, are never more than the cap allows (count_signals_for_pair_since).
HourlyCapHolds ==
    \A last \in announced :
        Cardinality({last} \cup {a \in Stored(last) : a.sentAt \in last.sentAt - Hour .. last.sentAt})
            <= MaxPerHour

\* The pair's two limits on alerts: their distance, and their number in an hour.
AlertsAreLimited == AlertsAreSpaced /\ HourlyCapHolds

\* What a chat hears was decided by a pass and is in the table, and a confluence
\* has at least two timeframes of its symbol that computed the same action from
\* bars within its window (detect_confluence, has_signal).
AlertsAreOnRecord ==
    \A c \in Chats : \A i \in DOMAIN heard[c] :
        LET alert == heard[c][i]
        IN  IF IsSignal(alert) THEN alert \in announced /\ alert \in signals
            ELSE /\ Cardinality(alert.timeframes) >= 2
                 /\ \A tf \in alert.timeframes :
                      \E r \in signals : /\ r.symbol = alert.symbol /\ r.timeframe = tf
                                         /\ r.action = alert.action
                                         /\ r.bar <= alert.trigger
                                         /\ r.bar >= alert.trigger - Max(alert.timeframes) * WindowCandles

\* What a chat hears of a bar it hears once, and what it hears is in the table.
HeardIsSound == AnnouncedOnce /\ AlertsAreOnRecord

\* A pass and its broadcast come to an end, so that no timeframe is silenced by
\* max_instances, whichever chats cannot be reached (_run_scan, broadcast).
PassesEnd == \A tf \in Timeframes : passes[tf] # Idle ~> passes[tf] = Idle

\* Outside quiet hours a signal is withheld only for what the pair has already
\* sent (scanner.py, lines 236 to 238).
HeldForWhatWasSent ==
    \A w \in withheld :
        LET sent == {a \in announced : SamePair(a, w) /\ a.sentAt <= w.sentAt}
        IN  \/ \E a \in sent : w.sentAt - a.bar < Cooldown[w.timeframe]
            \/ Cardinality({a \in sent : a.sentAt >= w.sentAt - Hour}) >= MaxPerHour

\* No automatic alert is sent in a quiet hour (defaults.py, lines 33 and 34).
QuietHoursAreQuiet == [][heard' # heard => now \notin QuietTimes]_vars

\* A pair that fails does not end its pass (scanner.py, lines 138 and 139).
PassesAreComplete ==
    [][\A tf \in Timeframes :
        passes[tf].at = "scanning" /\ passes'[tf] = Idle /\ restarts' = restarts
            => Cardinality(passes[tf].todo) = 1]_vars
=============================================================================
