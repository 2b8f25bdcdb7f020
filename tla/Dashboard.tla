------------------------------- MODULE Dashboard -------------------------------
(* The dashboard's signals and its Generate AI Analysis panel. The list of    *)
(* signals is fetched for the selected symbol and again when an analysis has  *)
(* ended, and by nothing else: what other customers' cycles, and a run whose  *)
(* reply was lost, put in the backend's list is not waited for. The panel is  *)
(* mounted anew each time it is opened, while the analysis of an earlier      *)
(* panel may still be under way.                                              *)
EXTENDS Integers

CONSTANTS
    Symbols,
    Timeframes,
    Agents,         \* AGENT_MODULES
    MaxPanels,      \* bound on how often the panel is opened
    MaxMoves        \* bound on what the user does

VARIABLES
    market,     \* the selected symbol and timeframe
    server,     \* per symbol, how many analyses the backend has stored
    signals,    \* useSignals: the symbol answered for, its list, and if that failed
    fetches,    \* requests for the list, aborted ones too
    asked,      \* how many the backend had when the list was asked for last
    panel,      \* the mounted panel, and whether it is open
    runs,       \* analyses under way, each with the panel that started it
    closing,    \* panels whose 900 ms after an analysis are running
    stored,     \* pkay.analysis-request: nothing, or one configuration
    filter,     \* the signal history's filter
    closed,     \* who closed the panel last: 0 nobody, a panel's timer, or the User
    moves

vars == <<market, server, signals, fetches, asked, panel, runs, closing, stored, filter, closed,
    moves>>
requests == <<fetches, asked>>

User == -1
NotRead == -1
Panels == 0..MaxPanels
\* The configuration: the agents, and whether more timeframes go along. What is
\* stored without an agent is read back with all of them.
DEFAULT_CONFIG == [agents |-> Agents, multi |-> FALSE]
loadConfig ==
    IF stored = {} THEN DEFAULT_CONFIG
    ELSE LET c == CHOOSE c \in stored : TRUE
         IN IF c.agents = {} THEN [c EXCEPT !.agents = Agents] ELSE c
Unopened ==
    [n |-> 0, open |-> FALSE, market |-> market.symbol, timeframe |-> market.timeframe,
     config |-> DEFAULT_CONFIG, loading |-> FALSE, error |-> FALSE, status |-> "idle"]
\* Mutant: a new request does not abort the one before.
AsksToo(s) == fetches \cup {[symbol |-> s, live |-> TRUE, got |-> NotRead]}
Asks(s) == {[f EXCEPT !.live = FALSE] : f \in fetches}
           \cup {[symbol |-> s, live |-> TRUE, got |-> NotRead]}
Ask(s) == fetches' = Asks(s) /\ asked' = server'[s]

Init ==
    /\ market \in [symbol : Symbols, timeframe : Timeframes]
    /\ server = [s \in Symbols |-> 0] /\ stored = {} /\ filter = "All"
    /\ signals = [of |-> "none", list |-> 0, failed |-> FALSE]
    /\ fetches = {[symbol |-> market.symbol, live |-> TRUE, got |-> NotRead]} /\ asked = 0
    /\ panel = Unopened /\ runs = {} /\ closing = {} /\ closed = 0 /\ moves = 0

Move == moves < MaxMoves /\ moves' = moves + 1
\* Another symbol asks for its list; the old list is shown until it is here.
Selected(m) ==
    /\ market' = m /\ UNCHANGED server
    /\ IF m.symbol = market.symbol THEN UNCHANGED requests ELSE Ask(m.symbol)
Select(m) ==
    /\ m # market /\ Move /\ Selected(m)
    /\ UNCHANGED <<signals, panel, runs, closing, stored, filter, closed>>
FilterHistory(x) ==
    /\ x # filter /\ Move /\ filter' = x
    /\ UNCHANGED <<market, server, signals, requests, panel, runs, closing, stored, closed>>

-----------------------------------------------------------------------------
\* The list of signals. The backend reads it, the answer arrives.

Held == UNCHANGED <<market, server, asked, panel, runs, closing, stored, filter, closed, moves>>
Reads(f) ==
    /\ f.got = NotRead /\ fetches' = (fetches \ {f}) \cup {[f EXCEPT !.got = server[f.symbol]]}
    /\ Held /\ UNCHANGED signals
Answer(f) == [of |-> f.symbol, list |-> f.got, failed |-> FALSE]
Answered(f) ==
    /\ f.got # NotRead /\ fetches' = fetches \ {f} /\ Held
    /\ signals' = IF f.live THEN Answer(f) ELSE signals
\* An error keeps the list of before.
Fails(f) ==
    /\ f.got = NotRead /\ fetches' = fetches \ {f} /\ Held
    /\ signals' = IF f.live THEN [signals EXCEPT !.of = f.symbol, !.failed = TRUE] ELSE signals

-----------------------------------------------------------------------------
\* The panel.

openSignalDialog ==
    /\ ~panel.open /\ panel.n < MaxPanels /\ Move
    /\ panel' = [Unopened EXCEPT !.n = panel.n + 1, !.open = TRUE, !.config = loadConfig]
    /\ UNCHANGED <<market, server, signals, requests, runs, closing, stored, filter, closed>>
Dismiss ==
    /\ panel.open /\ Move /\ panel' = [panel EXCEPT !.open = FALSE] /\ closed' = User
    /\ UNCHANGED <<market, server, signals, requests, runs, closing, stored, filter>>
Edit(p) ==
    /\ panel.open /\ p # panel /\ Move /\ panel' = p
    /\ UNCHANGED <<market, server, signals, requests, runs, closing, stored, filter, closed>>
Choose(m) == Edit([panel EXCEPT !.market = m.symbol, !.timeframe = m.timeframe])
toggleAgent(a) ==
    Edit([panel EXCEPT !.config.agents = IF a \in @ THEN @ \ {a} ELSE @ \cup {a}])
SelectAll == Edit([panel EXCEPT !.config.agents = IF @ = Agents THEN {} ELSE Agents])
MultiTimeframe == Edit([panel EXCEPT !.config.multi = ~@])

\* The configuration is stored if it can be, the market context follows the panel, and
\* the backend is asked for an analysis.
submit ==
    /\ panel.open /\ ~panel.loading /\ panel.config.agents # {} /\ Move
    /\ stored' \in {stored, {panel.config}}
    /\ Selected([symbol |-> panel.market, timeframe |-> panel.timeframe])
    /\ panel' = [panel EXCEPT !.loading = TRUE, !.error = FALSE]
    /\ runs' = runs \cup {[by |-> panel.n, symbol |-> panel.market]}
    /\ UNCHANGED <<signals, closing, filter, closed>>
\* The end of an analysis, which may have failed: run keeps the error to itself,
\* and what follows it is done in either case.
Ended(r, failed) ==
    /\ runs' = runs \ {r} /\ closing' = closing \cup {r.by}
    /\ Ask(market.symbol)
    /\ panel' = IF panel.n # r.by THEN panel
                ELSE [panel EXCEPT !.loading = FALSE, !.error = failed, !.status = "done"]
    /\ UNCHANGED <<market, signals, stored, filter, closed, moves>>
Recorded(s) == [server EXCEPT ![s] = @ + 1]
AnalysisEnds(r) == server' = Recorded(r.symbol) /\ Ended(r, FALSE)
\* It may have been recorded all the same, and only the reply is lost.
AnalysisFails(r) == server' \in {server, Recorded(r.symbol)} /\ Ended(r, TRUE)
\* The backend's store is that of all customers: another one's cycle is recorded, or
\* one of this page's that it has given up.
OthersAnalyse(s) ==
    /\ Move /\ server' = Recorded(s)
    /\ UNCHANGED <<market, signals, requests, panel, runs, closing, stored, filter, closed>>
\* The timer closes the panel that is open, whichever that is.
TimeIsUp(n) ==
    /\ n \in closing /\ closing' = closing \ {n}
    /\ panel' = [panel EXCEPT !.open = FALSE, !.status = IF panel.n = n THEN "idle" ELSE @]
    /\ closed' = IF panel.open THEN n ELSE closed
    /\ UNCHANGED <<market, server, signals, requests, runs, stored, filter, moves>>

Fetches == [symbol : Symbols, live : BOOLEAN, got : {NotRead} \cup 0..MaxMoves]
Next ==
    \/ \E m \in [symbol : Symbols, timeframe : Timeframes] : Select(m) \/ Choose(m)
    \/ \E x \in {"All", "Bullish", "Bearish"} : FilterHistory(x)
    \/ \E f \in Fetches : f \in fetches /\ (Reads(f) \/ Answered(f) \/ Fails(f))
    \/ \E a \in Agents : toggleAgent(a)
    \/ \E s \in Symbols : OthersAnalyse(s)
    \/ openSignalDialog \/ Dismiss \/ SelectAll \/ MultiTimeframe \/ submit
    \/ \E r \in [by : Panels, symbol : Symbols] :
        r \in runs /\ (AnalysisEnds(r) \/ AnalysisFails(r))
    \/ \E n \in Panels : TimeIsUp(n)
\* A request is answered or fails, and timers fire.
Fairness ==
    /\ \A f \in Fetches : WF_vars(f \in fetches /\ (Reads(f) \/ Answered(f) \/ Fails(f)))
    /\ \A r \in [by : Panels, symbol : Symbols] :
        WF_vars(r \in runs /\ (AnalysisEnds(r) \/ AnalysisFails(r)))
    /\ \A n \in Panels : WF_vars(TimeIsUp(n))
Spec == Init /\ [][Next]_vars /\ Fairness

-----------------------------------------------------------------------------
TypeOK ==
    /\ market \in [symbol : Symbols, timeframe : Timeframes]
    /\ server \in [Symbols -> 0..MaxMoves] /\ asked \in 0..MaxMoves /\ closing \subseteq Panels
    /\ closed \in {User} \cup Panels
    /\ panel.config.agents \subseteq Agents /\ panel.status \in {"idle", "done"}

\* When nothing is under way, the list on display is one that the backend has had of
\* the selected symbol since the last selection of a symbol or end of an analysis,
\* whichever analyses ended and requests overlapped meanwhile, unless the last request
\* failed: no answer that was asked for earlier has replaced it.
ListIsCurrent ==
    ({f \in fetches : f.live} = {} /\ runs = {} /\ ~signals.failed)
        => signals.of = market.symbol /\ signals.list \in asked..server[market.symbol]

\* A panel has at most one analysis under way, and knows of it.
OneRunPerPanel ==
    /\ \A r, s \in runs : r.by = s.by => r = s
    /\ \A r \in runs : r.by = panel.n => panel.loading

\* An analysis comes to an end in its panel, and the list that it asked for comes.
AnalysisIsShown ==
    /\ panel.loading ~> ~panel.loading
    /\ {f \in fetches : f.live} # {} ~> {f \in fetches : f.live} = {}

\* Not kept by the code, see the README.
\* When nothing is under way, the list on display is the backend's.
ListIsComplete ==
    ({f \in fetches : f.live} = {} /\ runs = {} /\ ~signals.failed)
        => signals.list = server[market.symbol]
\* Not kept by the code, see the README.
\* "Analysis Complete": the analysis of this panel was made.
CompleteMeansAnalysed == panel.status = "done" => ~panel.error
\* Not kept by the code, see the README.
\* A panel is closed by its user or by its own analysis.
ClosedByItsOwn ==
    [][panel.open /\ ~panel'.open => closed' = User \/ closed' = panel.n]_vars
===============================================================================
