------------------------------ MODULE TickStream ------------------------------
(* The market context's list of symbols and its tick socket: the socket is    *)
(* dialled for the list, dialled again after a delay when it closes, and      *)
(* replaced when the backend's answer to the health request names another     *)
(* list. The page keeps the ticks and shows a status.                         *)
EXTENDS Integers

CONSTANTS
    DEFAULT_SYMBOLS,    \* the symbols before the backend has named its own
    Served,             \* the symbols it names
    MaxDrops,           \* bound on the connections that fail or break
    MaxMoves            \* bound on the symbols that are selected

VARIABLES
    market,     \* the context: symbols, symbol, and the health request
    socket,     \* the socket, the retries, and the status that is displayed
    late,       \* a socket that was closed for another list, as it was then
    ticks,      \* the symbols with a tick
    drops, moves

vars == <<market, socket, late, ticks, drops, moves>>

None == "none"
Symbols == DEFAULT_SYMBOLS \cup Served
Init ==
    /\ \E s \in DEFAULT_SYMBOLS :
        market = [symbols |-> DEFAULT_SYMBOLS, symbol |-> s, health |-> "asked"]
    /\ socket = [st |-> "opening", attempt |-> 0, status |-> "connecting"]
    /\ late = None /\ ticks = {} /\ drops = 0 /\ moves = 0

-----------------------------------------------------------------------------
\* The socket.

Kept == UNCHANGED <<market, late, moves>>
Dialled(s) == [s EXCEPT !.st = "opening",
                        !.status = IF s.attempt = 0 THEN "connecting" ELSE "reconnecting"]
Opens ==
    /\ socket.st = "opening" /\ socket' = [st |-> "open", attempt |-> 0, status |-> "live"]
    /\ Kept /\ UNCHANGED <<ticks, drops>>
\* onclose; where onerror goes before it, its status is overwritten.
Closes ==
    /\ socket.st \in {"opening", "open"} /\ drops < MaxDrops /\ drops' = drops + 1
    /\ socket' = [st |-> "waiting", attempt |-> socket.attempt + 1, status |-> "reconnecting"]
    /\ Kept /\ UNCHANGED ticks
\* The delay is over: 2 s, 4 s, 8 s and then 15 s.
Retries ==
    /\ socket.st = "waiting" /\ socket' = Dialled(socket) /\ Kept /\ UNCHANGED <<ticks, drops>>
Frame(new, status) ==
    /\ socket.st = "open" /\ ticks' = new /\ socket' = [socket EXCEPT !.status = status]
    /\ Kept /\ UNCHANGED drops
Snapshot == Frame(market.symbols, socket.status)
Tick(s) == s \in market.symbols /\ Frame(ticks \cup {s}, socket.status)
ErrorFrame == Frame(ticks, "error")

-----------------------------------------------------------------------------
\* The context.

setSymbol(s) ==
    /\ s \in market.symbols /\ moves < MaxMoves /\ moves' = moves + 1
    /\ market' = [market EXCEPT !.symbol = s] /\ UNCHANGED <<socket, late, ticks, drops>>
\* The backend's list replaces the first one, but not the selected symbol. The
\* effect of the old list closes its socket, whose events are still to come, or
\* its timer, and dials anew. A request that fails leaves the first list.
HealthAnswers(symbols) ==
    /\ market.health = "asked"
    /\ market' = [market EXCEPT !.health = "here", !.symbols = symbols]
    /\ IF symbols = market.symbols THEN UNCHANGED <<socket, late>>
       ELSE /\ socket' = Dialled(socket)
            /\ late' = IF socket.st = "waiting" THEN None ELSE socket.st
    /\ UNCHANGED <<ticks, drops, moves>>
\* Mutant: the close of the old socket is taken for one of the new socket.
OldSocketCounts ==
    /\ late # None /\ late' = None /\ socket' = [socket EXCEPT !.status = "reconnecting"]
    /\ UNCHANGED <<market, ticks, drops, moves>>
\* A socket that was closed before it had opened still reports an error; the
\* close that follows is ignored, since its effect was disposed.
OldSocketCloses ==
    /\ late # None /\ late' = None
    /\ socket' = [socket EXCEPT !.status = IF late = "opening" THEN "error" ELSE @]
    /\ UNCHANGED <<market, ticks, drops, moves>>

Next ==
    \/ Opens \/ Closes \/ Retries \/ Snapshot \/ ErrorFrame \/ OldSocketCloses
    \/ \E s \in Symbols : Tick(s) \/ setSymbol(s)
    \/ \E symbols \in {DEFAULT_SYMBOLS, Served} : HealthAnswers(symbols)
\* The timer of a retry fires, and an old socket's events are delivered.
Fairness == WF_vars(Retries) /\ WF_vars(OldSocketCloses)
Spec == Init /\ [][Next]_vars /\ Fairness

-----------------------------------------------------------------------------
TypeOK ==
    /\ market.symbol \in Symbols /\ ticks \subseteq Symbols
    /\ socket.attempt \in 0..MaxDrops /\ late \in {None, "opening", "open"}

\* The status says live when a socket is open, and never that one which is open
\* is being connected, whatever the socket it replaced still reports.
StatusFollowsTheSocket ==
    /\ socket.status = "live" => socket.st = "open"
    /\ socket.st = "open" => socket.status \in {"live", "error"}

\* Without a socket the page always gets another one: whatever closes when, it
\* does not stay without a connection or an attempt at one.
AlwaysDialsAgain == socket.st = "waiting" ~> socket.st = "opening"

\* Not kept by the code, see the README.
\* The symbol that is selected is one of those that can be, and the ticks are
\* those of the list.
ActiveIsListed == market.symbol \in market.symbols
TicksAreListed == ticks \subseteq market.symbols
===============================================================================
