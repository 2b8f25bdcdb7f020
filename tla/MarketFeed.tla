----------------------------- MODULE MarketFeed -----------------------------
(***************************************************************************)
(* The live feed of one /ws/ticks client (orchestrator/main.py):           *)
(* a BiquoteTickFeed (data_pipeline/biquote_feed.py) over a reconnecting   *)
(* SignalR client (data_pipeline/signalr.py).                              *)
(*                                                                         *)
(* Three kinds of coroutines share the client's fields: the endpoint that  *)
(* starts and stops the feed, a receive loop per connection, and the retry *)
(* that a receive loop starts when its connection breaks.  Each await is   *)
(* the end of a step.  Of the messages only Subscribe matters: what is     *)
(* modelled is who is connected, not what the ticks say.                   *)
(***************************************************************************)
EXTENDS Integers, FiniteSets

CONSTANTS
    Sockets,        \* sockets that can be in use at once; those done with are used again
    Retries,        \* runs of _reconnect that can be in flight at once
    None,
    MaxFaults       \* bound: what goes wrong with sockets that are open

Endpoint == "endpoint"
Tasks == Retries \cup {Endpoint}

ASSUME FeedAssumption ==
    /\ MaxFaults \in Nat
    /\ None \notin Sockets \cup Retries
    /\ Endpoint \notin Retries
    /\ Sockets \cap {"none", "starting", "over", "crashed"} = {}

VARIABLES
    socket,         \* per socket, what has become of it
    subscribed,     \* the sockets on which the hub has the subscription
    connection,     \* SignalRClient._connection
    closing,        \* SignalRClient._closing
    retry,          \* SignalRClient._reconnect_task
    receiver,       \* SignalRClient._recv_task, by the socket it was started for
    task,           \* the endpoint and the retries: what each awaits
    loop,           \* per socket, the receive loop started for it
    faults,
    ended,          \* history: the server has ended a socket in good order
    tangled         \* history: two coroutines were connecting at once, or close met a
                    \* receive loop that had crashed

vars == << socket, subscribed, connection, closing, retry, receiver, task, loop,
           faults, ended, tangled >>

Over == [at |-> "over"]
Begun == [at |-> "begun"]
Dialling == [at |-> "dialling"]
Sleeping == [at |-> "sleeping"]
Streaming == [at |-> "streaming"]
Stopping == [at |-> "stopping"]
\* Waiting for the handshake, for Subscribe to be written, for a close.
OnSocket == [at : {"shaking", "sending", "hanging up"}, socket : Sockets]

TypeOK ==
    /\ socket \in [Sockets -> {"unused", "open", "lost", "ended", "closed"}]
    /\ subscribed \subseteq Sockets
    /\ connection \in Sockets \cup {None}
    /\ closing \in BOOLEAN
    /\ retry \in Retries \cup {None}
    /\ receiver \in Sockets \cup {None}
    /\ task \in [Tasks -> {Over, Begun, Dialling, Sleeping, Streaming, Stopping} \cup OnSocket]
    /\ loop \in [Sockets -> {"none", "starting", "over", "crashed"} \cup Sockets]
    /\ faults \in 0 .. MaxFaults
    /\ ended \in BOOLEAN
    /\ tangled \in BOOLEAN

\* The endpoint has called start, and connect has begun.
Init ==
    /\ socket = [s \in Sockets |-> "unused"]
    /\ subscribed = {}
    /\ connection = None
    /\ closing = FALSE
    /\ retry = None
    /\ receiver = None
    /\ task = [t \in Tasks |-> IF t = Endpoint THEN Dialling ELSE Over]
    /\ loop = [s \in Sockets |-> "none"]
    /\ faults = 0
    /\ ended = FALSE
    /\ tangled = FALSE

Goto(t, next) == task' = [task EXCEPT ![t] = next]
Awaits(t, what) == task[t].at = what
On(t) == task[t].socket
Fault == faults < MaxFaults /\ faults' = faults + 1
Receives(s) == loop[s] \in Sockets

----------------------------------------------------------------------------
(* Connecting *)

\* Mutant: close_connection_only closes a connection that is not there.
AgainUnchecked == IF closing THEN Over ELSE [at |-> "hanging up", socket |-> connection]

\* The head of _reconnect's loop, at its start and after an exception.
Again ==
    IF closing THEN Over
    ELSE IF connection = None THEN Sleeping
    ELSE [at |-> "hanging up", socket |-> connection]

\* Mutant: an attempt that failed is the last one.
RaisedGivesUp(t) == IF t = Endpoint THEN Stopping ELSE Over

\* What an exception out of connect leads to.
Raised(t) == IF t = Endpoint THEN Stopping ELSE Again

\* Neither open nor referred to: its name can be given to a new socket.
Forgotten(s) ==
    /\ socket[s] # "open"
    /\ loop[s] \in {"none", "over", "crashed"}
    /\ s \notin {connection, receiver}
    /\ \A t \in Tasks : task[t] \in OnSocket => On(t) # s
    /\ \A other \in Sockets : loop[other] # s

\* websockets.connect returned, and the handshake has been sent.
Dial(t) ==
    /\ Awaits(t, "dialling")
    /\ \E s \in Sockets :
        /\ Forgotten(s)
        /\ socket' = [socket EXCEPT ![s] = "open"]
        /\ loop' = [loop EXCEPT ![s] = "none"]
        /\ subscribed' = subscribed \ {s}
        /\ connection' = s
        /\ Goto(t, [at |-> "shaking", socket |-> s])
    /\ UNCHANGED << closing, retry, receiver, faults, ended, tangled >>

\* Nobody answers.
FailDial(t) ==
    /\ Awaits(t, "dialling")
    /\ Goto(t, Raised(t))
    /\ UNCHANGED << socket, subscribed, connection, closing, retry, receiver, loop,
                    faults, ended, tangled >>

\* The handshake is answered: the receive loop is created, and the hook sends
\* Subscribe, connecting first if the connection has been taken away meanwhile.
Shake(t) ==
    /\ Awaits(t, "shaking")
    /\ socket[On(t)] = "open"
    /\ receiver' = On(t)
    /\ loop' = [loop EXCEPT ![On(t)] = "starting"]
    /\ IF connection = None
       THEN Goto(t, Dialling) /\ closing' = FALSE
       ELSE Goto(t, [at |-> "sending", socket |-> connection]) /\ UNCHANGED closing
    /\ UNCHANGED << socket, subscribed, connection, retry, faults, ended, tangled >>

\* The answer is wrong or late, or the socket breaks before it comes.
FailShake(t) ==
    /\ Awaits(t, "shaking")
    /\ IF socket[On(t)] = "open" THEN Fault ELSE UNCHANGED faults
    /\ Goto(t, Raised(t))
    /\ UNCHANGED << socket, subscribed, connection, closing, retry, receiver, loop,
                    ended, tangled >>

\* Subscribe is written.  The endpoint's start sends it once more, connecting
\* again if the connection has been taken away; else that changes nothing.
Sent(t) ==
    /\ Awaits(t, "sending")
    /\ socket[On(t)] \in {"open", "lost"}
    /\ subscribed' = subscribed \cup {On(t)}
    /\ IF t = Endpoint /\ connection = None
       THEN Goto(t, Dialling) /\ closing' = FALSE
       ELSE Goto(t, IF t = Endpoint THEN Streaming ELSE Over) /\ UNCHANGED closing
    /\ UNCHANGED << socket, connection, retry, receiver, loop, faults, ended, tangled >>

FailSend(t) ==
    /\ Awaits(t, "sending")
    /\ socket[On(t)] # "open"
    /\ Goto(t, Raised(t))
    /\ UNCHANGED << socket, subscribed, connection, closing, retry, receiver, loop,
                    faults, ended, tangled >>

----------------------------------------------------------------------------
(* The receive loop *)

\* Two coroutines cannot read one socket: the library raises in the second.
Read(c) ==
    \/ \E s \in Sockets : loop[s] = c
    \/ \E t \in Tasks : Awaits(t, "shaking") /\ On(t) = c

\* Its first step takes the connection of that moment, not the one it is for.
StartLoop(s) ==
    /\ loop[s] = "starting"
    /\ connection # None => ~Read(connection)
    /\ loop' = [loop EXCEPT ![s] = IF connection = None THEN "crashed" ELSE connection]
    /\ UNCHANGED << socket, subscribed, connection, closing, retry, receiver, task,
                    faults, ended, tangled >>

\* A ping is answered on the connection of that moment.
CannotAnswer == connection # None => socket[connection] # "open"

Connecting(t) == task[t] \notin {Over, Streaming, Stopping}

\* Mutant: a break while nothing is closing is only logged.
BreakSilently(s) ==
    /\ Receives(s)
    /\ socket[loop[s]] = "lost"
    /\ loop' = [loop EXCEPT ![s] = "over"]
    /\ UNCHANGED << socket, subscribed, connection, closing, retry, receiver, task,
                    faults, ended, tangled >>

\* The loop raises: a retry is started unless the client is closing.
Break(s) ==
    /\ \/ Receives(s) /\ socket[loop[s]] = "lost"
       \/ Receives(s) /\ socket[loop[s]] = "open" /\ CannotAnswer
       \/ loop[s] = "starting" /\ connection # None /\ Read(connection)
    /\ loop' = [loop EXCEPT ![s] = "over"]
    /\ IF closing
       THEN UNCHANGED << retry, task, tangled >>
       ELSE /\ tangled' = (tangled \/ \E t \in Tasks : Connecting(t))
            /\ \E r \in Retries :
                /\ task[r] = Over
                /\ retry' = r
                /\ Goto(r, Begun)
    /\ UNCHANGED << socket, subscribed, connection, closing, receiver, faults, ended >>

\* The socket was closed in good order, by either side: the loop runs out.
RunOut(s) ==
    /\ Receives(s)
    /\ socket[loop[s]] \in {"ended", "closed"}
    /\ loop' = [loop EXCEPT ![s] = "over"]
    /\ UNCHANGED << socket, subscribed, connection, closing, retry, receiver, task,
                    faults, ended, tangled >>

----------------------------------------------------------------------------
(* Retrying *)

BeginRetry(r) ==
    /\ task[r] = Begun
    /\ Goto(r, Again)
    /\ UNCHANGED << socket, subscribed, connection, closing, retry, receiver, loop,
                    faults, ended, tangled >>

\* close, of the socket that was the connection when it was called; the field is
\* cleared whatever it holds by now.  A close that is not answered breaks.
Hang(t, next) ==
    /\ Awaits(t, "hanging up")
    /\ \/ /\ socket' = IF socket[On(t)] = "open" THEN [socket EXCEPT ![On(t)] = "closed"]
                      ELSE socket
          /\ UNCHANGED faults
       \/ /\ socket[On(t)] = "open" /\ Fault
          /\ socket' = [socket EXCEPT ![On(t)] = "lost"]
    /\ connection' = None
    /\ Goto(t, next)
    /\ UNCHANGED << subscribed, closing, retry, receiver, loop, ended, tangled >>

\* close_connection_only
HangUp(r) == Hang(r, Sleeping)

\* Mutant: the retry waits while nothing is connected, as if somebody else would dial.
WakeToWait(r) ==
    /\ task[r] = Sleeping
    /\ Goto(r, IF connection = None THEN Sleeping ELSE Dialling)
    /\ UNCHANGED << socket, subscribed, connection, closing, retry, receiver, loop, faults,
                    ended, tangled >>

\* The delay is over and connect begins, which resets the flag.
Wake(r) ==
    /\ task[r] = Sleeping
    /\ closing' = FALSE
    /\ Goto(r, Dialling)
    /\ UNCHANGED << socket, subscribed, connection, retry, receiver, loop, faults,
                    ended, tangled >>

----------------------------------------------------------------------------
(* The endpoint *)

\* The client left, or a frame or the snapshot failed.
Leave ==
    /\ Awaits(Endpoint, "streaming")
    /\ Goto(Endpoint, Stopping)
    /\ UNCHANGED << socket, subscribed, connection, closing, retry, receiver, loop,
                    faults, ended, tangled >>

Crashed == receiver # None /\ loop[receiver] = "crashed"

\* Mutant: only the receive loop is cancelled.
CancelReceiver ==
    /\ task[Endpoint] = Stopping
    /\ closing' = TRUE
    /\ Goto(Endpoint, IF connection = None THEN Over
                      ELSE [at |-> "hanging up", socket |-> connection])
    /\ loop' = IF receiver = None THEN loop ELSE [loop EXCEPT ![receiver] = "over"]
    /\ tangled' = (tangled \/ Crashed)
    /\ UNCHANGED << socket, subscribed, connection, retry, receiver, faults, ended >>

\* close: the latest retry and the latest loop are cancelled and awaited; what a
\* crashed loop died of is raised here, and nothing is closed.
Cancel ==
    /\ task[Endpoint] = Stopping
    /\ closing' = TRUE
    /\ LET next == IF connection = None \/ Crashed THEN Over
                   ELSE [at |-> "hanging up", socket |-> connection]
       IN  /\ task' = [t \in Tasks |-> IF t = Endpoint THEN next
                                       ELSE IF t = retry THEN Over ELSE task[t]]
           /\ IF Crashed THEN UNCHANGED << loop, retry, receiver >>
              ELSE /\ loop' = IF receiver = None THEN loop
                              ELSE [loop EXCEPT ![receiver] = "over"]
                   /\ retry' = None
                   /\ receiver' = None
    /\ tangled' = (tangled \/ Crashed)
    /\ UNCHANGED << socket, subscribed, connection, faults, ended >>

Close == Hang(Endpoint, Over)

----------------------------------------------------------------------------
(* The network and the server *)

Lose(s) ==
    /\ socket[s] = "open" /\ Fault
    /\ socket' = [socket EXCEPT ![s] = "lost"]
    /\ UNCHANGED << subscribed, connection, closing, retry, receiver, task, loop, ended, tangled >>

\* The server closes the socket in good order, as when it is restarted.
End(s) ==
    /\ socket[s] = "open" /\ Fault
    /\ socket' = [socket EXCEPT ![s] = "ended"]
    /\ ended' = TRUE
    /\ UNCHANGED << subscribed, connection, closing, retry, receiver, task, loop, tangled >>

Connect(t) == Dial(t) \/ FailDial(t) \/ Shake(t) \/ FailShake(t) \/ Sent(t) \/ FailSend(t)
Receive(s) == StartLoop(s) \/ Break(s) \/ RunOut(s)
Retry(r) == BeginRetry(r) \/ HangUp(r) \/ Wake(r)

Next ==
    \/ \E t \in Tasks : Connect(t)
    \/ \E s \in Sockets : Receive(s) \/ Lose(s) \/ End(s)
    \/ \E r \in Retries : Retry(r)
    \/ Leave \/ Cancel \/ Close

Spec == Init /\ [][Next]_vars

\* Coroutines go on, and a hub that is dialled again and again answers some time.
Fairness ==
    /\ \A t \in Tasks : WF_vars(Connect(t)) /\ SF_vars(Dial(t))
    /\ \A s \in Sockets : WF_vars(Receive(s))
    /\ \A r \in Retries : WF_vars(Retry(r))
    /\ WF_vars(Cancel) /\ WF_vars(Close)

FairSpec == Spec /\ Fairness

\* Bound: a run that does not ask what becomes of a tangle stops there.
Untangled == ~tangled

----------------------------------------------------------------------------
(* Properties *)

\* Ticks arrive: some loop reads a socket that is open and subscribed.
Live == \E s \in Sockets : Receives(s) /\ socket[loop[s]] = "open" /\ loop[s] \in subscribed

Served == Awaits(Endpoint, "streaming")

\* Somebody still has to act: a retry, or a loop that is about to see a break.
AtWork ==
    \/ \E r \in Retries : task[r] # Over
    \/ \E s \in Sockets :
        loop[s] = "starting" \/ (Receives(s) /\ socket[loop[s]] = "lost")

\* A client that is being served has a live feed or somebody at work on it, unless
\* the server has ended a socket in good order (_receive_loop, _reconnect).
NobodyForgets == Served => Live \/ AtWork \/ ended

\* When the network has done its worst, a client that stays gets a live feed again,
\* unless the server has ended a socket in good order or two coroutines were
\* connecting at once, who may take each other's connections for ever (_reconnect).
Repaired == Served /\ ~Live ~> Live \/ ~Served \/ ended \/ tangled

\* Automatic reconnection (signalr.py, line 10), whatever broke the connection.
AlwaysRepaired == Served /\ ~Live ~> Live \/ ~Served

Stopped == task[Endpoint] = Over
\* A receive loop that is left has nothing to read, and ends.
Quiet ==
    /\ \A s \in Sockets : socket[s] # "open"
    /\ \A r \in Retries : task[r] = Over

\* close leaves no open socket and no retry behind, as long as no two coroutines were
\* ever connecting at once and the latest receive loop has not crashed (close).
StopIsClean == Stopped /\ ~tangled => Quiet

\* close closes the connection and cancels the background tasks (signalr.py, line
\* 133), for good.
StopIsFinal == Stopped => Quiet
=============================================================================
