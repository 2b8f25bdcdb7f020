-------------------------- MODULE MarketFeedProofs --------------------------
(***************************************************************************)
(* A client that is served is never left without a feed and without        *)
(* anybody at work on one, however its coroutines tangle; and the feed is  *)
(* stopped cleanly if they never did.                                      *)
(***************************************************************************)
EXTENDS MarketFeed, TLAPS

USE FeedAssumption

States == {Over, Begun, Dialling, Sleeping, Streaming, Stopping} \cup OnSocket

----------------------------------------------------------------------------
(* What a task awaits *)

LEMMA StateFields ==
    ASSUME NEW x \in States
    PROVE  /\ x.at \in {"over", "begun", "dialling", "sleeping", "streaming", "stopping",
                        "shaking", "sending", "hanging up"}
           /\ x.at = "over" => x = Over
           /\ x.at \in {"shaking", "sending", "hanging up"} =>
                 x \in OnSocket /\ x.socket \in Sockets
<1>1. CASE x \in OnSocket
  BY <1>1 DEF OnSocket
<1>2. CASE x \in {Over, Begun, Dialling, Sleeping, Streaming, Stopping}
  <2>1. x.at \in {"over", "begun", "dialling", "sleeping", "streaming", "stopping"}
    BY <1>2 DEF Over, Begun, Dialling, Sleeping, Streaming, Stopping
  <2>2. x # Over => x.at # "over"
    BY <1>2 DEF Over, Begun, Dialling, Sleeping, Streaming, Stopping
  <2> QED BY <2>1, <2>2
<1> QED BY <1>1, <1>2 DEF States

LEMMA StateNames ==
    /\ {Over, Begun, Dialling, Sleeping, Streaming, Stopping} \subseteq States
    /\ Over.at = "over" /\ Begun.at = "begun" /\ Dialling.at = "dialling"
    /\ Sleeping.at = "sleeping" /\ Streaming.at = "streaming" /\ Stopping.at = "stopping"
    /\ \A a \in {"shaking", "sending", "hanging up"}, s \in Sockets :
         /\ [at |-> a, socket |-> s] \in States
         /\ [at |-> a, socket |-> s].at = a
         /\ [at |-> a, socket |-> s].socket = s
BY DEF States, Over, Begun, Dialling, Sleeping, Streaming, Stopping, OnSocket

LEMMA TaskFields ==
    ASSUME TypeOK, NEW t \in Tasks
    PROVE  /\ task[t] \in States
           /\ task[t].at \in {"over", "begun", "dialling", "sleeping", "streaming", "stopping",
                              "shaking", "sending", "hanging up"}
           /\ task[t].at = "over" => task[t] = Over
           /\ task[t].at \in {"shaking", "sending", "hanging up"} => On(t) \in Sockets
<1>1. task[t] \in States
  BY DEF TypeOK, States
<1> QED BY <1>1, StateFields DEF On

LEMMA GotoIs ==
    ASSUME TypeOK, NEW t \in Tasks, NEW next \in States, Goto(t, next)
    PROVE  /\ task' \in [Tasks -> States]
           /\ task'[t] = next
           /\ \A u \in Tasks \ {t} : task'[u] = task[u]
BY DEF Goto, TypeOK, States

LEMMA GotoSocketIs ==
    ASSUME TypeOK, NEW t \in Tasks, NEW a \in {"shaking", "sending", "hanging up"},
           NEW s \in Sockets, Goto(t, [at |-> a, socket |-> s])
    PROVE  /\ task' \in [Tasks -> States]
           /\ task'[t].at = a /\ task'[t].socket = s
           /\ \A u \in Tasks \ {t} : task'[u] = task[u]
<1> DEFINE next == [at |-> a, socket |-> s]
<1>1. next \in States /\ next.at = a /\ next.socket = s
  BY StateNames
<1>2. Goto(t, next)
  OBVIOUS
<1> HIDE DEF next
<1> QED BY <1>1, <1>2, GotoIs

LEMMA AgainIs ==
    ASSUME TypeOK
    PROVE  /\ Again \in States
           /\ closing => Again.at = "over"
           /\ ~closing /\ connection = None => Again.at = "sleeping"
           /\ ~closing /\ connection # None => Again.at = "hanging up" /\ Again.socket = connection
<1>1. CASE closing
  BY <1>1, StateNames DEF Again
<1>2. CASE ~closing /\ connection = None
  BY <1>2, StateNames DEF Again
<1>3. CASE ~closing /\ connection # None
  <2>1. connection \in Sockets
    BY <1>3 DEF TypeOK
  <2>2. Again = [at |-> "hanging up", socket |-> connection]
    BY <1>3 DEF Again
  <2> QED BY <1>3, <2>1, <2>2, StateNames
<1> QED BY <1>1, <1>2, <1>3

LEMMA RaisedIs ==
    ASSUME TypeOK, NEW t \in Tasks
    PROVE  /\ Raised(t) \in States
           /\ t = Endpoint => Raised(t).at = "stopping"
           /\ t # Endpoint => Raised(t) = Again
BY AgainIs, StateNames DEF Raised

----------------------------------------------------------------------------
(* The invariant *)

\* The client is being connected or served: nobody has begun to stop it.
Serving == task[Endpoint].at \notin {"stopping", "hanging up", "over"}

\* Somebody is going to dial, before anything else is made of the connection.
Pending == \E t \in Tasks : task[t].at \in {"begun", "sleeping", "dialling", "hanging up"}

\* The connection is new, or has its own loop and a subscription on its way.
Tended ==
    /\ connection # None
    /\ \/ \E t \in Tasks : task[t].at = "shaking" /\ On(t) = connection
       \/ /\ loop[connection] \in {"starting", connection}
          /\ \/ connection \in subscribed
             \/ \E t \in Tasks : task[t].at = "sending" /\ On(t) = connection

\* Whatever coroutines do to each other.
FeedInv ==
    /\ TypeOK
    /\ \A r \in Retries : task[r].at \notin {"streaming", "stopping"}
    /\ closing => task[Endpoint].at \in {"hanging up", "over"}
    /\ \A s \in Sockets : socket[s] = "ended" => ended
    /\ connection # None => socket[connection] \in {"open", "lost", "ended"}
    /\ Serving /\ ~ended => Pending \/ Tended

Busy(t) == task[t].at \in {"begun", "dialling", "sleeping", "shaking", "sending", "hanging up"}

\* As long as one coroutine connects at a time: it is the latest retry or the
\* endpoint, it alone has the connection, and nothing else is open.
OneByOne ==
    /\ \A t, u \in Tasks : Busy(t) /\ Busy(u) => t = u
    /\ \A r \in Retries : task[r].at # "over" => r = retry
    /\ \A s \in Sockets : socket[s] = "open" => s = connection
    /\ \A t \in Tasks : task[t].at \in {"shaking", "sending", "hanging up"} => On(t) = connection
    /\ \A t \in Tasks : task[t].at \in {"dialling", "sleeping"} => connection = None
    /\ task[Endpoint].at \in {"hanging up", "over"} =>
         closing /\ \A r \in Retries : task[r].at = "over"
    /\ task[Endpoint].at = "over" => connection = None

Neat == ~tangled => OneByOne

LEMMA FeedInvIsEnough == FeedInv => NobodyForgets
<1> SUFFICES ASSUME FeedInv, Served, ~ended, ~AtWork PROVE Live
  BY DEF NobodyForgets
<1>1. task[Endpoint].at = "streaming" /\ TypeOK
  BY DEF Served, Awaits, FeedInv
<1>2. \A r \in Retries : task[r].at = "over"
  BY StateNames DEF AtWork
<1>3. \A t \in Tasks : task[t].at \in {"over", "streaming"}
  BY <1>1, <1>2 DEF Tasks
<1>4. Tended
  BY <1>1, <1>3 DEF FeedInv, Serving, Pending
<1>5. connection \in Sockets /\ connection \in subscribed /\ loop[connection] \in {"starting", connection}
  BY <1>1, <1>3, <1>4 DEF Tended, TypeOK
<1>6. loop[connection] = connection
  BY <1>5 DEF AtWork
<1>7. socket[connection] = "open"
  BY <1>5, <1>6 DEF AtWork, FeedInv, Receives
<1> QED BY <1>5, <1>6, <1>7 DEF Live, Receives

LEMMA NeatIsEnough == FeedInv /\ Neat => StopIsClean
<1> SUFFICES ASSUME FeedInv, Neat, Stopped, ~tangled PROVE Quiet
  BY DEF StopIsClean
<1>1. task[Endpoint].at = "over"
  BY StateNames DEF Stopped
<1>2. /\ \A r \in Retries : task[r].at = "over"
      /\ connection = None
      /\ \A s \in Sockets : socket[s] = "open" => s = connection
  BY <1>1 DEF Neat, OneByOne
<1>3. \A r \in Retries : task[r] = Over
  BY <1>2, TaskFields DEF FeedInv, Tasks
<1> QED BY <1>2, <1>3 DEF Quiet

LEMMA FeedInit == Init => FeedInv /\ Neat
<1> SUFFICES ASSUME Init PROVE FeedInv /\ Neat
  OBVIOUS
<1>1. /\ Endpoint \in Tasks /\ task[Endpoint] = Dialling
      /\ \A r \in Retries : r \in Tasks /\ task[r] = Over
  BY DEF Init, Tasks
<1>2. TypeOK
  <2>1. task \in [Tasks -> {Dialling, Over}]
    BY DEF Init
  <2>2. faults \in 0 .. MaxFaults
    BY DEF Init
  <2> QED BY <2>1, <2>2 DEF Init, TypeOK
<1>3. FeedInv
  BY <1>1, <1>2, StateNames DEF FeedInv, Init, Pending
<1>4. Neat
  BY <1>1, StateNames DEF Neat, OneByOne, Busy, Init, Tasks
<1> QED BY <1>3, <1>4

----------------------------------------------------------------------------
(* Connecting keeps it *)

LEMMA DialKeeps ==
    ASSUME FeedInv, Neat, NEW t \in Tasks, Dial(t)
    PROVE  FeedInv' /\ Neat'
<1>1. TypeOK /\ task[t].at = "dialling"
  BY DEF FeedInv, Dial, Awaits
<1>2. PICK s \in Sockets :
        /\ Forgotten(s)
        /\ socket' = [socket EXCEPT ![s] = "open"]
        /\ loop' = [loop EXCEPT ![s] = "none"]
        /\ subscribed' = subscribed \ {s}
        /\ connection' = s
        /\ Goto(t, [at |-> "shaking", socket |-> s])
        /\ UNCHANGED << closing, retry, receiver, faults, ended, tangled >>
  BY DEF Dial
<1>3. /\ task' \in [Tasks -> States]
      /\ task'[t].at = "shaking" /\ task'[t].socket = s
      /\ \A u \in Tasks \ {t} : task'[u] = task[u]
  BY <1>1, <1>2, GotoSocketIs
<1>4. TypeOK'
  BY <1>1, <1>2, <1>3 DEF TypeOK, States
<1>5. Tended'
  BY <1>2, <1>3 DEF Tended, On
<1>6. FeedInv'
  <2>1. /\ socket'[s] = "open" /\ \A r \in Sockets \ {s} : socket'[r] = socket[r]
        /\ ended' = ended /\ closing' = closing /\ connection' = s
    BY <1>1, <1>2 DEF TypeOK
  <2>2. \A r \in Retries : task'[r].at \notin {"streaming", "stopping"}
    BY <1>3 DEF FeedInv, Tasks
  <2>3. closing => t # Endpoint
    BY <1>1 DEF FeedInv
  <2>4. closing => task'[Endpoint].at \in {"hanging up", "over"}
    BY <1>3, <2>3 DEF FeedInv, Tasks
  <2>5. \A r \in Sockets : socket'[r] = "ended" => ended
    BY <2>1 DEF FeedInv
  <2> QED BY <1>4, <1>5, <2>1, <2>2, <2>4, <2>5 DEF FeedInv
<1>7. Neat'
  <2> SUFFICES ASSUME ~tangled PROVE OneByOne'
    BY <1>2 DEF Neat
  <2>1. OneByOne
    BY DEF Neat
  <2>2. \A u \in Tasks \ {t} : ~Busy(u)
    BY <1>1, <2>1 DEF OneByOne, Busy
  <2>3. \A r \in Sockets : socket[r] # "open"
    BY <1>1, <2>1 DEF OneByOne
  <2>4. t # Endpoint => t = retry /\ task[Endpoint].at \notin {"hanging up", "over"}
    BY <1>1, <2>1 DEF OneByOne, Tasks
  <2>5. \A r \in Sockets : socket'[r] = "open" => r = s
    BY <1>1, <1>2, <2>3 DEF TypeOK
  <2>6. \A u \in Tasks \ {t} : ~Busy(u)'
    BY <1>3, <2>2 DEF Busy
  <2>7. connection' = s /\ retry' = retry /\ closing' = closing
    BY <1>2
  <2>8. \A r \in Retries : task'[r].at # "over" => r = retry
    BY <1>1, <1>3, <2>1 DEF OneByOne, Tasks
  <2>9. task'[Endpoint].at \notin {"hanging up", "over"}
    BY <1>3, <2>4 DEF Tasks
  <2> QED BY <1>3, <2>5, <2>6, <2>7, <2>8, <2>9 DEF OneByOne, Busy, On
<1> QED BY <1>6, <1>7

\* What a failed attempt leaves to do: an endpoint stops, a retry tries again.
LEMMA FailKeeps ==
    ASSUME FeedInv, Neat, NEW t \in Tasks,
           task[t].at \in {"dialling", "shaking", "sending"},
           Goto(t, Raised(t)), faults' \in 0 .. MaxFaults,
           UNCHANGED << socket, subscribed, connection, closing, retry, receiver, loop,
                        ended, tangled >>
    PROVE  FeedInv' /\ Neat'
<1>1. TypeOK /\ Raised(t) \in States
  BY RaisedIs DEF FeedInv
<1>2. /\ task' \in [Tasks -> States]
      /\ task'[t] = Raised(t)
      /\ \A u \in Tasks \ {t} : task'[u] = task[u]
  BY <1>1, GotoIs
<1>3. TypeOK'
  BY <1>1, <1>2 DEF TypeOK, States
<1>4. CASE t = Endpoint
  <2>1. task'[Endpoint].at = "stopping"
    BY <1>1, <1>2, <1>4, RaisedIs
  <2>2. FeedInv'
    BY <1>2, <1>3, <1>4, <2>1 DEF FeedInv, Serving, Tasks
  <2>3. Neat'
    BY <1>2, <1>4, <2>1 DEF Neat, OneByOne, Busy, On, Tasks
  <2> QED BY <2>2, <2>3
<1>5. CASE t # Endpoint
  <2>1. /\ task'[t].at \in {"over", "sleeping", "hanging up"}
        /\ task'[t].at = "over" <=> closing
        /\ task'[t].at = "sleeping" => connection = None
        /\ task'[t].at = "hanging up" => task'[t].socket = connection
    BY <1>1, <1>2, <1>5, RaisedIs, AgainIs
  <2>2. task'[Endpoint] = task[Endpoint] /\ t \in Retries
    BY <1>2, <1>5 DEF Tasks
  <2>3. Serving' => Pending'
    BY <2>1, <2>2 DEF FeedInv, Serving, Pending
  <2>4. FeedInv'
    BY <1>2, <1>3, <2>1, <2>2, <2>3 DEF FeedInv, Tasks
  <2>5. Neat'
    <3> SUFFICES ASSUME ~tangled PROVE OneByOne'
      BY DEF Neat
    <3>1. OneByOne /\ Busy(t)
      BY DEF Neat, Busy
    <3> QED BY <1>2, <2>1, <2>2, <3>1 DEF OneByOne, Busy, On, Tasks
  <2> QED BY <2>4, <2>5
<1> QED BY <1>4, <1>5

LEMMA FailuresKeep ==
    ASSUME FeedInv, Neat, NEW t \in Tasks, FailDial(t) \/ FailShake(t) \/ FailSend(t)
    PROVE  FeedInv' /\ Neat'
<1>1. faults' \in 0 .. MaxFaults
  <2>1. faults \in 0 .. MaxFaults
    BY DEF FeedInv, TypeOK
  <2> QED BY <2>1 DEF FailDial, FailShake, FailSend, Fault
<1>2. /\ task[t].at \in {"dialling", "shaking", "sending"}
      /\ Goto(t, Raised(t))
      /\ UNCHANGED << socket, subscribed, connection, closing, retry, receiver, loop,
                      ended, tangled >>
  BY DEF FailDial, FailShake, FailSend, Awaits
<1> QED BY <1>1, <1>2, FailKeeps

LEMMA ShakeKeeps ==
    ASSUME FeedInv, Neat, NEW t \in Tasks, Shake(t)
    PROVE  FeedInv' /\ Neat'
<1>1. /\ TypeOK /\ task[t].at = "shaking" /\ On(t) \in Sockets
      /\ receiver' = On(t)
      /\ loop' = [loop EXCEPT ![On(t)] = "starting"]
      /\ UNCHANGED << socket, subscribed, connection, retry, faults, ended, tangled >>
  BY TaskFields DEF FeedInv, Shake, Awaits
<1>2. CASE connection = None
  <2>1. /\ task' \in [Tasks -> States]
        /\ task'[t].at = "dialling"
        /\ \A u \in Tasks \ {t} : task'[u] = task[u]
        /\ closing' = FALSE
    BY <1>1, <1>2, GotoIs, StateNames DEF Shake
  <2>2. TypeOK'
    BY <1>1, <2>1 DEF TypeOK, States
  <2>3. FeedInv'
    BY <1>1, <2>1, <2>2 DEF FeedInv, Pending, Tasks
  <2>4. tangled
    BY <1>1, <1>2 DEF Neat, OneByOne
  <2> QED BY <1>1, <2>3, <2>4 DEF Neat
<1>3. CASE connection # None
  <2>1. /\ task' \in [Tasks -> States]
        /\ task'[t].at = "sending" /\ task'[t].socket = connection
        /\ \A u \in Tasks \ {t} : task'[u] = task[u]
        /\ closing' = closing
        /\ connection \in Sockets
    <3>1. connection \in Sockets
      BY <1>1, <1>3 DEF TypeOK
    <3>2. Goto(t, [at |-> "sending", socket |-> connection]) /\ closing' = closing
      BY <1>3 DEF Shake
    <3> QED BY <1>1, <3>1, <3>2, GotoSocketIs
  <2>2. TypeOK'
    BY <1>1, <2>1 DEF TypeOK, States
  <2>3. Pending => Pending'
    BY <1>1, <2>1 DEF Pending
  <2>4. Tended => Tended'
    <3> SUFFICES ASSUME Tended PROVE Tended'
      OBVIOUS
    <3>1. loop'[connection] = IF On(t) = connection THEN "starting" ELSE loop[connection]
      BY <1>1, <2>1 DEF TypeOK
    <3>2. task'[t].at = "sending" /\ On(t)' = connection
      BY <2>1 DEF On
    <3>3. CASE On(t) = connection
      BY <1>1, <1>3, <3>1, <3>2, <3>3 DEF Tended
    <3>4. CASE On(t) # connection
      <4>1. \A u \in Tasks : task[u].at \in {"shaking", "sending"} /\ On(u) = connection =>
              u # t /\ task'[u] = task[u]
        BY <2>1, <3>4
      <4> QED BY <1>1, <3>1, <3>2, <3>4, <4>1 DEF Tended, On
    <3> QED BY <3>3, <3>4
  <2>5. FeedInv'
    BY <1>1, <2>1, <2>2, <2>3, <2>4 DEF FeedInv, Serving, Tasks
  <2>6. Neat'
    <3> SUFFICES ASSUME ~tangled PROVE OneByOne'
      BY <1>1 DEF Neat
    <3>1. OneByOne /\ Busy(t)
      BY <1>1 DEF Neat, Busy
    <3> QED BY <1>1, <1>3, <2>1, <3>1 DEF OneByOne, Busy, On, Tasks
  <2> QED BY <2>5, <2>6
<1> QED BY <1>2, <1>3

LEMMA SentKeeps ==
    ASSUME FeedInv, Neat, NEW t \in Tasks, Sent(t)
    PROVE  FeedInv' /\ Neat'
<1>1. /\ TypeOK /\ task[t].at = "sending" /\ On(t) \in Sockets
      /\ subscribed' = subscribed \cup {On(t)}
      /\ UNCHANGED << socket, connection, retry, receiver, loop, faults, ended, tangled >>
  BY TaskFields DEF FeedInv, Sent, Awaits
<1>2. CASE t = Endpoint /\ connection = None
  <2>1. /\ task' \in [Tasks -> States]
        /\ task'[t].at = "dialling"
        /\ \A u \in Tasks \ {t} : task'[u] = task[u]
        /\ closing' = FALSE
    <3>1. Goto(t, Dialling) /\ closing' = FALSE
      BY <1>2 DEF Sent
    <3>2. Dialling \in States /\ Dialling.at = "dialling"
      BY StateNames
    <3> QED BY <1>1, <3>1, <3>2, GotoIs
  <2>2. TypeOK'
    BY <1>1, <2>1 DEF TypeOK, States
  <2>3. FeedInv'
    BY <1>1, <1>2, <2>1, <2>2 DEF FeedInv, Pending, Tasks
  <2>4. tangled
    BY <1>1, <1>2 DEF Neat, OneByOne
  <2> QED BY <1>1, <2>3, <2>4 DEF Neat
<1>3. CASE ~(t = Endpoint /\ connection = None)
  <2>1. /\ task' \in [Tasks -> States]
        /\ task'[t].at = IF t = Endpoint THEN "streaming" ELSE "over"
        /\ \A u \in Tasks \ {t} : task'[u] = task[u]
        /\ closing' = closing
    <3> DEFINE next == IF t = Endpoint THEN Streaming ELSE Over
    <3>1. Goto(t, next) /\ closing' = closing
      BY <1>3 DEF Sent
    <3>2. next \in States /\ next.at = IF t = Endpoint THEN "streaming" ELSE "over"
      BY StateNames
    <3> HIDE DEF next
    <3> QED BY <1>1, <3>1, <3>2, GotoIs
  <2>2. TypeOK'
    BY <1>1, <2>1 DEF TypeOK, States
  <2>3. Pending => Pending'
    BY <1>1, <2>1 DEF Pending
  <2>4. Tended => Tended'
    <3> SUFFICES ASSUME Tended PROVE Tended'
      OBVIOUS
    <3>1. \A u \in Tasks : task[u].at = "shaking" \/ u # t => task'[u] = task[u]
      BY <1>1, <2>1
    <3> QED BY <1>1, <3>1 DEF Tended, On
  <2>5. FeedInv'
    BY <1>1, <2>1, <2>2, <2>3, <2>4 DEF FeedInv, Serving, Tasks
  <2>6. Neat'
    <3> SUFFICES ASSUME ~tangled PROVE OneByOne'
      BY <1>1 DEF Neat
    <3>1. OneByOne /\ Busy(t)
      BY <1>1 DEF Neat, Busy
    <3> QED BY <1>1, <2>1, <3>1 DEF OneByOne, Busy, On, Tasks
  <2> QED BY <2>5, <2>6
<1> QED BY <1>2, <1>3

----------------------------------------------------------------------------
(* The receive loops keep it *)

LEMMA StartLoopKeeps ==
    ASSUME FeedInv, Neat, NEW s \in Sockets, StartLoop(s)
    PROVE  FeedInv' /\ Neat'
<1>1. /\ TypeOK /\ loop[s] = "starting"
      /\ loop' = [loop EXCEPT ![s] = IF connection = None THEN "crashed" ELSE connection]
      /\ UNCHANGED << socket, subscribed, connection, closing, retry, receiver, task,
                      faults, ended, tangled >>
  BY DEF FeedInv, StartLoop
<1>2. TypeOK'
  BY <1>1 DEF TypeOK
<1>3. Tended => Tended'
  <2> SUFFICES ASSUME Tended PROVE Tended'
    OBVIOUS
  <2>1. connection \in Sockets /\ connection # None
    BY <1>1 DEF Tended, TypeOK
  <2>2. loop'[connection] \in {loop[connection], connection}
    BY <1>1, <2>1 DEF TypeOK
  <2> QED BY <1>1, <2>2 DEF Tended, On
<1>4. FeedInv'
  BY <1>1, <1>2, <1>3 DEF FeedInv, Serving, Pending
<1>5. Neat'
  BY <1>1 DEF Neat, OneByOne, Busy, On
<1> QED BY <1>4, <1>5

LEMMA BreakKeeps ==
    ASSUME FeedInv, Neat, NEW s \in Sockets, Break(s)
    PROVE  FeedInv' /\ Neat'
<1>1. /\ TypeOK
      /\ loop' = [loop EXCEPT ![s] = "over"]
      /\ UNCHANGED << socket, subscribed, connection, closing, receiver, faults, ended >>
  BY DEF FeedInv, Break
<1>2. CASE closing
  <2>1. UNCHANGED << retry, task, tangled >>
    BY <1>2 DEF Break
  <2>2. TypeOK'
    BY <1>1, <2>1 DEF TypeOK
  <2>3. FeedInv'
    BY <1>1, <1>2, <2>1, <2>2 DEF FeedInv, Serving
  <2>4. Neat'
    BY <1>1, <2>1 DEF Neat, OneByOne, Busy, On
  <2> QED BY <2>3, <2>4
<1>3. CASE ~closing
  <2>1. PICK r \in Retries : task[r] = Over /\ retry' = r /\ Goto(r, Begun)
    BY <1>3 DEF Break
  <2>2. tangled' = (tangled \/ \E t \in Tasks : Connecting(t))
    BY <1>3 DEF Break
  <2>3. /\ task' \in [Tasks -> States] /\ task'[r].at = "begun"
        /\ \A u \in Tasks \ {r} : task'[u] = task[u]
        /\ r \in Tasks /\ r # Endpoint
    <3>1. r \in Tasks /\ r # Endpoint /\ Begun \in States /\ Begun.at = "begun"
      BY StateNames DEF Tasks
    <3> QED BY <1>1, <2>1, <3>1, GotoIs
  <2>4. TypeOK'
    BY <1>1, <2>1, <2>2, <2>3 DEF TypeOK, States
  <2>5. Pending'
    BY <2>3 DEF Pending
  <2>6. FeedInv'
    BY <1>1, <2>3, <2>4, <2>5 DEF FeedInv, Tasks
  <2>7. Neat'
    <3> SUFFICES ASSUME ~tangled, \A t \in Tasks : ~Connecting(t) PROVE OneByOne'
      BY <2>2 DEF Neat
    <3>1. OneByOne
      BY DEF Neat
    <3>2. \A t \in Tasks : task[t].at \in {"over", "streaming", "stopping"}
      BY <1>1, TaskFields, StateNames DEF Connecting
    <3>3. \A u \in Retries : task[u].at = "over"
      BY <3>2 DEF FeedInv, Tasks
    <3>4. task[Endpoint].at \in {"streaming", "stopping"}
      BY <1>3, <3>1, <3>2 DEF OneByOne, Tasks
    <3> QED BY <1>1, <2>1, <2>3, <3>1, <3>2, <3>3, <3>4 DEF OneByOne, Busy, On, Tasks
  <2> QED BY <2>6, <2>7
<1> QED BY <1>2, <1>3

\* A loop runs out on a connection only if the server has ended it.
LEMMA RunOutKeeps ==
    ASSUME FeedInv, Neat, NEW s \in Sockets, RunOut(s)
    PROVE  FeedInv' /\ Neat'
<1>1. /\ TypeOK /\ loop[s] \in Sockets /\ socket[loop[s]] \in {"ended", "closed"}
      /\ loop' = [loop EXCEPT ![s] = "over"]
      /\ UNCHANGED << socket, subscribed, connection, closing, retry, receiver, task,
                      faults, ended, tangled >>
  BY DEF FeedInv, RunOut, Receives
<1>2. TypeOK'
  BY <1>1 DEF TypeOK
<1>3. Tended /\ ~ended => Tended'
  <2> SUFFICES ASSUME Tended, ~ended PROVE Tended'
    OBVIOUS
  <2>1. connection \in Sockets /\ socket[connection] \in {"open", "lost"}
    BY <1>1 DEF Tended, TypeOK, FeedInv
  <2>2. CASE s = connection
    <3>1. loop[connection] # connection
      BY <1>1, <2>1, <2>2
    <3>2. loop[connection] # "starting" \/ "starting" \in Sockets
      BY <1>1, <2>2
    <3> QED BY <1>1, <2>1, <2>2, <3>1, <3>2 DEF Tended, On
  <2>3. CASE s # connection
    BY <1>1, <2>1, <2>3 DEF Tended, On, TypeOK
  <2> QED BY <2>2, <2>3
<1>4. FeedInv'
  BY <1>1, <1>2, <1>3 DEF FeedInv, Serving, Pending
<1>5. Neat'
  BY <1>1 DEF Neat, OneByOne, Busy, On
<1> QED BY <1>4, <1>5

----------------------------------------------------------------------------
(* Retrying keeps it *)

LEMMA BeginRetryKeeps ==
    ASSUME FeedInv, Neat, NEW r \in Retries, BeginRetry(r)
    PROVE  FeedInv' /\ Neat'
<1>1. /\ TypeOK /\ task[r].at = "begun" /\ r \in Tasks /\ r # Endpoint
      /\ UNCHANGED << socket, subscribed, connection, closing, retry, receiver, loop,
                      faults, ended, tangled >>
  BY StateNames DEF FeedInv, BeginRetry, Tasks
<1>2. /\ task' \in [Tasks -> States]
      /\ task'[r] = Again
      /\ \A u \in Tasks \ {r} : task'[u] = task[u]
  BY <1>1, AgainIs, GotoIs DEF BeginRetry
<1>3. /\ task'[r].at \in {"over", "sleeping", "hanging up"}
      /\ task'[r].at = "over" <=> closing
      /\ task'[r].at = "sleeping" => connection = None
      /\ task'[r].at = "hanging up" => task'[r].socket = connection
  BY <1>1, <1>2, AgainIs
<1>4. TypeOK'
  BY <1>1, <1>2 DEF TypeOK, States
<1>5. Serving' => Pending'
  BY <1>1, <1>2, <1>3 DEF FeedInv, Serving, Pending, Tasks
<1>6. FeedInv'
  BY <1>1, <1>2, <1>3, <1>4, <1>5 DEF FeedInv, Tasks
<1>7. Neat'
  <2> SUFFICES ASSUME ~tangled PROVE OneByOne'
    BY <1>1 DEF Neat
  <2>1. OneByOne /\ Busy(r)
    BY <1>1 DEF Neat, Busy
  <2> QED BY <1>1, <1>2, <1>3, <2>1 DEF OneByOne, Busy, On, Tasks
<1> QED BY <1>6, <1>7

LEMMA WakeKeeps ==
    ASSUME FeedInv, Neat, NEW r \in Retries, Wake(r)
    PROVE  FeedInv' /\ Neat'
<1>1. /\ TypeOK /\ task[r].at = "sleeping" /\ r \in Tasks /\ r # Endpoint
      /\ closing' = FALSE
      /\ UNCHANGED << socket, subscribed, connection, retry, receiver, loop,
                      faults, ended, tangled >>
  BY StateNames DEF FeedInv, Wake, Tasks
<1>2. /\ task' \in [Tasks -> States]
      /\ task'[r].at = "dialling"
      /\ \A u \in Tasks \ {r} : task'[u] = task[u]
  BY <1>1, StateNames, GotoIs DEF Wake
<1>3. TypeOK'
  BY <1>1, <1>2 DEF TypeOK, States
<1>4. FeedInv'
  BY <1>1, <1>2, <1>3 DEF FeedInv, Pending, Tasks
<1>5. Neat'
  <2> SUFFICES ASSUME ~tangled PROVE OneByOne'
    BY <1>1 DEF Neat
  <2>1. OneByOne /\ Busy(r)
    BY <1>1 DEF Neat, Busy
  <2>2. task[Endpoint].at \notin {"hanging up", "over"} /\ task'[Endpoint] = task[Endpoint]
    BY <1>1, <1>2, <2>1 DEF OneByOne, Tasks
  <2> QED BY <1>1, <1>2, <2>1, <2>2 DEF OneByOne, Busy, On, Tasks
<1> QED BY <1>4, <1>5

\* What a close leaves, whoever asked for it.
LEMMA HangIs ==
    ASSUME FeedInv, NEW t \in Tasks, NEW next \in States, Hang(t, next)
    PROVE  /\ TypeOK /\ task[t].at = "hanging up" /\ On(t) \in Sockets
           /\ TypeOK'
           /\ connection' = None
           /\ \A s \in Sockets : /\ socket'[s] = "open" => socket[s] = "open" /\ s # On(t)
                                 /\ socket'[s] = "ended" => socket[s] = "ended"
           /\ task' \in [Tasks -> States]
           /\ task'[t] = next
           /\ \A u \in Tasks \ {t} : task'[u] = task[u]
           /\ UNCHANGED << subscribed, closing, retry, receiver, loop, ended, tangled >>
<1>1. /\ TypeOK /\ task[t].at = "hanging up" /\ On(t) \in Sockets
      /\ connection' = None
      /\ UNCHANGED << subscribed, closing, retry, receiver, loop, ended, tangled >>
  BY TaskFields DEF FeedInv, Hang, Awaits
<1>2. /\ task' \in [Tasks -> States]
      /\ task'[t] = next
      /\ \A u \in Tasks \ {t} : task'[u] = task[u]
  BY <1>1, GotoIs DEF Hang
<1>3. /\ socket' \in [Sockets -> {"unused", "open", "lost", "ended", "closed"}]
      /\ \A s \in Sockets \ {On(t)} : socket'[s] = socket[s]
      /\ socket'[On(t)] # "open"
      /\ socket'[On(t)] = "ended" => socket[On(t)] = "ended"
      /\ faults' \in 0 .. MaxFaults
  <2>1. faults \in 0 .. MaxFaults /\ socket \in [Sockets -> {"unused", "open", "lost", "ended", "closed"}]
    BY <1>1 DEF TypeOK
  <2>2. CASE /\ socket' = IF socket[On(t)] = "open" THEN [socket EXCEPT ![On(t)] = "closed"]
                          ELSE socket
             /\ UNCHANGED faults
    <3>1. CASE socket[On(t)] = "open"
      BY <1>1, <2>1, <2>2, <3>1
    <3>2. CASE socket[On(t)] # "open"
      BY <1>1, <2>1, <2>2, <3>2
    <3> QED BY <3>1, <3>2
  <2>3. CASE Fault /\ socket' = [socket EXCEPT ![On(t)] = "lost"]
    <3>1. faults' \in 0 .. MaxFaults
      BY <2>1, <2>3 DEF Fault
    <3> QED BY <1>1, <2>1, <2>3, <3>1
  <2> QED BY <2>2, <2>3 DEF Hang
<1>4. TypeOK'
  BY <1>1, <1>2, <1>3 DEF TypeOK, States
<1> QED BY <1>1, <1>2, <1>3, <1>4

LEMMA HangUpKeeps ==
    ASSUME FeedInv, Neat, NEW r \in Retries, HangUp(r)
    PROVE  FeedInv' /\ Neat'
<1>1. r \in Tasks /\ r # Endpoint /\ Sleeping \in States /\ Sleeping.at = "sleeping"
      /\ Hang(r, Sleeping)
  BY StateNames DEF HangUp, Tasks
<1>2. /\ TypeOK /\ task[r].at = "hanging up" /\ On(r) \in Sockets
      /\ TypeOK'
      /\ connection' = None
      /\ \A s \in Sockets : /\ socket'[s] = "open" => socket[s] = "open" /\ s # On(r)
                            /\ socket'[s] = "ended" => socket[s] = "ended"
      /\ task' \in [Tasks -> States]
      /\ task'[r] = Sleeping
      /\ \A u \in Tasks \ {r} : task'[u] = task[u]
      /\ UNCHANGED << subscribed, closing, retry, receiver, loop, ended, tangled >>
  BY <1>1, HangIs
<1>3. FeedInv'
  BY <1>1, <1>2 DEF FeedInv, Pending, Tasks
<1>4. Neat'
  <2> SUFFICES ASSUME ~tangled PROVE OneByOne'
    BY <1>2 DEF Neat
  <2>1. OneByOne /\ Busy(r)
    BY <1>2 DEF Neat, Busy
  <2>2. \A s \in Sockets : socket'[s] # "open"
    BY <1>1, <1>2, <2>1 DEF OneByOne
  <2>3. \A u \in Tasks \ {r} : ~Busy(u) /\ ~Busy(u)'
    BY <1>1, <1>2, <2>1 DEF OneByOne, Busy
  <2>4. task'[r].at = "sleeping"
    BY <1>1, <1>2
  <2>5. \A u \in Retries : task'[u].at # "over" => u = retry'
    BY <1>2, <2>1, <2>3 DEF OneByOne, Tasks
  <2>6. task'[Endpoint].at \notin {"hanging up", "over"}
    BY <1>1, <1>2, <2>1 DEF OneByOne, Tasks
  <2> QED BY <1>1, <1>2, <2>2, <2>3, <2>4, <2>5, <2>6 DEF OneByOne, Busy
<1> QED BY <1>3, <1>4

----------------------------------------------------------------------------
(* The endpoint keeps it *)

LEMMA LeaveKeeps ==
    ASSUME FeedInv, Neat, Leave
    PROVE  FeedInv' /\ Neat'
<1>1. /\ TypeOK /\ task[Endpoint].at = "streaming" /\ Endpoint \in Tasks
      /\ UNCHANGED << socket, subscribed, connection, closing, retry, receiver, loop,
                      faults, ended, tangled >>
  BY DEF FeedInv, Leave, Awaits, Tasks
<1>2. /\ task' \in [Tasks -> States]
      /\ task'[Endpoint].at = "stopping"
      /\ \A u \in Tasks \ {Endpoint} : task'[u] = task[u]
  BY <1>1, StateNames, GotoIs DEF Leave
<1>3. TypeOK'
  BY <1>1, <1>2 DEF TypeOK, States
<1>4. FeedInv'
  BY <1>1, <1>2, <1>3 DEF FeedInv, Serving, Tasks
<1>5. Neat'
  BY <1>1, <1>2 DEF Neat, OneByOne, Busy, On, Tasks
<1> QED BY <1>4, <1>5

LEMMA CancelKeeps ==
    ASSUME FeedInv, Neat, Cancel
    PROVE  FeedInv' /\ Neat'
<1> DEFINE next == IF connection = None \/ Crashed THEN Over
                   ELSE [at |-> "hanging up", socket |-> connection]
<1>1. /\ TypeOK /\ task[Endpoint].at = "stopping" /\ Endpoint \in Tasks
      /\ closing' = TRUE
      /\ tangled' = (tangled \/ Crashed)
      /\ UNCHANGED << socket, subscribed, connection, faults, ended >>
  BY StateNames DEF FeedInv, Cancel, Tasks
<1>2. /\ next \in States
      /\ next.at \in {"over", "hanging up"}
      /\ next.at = "over" => connection = None \/ Crashed
      /\ next.at = "hanging up" => next.socket = connection
  <2>1. CASE connection = None \/ Crashed
    BY <2>1, StateNames
  <2>2. CASE ~(connection = None \/ Crashed)
    <3>1. connection \in Sockets
      BY <1>1, <2>2 DEF TypeOK
    <3>2. next = [at |-> "hanging up", socket |-> connection]
      BY <2>2
    <3> QED BY <3>1, <3>2, StateNames
  <2> QED BY <2>1, <2>2
<1>3. task' = [t \in Tasks |-> IF t = Endpoint THEN next
                               ELSE IF t = retry THEN Over ELSE task[t]]
  BY DEF Cancel
<1> HIDE DEF next
<1>4. /\ task' \in [Tasks -> States]
      /\ task'[Endpoint] = next
      /\ \A r \in Retries : task'[r] = IF r = retry THEN Over ELSE task[r]
  <2>1. \A t \in Tasks : task[t] \in States
    BY <1>1, TaskFields
  <2> QED BY <1>2, <1>3, <2>1, StateNames DEF Tasks
<1>5. /\ loop' \in [Sockets -> {"none", "starting", "over", "crashed"} \cup Sockets]
      /\ retry' \in Retries \cup {None}
      /\ receiver' \in Sockets \cup {None}
  BY <1>1 DEF Cancel, TypeOK
<1>6. TypeOK'
  BY <1>1, <1>4, <1>5 DEF TypeOK, States, Crashed
<1>7. FeedInv'
  <2>1. \A r \in Retries : task'[r].at \notin {"streaming", "stopping"}
    BY <1>4, StateNames DEF FeedInv
  <2>2. task'[Endpoint].at \in {"over", "hanging up"}
    BY <1>2, <1>4
  <2> QED BY <1>1, <1>6, <2>1, <2>2 DEF FeedInv, Serving
<1>8. Neat'
  <2> SUFFICES ASSUME ~tangled, ~Crashed PROVE OneByOne'
    BY <1>1 DEF Neat
  <2>1. OneByOne
    BY DEF Neat
  <2>2. \A r \in Retries : task'[r].at = "over"
    <3>1. \A r \in Retries : task[r].at # "over" => r = retry
      BY <2>1 DEF OneByOne
    <3>2. Over.at = "over"
      BY StateNames
    <3> QED BY <1>4, <3>1, <3>2
  <2>3. \A u \in Tasks : u = Endpoint \/ task'[u].at = "over"
    BY <2>2 DEF Tasks
  <2>4. /\ task'[Endpoint].at \in {"over", "hanging up"}
        /\ task'[Endpoint].at = "over" => connection = None
        /\ task'[Endpoint].at = "hanging up" => task'[Endpoint].socket = connection
    BY <1>2, <1>4
  <2>5. \A s \in Sockets : socket'[s] = "open" => s = connection'
    BY <1>1, <2>1 DEF OneByOne
  <2> QED BY <1>1, <2>2, <2>3, <2>4, <2>5 DEF OneByOne, Busy, On
<1> QED BY <1>7, <1>8

LEMMA CloseKeeps ==
    ASSUME FeedInv, Neat, Close
    PROVE  FeedInv' /\ Neat'
<1>1. Endpoint \in Tasks /\ Over \in States /\ Over.at = "over" /\ Hang(Endpoint, Over)
  BY StateNames DEF Close, Tasks
<1>2. /\ TypeOK /\ task[Endpoint].at = "hanging up" /\ On(Endpoint) \in Sockets
      /\ TypeOK'
      /\ connection' = None
      /\ \A s \in Sockets : /\ socket'[s] = "open" => socket[s] = "open" /\ s # On(Endpoint)
                            /\ socket'[s] = "ended" => socket[s] = "ended"
      /\ task' \in [Tasks -> States]
      /\ task'[Endpoint] = Over
      /\ \A u \in Tasks \ {Endpoint} : task'[u] = task[u]
      /\ UNCHANGED << subscribed, closing, retry, receiver, loop, ended, tangled >>
  BY <1>1, HangIs
<1>3. FeedInv'
  BY <1>1, <1>2 DEF FeedInv, Serving, Tasks
<1>4. Neat'
  <2> SUFFICES ASSUME ~tangled PROVE OneByOne'
    BY <1>2 DEF Neat
  <2>1. OneByOne
    BY DEF Neat
  <2>2. \A s \in Sockets : socket'[s] # "open"
    BY <1>1, <1>2, <2>1 DEF OneByOne
  <2>3. closing' /\ \A r \in Retries : task'[r].at = "over"
    BY <1>2, <2>1 DEF OneByOne, Tasks
  <2>4. \A u \in Tasks : task'[u].at = "over"
    BY <1>1, <1>2, <2>3 DEF Tasks
  <2> QED BY <1>2, <2>2, <2>3, <2>4 DEF OneByOne, Busy
<1> QED BY <1>3, <1>4

----------------------------------------------------------------------------
(* The network keeps it *)

LEMMA NetworkKeeps ==
    ASSUME FeedInv, Neat, NEW s \in Sockets, Lose(s) \/ End(s)
    PROVE  FeedInv' /\ Neat'
<1>1. /\ TypeOK /\ socket[s] = "open" /\ Fault
      /\ socket' \in [Sockets -> {"unused", "open", "lost", "ended", "closed"}]
      /\ \A u \in Sockets \ {s} : socket'[u] = socket[u]
      /\ \/ socket'[s] = "lost" /\ ended' = ended
         \/ socket'[s] = "ended" /\ ended' = TRUE
      /\ UNCHANGED << subscribed, connection, closing, retry, receiver, task, loop, tangled >>
  BY DEF FeedInv, TypeOK, Lose, End
<1>2. faults' \in 0 .. MaxFaults
  BY <1>1 DEF Fault, TypeOK
<1>3. TypeOK'
  BY <1>1, <1>2 DEF TypeOK
<1>4. FeedInv'
  <2>1. Serving' = Serving /\ Pending' = Pending /\ Tended' = Tended
    BY <1>1 DEF Serving, Pending, Tended, On
  <2>2. \A u \in Sockets : socket'[u] = "ended" => ended'
    <3>1. \A u \in Sockets : socket[u] = "ended" => ended
      BY DEF FeedInv
    <3>2. CASE socket'[s] = "lost" /\ ended' = ended
      BY <1>1, <3>1, <3>2
    <3>3. CASE ended' = TRUE
      BY <3>3
    <3> QED BY <1>1, <3>2, <3>3
  <2>3. connection' # None => socket'[connection'] \in {"open", "lost", "ended"}
    <3> SUFFICES ASSUME connection # None PROVE socket'[connection] \in {"open", "lost", "ended"}
      BY <1>1
    <3>1. connection \in Sockets /\ socket[connection] \in {"open", "lost", "ended"}
      BY <1>1 DEF FeedInv, TypeOK
    <3> QED BY <1>1, <3>1
  <2>4. ~ended' => ~ended
    BY <1>1
  <2> QED BY <1>1, <1>3, <2>1, <2>2, <2>3, <2>4 DEF FeedInv
<1>5. Neat'
  BY <1>1 DEF Neat, OneByOne, Busy, On
<1> QED BY <1>4, <1>5

LEMMA FeedKept == FeedInv /\ Neat /\ [Next]_vars => FeedInv' /\ Neat'
<1> SUFFICES ASSUME FeedInv, Neat, [Next]_vars PROVE FeedInv' /\ Neat'
  OBVIOUS
<1>1. ASSUME NEW t \in Tasks, Connect(t) PROVE FeedInv' /\ Neat'
  BY <1>1, DialKeeps, FailuresKeep, ShakeKeeps, SentKeeps DEF Connect
<1>2. ASSUME NEW s \in Sockets, Receive(s) \/ Lose(s) \/ End(s) PROVE FeedInv' /\ Neat'
  BY <1>2, StartLoopKeeps, BreakKeeps, RunOutKeeps, NetworkKeeps DEF Receive
<1>3. ASSUME NEW r \in Retries, Retry(r) PROVE FeedInv' /\ Neat'
  BY <1>3, BeginRetryKeeps, HangUpKeeps, WakeKeeps DEF Retry
<1>4. CASE UNCHANGED vars
  BY <1>4 DEF FeedInv, Neat, OneByOne, Busy, On, Serving, Pending, Tended, TypeOK, vars
<1> QED BY <1>1, <1>2, <1>3, <1>4, LeaveKeeps, CancelKeeps, CloseKeeps DEF Next

\* The fields of the client and of its coroutines hold what they should hold
\* (SignalRClient, BiquoteTickFeed).
THEOREM FeedTypeCorrect == Spec => []TypeOK
<1>1. FeedInv => TypeOK
  BY DEF FeedInv
<1> QED BY <1>1, FeedInit, FeedKept, PTL DEF Spec

\* However many retries take each other's connections, and whatever the network
\* does: a client that is served has a live feed, or somebody is at work on it,
\* unless the server has ended a socket in good order (_receive_loop, _reconnect).
THEOREM NobodyEverForgets == Spec => []NobodyForgets
BY FeedInit, FeedKept, FeedInvIsEnough, PTL DEF Spec

\* close leaves no open socket and no retry behind, if coroutines connected one
\* at a time and the latest receive loop has not crashed (SignalRClient.close).
THEOREM StopsAreClean == Spec => []StopIsClean
BY FeedInit, FeedKept, NeatIsEnough, PTL DEF Spec
=============================================================================
