-------------------------------- MODULE Admin --------------------------------
(* Applications for API access: the form that sends them with a Turnstile     *)
(* token, the registry of the backend, and the consoles in which admins list  *)
(* and decide them. Every list is fetched by useAsyncData, which aborts the   *)
(* fetch before when a tab is refreshed.                                      *)
EXTENDS Integers, FiniteSets

CONSTANTS
    Consoles,       \* browser tabs of admins
    MaxRequests,    \* bound on the applications that are registered
    MaxFetches,     \* bound on the fetches of one mounted tab
    MaxMoves,       \* bound on what people do, and on messages that are lost
    TurnstileOn     \* TURNSTILE_SITE_KEY is set

VARIABLES
    registry,    \* the backend's requests: [status, token] by id
    changes,     \* how often the registry has changed
    accounts,    \* how many accounts have each plan
    form,        \* ApplyForm: its stage, its token and how many were drawn
    spent,       \* tokens that Turnstile has checked
    con,         \* per console: what is mounted, and what it holds
    told,        \* per console: decisions that the mounted page has been told of
    moves

vars == <<registry, changes, accounts, form, spent, con, told, moves>>
backend == <<registry, changes, accounts>>
application == <<form, spent>>

Ids == 1..MaxRequests
None == "none"
Tabs == {"overview", "users", "requests", "billing"}
Filters == {"all", "pending", "approved", "rejected"}
Plans == {"free", "starter", "pro", "ultra"}
Unmade == [status |-> None, token |-> FALSE]
Snapshot == [requests |-> registry, at |-> changes, accounts |-> accounts]
NoData == [requests |-> [i \in Ids |-> Unmade], at |-> -1, accounts |-> [p \in Plans |-> 0]]

\* A fetch that the backend has yet to serve.
Fetch(n) == [n |-> n, data |-> NoData]
\* useAsyncData: nothing is held, the first fetch is under way, and it is the one that counts.
Mounted(page, i) ==
    [page |-> page, id |-> i, data |-> NoData, settled |-> FALSE, error |-> FALSE, nonce |-> 1,
     fetches |-> {Fetch(1)}, filter |-> "all", updated |-> Unmade, acting |-> None]
NewForm == [at |-> "editing", token |-> 0, drawn |-> 0, error |-> FALSE]

Init ==
    /\ registry \in {[i \in Ids |-> [Unmade EXCEPT !.status = IF i = 1 THEN s ELSE None]]
                    : s \in {None, "pending"}}
    /\ changes = 0
    /\ accounts \in {[p \in Plans |-> IF p = q THEN 1 ELSE 0] : q \in Plans}
    /\ form = NewForm /\ spent = {} /\ moves = 0
    /\ con = [c \in Consoles |-> Mounted("overview", 0)] /\ told = [c \in Consoles |-> {}]

Move == moves < MaxMoves /\ moves' = moves + 1
Set(c, v) == con' = [con EXCEPT ![c] = v]
Change(r) == registry' = r /\ changes' = changes + 1 /\ UNCHANGED accounts

-----------------------------------------------------------------------------
\* The application form.

Solve ==
    /\ Move /\ TurnstileOn /\ form.at = "editing" /\ form.token = 0
    /\ form' = [form EXCEPT !.token = form.drawn + 1, !.drawn = @ + 1, !.error = FALSE]
    /\ UNCHANGED <<backend, spent, con, told>>
\* The widget's token expires or fails, also while the form is being sent.
TokenGoes ==
    /\ form.token # 0 /\ form.at # "submitted"
    /\ form' = [form EXCEPT !.token = 0, !.error = FALSE]
    /\ UNCHANGED <<backend, spent, con, told, moves>>
Submit ==
    /\ Move /\ form.at = "editing"
    /\ form' = IF form.token = 0 /\ TurnstileOn THEN [form EXCEPT !.error = TRUE]
               ELSE [form EXCEPT !.at = "sent", !.error = FALSE]
    /\ UNCHANGED <<backend, spent, con, told>>
\* The backend registers an application whose token has not been checked before.
Unused == ~TurnstileOn \/ form.drawn \notin spent
Registered(r) ==
    /\ Unused /\ spent' = spent \cup {form.drawn}
    /\ \E i \in Ids : /\ registry[i].status = None /\ \A j \in 1..(i - 1) : registry[j] # Unmade
                      /\ r = i /\ Change([registry EXCEPT ![i].status = "pending"])
Applied ==
    /\ form.at = "sent" /\ \E i \in Ids : Registered(i)
    /\ form' = [form EXCEPT !.at = "submitted"] /\ UNCHANGED <<con, told, moves>>
\* Refused, or unreachable, or the answer is lost: the form keeps the token it sent.
ApplyFails ==
    /\ form.at = "sent" /\ form' = [form EXCEPT !.at = "editing", !.error = TRUE]
    /\ \/ Move /\ \E i \in Ids : Registered(i)
       \/ Move /\ spent' \in {spent, spent \cup {form.drawn}} /\ UNCHANGED backend
       \/ ~Unused /\ UNCHANGED <<backend, spent, moves>>
    /\ UNCHANGED <<con, told>>

-----------------------------------------------------------------------------
\* The consoles' lists.

Open(c, page, i) == Set(c, Mounted(page, i)) /\ told' = [told EXCEPT ![c] = {}]
ChooseTab(c, t) ==
    /\ Move /\ con[c].page \in Tabs \ {t} /\ Open(c, t, 0) /\ UNCHANGED <<backend, application>>
\* Disabled while loading, which a refresh is not: the key stays the same.
Refresh(c) ==
    /\ Move /\ con[c].page \in Tabs /\ con[c].settled /\ con[c].nonce < MaxFetches
    /\ Set(c, [con[c] EXCEPT !.nonce = @ + 1,
                             !.fetches = @ \cup {Fetch(con[c].nonce + 1)}])
    /\ UNCHANGED <<backend, application, told>>
Serve(c) ==
    /\ \E f \in {x \in con[c].fetches : x.data = NoData} :
         Set(c, [con[c] EXCEPT !.fetches = (@ \ {f}) \cup {[f EXCEPT !.data = Snapshot]}])
    /\ UNCHANGED <<backend, application, told, moves>>
\* Mutant: a refresh does not abort the fetch before.
AnyLive(c, f) == TRUE
\* An aborted fetch changes nothing.
Live(c, f) == f.n = con[c].nonce
Decided(r) == {i \in Ids : r[i].status \in {"approved", "rejected"}}
Receive(c) ==
    /\ \E f \in {x \in con[c].fetches : x.data # NoData} :
        LET rest == [con[c] EXCEPT !.fetches = @ \ {f}] IN
        IF Live(c, f)
        THEN /\ Set(c, [rest EXCEPT !.data = f.data, !.settled = TRUE, !.error = FALSE])
             /\ told' = [told EXCEPT ![c] = @ \cup Decided(f.data.requests)]
        ELSE Set(c, rest) /\ UNCHANGED told
    /\ UNCHANGED <<backend, application, moves>>
FetchFails(c) ==
    /\ Move /\ \E f \in con[c].fetches :
        Set(c, [con[c] EXCEPT !.fetches = @ \ {f},
                 !.settled = Live(c, f) \/ @, !.error = Live(c, f) \/ @])
    /\ UNCHANGED <<backend, application, told>>
Loading(c) == ~con[c].settled

Choose(c, f) ==
    /\ Move /\ con[c].page = "requests" /\ f # con[c].filter
    /\ Set(c, [con[c] EXCEPT !.filter = f]) /\ UNCHANGED <<backend, application, told>>
Visible(c) ==
    {i \in Ids : LET s == con[c].data.requests[i].status IN
                 s # None /\ con[c].filter \in {"all", s}}

\* AdminOverview: the accounts on a paid plan, of all accounts.
Conversion(c) == con[c].data.accounts["starter"] + con[c].data.accounts["pro"]

-----------------------------------------------------------------------------
\* A request's own page.

Review(c, i) ==
    /\ Move /\ con[c].page = "requests" /\ i \in Visible(c) /\ Open(c, "detail", i)
    /\ UNCHANGED <<backend, application>>
Back(c) ==
    /\ Move /\ con[c].page = "detail" /\ Open(c, "overview", 0)
    /\ UNCHANGED <<backend, application>>
\* A decision that was answered is shown instead of the list's row.
Request(c) == IF con[c].updated # Unmade THEN con[c].updated ELSE con[c].data.requests[con[c].id]
Decide(c, d) ==
    /\ Move /\ con[c].page = "detail" /\ ~con[c].error
    /\ Request(c).status = "pending" /\ con[c].acting = None
    /\ Set(c, [con[c] EXCEPT !.acting = d]) /\ UNCHANGED <<backend, application, told>>
\* The store replaces the status whatever it was; a token, once issued, stays.
Reviewed(i, d) == [status |-> d, token |-> d = "approved" \/ registry[i].token]
Store(i, d) == Change([registry EXCEPT ![i] = Reviewed(i, d)])
DecisionAnswers(c) ==
    LET i == con[c].id  d == con[c].acting IN
    /\ d # None /\ Store(i, d)
    /\ Set(c, [con[c] EXCEPT !.acting = None, !.updated = Reviewed(i, d)])
    /\ told' = [told EXCEPT ![c] = @ \cup {i}] /\ UNCHANGED <<application, moves>>
\* A failure that is toasted may be an answer that was lost.
DecisionFails(c) ==
    /\ con[c].acting # None /\ Move
    /\ Store(con[c].id, con[c].acting) \/ UNCHANGED backend
    /\ Set(c, [con[c] EXCEPT !.acting = None]) /\ UNCHANGED <<application, told>>

Next ==
    \/ Solve \/ TokenGoes \/ Submit \/ Applied \/ ApplyFails
    \/ \E c \in Consoles :
        \/ \E t \in Tabs : ChooseTab(c, t)
        \/ Refresh(c) \/ Serve(c) \/ Receive(c) \/ FetchFails(c) \/ Back(c)
        \/ \E f \in Filters : Choose(c, f)
        \/ \E i \in Ids : Review(c, i)
        \/ \E d \in {"approved", "rejected"} : Decide(c, d)
        \/ DecisionAnswers(c) \/ DecisionFails(c)
Fairness ==
    /\ WF_vars(Applied \/ ApplyFails)
    /\ \A c \in Consoles : WF_vars(Serve(c)) /\ WF_vars(Receive(c)) /\ WF_vars(DecisionAnswers(c))
Spec == Init /\ [][Next]_vars /\ Fairness

-----------------------------------------------------------------------------
TypeOK ==
    /\ \A i \in Ids : registry[i].status \in {None} \cup (Filters \ {"all"})
    /\ \A c \in Consoles : con[c].nonce \in 1..MaxFetches /\ con[c].data.at \in -1..changes

\* Overlapping refreshes: while a tab stays mounted, the list it shows never
\* goes back to an older one.
ListGoesForward ==
    [][\A c \in Consoles :
        con'[c].page = con[c].page /\ con'[c].data # NoData =>
            con'[c].data.at >= con[c].data.at]_vars

\* A decision that the page was told of is not decided again from that page.
DecidedIsLeftAlone ==
    [][\A c \in Consoles :
        con[c].acting = None /\ con'[c].acting # None => con[c].id \notin told[c]]_vars

\* Who is thanked for an application has one in the registry.
ThankedIsRegistered == form.at = "submitted" => \E i \in Ids : registry[i].status # None

\* A tab that loads comes to show its list or an error, or is left.
ListSettles == \A c \in Consoles : Loading(c) ~> ~Loading(c)

\* The decision buttons come back.
DecisionReturns == \A c \in Consoles : con[c].acting # None ~> con[c].acting = None

\* Not kept by the code, see the README.
\* "This request has already been ...": a decision stands.
DecisionsStand ==
    [][\A i \in Ids : registry[i].status \in {"approved", "rejected"}
         => registry'[i].status = registry[i].status]_vars

\* Not kept by the code, see the README.
\* A request that is rejected holds no token.
RejectedHoldsNone == \A i \in Ids : registry[i].status = "rejected" => ~registry[i].token

\* Not kept by the code, see the README.
\* One person's application is registered once.
AppliedOnce == Cardinality({i \in Ids : registry[i].status # None}) <= 1

\* Not kept by the code, see the README.
\* "... on a paid plan": of every account that is not on the free one.
PaidShareIsWhole ==
    \A c \in Consoles : con[c].page = "overview" =>
        LET n == con[c].data.accounts IN Conversion(c) = n["starter"] + n["pro"] + n["ultra"]
=============================================================================
