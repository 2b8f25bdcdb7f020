# Pkay TDAI in TLA+

Pkay TDAI sells analyses of gold and bitcoin. A FastAPI gateway meters customers
by plan and takes payments through Khpay; an analysis pipeline of four agents
trades a paper account; a Telegram bot scans the same markets on its own and
broadcasts alerts; a web client shows all of it, takes the payments and carries a
community. This directory models the parts that keep state and share it: their
handlers as TLA+ actions, small instances checked with TLC, and theorems checked
with TLAPS. Paths are relative to `src/`.

- [The system](#the-system)
- [The modules](#the-modules)
- [The runs](#the-runs)
- [Where code and documents disagree](#where-code-and-documents-disagree)
- [What is proved](#what-is-proved)
- [What is not modelled](#what-is-not-modelled)
- [Plan](#plan)

`tlc -workers 2 -config <run>.cfg <module>` runs a configuration and
`tlapm <module>.tla` checks the proofs of a module. `PROJECT.json` lists the runs,
the source lines of each definition, for every property a plausible bug that
breaks it, the hazards the properties are aimed at, and the main theorems.

## The system

### Components, state and operations

| component | state it keeps | operations that change it | must hold |
|---|---|---|---|
| plan rules (`orchestrator/plans.py`) | none; functions of a user's row | enforce expiry and quota windows, check, consume, activate | caps are never exceeded, counters reset when and only when a window ends, a payment buys one term |
| registry and billing (`orchestrator/auth.py`, `billing.py`, routes of `main.py`, `shared/persistence.py`) | two dictionaries in memory, each mirrored in a JSON file that is rewritten whole | analyses and cards, plan view, checkout, verify, webhook, restart | every grant is charged, every settled payment is served once, no plan without a payment |
| circuit breaker (`shared/circuit_breaker.py`, `agents/base_agent.py`) | state, failure count, time of opening, per agent | `is_open`, `record_success`, `record_failure` around an operation | fields agree, open circuits end, a healthy agent is served |
| analysis pipeline (`orchestrator/pipeline.py`, `store.py`, risk manager, decision maker) | high-water mark of the equity, signal store | one cycle: equity, bars, assessment, decision, execution, publication, record | nothing is traded past the drawdown limit, every trade is on record |
| paper broker (`execution/broker_api.py`) | cash, netted positions, last prices | `submit` | the books balance through adds, partial closes and reversals |
| Telegram scanner (`telegram_bot/scanner.py`, `scheduler.py`, `app.py`, `db.py`, `confluence.py`) | SQLite tables of signals and subscriptions | scan jobs per timeframe, suppression, broadcast, subscribe, restart | no bar is announced twice, cooldown and cap are kept, jobs end |
| Telegram outcomes (`scanner.py`, `engine.py`) | outcome column of the signals table | settling open signals on each scan | a signal is settled once, by later bars, by its own levels |
| market feed (`data_pipeline/signalr.py`, `biquote_feed.py`) | connection, receive loop and retry of each `/ws/ticks` client | connect, handshake, subscribe, receive, reconnect, close | a client that stays gets its feed back, one that leaves leaves nothing behind |
| login limiter, access requests (`orchestrator/login_rate_limiter.py`, `access.py`) | counts with windows; a JSON file | sign-in, request, approve | blocks begin and end on time |
| message bus (`shared/messaging.py`, `orchestrator/message_bus.py`) | queues of subscribers | publish, subscribe | slow subscribers lose messages, others do not |
| signal engine (`signals/`) | bounded list of signals in memory | evaluate a closed bar, publish | one signal per bar |
| language-model client (`shared/llm.py`) | budgets and backoff | call, retry, fall back | budgets are kept |
| community board (`orchestrator/community.py`) | posts, comments, likes, follows and notifications, in one JSON file | post, comment, like, repost, follow, report | counters agree with the lists beside them |

The first eight rows are modelled; the others are in the [plan](#plan). The web
client (`frontend/src`, where each page is a part of its own):

| part | state it keeps | operations that change it | must hold |
|---|---|---|---|
| sign-in and sign-out (`auth-provider.tsx`, `middleware.ts`, forms, `user-storage.ts`) | token cookie, user of the tab, forms, stores on disk and in modules | navigate, load, sign in, refuse, sign out, expire | people's data stay apart, no challenge is sent twice, the console is for administrators |
| settings (`settings-panels.tsx`, `settings.ts`, `profile.ts`) | preferences and profile, in memory and on disk; copies in the panel | edit, save, clear, pick an avatar, leave, sign out | memory and disk agree unless the disk refuses or is wiped |
| checkout (`pricing/checkout/page.tsx`, `pricing-view.tsx`, `subscriptions-view.tsx`) | page, plan, payments, polls | choose, create, poll, check, leave | success is real; what settles while polled for is served |
| admin console (`admin-dashboard.tsx`, `admin-request-detail.tsx`, `apply-form.tsx`, `access.py`) | registry of requests, lists of each console | apply, list, open, decide | lists go forward, who is thanked is on record |
| widget grid (`widget-grid.tsx`) | saved order, cache of each tab | drag, drop, reset, release | every widget once |
| community store (`use-social.ts`) | posts and flags, storage, hydration, requests on their way | click, hydrate, mirror, reload, sign out | counts and flags agree, also with the server's |
| community page (`community-view.tsx`, `post-composer.tsx`) | tab, page, dialogs, draft | scroll, search, compose, attach | everything is reached, posted levels make sense |
| chats (`ai-view.tsx`, `zenmux-view.tsx`, `composer.tsx`) | conversations in view and storage, question under way | ask, answer, select, rename, delete, leave | a reply follows its question |
| live market (`charts-view.tsx`, `price-chart.tsx`, `use-ohlc.ts`) | candles, reads, canvas, requests under way | select, answer, draw, toggle | a chart shows what is selected |
| tick stream (`use-ticks.ts`, `symbol-provider.tsx`) | socket, status, symbols | dial, open, drop, retry, replace | the status is the socket's, and it dials again |
| dashboard (`dashboard-view.tsx`, `generate-analysis-dialog.tsx`) | list of signals, panel, analyses under way; the backend's list, which others fill too | open, submit, end, close | no older list replaces a newer one |
| pre-signal (`pre-signal.ts`) | session of a day | new bar, revised bar, new day | an alarm is warranted |
| signals feed (`signals-view.tsx`, `analysis-model.ts`, `store.py`) | store's records, filters, list, drawer | record, query, filter, view | feed and dashboard agree |
| market intelligence (`market-intel.ts`, `intel-sections.tsx`) | readings of the candles, analyses | load, select, analyse | verdicts have a reason |
| alert rules (`alerts-view.tsx`) | rules on disk and in each tab | load, add, toggle, delete | a rule stays until it is deleted |
| signal cards (`analysis-card.tsx`, `analysis-detail.tsx`, `schemas/signals.py`) | record, candles, drawer | publish, load, view | levels are in order |
| search (`docs-search.tsx`) | query, highlight, timers | type, move, open | Enter opens what is highlighted |

### How they interact

Customers reach the gateway over HTTP. Every route runs on one event loop, except
that the synchronous dependency `get_current_user` runs in a thread pool, so a
handler can be entered with a row that has been replaced meanwhile, and that the
community routes, plain functions, run there as a whole. Metered routes change the
registry and then run a pipeline cycle; billing routes call Khpay and change ledger
and registry. All cycles of a process share one paper account, one tracker of the
equity's peak, one signal store and one breaker per agent. The Telegram bot is a
process of its own: its cron jobs, one per timeframe, share an event loop and a
SQLite file. Each `/ws/ticks` client has a feed of its own, whose coroutines share
the fields of one SignalR client. The web client is one document per tab: handlers and
answers of requests run one at a time, and what interleaves are requests under way,
timers, renders that come later than the change, and other tabs on the same
`localStorage`. Shared memory and awaits are therefore the means
of interaction, and messages travel only to and from Khpay, the feed and Telegram.

### What is hard about it

- **Read, await, write.** `zenmux` stores a row it captured before an upstream
  call; a cycle is judged on an equity it read before fetching bars; a breaker
  records outcomes of calls that were admitted in an earlier state.
- **Two files and no transaction.** A payment is marked in one file and its plan
  granted in another; either write can fail with nothing but a log line, and the
  process can die between them.
- **Two confirmations.** The checkout page polls and Khpay notifies, for the same
  payment, and each may be told "not yet" or nothing at all.
- **Windows.** UTC days, billing periods, plan terms, cooldowns, hourly caps and
  quiet hours end at boundaries that can coincide.
- **Reconnecting.** A receive loop that breaks starts a retry, which connects and
  starts a receive loop; close cancels what it knows of; a hub may also hang up
  politely.
- **Late and missing bars**, rows that cannot be written, chats that have blocked
  the bot, and restarts between a decision and its delivery.

- **The page behind the request.** An answer arrives when another symbol, chat, tab
  or person is on the page; an effect writes what it has not yet read; a socket that
  was replaced still reports.
- **A storage that refuses.** `localStorage` may be full, forbidden or emptied by a
  sign-out, while the stores in memory go on; most of the code says nothing of it.
- **What outlives a page.** Polls and analyses go on after their page is left,
  module-level caches after a sign-out, stored layouts after a release.

`PROJECT.json` lists each hazard at its line with the properties aimed at it.

## The modules

One action stands for everything a handler does between two awaits. Variables
named *history* in a module are not in the code; they remember what a property
needs. Definitions commented *Mutant* are plausible bugs that no specification
uses; each shows that some property is able to fail.

### PlanRules, Accounts, Subscriptions

`PlanRules` is `plans.py` as pure operators on a row: `Enforce` is downgrade, then
period, then day, in the code's order; `Check` and `ConsumeMany` return the row and
the verdict. A UTC day is `DayLength` ticks and a billing period `PeriodDays` days.

`Accounts` has the stores twice, in memory (`users`, `payments`) and on disk
(`usersFile`, `paymentsFile`), the payment service (`khpay`, external: it issues
ids, the customer pays, and it answers truthfully, with an error or "not yet"), and
the requests in flight (`tasks`). The actions and the code:

| action | code in `orchestrator/main.py` |
|---|---|
| `Authenticate` | `get_current_user` has returned a row, the handler has not begun |
| `Analyse` | `analysis`, `analyze_symbol`, `analyze_batch`: charge, save, run |
| `CheckCard`, `ChargeCard`, `FailCard` | `zenmux` before its await, and after it |
| `ViewPlan` | `billing_plan` |
| `StartCheckout`, `IssueBill`, `FailCheckout`, `RecordPayment` | `billing_checkout` around `create_payment` |
| `StartVerify`, `StartWebhook` | `billing_verify` and `billing_webhook` up to `check_payment` |
| `Confirmed`, `Unconfirmed` | what each does with the answer: `_activate_from_payment`, or nothing |
| `Answer` | a handler that changes nothing |
| `Crash`, `CrashInActivation` | the process dies anywhere, or between the two saves; a restart loads the files |

A failed write keeps the old file, as `persist_json` logs and returns. Requests that
are refused before they change anything are `Answer`. An account starts registered;
cards of `zenmux` are served even if the second charge is refused, as in the code.

`Subscriptions` is the abstract service: order, settle, redeem once for one term,
lapse. `Accounts!PromiseKept` maps the registry's rows and the ledger to it. The
map reads a payment's stage from Khpay and the ledger, so that a payment counts as
redeemed from the moment it is marked, and the same step must grant the plan.

### CircuitBreaker

Each method holds the lock and is one step: `Begin` is `is_open` with the promotion
that the `state` property does on the way, `Succeed` and `Fail` record outcomes of
running calls. The failure count is kept up to the threshold and the time since
opening up to the timeout, beyond which the code's comparisons do not tell values
apart.

### PaperBroker, TradingDesk

`PaperBroker` has the broker's `submit`: fill at the order's price, commission,
mark, and the three ways an order nets with a position. `TradingDesk` runs cycles
over it. A cycle is `Begin` (equity and peak are read), `Assess` (veto or size),
`Execute` or `Skip`, and `Record`; `Fail` and `FailToPublish` are its exceptions
before and after the fill. Sizes are any that the cap on one trade allows: Kelly
fractions, stops and regimes only choose among them. Analysts choose symbol, side
and price, and are never neutral, since a neutral cycle changes no shared state.

### SignalScan

A tick is the length of the shortest bar. `Fire` starts the job of a timeframe unless
it is running (`max_instances=1`); `Ignore`, `Withhold` and `Announce` are what
`Scanner.scan` does to a pair once its frame is there; when all are done the broadcast
sends message by message and chat by chat (`Send`). `Break` is an error that escapes
a pair. The table and the subscriptions survive `Restart`; passes do not. A bar
carries only the signal it computes to. Every signal passes the broadcast gate: the
engine computes none below a confidence of 0.60, and the gate asks for 0.40.

### Outcomes

One pair, whose bars close with a low, a close and a high. `Scan` is `Scanner.scan` for
the newest bar: `Resolved` is `_resolve_outcomes`, which judges *every* open row by
the signal just computed, then the new row is stored unless known. Distances of stop
and target are constants, as under a constant ATR; the scanned frame ends with the
newest closed bar.

### MarketFeed

The feed of one `/ws/ticks` client. Coroutines are the endpoint (`stream_ticks` with
`start` and `stop`), the runs of `_reconnect` (`Retries`) and a `_receive_loop` per
connection (`loop`, by the socket it was created for). Each await ends an action:

| action | code in `data_pipeline/signalr.py` |
|---|---|
| `Dial`, `FailDial` | `connect` up to the handshake being sent |
| `Shake`, `FailShake` | the handshake's answer; the loop is created and the hook begins |
| `Sent`, `FailSend` | `Subscribe` is written, or raises; an exception ends the endpoint's start and makes a retry go round again |
| `StartLoop`, `Break`, `RunOut` | `_receive_loop`: its first step, an exception, and the end of its iterator |
| `BeginRetry`, `HangUp`, `Wake` | `_reconnect`: the head of its loop, `close_connection_only`, the delay |
| `Leave`, `Cancel`, `Close` | the endpoint's `finally`, and the two halves of `close` |
| `Lose`, `End` | the connection breaks, or the hub closes it in good order (external) |

The library raises in the second of two coroutines that read one socket (`Read`).
*History*: `ended`, that the hub has closed a socket in good order, and `tangled`,
that two coroutines were connecting at once. After a tangle two retries can close
each other's connections again and again, so the properties except it by name.

### The web client

One module per part, each with the state of *one* page or store (two where tabs
meet), the answers of the gateway as actions, and a bound on what its user does
(`MaxMoves` and the like). A mounted component is a record, and one that is not
mounted a constant of its own; a request under way is an element of a set or a
record that its answer removes, and an aborted one stays there until it is ignored.

- **`Session`**: the token cookie and `Middleware`, the user `AuthProvider` asks for
  (`MeAnswers`, `MeFails`), the forms with their single-use tokens (`Solve`, `Submit`,
  `Refused`, `SignsIn`), which are answered also after they were left (`late`,
  `SignedInLate`), `AdminGuard`, and for each per-user store whose data it holds
  on disk and in its module. *History*: `who`, `parting`, `mixed`, `spent`.
- **`Settings`**: the two stores and the panel's copies of them. A load renders the
  server's snapshot, so the panel starts from the defaults; a navigation starts it
  from the store. Every write may fail: `saveSettings` and `clearLocalSettings` swallow
  it, `saveProfile` throws with the module changed, which ends `save`; and `SignOut`
  empties the storage under both modules. *History*: `touched`, `parted`.
- **`Checkout`**: the three pages of a purchase. `Created` starts a poll, which goes on
  after the page is left; `PollWakes`, `PollAnswers` and the button's `Check` overlap.
  `SignIn` is the form's, of which `AuthProvider` is not told, `GoogleSignIn` the one
  that comes back with a load. `Settle` is the customer's payment (external), `Webhook` is Khpay's notification.
- **`Admin`**: `ApplyForm`, the registry of `access.py`, and the consoles, whose lists
  are fetched by `useAsyncData`: a request is served, and later received unless it was
  aborted. `DecisionAnswers` is `approve` or `reject`. *History*: `told`, `changes`.
- **`WidgetGrid`**: `readOrder`, the merge with the release's widgets (`order`), drag
  and drop, `writeOrder`, which may fail, and `Released`, a deployment (external).
- **`Social`**: the store, mutated in place; `Hydration` in three steps (feed, its
  application, comments); `Click` as commit, `Persist`, which may fail, and the request
  that mirrors it; `Serve` and `Lose` of requests in any order; `SignOut`, which wipes the
  storage under the store; `Render`, which is not caused by a change, since the store's
  identity does not change. The server's seed has a comment more than the client's, and
  its id is the one that the tab gives its own first comment (`ServerComments`), so that
  the client, which looks for the post as well (`Meant`), and the server (`Called`) can
  mean different comments. *History*: `unsaved`, `lapsed`.
- **`CommunityPage`**: tabs, paging by the sentinel (`Intersect`), which an effect
  observes when its `Dependencies` change (`Observe`), dialogs, threads and the composer,
  with the `FileReader` of an image.
- **`Chats`**: /ai and Zenmux over one shape of state. `Ask` puts the question and
  remembers where its reply belongs; `Reply` puts the reply there. What is set is written
  by an effect, unless the storage refuses (`Put`). *History*: `lost`, `unsaved`.
- **`LiveMarket`**: `useOhlc` and `useTimeframeReads` with their abort rules, and the
  chart, which exists once its library was imported (`ChartReady`) and is fed by
  effects that `Commit` runs.
- **`TickStream`**: the socket of `/ws/ticks` from the browser's side, and the list
  of symbols that replaces it. The other end is `MarketFeed`.
- **`Dashboard`**: the list of signals, the dialog, mounted anew each time, and the
  analyses, which may outlast it by 900 ms and more. The backend's list is that of all
  customers: it grows also by a run whose reply is lost (`AnalysisFails`) and by the
  cycles of others (`OthersAnalyse`), which the page is not told of. *History*: `closed`,
  `asked`.
- **`PreSignal`**, **`MarketIntel`**: arithmetic of the client as operators named as
  in the code, on scaled integers; their actions bring bars and analyses.
- **`SignalFeed`**: the store's records and queries, `toAnalysisInsight`, the filters,
  the consensus and both trade calls.
- **`AlertRules`**: the effect that loads, the effect that saves, and the order in
  which a mount runs them.
- **`SignalCard`**: what the agents put in a record, with the rounding of
  `decision_maker/agent.py`, and what card and drawer make of it and of the candles.
- **`DocsSearch`**: the palette, whose highlight is clamped to the results.

`WebAccount` composes the first five, for any values of their constants, and
`MCWebAccount` gives it an instance; `WebContent` composes the other twelve, with the
instance `MCWebContent`. What `filter` returns of an array is `Selection`. The parts
share no variable, because one page is open at a time and what they share in the
code (a symbol, the user) is part of each one's own state; so a behaviour is chosen
by the page that is open (`at`) and the state of the others is `Closed`. Their
properties are those of the parts, each for its page.

## The runs

The passing runs between them take every action of every module.

| run | instance | states | shows |
|---|---|---|---|
| `accounts_concurrent` | 1 customer, 1 payment, 2 requests, 4 ticks, 1 failed write, 1 crash | 299,601 | `PaidPlansArePaidFor`, `UsageWithinCaps`, `LedgerMatchesKhpay` for every copy of the data |
| `accounts_serial` | 2 paid plans, 2 payments, 1 request at a time, 4 ticks, no faults, fair | 70,000 | `EachPaymentServesOnce`, `QuotasAreExact`, refinement `PromiseKept`, liveness `SettledIsServed` |
| `breaker_concurrent` | 4 calls, threshold 2, timeout 3, fair | 485 | `FieldsAgree`, `Heals` |
| `desk_serial` | 4 cycles in turn, 1 symbol | 5,515 | `PositionsAreNet`, `TradesAreRecorded`, `NoTradeBeyondDrawdown` |
| `desk_concurrent` | 3 cycles, 2 at a time, 2 symbols, Redis may fail, 2 days | 181,646 | `BooksBalance` under every interleaving |
| `scan_restarts` | bars of 1 and 2 ticks, both directions, late bars, escaping errors, 1 restart | 134,128 | `HeardIsSound` |
| `scan_limits` | cooldown 2 bars, cap 2 in 4 ticks, 1 quiet tick, late bars, failed rows, a blocked chat, fair | 121,534 | `AlertsAreLimited`, `PassesEnd` |
| `outcomes` | 4 bars of 5 shapes, scanned any number of times | 90,401 | `SettledSoundly` |
| `market_feed` | 3 sockets, 2 retries, 2 faults, up to the first tangle, fair | 12,619 | `NobodyForgets`, `StopIsClean`, liveness `Repaired` |
| `web_account` | the five pages of `WebAccount`, fair polls | 466,345 | `AccountsStayApart`, `TokensAreFresh`, `StoresAgree`, `SuccessIsReal`, `EveryWidgetOnce`, `ListGoesForward`, liveness `CaughtWhilePolling` |
| `web_content` | the twelve pages of `WebContent`, fair scrolling | 725,281 | `CountsMatchFlags`, `RepliesFollowTheirQuestion`, `StatusFollowsTheSocket`, `ShownIsCurrent`, `AlarmsAreWarranted`, `CallsAgree`, `CardsHoldTogether`, `EnterOpensTheHighlight`, `TrendIsBacked`, `RulesAreKept`, liveness `EverythingIsReached` |
| `accounts_lost_upgrade` | as `accounts_concurrent`, without faults | | a counterexample, see below |

`EachPaymentServesOnce` joins `PaymentHonoured` and `ActivatedOnce`; `QuotasAreExact`
joins `ChargedInFull` and `ResetsAreDue`; `HeardIsSound` joins `AnnouncedOnce` and
`AlertsAreOnRecord`; `AlertsAreLimited` joins `AlertsAreSpaced` and `HourlyCapHolds`;
`SettledSoundly` joins `OwnBarSettlesNothing`, `WinsAreCertain` and `OutcomesAreFinal`.
The two web runs check the type invariant of every page as well (`PagesAreTyped`). The
other modules' `TypeOK` holds when it is added to their runs, as do `OpenEnds` in
`breaker_concurrent` and `BlockIsFinal` in both desk runs.

**Why the bounds are enough.** Caps of 1 and 2 a day and 2 and 3 a period, charged
by requests for one or two symbols, are reached, exceeded and reset; the time bound
passes a midnight and a period's end, together and apart, and the expiry of a plan.
Two requests are what a lost update needs, and one crash and one failed write what
memory and file need to part. Two payments let one supersede the other. Four calls
and a threshold of 2 let a circuit trip, be tripped again by late failures, and heal
while calls are out. Prices are multiples of 12,600, so that averages of up to eight
units are exact, and a fifth apart, so that one adverse move breaches the limit of
five percent; sizes of 1 and 2 make partial closes, full closes and reversals.
Cooldowns and caps are met from both sides within the ticks there are. Two faults
break a connection and the one that replaces it, or the handshake in between;
attempts to connect may fail any number of times besides, and with three sockets and
two retries none is ever wanting before a tangle. Bars can reach a stop, a target,
both or neither.

In the web client two people, one of them an administrator, sign in after each other
within six moves: sign in, visit, sign out, sign in, visit, and one to spare. Six
moves in the settings edit, save, clear, leave and come back. Two payments of three
attempts each let the poll of one outlive the page of the other, and let it run out;
three fetches of a console overlap in every order; two tabs and two releases, of
which the later has a new widget and has lost one, meet every branch of the merge.
A write that fails is paid for like a click (`MaxClicks`), so that a click whose write
fails, a reload and one more click, or a toggle, a lost write and a sign-out, all happen;
where moves bound a page, each write of it may fail.
Two conversations are the limit at which a new one displaces the oldest, two symbols
what a stale answer needs, two drops what a retry of a retry needs. A tab of the
community keeps all, none or some of three posts, read one at a time. The prices of
the pre-signal session and of the cards, and the readings of the intelligence, are
chosen on both sides of every comparison, with 1, 20, 40, 60 and 210 bars around the
lengths the averages need.

`MaxTime`, `MaxServed`, `MaxFaults`, `MaxCrashes`, `MaxRestarts`, `MaxDay` and
`MaxBars` only bound exploration, and `Cycles` bounds how many cycles there are.
Desk, scan and outcome models do not check for deadlock because cycles, ticks and
bars run out, nor do the web runs, whose moves run out, nor `MarketFeed`, whose client
may have left; `Accounts` and
`CircuitBreaker` do check, and have none. Symmetry is used for request, payment,
cycle and symbol names, and in no run with liveness.

**Fairness.** `Accounts`: a request in flight goes on (weak fairness of `Handle`); a
customer whose payment is not marked asks again, because the checkout page polls
every four seconds and may be reopened, or because Khpay notifies (strong fairness of
`Retry`); and a check made again and again is truthfully answered some time (strong
fairness of `Answered`). The last two are about the world outside, and are why
`SettledIsServed` is a promise only to customers who keep asking. `CircuitBreaker`:
time passes, operations end, and the agent goes on being called. `SignalScan`:
fetches and messages end, as both have timeouts. `MarketFeed`: coroutines go on, and a
hub that is dialled again and again answers some time (strong fairness of `Dial`).
`web_account`: the timer of a poll fires, and its request is answered, by an error if
not otherwise, as browsers end requests that fail; `CaughtWhilePolling` excepts a poll
that as many answers can fail as it has attempts left. `web_content`: the skeleton's
timer fires, and a sentinel in view is reported. In their own modules the other pages
state the same of their requests and timers.
Its constraint `Untangled` ends a run at a tangle, which is sound for `Repaired`,
because a tangle discharges it. Nothing is assumed of crashes,
ticks, payments or of the success of any message.

## Where code and documents disagree

`accounts_lost_upgrade` checks a sentence of the repository and ends in a
counterexample. "the intent is marked ``paid`` and the matching user's plan is
activated" (`orchestrator/billing.py:4`): a request captured its row before the
activation and stores it afterwards: the payment is paid, the plan is gone.

The modules define further properties that the code does not keep; in the pages'
modules they are marked so. To see one fail, add it to the run, or use the
configuration, that is named here. Each of these ends in seconds.

| where | property | what it shows |
|---|---|---|
| `scan_limits` | `HeldForWhatWasSent` | suppressed rows are stored too and renew the cooldown: a pair with a signal on every bar is announced once and then never, where `telegram_bot/scanner.py:236` has "both the cooldown and the hourly cap are measured against what the pair has already sent" |
| `outcomes` | `OutcomesAreEarned` | open rows are settled by the levels of the new signal, where `scanner.py:279` has "Close open signals of this pair whose target or stop this bar reached." |
| `accounts_concurrent` | `ChargedInFull` | a card and an analysis overlap, and one of the two charges is overwritten |
| `accounts_concurrent` | `ActivatedOnce` | poll and webhook both pass the paid check and activate, a tick apart |
| `accounts_concurrent` | `PaymentHonoured` | also by a crash between the saves: paid, and never served again |
| `breaker_concurrent` | `OpenWaitsForRecovery` | a call admitted before the trip succeeds and closes the circuit at once, against `circuit_breaker.py:9` |
| `breaker_concurrent` | `OneProbe` | half open, every caller is admitted, where `circuit_breaker.py:11` has "a probe call" |
| `desk_concurrent` | `NoTradeBeyondDrawdown` | a cycle read the equity before another's loss, and is filled past the limit ("Past the configured limit, no new position is opened.", `frontend/src/app/(marketing)/learn-more/page.tsx:93`) |
| `desk_serial` | `ExposureIsCapped` | two trades, each under the cap, make a position over it: the sizer is not told what is held |
| `desk_concurrent` | `TradesAreRecorded` | Redis fails after the fill: an account with a trade and a store without ("Every analysis cycle records its four agent outputs here", `orchestrator/store.py:3`) |
| `desk_concurrent` | `VetoIsForTheDay` | a veto for a loss of the day before, where `Research/backend-docs.md:228` has "5% daily" |
| `scan_quiet.cfg` (`MCSignalScan`) | `QuietHoursAreQuiet` | a pass begins before the quiet hours and delivers in them (`telegram_bot/defaults.py:33`) |
| `scan_unrecorded.cfg` (`MCSignalScan`) | `AnnouncedOnce` | a row that could not be written is announced, and its bar again by the next pass when the feed is late |
| `scan_broken_pass.cfg` (`MCSignalScan`) | `PassesAreComplete` | an error outside the fetch ends the pass for all pairs ("one bad symbol must not abandon the rest of the pass", `scanner.py:138`) |
| `market_feed` | `AlwaysRepaired` | the hub closes the socket in good order: the receive loop runs out, no retry starts and the client hears nothing more, where `signalr.py:10` has "automatic reconnection" |
| `market_feed` | `StopIsFinal` | a retry's `Subscribe` fails while the receive loop breaks: two retries run, `close` cancels the later one, and the earlier opens a connection that nobody closes (`signalr.py:133`) |

In the web client, where each ends in seconds or a minute when it is added to the run of
its page, guarded by `at`:

| module | property | what it shows |
|---|---|---|
| `SignalCard` | `StripIsSound` | `agents/decision_maker/agent.py:431` rounds stop and targets to cents whatever the market: for a pair quoted around one, with a stop nearer than a cent, targets coincide or the stop meets the entry, against its docstring |
| `SignalCard` | `CallsAreInOrder`, `PartsAreOfTheWhole` | the Decision Maker's card has an entry and takes its levels from other candles; the parts under the drawer's confidence are of the candles, the whole is the record's |
| `Session` | `OwnDataOnly` | a store that was read before a sign-out keeps its copy in memory and writes it back for the next person (`lib/user-storage.ts:11`) |
| `Session` | `SignInIsNoticed` | the form writes the cookie and goes on; `AuthProvider`, mounted above it, is not told and knows nobody until the tab is loaded again |
| `Settings` | `SavedIsStored` | "Settings saved successfully." is shown although the storage has refused the write, which is swallowed (`lib/settings.ts:209`) |
| `Settings` | `PreferencesAreKept`, `ClearedStaysCleared`, `AvatarIsKept` | a panel that was rendered from the defaults saves them over what was stored; after clearing, the form still holds what was cleared (`settings-panels.tsx:715`) |
| `Checkout` | `ActivatesAutomatically`, `OneCheckAtATime`, `AnnouncedOnce`, `PollsAreShown`, `ShownPlanIsReal` | the poll ends after its attempts, overlaps with the button and outlives its page; the pricing page shows the plan of an earlier read |
| `Admin` | `DecisionsStand`, `RejectedHoldsNone`, `AppliedOnce`, `PaidShareIsWhole` | a console with an older list reverses a decision, and a request rejected after its approval keeps its token (`orchestrator/access.py:134`); the share "on a paid plan" leaves out a plan (`admin-dashboard.tsx:170`, `:199`) |
| `WidgetGrid` | `LayoutIsKept` | a tab that has read the order once does not see what another wrote, and overwrites it (`widget-grid.tsx:6`) |
| `Social` | `MirroredOnlyWhenSynced` | the request is an argument of `mirrorServer`, made before the test for the server |
| `Social` | `OwnIdsAgree` | `cid` counts on from four seed comments, and the server's seed has five (`orchestrator/community.py:449`): a like of the tab's own first comment is a like of somebody else's there, with nothing lost |
| `Social` | `IdsAreUnique` | the ids of the tab's own posts are counted from one again after a reload (`use-social.ts:198`), while the storage keeps the posts: post, reload, post leaves two posts with one id |
| `Social` | `BlockedStaysAway` | when all posts are blocked, the hydrated list is empty, and a reload takes an empty list for none and brings the seed back unblocked |
| `CommunityPage` | `ListsAreObserved` | the list that takes the place of an empty tab has a new sentinel, and the effect that would observe it is not run when page and has-more are what they were (`community-view.tsx:94`): scrolling adds nothing until another tab is chosen or a post changes has-more |
| `CommunityPage` | `PostedSignalsFitTheirSide`, `ImagesStayInTheirDraft`, `PagingSettles` | turning a signal leaves its levels; a file still being read lands in the next draft; has-more compares a tab with all posts |
| `Chats` | `OwnHistoryOnly`, `FailuresSayWhy`, `NoQuestionIsLost`, `AwaitedIsKept` | a new conversation is sent turns of the one before; failures become the generic text; what is submitted while a question is under way is dropped; the conversation that waits may be the one that is displaced |
| `LiveMarket` | `PreSignalsAreDrawn`, `TogglesAreShown`, `ReadsAreOfTheSymbol`, `ButtonNamesWhatItDoes`, `SeriesIsStable` | a chart whose library was imported after its effects ran is drawn without lines and toggles; reads stay those of the symbol before; Escape leaves full screen behind the button's back |
| `TickStream` | `ActiveIsListed`, `TicksAreListed` | the served list replaces the symbols, and neither the selected one nor the ticks |
| `Dashboard` | `ListIsComplete` | a run is recorded and its reply lost, or another customer's cycle ends: the page does not poll, and its list stays as it was |
| `Dashboard` | `CompleteMeansAnalysed`, `ClosedByItsOwn` | a failed analysis reads "Analysis Complete"; the timer of an earlier panel closes the one that is open |
| `PreSignal` | `NearestIsNearest`, `CrossedMeansCrossed` | the levels are sorted with the farthest first (`pre-signal.ts:148`), and a crossing asks only where the close is |
| `SignalFeed` | `NewsIsHeard`, `CallIsOfTheSymbol` | news with a sentiment is of the type "Sentiment", so the slot "News" of the consensus stays empty; the call in the header is of another symbol while a list is under way |
| `MarketIntel` | `ReasonsAreTrue`, `EmaRowsAreTrue`, `HeadlineIsOneRecord`, `HeadlinesAgree`, `GoodNewsHelps`, `ArrowsAreTrue` | reasons from averages that do not exist, a headline made of two records, and good news of low confidence that lowers the score |
| `DocsSearch` | `ScrollsAreCurrent` | the timer of a result that was left scrolls the next page |
| `AlertRules` | `RulesAreKept` | with two tabs, each writes its own list over the other's |

The passing runs state what *does* hold next to each: with one request at a time
nothing is lost and `PromiseKept` is kept; with one cycle at a time the limit is
respected; with rows that can be written nothing is announced twice.

## What is proved

Every theorem is for all values of the constants that satisfy the named assumptions,
which only say what kind of value each constant is.

**AccountsProofs**, the plan rules. `ConsumeManyIsSafe`: whatever row, count and time,
the result is a row of the enforced plan and term, within its caps if the row was. It
rests on bounds of the remainder (period and midnight arithmetic) and on `Enforce`
granting nothing and keeping caps.

**AccountsProofs**, requests that overlap. `TypeCorrect`, `LedgerCorrect`,
`PaidPlansCorrect` and `UsageCorrect`, for any number of customers, payments,
concurrent requests, failed writes and crashes. The inductive invariant is `TypeOK /\
PaymentsAgree /\ RowsAreSound`:

- `PaymentsAgree` adds to `LedgerMatchesKhpay` that requests holding a payment id hold
  it for the customer and plan it was issued for, and that one checkout at most holds
  an id that has not been shown. Without the second, recording could reopen a bill
  that is paid; without the first, a confirmation could activate another plan.
- `RowsAreSound` says of *every* copy of a row (memory, file, captured by a request)
  that a paid plan in it was paid for and its usage is within its caps. Captured
  copies are why the safety properties hold in spite of lost updates: an old row that is
  written back was right once, and what made it right (a settled payment, an
  activation) never goes away.

**AccountsProofs**, one request at a time. `PaymentsServeOnce` (`EachPaymentServesOnce`),
`QuotasStayExact` (`QuotasAreExact`) and the refinement `PromiseIsKept` (`PromiseKept`)
hold for any number of customers, payments, plans and failed writes, when there is one
request handler (`OneAtATime`), no crash (`MaxCrashes = 0`), and the free plan allows
something (`FreePlanServes`; `config.py:230` sets 2 a day and 60 a period). These
hypotheses are the setting of `accounts_serial`; without them each of the three fails, as
the table of counterexamples shows. `SerialInv` is what makes them inductive, on top of the
invariant above:

- a copy in hand is the row in memory, and a card that was admitted is still within its
  quota (`CopiesAreCurrent`), which is exactly what overlapping requests destroy;
- the ledger marks a payment exactly when it was activated, once (`MarkedIsActivated`),
  and a payment being confirmed is pending (`ConfirmingIsPending`);
- a marked payment's term is over, or the customer's plan is of a payment activated no
  earlier (`MarkedIsHonoured`).

`SerialStepIs` reduces every action to one of six effects on the shared state (a charge,
an activation, a bill, its record, its payment, or time), and each of the three
properties, and each step of `Subscriptions`, is proved once per effect. A charge may move
a row to the free plan: the refinement needs that the term was over then (`Lapse`).

**CircuitBreakerProofs.** Types and `FieldsAgree` together are inductive.
`SoloWaitsForRecovery`: with a single caller an open circuit waits for its whole
timeout, by the further invariant that nothing runs while it is open; so the
counterexample to `OpenWaitsForRecovery` needs an overlap.

**TradingDeskProofs.** Of the broker's arithmetic, `NettedIsSound`, `NettedAddsUnits` and
`NettedKeepsWorth`: a netted order leaves a well-formed position, its signed units are
the sum, and cash plus positions are worth at any mark what they were, if the average
price is exact. Of the desk, for any cycles, symbols, prices and sizes:

- `DeskTypeCorrect` and `PositionsCorrect`: positions are what was bought and not sold,
  however many cycles are in flight. The invariant adds that what is held has a mark.
- `BooksCorrect`: `Spec /\ []AveragesExactly => []BooksBalance`. The hypothesis says that
  the average price of every order about to be added to a position is a whole number,
  since the model's division rounds where the code's floats do not; in `desk_concurrent`
  it holds in every state, so nothing is excluded there. Equity is a fold over the
  symbols. That a fold is an integer, and changes by what one symbol changes, are lemmas
  of their own (`SumExists`, `SumChanges`), by a least counterexample instead of an induction: subsets of
  a finite set are well ordered by their cardinality, and the theorem that a nonempty set of
  naturals has a least member needs no operator as a parameter.
- `BlockIsPermanent`: once the veto bites and no cleared cycle is in flight, nothing is
  ever filled again (`BlockIsFinal`), because only fills move the equity and only the
  equity lifts the veto.
- `SerialStaysInDrawdown` (`Parallel = 1`): where cycles do not overlap, no fill happens
  past the limit. `OneByOne` says that the one cycle in flight has read the equity there is.
- `TradesAreInStore` (`BusMayFail = FALSE`): the store is the end of the list of what
  finished (`StoreIsTheEnd`), so the last fills are in it. Its hypothesis is the one the
  counterexample of the tables removes.

**SignalScanProofs.** For any symbols, timeframes, chats, cooldowns, caps and restarts:

- `ScanTypeCorrect`. `Shape` carries that there is a bar for each period that is over,
  that a pass began when its job fired, and that no row is later than the last pass of its
  timeframe; so a pass reads only bars that exist.
- `AlertsStayLimited` (`AlertsAreLimited`), with nothing assumed about late bars, refused
  rows or escaping errors: cooldown and cap are judged on a set that contains every
  announcement, and a pass announces a pair once (`TodoIsFresh`).
- `HeardStaysSound` (`HeardIsSound`), for tables that can be written (`WritesMayFail =
  FALSE`) and a window of confluence of at least two bars where the feed can be late
  (`defaults.py` has 3). `HeardInv` follows an alert through all places it can be in:
  gathered by a pass, queued, half delivered, heard; each with its record, unheard where
  it is still to be sent, and at most once in a queue.

- `OutcomesAreSettledSoundly` (`SettledSoundly` of `Outcomes`), for any bars, distances and
  number of scans: an outcome is of a later bar than its row's, and the level that was
  judged is what that bar reached. The inductive invariant keeps with each settled row a
  side that its bar judges so; that the levels were the row's own is `OutcomesAreEarned`,
  which fails.

**MarketFeedProofs.** For any sockets, retries and faults:

- `FeedTypeCorrect` and `NobodyEverForgets` (`NobodyForgets`), also after a tangle:
  `FeedInv` says that while a client is served, somebody is connecting or about to
  (`Pending`) or the connection in use has a loop and a subscription, or a coroutine on
  its way to them (`Tended`).
- `StopsAreClean` (`StopIsClean`): `Neat` says that until two coroutines were connecting
  at once there is one busy coroutine, one retry that is known to the client, and no open
  socket but its connection; then `close` ends all there is.

**WebAccountProofs.** `PagesAreSound`: each of the five pages has an inductive
invariant, for any accounts, stores, payments, attempts, consoles, releases and tabs;
their conjunction, each for the page that is open, is one of the composition. From it
follow the types (`PagesKeepTheirTypes`), six properties of the run and two more:

- `AccountsAreSeparate` (`AccountsStayApart`). What is on disk is of whoever signed in
  last (`DataIsTheirs`), and so is what the modules hold, unless answers were under way
  or the tab was not loaded again, which the histories `parting` and `mixed` record; the
  provider and the guard speak of whoever the cookie named when they asked
  (`PagesKnowWho`). A console is shown to whom the server called an administrator.
- `TokensServeOnce` (`TokensAreFresh`): tokens are numbered as they are drawn, and the
  last alone can be unspent (`TokensAreDrawn`), so whatever leaves a spent one in a form
  must replace the form before it can be edited.
- `ReloadFindsTheSame` (`StoresAgree`): each of the two stores is what a reload would
  find, unless its own last write failed or a sign-out has emptied the storage since. It
  is inductive with the kinds of the two records: no record in use is taken for an absent
  one (`StoredIsSomething`), and every edit and reset of the panels leaves records of
  their kinds.
- `WhatIsDoneIsDone` (`SuccessIsReal`). Whoever asks about a payment asks about one that
  was made (`AsksAreMade`), since a poll outlives its page and its answer is put in
  whatever view is there by then; and what is called active has settled (`SaysAreTrue`).
  Requests of the console name requests that were registered.
- `AnswersGoForward` (`ListGoesForward`), an action property: fetches have numbers of
  their own, only the last one's answer is taken, and what it brings is no older than
  the list shown (`ListIsSound`), since the registry only grows.

- `SavesKeepToEdits` (`SavesOnlyEdits` of `Settings`), an action property: in a panel
  that was opened by a navigation and not cleared, the form differs from the settings in
  what was edited and in nothing else (`TouchedInv`). Both hypotheses are those that the counterexamples `PreferencesAreKept` and
  `ClearedStaysCleared` remove.
- `DecidedIsNotDecidedAgain` (`DecidedIsLeftAlone` of `Admin`): a request's page fetches
  once, and shows the answer of its own decision before the row of the list, so what it
  was told of is decided in what it shows (`ToldInv`). That another console may decide it
  again is `DecisionsStand`, which fails.

- `WidgetsAreShownOnce` (`EveryWidgetOnce`). Every order in use, in storage or in a
  cache, is a list without repetition of known widgets (`GridInv`); merging selects from
  two such lists that have nothing in common (`OnlyOfList`, `JoinOfLists`), and a drop
  permutes one. Two such lists of one set are equally long (`ListsOfOneSet`).

The assumptions: `"cold"` and the empty user are no accounts, the profile is one of the
stores, there is a release to serve, each release has its widgets once, and counts are
naturals.

**WebContentProofs.** `ContentIsSound`: each of the twelve pages has an inductive
invariant, and their conjunction, each for the page that is open, is one of the
composition (of the community's page, what its composer relies on). From it follow:

- `ContentKeepsItsTypes` (`PagesAreTyped`). Types that are not part of the invariants are
  inductive on top of them (`TypesInv`): the attempts of the tick socket are covered by
  the drops that caused them; the signals in store and the analyses under way are not more
  than the moves that asked for them; the tracked symbols are of the served list; one
  insight at most is in the drawer; a session is as long as its guard lets it grow. The
  score of a market is a number within its bounds because its votes are bounded.
- `CountsGoWithFlags` (`CountsMatchFlags`). The types of the store already say that each
  count is what its flags make it; to them `SocialInv` adds that the server counts a
  follower as often as it is followed, and that ids are numbered. `MirrorInv` says what
  holds between the two sides as long as nothing was lost and nothing crossed a
  hydration: of every post and comment both have, they differ by exactly the requests
  under way, which are an odd number of toggles of a flag, a block, a report or a
  deletion. With no request left there is no difference. What a hydration has in hand is
  the server's, since nothing is clicked while it runs. Of comments whose id the tab
  numbered nothing is said, which `OwnIdsAgree` above shows to be necessary; that what is
  said of the others is not disturbed by them needs that each comment with an id of the
  seed or the server stands under the post that it has there (`PlacedInv`).

- `BlocksAreKept` (`BlockIsKept` of `Social`): what is blocked stays so while it is listed.
  `BlockInv` says what of a block is where: unless the storage is behind, what the store
  has blocked is blocked there, and the server has it so or will be told (`BlocksArrive`), so that a hydration,
  which leaves out what the server has blocked, brings none of it back unblocked. Posts
  of the tab's own are excepted, and a reload that finds a storage which is behind (a
  write failed, or a sign-out wiped it); the former by `IdsAreUnique` above: a second post with the id of a
  blocked one is not blocked.
- `ReloadsBringItBack` (`ReloadKeeps` of `Social`): unless the storage is behind, the
  store is what a reload would load (`StoredInv`), but for a list of posts that became empty and for a hydration that was
  cut short, and a store that was written is never taken for none.
- `StatusIsTrue` (`StatusFollowsTheSocket`), by the stages of the socket in use, whatever
  the replaced one reports.
- `SelectionIsShown` (`ShownIsCurrent`). An import that is still live is of the type
  selected now, and one is due unless the chart is drawn (`ImportsAreDue`); the one live
  fetch of the dashboard is of its symbol, and what it read lies between what the backend
  had when the page last asked and what it has (`LiveIsCurrent`, `ShownIsRead`), however
  many cycles others add; that it is all of it is `ListIsComplete`, which fails; runs are of panels that were opened
  (`RunsAreKnown`).
- `AlarmsHaveReasons` (`AlarmsAreWarranted`) and `TrendsHaveReasons` (`TrendIsBacked`):
  arithmetic of levels, distances and scores, for every session and reading. They need
  that sums of volumes are numbers (`SumFunctionIsInt`) and bounds of every vote.
- `PagesNameOneCall` (`CallsAgree`). The store is in order of time, and the list of the
  feed is what the store held when it was asked (`ListInv`); the dashboard's, of the same
  moment, is a beginning of it (`ShorterIs`). The first directional decision of such a
  list is its newest one (`NewestIsFirst`), which is what the feed looks for. That the
  overall bias has an agent behind it (`BiasIsBacked`) is arithmetic over the four
  slots, and of overlapping requests the one that counts is of the symbol of the filters.
- `CardsAgree` (`CardsHoldTogether`): what a record may carry is one of three kinds, of
  which only the Decision Maker's own levels may be out of order (`OwnLevels`). A signal
  is posted with the levels of its side, because turning it rebuilds the draft's signal
  or clears it (`CommunityInv`). `FarStopsAreSound`: where every stop is farther from the
  entry than a cent, the Decision Maker's rounded levels too lie in order, so that the
  counterexample to `StripIsSound` needs a closer one. Rounding is off by half a cent
  at most.
- `EnterFollows` (`EnterOpensTheHighlight`), for lists of results of any lengths: the code
  gives twelve for no query and up to twenty for one.
- `RepliesHaveTheirPlace` (`RepliesFollowTheirQuestion`): conversations have ids of their
  own, and the one whose reply is awaited ends with its question as long as it is there
  (`ChatsInv`). It is proved of the page and of the storage apart, which have the same
  conversations unless the last write failed.
- `OnlyItsUserDeletes` (`RulesAreKept`), for one tab (`OneTab`), which is the hypothesis
  that its counterexample removes: what is shown is what is stored once it was loaded.

The assumptions say of the constants what the code's arrays and numbers are: prices and
distances are positive, a relative strength is a percentage, `"none"` and `Null` are
names of nothing, the community has its two fixed tabs, limits are naturals, the
dashboard's list is no longer than the feed's, bounds and what the news heard are
naturals, ratios of volumes are integers, confidences are not negative, the seeds of the
community are finitely many and some, and muting a post is not counted. Of the results
of a query nothing is assumed but that they are a list.

**DataLemmas.** What the proofs need of folds, filters and lists, without induction over
data: that a sum of numbers is a number (by a least counterexample), and of the
selection `Only` that it has the elements at the selected places, once and in order, and
that it depends on nothing else (`OnlyAgrees`). The models of the pages select by places
for this reason: of a filter that is defined by recursion nothing could be proved.

**Only model-checked.** Liveness (`SettledIsServed`, `Heals`, `PassesEnd`, `Repaired`,
`CaughtWhilePolling`, `EverythingIsReached`), which the prover does not do. Every
invariant of a passing run is a theorem.

## What is not modelled

- **Floating-point arithmetic**: indicators, Kelly sizing, VaR, regimes, scores. The
  models choose any value the code could come to where state depends on it.
- **Text**: explanations, formatting, prompts, command answers.
- **External services** beyond their answers: Khpay's ids and states, the card
  service, biquote, Telegram and language models. `Pay`, `IssueBill` and the answers
  of `Confirmed` and `Unconfirmed` are how the code uses Khpay.
- **Registration, sign-in, bonus plans by administrators**: the registry begins with
  its accounts. `assert_intact` cannot fail for a registry that was read.
- **Damaged files**: files are replaced atomically, so the code tears none itself.
- **Real time between ticks**: two events of one tick have the same clock reading.
  `UtcMidnight` of a tick and whole-bar cooldowns keep the comparisons of the code.
- **`OrderManager.close` and `PaperBroker.set_price`** have no caller. Stops and
  targets of orders are watched by no code.
- **Drawing**: pages that show one answer, the marketing pages, the text of the
  documentation, the primitives of the interface, and the chart library. Components
  that no page imports are listed in `PROJECT.json`.
- **Two pages at once**: one page is open in a tab; other tabs are modelled where they
  share storage that a page reads again (`WidgetGrid`, `AlertRules`).
- **Schema, deployment, scripts, Raggrap**: no shared state with the above.

## Plan

Done, in order of importance: plan rules and accounts (money), the abstract service
and its refinement, the breaker, broker and desk, the scanner, the outcomes, the feed,
and the web client page by page.

Next, extending the model:

1. `UserRegistry`: registration, duplicate addresses, access requests and their
   approval, with `assert_intact` and a registry that could not be read. Composed
   with `Accounts` through the user rows. (`Admin` has the requests themselves.)
2. `MessageBus`: in-memory fan-out with bounded queues, and the choice of Redis or
   memory at the start; composed with `TradingDesk` in place of `BusMayFail`.
3. `Community`: likes, reposts and follows toggled by threads on shared lists with
   counters beside them, over one file.
4. `LoginLimiter`: attempts, blocks and resets of `login_rate_limiter.py`, and the
   window of the bot's command limit (`db.check_rate_limit`), which prunes the rows of
   every command by the window of the one that is called. Abstractly: no more than the
   limit in any window.
5. `SignalEngine`: the signal store's replacement per bar and its limit, and the
   publisher's retries.
6. `RiskPlan`: the two caps of the sizer as integer arithmetic.

To keep the list of runs short, a new module joins a composition, as the pages do,
and counterexamples stay in the tables above.

Then, proving more: what the chats promise of the names that were given (`GivenNameIsKept`)
and of the phrases that were tapped (`TappedPhraseIsStaged`).
