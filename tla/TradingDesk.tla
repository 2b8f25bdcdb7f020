----------------------------- MODULE TradingDesk -----------------------------
(***************************************************************************)
(* The analysis pipeline that trades (orchestrator/pipeline.py): cycles    *)
(* that share one paper account, one high-water mark and one signal store. *)
(*                                                                         *)
(* A cycle reads the account's equity, fetches bars, is assessed by the    *)
(* Risk Manager, is decided and executed by the Decision Maker, publishes  *)
(* its decision and is recorded.  It awaits between any two of these, and  *)
(* the gateway runs a cycle for every analysis request it is serving.      *)
(* The analysts' part, which touches no shared state, is the choice of a   *)
(* symbol, a side and a price; they never answer NEUTRAL.                  *)
(***************************************************************************)
EXTENDS PaperBroker, Sequences

CONSTANTS
    Cycles,             \* cycles started while the process is up
    Parallel,           \* cycles in flight at once
    Prices,             \* prices the analysts may see
    Sizes,              \* order sizes the position sizer may come to
    MaxPositionPercent, \* cap on the notional of one trade
    MaxDrawdownPercent, \* the drawdown limit
    StoreCapacity,      \* cycles the signal store retains
    BusMayFail,         \* whether publishing can fail: the bus is Redis
    MaxDay              \* bound: the last day

ASSUME DeskAssumption ==
    /\ Prices \subseteq Nat \ {0}
    /\ Sizes \subseteq Nat \ {0}
    /\ {Parallel, StoreCapacity} \subseteq Nat \ {0}
    /\ {MaxPositionPercent, MaxDrawdownPercent, MaxDay} \subseteq Nat
    /\ BusMayFail \in BOOLEAN

VARIABLES
    account,    \* the paper broker's account
    peak,       \* _EquityTracker
    cycles,     \* cycles not started, in flight and over
    records,    \* SignalStore: the cycles it holds, oldest first
    day,        \* the calendar
    cash,       \* history: money paid in, minus what was paid for each fill
    net,        \* history: units bought minus units sold
    highest,    \* history: the highest equity the account has had
    dayHigh,    \* history: the highest equity it has had today
    traded,     \* history: the cycles whose order was filled
    finished    \* history: the decided cycles that are over, in that order

history == << cash, net, highest, dayHigh, traded, finished >>
vars == << account, peak, cycles, records, day, history >>

Waiting == [at |-> "waiting"]
Done == [at |-> "done"]
Failed == [at |-> "failed"]
\* build_risk_context: the equity is read, the bars are on their way.
Fetching == [at : {"fetching"}, symbol : Symbols, side : Sides, price : Prices, equity : Int]
\* Assessed, with the size the Risk Manager allows: 0 on its veto.
Deciding == [at : {"deciding"}, symbol : Symbols, side : Sides, price : Prices, size : Sizes \cup {0}]
\* The order is through, or there was none; the decision is to be published.
Publishing == [at : {"publishing"}]

TypeOK ==
    /\ account \in Account
    /\ peak \in Nat
    /\ cycles \in [Cycles -> {Waiting, Done, Failed} \cup Fetching \cup Deciding \cup Publishing]
    /\ records \in Seq(Cycles)
    /\ day \in Nat
    /\ cash \in Int
    /\ net \in [Symbols -> Int]
    /\ highest \in Nat
    /\ dayHigh \in Int
    /\ traded \subseteq Cycles
    /\ finished \in Seq(Cycles)

Init ==
    /\ account = NewAccount
    /\ peak = 0
    /\ cycles = [c \in Cycles |-> Waiting]
    /\ records = << >>
    /\ day = 0
    /\ cash = InitialBalance
    /\ net = [s \in Symbols |-> 0]
    /\ highest = InitialBalance
    /\ dayHigh = InitialBalance
    /\ traded = {}
    /\ finished = << >>

Over(c) == cycles[c].at \in {"waiting", "done", "failed"}
Goto(c, next) == cycles' = [cycles EXCEPT ![c] = next]
Higher(a, b) == IF a < b THEN b ELSE a

\* RiskContext.drawdown_pct compared with the limit, from a high-water mark.
Breached(high, equity) == (high - equity) * 100 > MaxDrawdownPercent * high

----------------------------------------------------------------------------
\* Mutant: the tracker remembers the last equity, not the highest.
BeginTracksLast(c) ==
    /\ cycles[c] = Waiting
    /\ Cardinality({d \in Cycles : ~Over(d)}) < Parallel
    /\ LET equity == Equity(account)
       IN  /\ peak' = equity
           /\ \E s \in Symbols, side \in Sides, price \in Prices :
                Goto(c, [at |-> "fetching", symbol |-> s, side |-> side,
                         price |-> price, equity |-> equity])
    /\ UNCHANGED << account, records, day, history >>

\* run_cycle up to the await of build_risk_context.
Begin(c) ==
    /\ cycles[c] = Waiting
    /\ Cardinality({d \in Cycles : ~Over(d)}) < Parallel
    /\ LET equity == Equity(account)
       IN  /\ peak' = Higher(peak, equity)
           /\ \E s \in Symbols, side \in Sides, price \in Prices :
                Goto(c, [at |-> "fetching", symbol |-> s, side |-> side,
                         price |-> price, equity |-> equity])
    /\ UNCHANGED << account, records, day, history >>

\* plan_position, scaled by the regime: any size up to the cap on one trade.
Affordable(size, price, equity) == size * price * 100 <= MaxPositionPercent * equity

\* Mutant: a breach halves the size, as every other risk condition does.
AllowedSizesSoftened(equity, price) ==
    {size \in Sizes : Affordable(IF Breached(peak, equity) THEN 2 * size ELSE size, price, equity)}

\* RiskManagerAgent.assess: the one veto, and the sizes there are without it.
AllowedSizes(equity, price) ==
    IF Breached(peak, equity) THEN {0}
    ELSE {size \in Sizes : Affordable(size, price, equity)}

\* The equity is the one read before the await, the mark is the one of now.
Assess(c) ==
    /\ cycles[c].at = "fetching"
    /\ LET asked == cycles[c]
       IN  /\ asked.equity > 0
           /\ \E size \in AllowedSizes(asked.equity, asked.price) :
                Goto(c, [at |-> "deciding", symbol |-> asked.symbol, side |-> asked.side,
                         price |-> asked.price, size |-> size])
    /\ UNCHANGED << account, peak, records, day, history >>

\* DecisionMakerAgent.decide: an order unless the Risk Manager vetoed.
Execute(c) ==
    /\ cycles[c].at = "deciding"
    /\ LET order == cycles[c]
           paid == Sign(order.side) * order.size * order.price
       IN  /\ order.size > 0
           /\ account' = Submit(account, order.symbol, order.side, order.size, order.price)
           /\ cash' = cash - paid - Commission(order.size, order.price)
           /\ net' = [net EXCEPT ![order.symbol] = @ + Sign(order.side) * order.size]
           /\ highest' = Higher(highest, Equity(account'))
           /\ dayHigh' = Higher(dayHigh, Equity(account'))
           /\ traded' = traded \cup {c}
    /\ Goto(c, [at |-> "publishing"])
    /\ UNCHANGED << peak, records, day, finished >>

Skip(c) ==
    /\ cycles[c].at = "deciding"
    /\ cycles[c].size = 0
    /\ Goto(c, [at |-> "publishing"])
    /\ UNCHANGED << account, peak, records, day, history >>

\* Mutant: the store refuses what exceeds its capacity.
StoredFull(c) == IF Len(records) < StoreCapacity THEN Append(records, c) ELSE records

\* SignalStore.record_cycle, on a deque that drops its oldest entries.
Stored(c) ==
    IF Len(records) < StoreCapacity THEN Append(records, c) ELSE Append(Tail(records), c)

\* The decision is published, and the cycle is recorded and returned.
Record(c) ==
    /\ cycles[c].at = "publishing"
    /\ records' = Stored(c)
    /\ finished' = Append(finished, c)
    /\ Goto(c, Done)
    /\ UNCHANGED << account, peak, day, cash, net, highest, dayHigh, traded >>

\* An agent raises or its circuit is open; publishing the assessment fails.
Fail(c) ==
    /\ cycles[c].at \in {"fetching", "deciding"}
    /\ Goto(c, Failed)
    /\ UNCHANGED << account, peak, records, day, history >>

\* DecisionMakerAgent.run: publishing the decision fails, after the execution.
FailToPublish(c) ==
    /\ BusMayFail
    /\ cycles[c].at = "publishing"
    /\ finished' = Append(finished, c)
    /\ Goto(c, Failed)
    /\ UNCHANGED << account, peak, records, day, cash, net, highest, dayHigh, traded >>

NextDay ==
    /\ day < MaxDay
    /\ day' = day + 1
    /\ dayHigh' = Equity(account)
    /\ UNCHANGED << account, peak, cycles, records, cash, net, highest, traded, finished >>

Next ==
    \/ \E c \in Cycles :
        \/ Begin(c) \/ Assess(c) \/ Execute(c) \/ Skip(c) \/ Record(c)
        \/ Fail(c) \/ FailToPublish(c)
    \/ NextDay

Spec == Init /\ [][Next]_vars

----------------------------------------------------------------------------
(* Properties *)

\* Through every sequence of adds, partial closes and reversals, the account's
\* equity is the money that went in and out of it plus the worth, at the marks,
\* of what was bought and not sold (PaperBroker.submit, _apply_to_position).
BooksBalance ==
    Equity(account) =
        cash + MapThenSumSet(LAMBDA s : net[s] * account.marks[s], Symbols)

\* The netted position of a symbol is what was bought of it and not sold.
PositionsAreNet ==
    \A s \in Symbols :
        LET held == account.positions[s]
        IN  net[s] = IF held = Flat THEN 0 ELSE Sign(held.side) * held.quantity

\* No order is filled while the account is further below its highest equity
\* than the drawdown limit allows ("no new position is opened").
NoTradeBeyondDrawdown ==
    [][account' # account => ~Breached(highest, Equity(account))]_vars

\* A fill that makes a position larger leaves its notional within the cap on
\* exposure (position_sizer.py, lines 3 to 6).
ExposureIsCapped ==
    [][\A s \in Symbols :
        LET old == account.positions[s]
            new == account'.positions[s]
            grows == new # Flat /\ (old = Flat \/ new.quantity > old.quantity)
        IN  grows => Affordable(new.quantity, account'.marks[s], Equity(account))]_vars

\* The store holds every fill of the cycles that ended last, as many as it has
\* room for ("Every analysis cycle records its four agent outputs here").
TradesAreRecorded ==
    \A i \in DOMAIN finished :
        i > Len(finished) - StoreCapacity /\ finished[i] \in traded
            => \E k \in DOMAIN records : records[k] = finished[i]

\* The account is past the limit, and no cycle in flight was cleared before.
Blocked ==
    /\ Breached(peak, Equity(account))
    /\ \A c \in Cycles :
        /\ cycles[c].at = "fetching" => cycles[c].equity = Equity(account)
        /\ cycles[c].at = "deciding" => cycles[c].size = 0

\* The veto locks itself in: marks only move with fills, so an account that is
\* past the limit is never traded again by this process, whatever the market
\* does and however many days go by (PaperBroker.equity, _EquityTracker).
BlockIsFinal == [][Blocked => Blocked' /\ UNCHANGED account]_vars

\* The Risk Manager vetoes for what was lost today (Research/backend-docs.md,
\* line 228).
VetoIsForTheDay ==
    [][\A c \in Cycles :
        cycles[c].at = "fetching" /\ cycles'[c].at = "deciding" /\ cycles'[c].size = 0
            => Breached(dayHigh, Equity(account))]_vars
=============================================================================
