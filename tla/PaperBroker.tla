----------------------------- MODULE PaperBroker -----------------------------
(***************************************************************************)
(* The paper broker (execution/broker_api.py) as operators on an account:  *)
(* its cash, one netted position per symbol, and the last fill price of    *)
(* each symbol as its mark.  Money is in whole units, chosen by the        *)
(* instance so that commissions and average entry prices come out exact.   *)
(***************************************************************************)
EXTENDS Integers, FiniteSetsExt

CONSTANTS
    Symbols,            \* the instruments
    InitialBalance,     \* cash of a new account
    CommissionBps       \* commission, in hundredths of a percent of a notional

ASSUME BrokerAssumption ==
    /\ IsFiniteSet(Symbols)
    /\ InitialBalance \in Nat \ {0}
    /\ CommissionBps \in Nat

Sides == {"buy", "sell"}
Sign(side) == IF side = "buy" THEN 1 ELSE -1

Flat == [side |-> "none"]
Position == [side : Sides, quantity : Nat \ {0}, entry : Nat]

NoMark == 0
Account == [balance : Int,
            positions : [Symbols -> Position \cup {Flat}],
            marks : [Symbols -> Nat]]

NewAccount ==
    [balance |-> InitialBalance,
     positions |-> [s \in Symbols |-> Flat],
     marks |-> [s \in Symbols |-> NoMark]]

\* Position.unrealised_pnl
Pnl(position, mark) == Sign(position.side) * (mark - position.entry) * position.quantity

Unrealised(account, s) ==
    IF account.positions[s] = Flat \/ account.marks[s] = NoMark
    THEN 0 ELSE Pnl(account.positions[s], account.marks[s])

\* PaperBroker.equity
Equity(account) ==
    account.balance + MapThenSumSet(LAMBDA s : Unrealised(account, s), Symbols)

----------------------------------------------------------------------------
(* PaperBroker.submit: an order fills at once, at its own price *)

Commission(quantity, price) == (quantity * price * CommissionBps) \div 10000

Open(side, quantity, price) == [side |-> side, quantity |-> quantity, entry |-> price]

\* Mutant: adding to a position keeps its entry price.
AverageStale(position, quantity, price) == position.entry

\* The entry price of a position after more is added to it.
Average(position, quantity, price) ==
    (position.entry * position.quantity + price * quantity) \div (position.quantity + quantity)

Added(position, quantity, price) ==
    [position EXCEPT !.quantity = @ + quantity,
                     !.entry = Average(position, quantity, price)]

\* Mutant: what is closed to the last unit stays as an empty position.
ReducedKeepsEmpty(position, side, quantity, price) ==
    IF position.quantity < quantity
    THEN Open(side, quantity - position.quantity, price)
    ELSE [position EXCEPT !.quantity = @ - quantity]

\* Mutant: a reversal opens the whole order on the other side.
ReducedReversesWhole(position, side, quantity, price) ==
    IF position.quantity > quantity THEN [position EXCEPT !.quantity = @ - quantity]
    ELSE IF position.quantity < quantity THEN Open(side, quantity, price)
    ELSE Flat

\* An order against a position closes part of it, all of it, or turns it round.
Reduced(position, side, quantity, price) ==
    IF position.quantity > quantity THEN [position EXCEPT !.quantity = @ - quantity]
    ELSE IF position.quantity < quantity THEN Open(side, quantity - position.quantity, price)
    ELSE Flat

\* _apply_to_position: the position that is left.
Netted(position, side, quantity, price) ==
    IF position = Flat THEN Open(side, quantity, price)
    ELSE IF position.side = side THEN Added(position, quantity, price)
    ELSE Reduced(position, side, quantity, price)

Lesser(a, b) == IF a < b THEN a ELSE b
Opposes(position, side) == position # Flat /\ position.side # side

\* Mutant: a partial close realises the gain of the whole position.
RealisedInFull(position, side, quantity, price) ==
    IF Opposes(position, side) THEN Pnl(position, price) ELSE 0

\* _apply_to_position: what closing the opposite side adds to the cash.
Realised(position, side, quantity, price) ==
    IF Opposes(position, side)
    THEN Pnl([position EXCEPT !.quantity = Lesser(@, quantity)], price)
    ELSE 0

Submit(account, s, side, quantity, price) ==
    LET held == account.positions[s]
    IN  [balance |-> account.balance - Commission(quantity, price)
                        + Realised(held, side, quantity, price),
         positions |-> [account.positions EXCEPT ![s] = Netted(held, side, quantity, price)],
         marks |-> [account.marks EXCEPT ![s] = price]]
=============================================================================
