-------------------------- MODULE TradingDeskProofs --------------------------
(***************************************************************************)
(* Proofs about the paper broker and TradingDesk, for any symbols, prices  *)
(* and sizes.                                                              *)
(***************************************************************************)
EXTENDS TradingDesk, DataLemmas

\* Nothing adds up to nothing.
LEMMA SumOfZeros ==
    ASSUME NEW S, IsFiniteSet(S), NEW f, f = [s \in S |-> 0], NEW g, IsSum(g, f, S)
    PROVE  g[S] = 0
<1> DEFINE zero == [s \in SUBSET S |-> 0]
<1>1. f \in [S -> Int]
  OBVIOUS
<1>2. ASSUME NEW s \in SUBSET S PROVE SumStep(zero, f, s) = 0
  <2>1. s # {} => One(s) \in S /\ s \ {One(s)} \in SUBSET S
    BY OneIsMember
  <2> QED BY <2>1 DEF SumStep
<1>3. IsSum(zero, f, S) /\ zero[S] = 0
  BY <1>2 DEF IsSum
<1>4. CASE S = {}
  BY <1>4 DEF IsSum, SumStep
<1>5. CASE S # {}
  <2>1. PICK t \in S : TRUE
    BY <1>5
  <2>2. g[S] = zero[S] + f[t] - f[t]
    <3> HIDE DEF zero
    <3> QED BY <1>1, <1>3, <2>1, SumChanges
  <2> QED BY <2>2, <1>3
<1> QED BY <1>4, <1>5

-----------------------------------------------------------------------------
\* Units held: positive when bought, negative when sold short.
Units(position) == IF position = Flat THEN 0 ELSE Sign(position.side) * position.quantity

\* What a position is worth against its entry price.
Gain(position, mark) == IF position = Flat THEN 0 ELSE Pnl(position, mark)

\* The fields of a position, and that no position is flat.
LEMMA PositionFields ==
    ASSUME NEW position \in Position
    PROVE  /\ position # Flat
           /\ position.side \in Sides
           /\ position.quantity \in Nat \ {0}
           /\ position.entry \in Nat
<1>1. "none" \notin Sides
  BY DEF Sides
<1>2. Flat.side = "none"
  BY DEF Flat
<1> QED BY <1>1, <1>2 DEF Position

\* The four outcomes of netting an order against a position.
LEMMA AddedIsPosition ==
    ASSUME NEW position \in Position, NEW quantity \in Nat \ {0}, NEW price \in Nat \ {0}
    PROVE  /\ Added(position, quantity, price) \in Position
           /\ Added(position, quantity, price).side = position.side
           /\ Added(position, quantity, price).quantity = position.quantity + quantity
           /\ Added(position, quantity, price).entry = Average(position, quantity, price)
<1> DEFINE units == position.quantity + quantity
           worth == position.entry * position.quantity + price * quantity
<1>1. position.quantity \in Nat \ {0} /\ position.entry \in Nat
  BY PositionFields
<1>2. position.entry * position.quantity \in Nat /\ price * quantity \in Nat
  BY <1>1, SMT
<1>3. worth \in Nat /\ units \in Nat /\ units > 0
  BY <1>1, <1>2
<1>4. worth \div units \in Nat
  <2> HIDE DEF worth, units
  <2> QED BY <1>3, SMT
<1>5. Average(position, quantity, price) \in Nat
  BY <1>4 DEF Average
<1>6. units \in Nat \ {0}
  BY <1>3
<1> QED BY <1>5, <1>6 DEF Added, Position

LEMMA OpenIsPosition ==
    ASSUME NEW side \in Sides, NEW quantity \in Nat \ {0}, NEW price \in Nat
    PROVE  /\ Open(side, quantity, price) \in Position
           /\ Open(side, quantity, price).side = side
           /\ Open(side, quantity, price).quantity = quantity
           /\ Open(side, quantity, price).entry = price
BY DEF Open, Position

LEMMA LeftIsPosition ==
    ASSUME NEW position \in Position, NEW quantity \in Nat \ {0}, position.quantity > quantity
    PROVE  LET left == [position EXCEPT !.quantity = @ - quantity]
           IN  /\ left \in Position
               /\ left.side = position.side
               /\ left.quantity = position.quantity - quantity
               /\ left.entry = position.entry
<1>1. position.quantity - quantity \in Nat \ {0}
  BY PositionFields
<1> QED BY <1>1 DEF Position

\* What closing the opposite side realises: the gain on the units it closes.
LEMMA RealisedValue ==
    ASSUME NEW position \in Position, NEW side \in Sides, position.side # side,
           NEW quantity \in Nat \ {0}, NEW price \in Nat \ {0}
    PROVE  /\ position.quantity >= quantity =>
                Realised(position, side, quantity, price)
                  = Sign(position.side) * (price - position.entry) * quantity
           /\ position.quantity <= quantity =>
                Realised(position, side, quantity, price)
                  = Sign(position.side) * (price - position.entry) * position.quantity
<1>1. position # Flat /\ position.quantity \in Nat
  BY PositionFields
<1> DEFINE closing == [position EXCEPT !.quantity = Lesser(@, quantity)]
<1>2. Realised(position, side, quantity, price) = Pnl(closing, price)
  BY <1>1 DEF Realised, Opposes
<1>3. /\ closing.side = position.side
      /\ closing.entry = position.entry
      /\ closing.quantity = Lesser(position.quantity, quantity)
  BY DEF Position
<1> QED BY <1>1, <1>2, <1>3 DEF Pnl, Lesser

\* Netting an order never leaves an empty position behind, nor a negative one
\* (PaperBroker._apply_to_position).
THEOREM NettedIsSound ==
    ASSUME NEW position \in Position \cup {Flat}, NEW side \in Sides,
           NEW quantity \in Nat \ {0}, NEW price \in Nat \ {0}
    PROVE  Netted(position, side, quantity, price) \in Position \cup {Flat}
<1>1. CASE position = Flat
  BY <1>1, OpenIsPosition DEF Netted
<1>2. CASE position # Flat
  <2>1. position \in Position /\ position.quantity \in Nat
    BY <1>2, PositionFields
  <2>2. CASE position.side = side
    BY <1>2, <2>1, <2>2, AddedIsPosition DEF Netted
  <2>3. CASE position.side # side
    <3>1. Reduced(position, side, quantity, price) \in Position \cup {Flat}
      <4>1. CASE position.quantity > quantity
        BY <2>1, <4>1, LeftIsPosition DEF Reduced
      <4>2. CASE position.quantity < quantity
        <5>1. quantity - position.quantity \in Nat \ {0} /\ ~(position.quantity > quantity)
          BY <2>1, <4>2
        <5> QED BY <4>2, <5>1, OpenIsPosition DEF Reduced
      <4>3. CASE position.quantity = quantity
        BY <2>1, <4>3 DEF Reduced
      <4> QED BY <2>1, <4>1, <4>2, <4>3
    <3> QED BY <1>2, <2>3, <3>1 DEF Netted
  <2> QED BY <2>2, <2>3
<1> QED BY <1>1, <1>2

\* The units held after an order are those held before plus those ordered,
\* through adds, partial closes, full closes and reversals alike.
THEOREM NettedAddsUnits ==
    ASSUME NEW position \in Position \cup {Flat}, NEW side \in Sides,
           NEW quantity \in Nat \ {0}, NEW price \in Nat \ {0}
    PROVE  Units(Netted(position, side, quantity, price))
             = Units(position) + Sign(side) * quantity
<1>1. CASE position = Flat
  BY <1>1, OpenIsPosition, PositionFields DEF Netted, Units, Sign
<1>2. CASE position # Flat
  <2>1. /\ position \in Position
        /\ position.quantity \in Nat \ {0}
        /\ position.side \in Sides
    BY <1>2, PositionFields
  <2>2. CASE position.side = side
    <3> DEFINE after == Added(position, quantity, price)
    <3>1. after # Flat /\ after.side = side /\ after.quantity = position.quantity + quantity
      BY <2>1, <2>2, AddedIsPosition, PositionFields
    <3>2. Netted(position, side, quantity, price) = after
      BY <1>2, <2>2 DEF Netted
    <3> QED BY <1>2, <2>1, <2>2, <3>1, <3>2 DEF Units, Sign
  <2>3. CASE position.side # side
    <3>1. Netted(position, side, quantity, price) = Reduced(position, side, quantity, price)
      BY <1>2, <2>3 DEF Netted
    <3>2. Sign(position.side) = -Sign(side) /\ Sign(side) \in {1, -1}
      BY <2>1, <2>3 DEF Sides, Sign
    <3>3. CASE position.quantity > quantity
      <4> DEFINE left == [position EXCEPT !.quantity = @ - quantity]
      <4>1. left # Flat /\ left.side = position.side /\ left.quantity = position.quantity - quantity
        BY <2>1, <3>3, LeftIsPosition, PositionFields
      <4>2. Netted(position, side, quantity, price) = left
        BY <3>1, <3>3 DEF Reduced
      <4> QED BY <1>2, <2>1, <3>2, <4>1, <4>2 DEF Units
    <3>4. CASE position.quantity < quantity
      <4> DEFINE turned == Open(side, quantity - position.quantity, price)
      <4>1. quantity - position.quantity \in Nat \ {0} /\ ~(position.quantity > quantity)
        BY <2>1, <3>4
      <4>2. turned # Flat /\ turned.side = side /\ turned.quantity = quantity - position.quantity
        BY <4>1, OpenIsPosition, PositionFields
      <4>3. Netted(position, side, quantity, price) = turned
        BY <3>1, <3>4, <4>1 DEF Reduced
      <4> QED BY <1>2, <2>1, <3>2, <4>2, <4>3 DEF Units
    <3>5. CASE position.quantity = quantity
      <4>1. Netted(position, side, quantity, price) = Flat
        BY <2>1, <3>1, <3>5 DEF Reduced
      <4> QED BY <1>2, <2>1, <3>2, <3>5, <4>1 DEF Units
    <3> QED BY <2>1, <3>3, <3>4, <3>5
  <2> QED BY <2>2, <2>3
<1> QED BY <1>1, <1>2

\* Cash and positions together: at any mark, an order changes what an account
\* is worth by the units ordered times their distance from the mark, and by
\* nothing else, whenever the average entry price comes out exact.
THEOREM NettedKeepsWorth ==
    ASSUME NEW position \in Position \cup {Flat}, NEW side \in Sides,
           NEW quantity \in Nat \ {0}, NEW price \in Nat \ {0}, NEW mark \in Nat,
           position # Flat /\ position.side = side =>
               Average(position, quantity, price) * (position.quantity + quantity)
                 = position.entry * position.quantity + price * quantity
    PROVE  Gain(Netted(position, side, quantity, price), mark)
               + Realised(position, side, quantity, price)
             = Gain(position, mark) + Sign(side) * (mark - price) * quantity
<1>1. CASE position = Flat
  <2>1. Netted(position, side, quantity, price) = Open(side, quantity, price)
    BY <1>1 DEF Netted
  <2>2. Realised(position, side, quantity, price) = 0
    BY <1>1 DEF Realised, Opposes
  <2>3. Gain(Open(side, quantity, price), mark) = Sign(side) * (mark - price) * quantity
    BY OpenIsPosition, PositionFields DEF Gain, Pnl
  <2>4. Sign(side) * (mark - price) * quantity \in Int
    BY DEF Sides, Sign
  <2> QED BY <1>1, <2>1, <2>2, <2>3, <2>4 DEF Gain
<1>2. CASE position # Flat
  <2> DEFINE Q == position.quantity
             e == position.entry
             sp == Sign(position.side)
  <2>1. /\ position \in Position
        /\ Q \in Nat \ {0}
        /\ e \in Nat
        /\ position.side \in Sides
        /\ sp \in {1, -1}
        /\ Sign(side) \in {1, -1}
    BY <1>2, PositionFields DEF Sides, Sign
  <2>2. Gain(position, mark) = sp * (mark - e) * Q
    BY <1>2 DEF Gain, Pnl
  <2>3. CASE position.side = side
    <3> DEFINE a == Average(position, quantity, price)
               after == Added(position, quantity, price)
    <3>1. Netted(position, side, quantity, price) = after
      BY <1>2, <2>3 DEF Netted
    <3>2. /\ after # Flat
          /\ after.side = position.side
          /\ after.quantity = Q + quantity
          /\ after.entry = a
          /\ a \in Nat
      <4>1. /\ after \in Position
            /\ after.side = position.side
            /\ after.quantity = Q + quantity
            /\ after.entry = a
        BY <2>1, AddedIsPosition
      <4>2. after # Flat /\ after.entry \in Nat
        BY <4>1, PositionFields
      <4> QED BY <4>1, <4>2
    <3>3. Realised(position, side, quantity, price) = 0
      BY <2>3 DEF Realised, Opposes
    <3>4. Gain(after, mark) = sp * (mark - a) * (Q + quantity)
      BY <3>2 DEF Gain, Pnl
    <3>5. a * (Q + quantity) = e * Q + price * quantity
      BY <1>2, <2>3
    <3>6. sp * (mark - a) * (Q + quantity)
            = sp * (mark - e) * Q + sp * (mark - price) * quantity
      <4> HIDE DEF a, sp, Q, e
      <4>1. (mark - a) * (Q + quantity) = mark * (Q + quantity) - a * (Q + quantity)
        BY <2>1, <3>2, SMT
      <4>2. (mark - a) * (Q + quantity) = (mark - e) * Q + (mark - price) * quantity
        BY <2>1, <3>2, <3>5, <4>1, SMT
      <4> QED BY <2>1, <3>2, <4>2, SMT
    <3>7. sp * (mark - e) * Q + sp * (mark - price) * quantity \in Int
      BY <2>1, SMT
    <3>8. sp = Sign(side)
      BY <2>3
    <3>9. Gain(position, mark) + sp * (mark - price) * quantity
            = Gain(after, mark)
      BY <2>2, <3>4, <3>6
    <3>10. Gain(after, mark) \in Int
      BY <3>4, <3>6, <3>7
    <3> QED BY <3>1, <3>3, <3>8, <3>9, <3>10
  <2>4. CASE position.side # side
    <3>1. Netted(position, side, quantity, price) = Reduced(position, side, quantity, price)
      BY <1>2, <2>4 DEF Netted
    <3>2. Sign(side) = -sp
      BY <2>1, <2>4 DEF Sides, Sign
    <3>3. \A n \in Nat : [position EXCEPT !.quantity = n].side = position.side
      BY <2>1 DEF Position
    <3>4. CASE Q > quantity
      <4> DEFINE left == [position EXCEPT !.quantity = @ - quantity]
      <4>1. /\ left # Flat
            /\ left.side = position.side
            /\ left.quantity = Q - quantity
            /\ left.entry = e
        BY <2>1, <3>4, LeftIsPosition, PositionFields
      <4>2. Netted(position, side, quantity, price) = left
        BY <3>1, <3>4 DEF Reduced
      <4>3. Gain(left, mark) = sp * (mark - e) * (Q - quantity)
        BY <4>1 DEF Gain, Pnl
      <4>4. Realised(position, side, quantity, price) = sp * (price - e) * quantity
        BY <1>2, <2>1, <2>4, <3>4, RealisedValue
      <4>5. sp * (mark - e) * (Q - quantity) + sp * (price - e) * quantity
              = sp * (mark - e) * Q - sp * (mark - price) * quantity
        <5> HIDE DEF sp, Q, e
        <5> QED BY <2>1, SMT
      <4>6. Sign(side) * (mark - price) * quantity = -(sp * (mark - price) * quantity)
        <5> HIDE DEF sp, Q, e
        <5> QED BY <2>1, <3>2, SMT
      <4>7. /\ sp * (mark - e) * Q \in Int
            /\ sp * (mark - price) * quantity \in Int
        <5> HIDE DEF sp, Q, e
        <5> QED BY <2>1, SMT
      <4> QED BY <2>2, <4>2, <4>3, <4>4, <4>5, <4>6, <4>7
    <3>5. CASE Q < quantity
      <4> DEFINE turned == Open(side, quantity - Q, price)
      <4>1. quantity - Q \in Nat \ {0} /\ ~(Q > quantity)
        BY <2>1, <3>5
      <4>2. /\ turned # Flat
            /\ turned.side = side
            /\ turned.quantity = quantity - Q
            /\ turned.entry = price
        BY <4>1, OpenIsPosition, PositionFields
      <4>3. Netted(position, side, quantity, price) = turned
        BY <3>1, <3>5, <4>1 DEF Reduced
      <4>4. Gain(turned, mark) = Sign(side) * (mark - price) * (quantity - Q)
        BY <4>2 DEF Gain, Pnl
      <4>5. Realised(position, side, quantity, price) = sp * (price - e) * Q
        BY <1>2, <2>1, <2>4, <3>5, RealisedValue
      <4> QED BY <2>1, <2>2, <3>2, <3>5, <4>3, <4>4, <4>5
    <3>6. CASE Q = quantity
      <4>1. Netted(position, side, quantity, price) = Flat
        BY <2>1, <3>1, <3>6 DEF Reduced
      <4>2. Realised(position, side, quantity, price) = sp * (price - e) * Q
        BY <1>2, <2>1, <2>4, <3>6, RealisedValue
      <4>3. Gain(Netted(position, side, quantity, price), mark) = 0
        BY <4>1 DEF Gain
      <4>4. 0 + sp * (price - e) * Q = sp * (mark - e) * Q - sp * (mark - price) * Q
        <5> HIDE DEF sp, Q, e
        <5> QED BY <2>1, SMT
      <4>5. Sign(side) * (mark - price) * quantity = -(sp * (mark - price) * Q)
        <5> HIDE DEF sp, Q, e
        <5> QED BY <2>1, <3>2, <3>6, SMT
      <4>6. /\ sp * (mark - e) * Q \in Int
            /\ sp * (mark - price) * Q \in Int
        <5> HIDE DEF sp, Q, e
        <5> QED BY <2>1, SMT
      <4> QED BY <2>2, <4>2, <4>3, <4>4, <4>5, <4>6
    <3> QED BY <2>1, <3>4, <3>5, <3>6
  <2> QED BY <2>3, <2>4
<1> QED BY <1>1, <1>2

USE BrokerAssumption, DeskAssumption

----------------------------------------------------------------------------
(* The account after an order *)

\* The fields of an account, and the account with new ones.
LEMMA AccountFields ==
    ASSUME NEW a \in Account
    PROVE  /\ a.balance \in Int
           /\ a.positions \in [Symbols -> Position \cup {Flat}]
           /\ a.marks \in [Symbols -> Nat]
BY DEF Account

LEMMA CommissionIsNat ==
    ASSUME NEW quantity \in Nat, NEW price \in Nat PROVE Commission(quantity, price) \in Nat
<1> DEFINE notional == quantity * price
<1>1. notional \in Nat
  BY SMT
<1> HIDE DEF notional
<1> DEFINE share == notional * CommissionBps
<1>2. share \in Nat
  BY <1>1, SMT
<1> HIDE DEF share
<1>3. share \div 10000 \in Nat
  BY <1>2, SMT
<1> QED BY <1>3 DEF Commission, share, notional

LEMMA RealisedIsInt ==
    ASSUME NEW position \in Position \cup {Flat}, NEW side \in Sides,
           NEW quantity \in Nat \ {0}, NEW price \in Nat \ {0}
    PROVE  Realised(position, side, quantity, price) \in Int
<1>1. CASE ~Opposes(position, side)
  BY <1>1 DEF Realised
<1>2. CASE Opposes(position, side)
  <2> DEFINE Q == position.quantity
             e == position.entry
             sp == Sign(position.side)
  <2>1. /\ position \in Position
        /\ position.side # side
        /\ Q \in Nat \ {0}
        /\ e \in Nat
        /\ sp \in {1, -1}
    BY <1>2, PositionFields DEF Opposes, Sides, Sign
  <2>2. sp * (price - e) * Q \in Int /\ sp * (price - e) * quantity \in Int
    <3> HIDE DEF sp, Q, e
    <3> QED BY <2>1, SMT
  <2> QED BY <2>1, <2>2, RealisedValue
<1> QED BY <1>1, <1>2

\* An order changes one position and keeps the account an account.
LEMMA SubmitIsAccount ==
    ASSUME NEW a \in Account, NEW s \in Symbols, NEW side \in Sides,
           NEW quantity \in Nat \ {0}, NEW price \in Nat \ {0}
    PROVE  LET after == Submit(a, s, side, quantity, price)
           IN  /\ after \in Account
               /\ after.balance = a.balance - Commission(quantity, price)
                                    + Realised(a.positions[s], side, quantity, price)
               /\ after.marks = [a.marks EXCEPT ![s] = price]
               /\ after.positions[s] = Netted(a.positions[s], side, quantity, price)
               /\ \A t \in Symbols \ {s} : after.positions[t] = a.positions[t]
<1> DEFINE held == a.positions[s]
           balance == a.balance - Commission(quantity, price)
                        + Realised(held, side, quantity, price)
           left == Netted(held, side, quantity, price)
<1>1. held \in Position \cup {Flat} /\ a.balance \in Int
  BY AccountFields
<1>2. balance \in Int
  <2>1. Commission(quantity, price) \in Nat
    BY CommissionIsNat
  <2>2. Realised(held, side, quantity, price) \in Int
    BY <1>1, RealisedIsInt
  <2> HIDE DEF held
  <2> QED BY <1>1, <2>1, <2>2
<1>3. left \in Position \cup {Flat}
  BY <1>1, NettedIsSound
<1> HIDE DEF balance, left
<1>4. Submit(a, s, side, quantity, price)
        = [balance |-> balance,
           positions |-> [a.positions EXCEPT ![s] = left],
           marks |-> [a.marks EXCEPT ![s] = price]]
  BY DEF Submit, balance, left
<1>5. /\ [a.positions EXCEPT ![s] = left] \in [Symbols -> Position \cup {Flat}]
      /\ [a.marks EXCEPT ![s] = price] \in [Symbols -> Nat]
  BY <1>3, AccountFields
<1> QED BY <1>2, <1>4, <1>5, AccountFields DEF Account, left, balance
----------------------------------------------------------------------------
(* Sums over the symbols *)

\* What an account's equity adds to its balance.
Gains(a) == [s \in Symbols |-> Unrealised(a, s)]
\* Units at marks, as BooksBalance values them.
Values(n, m) == [s \in Symbols |-> n[s] * m[s]]
Worth(n, m) == MapThenSumSet(LAMBDA s : n[s] * m[s], Symbols)

LEMMA GainsAreInts == ASSUME NEW a \in Account PROVE Gains(a) \in [Symbols -> Int]
<1> SUFFICES ASSUME NEW s \in Symbols PROVE Unrealised(a, s) \in Int
  BY DEF Gains
<1> DEFINE p == a.positions[s]
           m == a.marks[s]
<1>1. p \in Position \cup {Flat} /\ m \in Nat
  BY AccountFields
<1>2. CASE p = Flat \/ m = NoMark
  BY <1>2 DEF Unrealised
<1>3. CASE p \in Position /\ m # NoMark
  <2>1. Unrealised(a, s) = Sign(p.side) * (m - p.entry) * p.quantity
    BY <1>3, PositionFields DEF Unrealised, Pnl
  <2>2. Sign(p.side) \in Int /\ p.entry \in Nat /\ p.quantity \in Nat
    BY <1>3, PositionFields DEF Sides, Sign
  <2> HIDE DEF p, m
  <2>3. (m - p.entry) * p.quantity \in Int
    BY <1>1, <2>2, SMT
  <2> QED BY <1>1, <2>1, <2>2, <2>3, SMT
<1> QED BY <1>1, <1>2, <1>3

\* The broker's fold is a sum in the sense of the lemmas above.
LEMMA EquityIsSum ==
    ASSUME NEW a \in Account
    PROVE  \E g : IsSum(g, Gains(a), Symbols) /\ Equity(a) = a.balance + g[Symbols]
<1> DEFINE Folds(h) == h = [s \in SUBSET Symbols |->
                                IF s = {} THEN 0
                                ELSE Unrealised(a, One(s)) + h[s \ {One(s)}]]
           fold == CHOOSE h : Folds(h)
<1>1. ASSUME NEW h PROVE Folds(h) <=> IsSum(h, Gains(a), Symbols)
  <2>1. \A s \in SUBSET Symbols : s # {} => Gains(a)[One(s)] = Unrealised(a, One(s))
    BY OneIsMember DEF Gains
  <2>2. \A s \in SUBSET Symbols :
            SumStep(h, Gains(a), s)
              = IF s = {} THEN 0 ELSE Unrealised(a, One(s)) + h[s \ {One(s)}]
    BY <2>1 DEF SumStep
  <2> QED BY <2>2 DEF IsSum
<1>2. \E h : Folds(h)
  <2>1. PICK h : IsSum(h, Gains(a), Symbols)
    BY GainsAreInts, SumExists, BrokerAssumption
  <2> HIDE DEF Folds
  <2> QED BY <1>1, <2>1
<1>3. Folds(fold)
  <2> HIDE DEF Folds
  <2> QED BY <1>2
<1>4. Equity(a) = a.balance + fold[Symbols]
  BY DEF Equity, MapThenSumSet, MapThenFoldSet, One
<1> HIDE DEF fold, Folds
<1> QED BY <1>1, <1>3, <1>4

LEMMA WorthIsSum ==
    ASSUME NEW n \in [Symbols -> Int], NEW m \in [Symbols -> Nat]
    PROVE  \E g : IsSum(g, Values(n, m), Symbols) /\ Worth(n, m) = g[Symbols]
<1> DEFINE Folds(h) == h = [s \in SUBSET Symbols |->
                                IF s = {} THEN 0
                                ELSE n[One(s)] * m[One(s)] + h[s \ {One(s)}]]
           fold == CHOOSE h : Folds(h)
<1>1. ASSUME NEW h PROVE Folds(h) <=> IsSum(h, Values(n, m), Symbols)
  <2>1. \A s \in SUBSET Symbols : s # {} => Values(n, m)[One(s)] = n[One(s)] * m[One(s)]
    BY OneIsMember DEF Values
  <2>2. \A s \in SUBSET Symbols :
            SumStep(h, Values(n, m), s)
              = IF s = {} THEN 0 ELSE n[One(s)] * m[One(s)] + h[s \ {One(s)}]
    BY <2>1 DEF SumStep
  <2> QED BY <2>2 DEF IsSum
<1>2. Values(n, m) \in [Symbols -> Int]
  <2>1. ASSUME NEW s \in Symbols PROVE n[s] * m[s] \in Int
    <3>1. n[s] \in Int /\ m[s] \in Int
      OBVIOUS
    <3> QED BY <3>1, SMT
  <2> QED BY <2>1 DEF Values
<1>3. \E h : Folds(h)
  <2>1. PICK h : IsSum(h, Values(n, m), Symbols)
    BY <1>2, SumExists, BrokerAssumption
  <2> HIDE DEF Folds
  <2> QED BY <1>1, <2>1
<1>4. Folds(fold)
  <2> HIDE DEF Folds
  <2> QED BY <1>3
<1>5. Worth(n, m) = fold[Symbols]
  BY DEF Worth, MapThenSumSet, MapThenFoldSet, One
<1> HIDE DEF fold, Folds
<1> QED BY <1>1, <1>4, <1>5


LEMMA EquityIsInt == ASSUME NEW a \in Account PROVE Equity(a) \in Int
<1>1. PICK g : IsSum(g, Gains(a), Symbols) /\ Equity(a) = a.balance + g[Symbols]
  BY EquityIsSum
<1>2. g[Symbols] \in Int
  BY <1>1, GainsAreInts, SumIsInt
<1> QED BY <1>1, <1>2, AccountFields

\* A new account is worth what was paid into it.
LEMMA EquityOfNew == NewAccount \in Account /\ Equity(NewAccount) = InitialBalance
<1>1. NewAccount \in Account
  BY DEF NewAccount, Account, NoMark
<1>2. PICK g : IsSum(g, Gains(NewAccount), Symbols)
                 /\ Equity(NewAccount) = NewAccount.balance + g[Symbols]
  BY <1>1, EquityIsSum
<1>3. Gains(NewAccount) = [s \in Symbols |-> 0]
  BY DEF Gains, NewAccount, Unrealised
<1>4. g[Symbols] = 0
  BY <1>2, <1>3, SumOfZeros
<1> QED BY <1>1, <1>2, <1>4 DEF NewAccount

\* What changes for one symbol changes the sums by as much.
LEMMA EquityChanges ==
    ASSUME NEW a \in Account, NEW b \in Account, NEW s \in Symbols,
           \A t \in Symbols \ {s} :
               a.positions[t] = b.positions[t] /\ a.marks[t] = b.marks[t]
    PROVE  Equity(b) = Equity(a) + (b.balance - a.balance)
                         + (Unrealised(b, s) - Unrealised(a, s))
<1>1. PICK g : IsSum(g, Gains(a), Symbols) /\ Equity(a) = a.balance + g[Symbols]
  BY EquityIsSum
<1>2. PICK h : IsSum(h, Gains(b), Symbols) /\ Equity(b) = b.balance + h[Symbols]
  BY EquityIsSum
<1>3. Gains(a) \in [Symbols -> Int] /\ Gains(b) \in [Symbols -> Int]
  BY GainsAreInts
<1>4. \A t \in Symbols \ {s} : Gains(a)[t] = Gains(b)[t]
  BY DEF Gains, Unrealised
<1>5. g[Symbols] \in Int /\ h[Symbols] = g[Symbols] + Gains(b)[s] - Gains(a)[s]
  BY <1>1, <1>2, <1>3, <1>4, SumChanges
<1>6. /\ Gains(a)[s] = Unrealised(a, s) /\ Gains(a)[s] \in Int
      /\ Gains(b)[s] = Unrealised(b, s) /\ Gains(b)[s] \in Int
  BY <1>3 DEF Gains
<1>7. a.balance \in Int /\ b.balance \in Int
  BY AccountFields
<1> QED BY <1>1, <1>2, <1>5, <1>6, <1>7

LEMMA ValuesAreInts ==
    ASSUME NEW n \in [Symbols -> Int], NEW m \in [Symbols -> Nat]
    PROVE  Values(n, m) \in [Symbols -> Int]
<1>1. ASSUME NEW s \in Symbols PROVE n[s] * m[s] \in Int
  <2>1. n[s] \in Int /\ m[s] \in Int
    OBVIOUS
  <2> QED BY <2>1, SMT
<1> QED BY <1>1 DEF Values

LEMMA WorthIsInt ==
    ASSUME NEW n \in [Symbols -> Int], NEW m \in [Symbols -> Nat]
    PROVE  Worth(n, m) \in Int
BY WorthIsSum, ValuesAreInts, SumIsInt

LEMMA WorthOfNothing ==
    ASSUME NEW m \in [Symbols -> Nat]
    PROVE  Worth([s \in Symbols |-> 0], m) = 0
<1> DEFINE none == [s \in Symbols |-> 0]
<1>1. none \in [Symbols -> Int] /\ Values(none, m) = [s \in Symbols |-> 0]
  BY DEF Values
<1> HIDE DEF none
<1>2. PICK g : IsSum(g, Values(none, m), Symbols) /\ Worth(none, m) = g[Symbols]
  BY <1>1, WorthIsSum
<1>3. g[Symbols] = 0
  BY <1>1, <1>2, SumOfZeros
<1>4. Worth(none, m) = 0
  BY <1>2, <1>3
<1> QED BY <1>4 DEF none

LEMMA WorthChanges ==
    ASSUME NEW n \in [Symbols -> Int], NEW m \in [Symbols -> Nat],
           NEW k \in [Symbols -> Int], NEW l \in [Symbols -> Nat], NEW s \in Symbols,
           \A t \in Symbols \ {s} : n[t] = k[t] /\ m[t] = l[t]
    PROVE  Worth(k, l) = Worth(n, m) + (k[s] * l[s] - n[s] * m[s])
<1>1. PICK g : IsSum(g, Values(n, m), Symbols) /\ Worth(n, m) = g[Symbols]
  BY WorthIsSum
<1>2. PICK h : IsSum(h, Values(k, l), Symbols) /\ Worth(k, l) = h[Symbols]
  BY WorthIsSum
<1>3. Values(n, m) \in [Symbols -> Int] /\ Values(k, l) \in [Symbols -> Int]
  BY ValuesAreInts
<1>4. \A t \in Symbols \ {s} : Values(n, m)[t] = Values(k, l)[t]
  BY DEF Values
<1>5. g[Symbols] \in Int /\ h[Symbols] = g[Symbols] + Values(k, l)[s] - Values(n, m)[s]
  BY <1>1, <1>2, <1>3, <1>4, SumChanges
<1>6. /\ Values(n, m)[s] = n[s] * m[s] /\ Values(n, m)[s] \in Int
      /\ Values(k, l)[s] = k[s] * l[s] /\ Values(k, l)[s] \in Int
  BY <1>3 DEF Values
<1> QED BY <1>1, <1>2, <1>5, <1>6

\* When the market moves, a position gains its units times the move.
LEMMA GainMoves ==
    ASSUME NEW p \in Position \cup {Flat}, NEW m \in Nat, NEW n \in Nat
    PROVE  /\ Units(p) \in Int
           /\ Gain(p, m) \in Int
           /\ Gain(p, n) \in Int
           /\ Gain(p, n) - Gain(p, m) = Units(p) * n - Units(p) * m
<1>1. CASE p = Flat
  BY <1>1 DEF Units, Gain
<1>2. CASE p # Flat
  <2> DEFINE sp == Sign(p.side)
             Q == p.quantity
             e == p.entry
             u == sp * Q
  <2>1. sp \in Int /\ Q \in Int /\ e \in Int
    BY <1>2, PositionFields DEF Sides, Sign
  <2>2. Units(p) = u /\ Gain(p, m) = sp * (m - e) * Q /\ Gain(p, n) = sp * (n - e) * Q
    BY <1>2 DEF Units, Gain, Pnl
  <2> HIDE DEF sp, Q, e
  <2>3. u \in Int
    BY <2>1, SMT
  <2>4. sp * (m - e) * Q = u * m - u * e /\ sp * (n - e) * Q = u * n - u * e
    BY <2>1, SMT
  <2> HIDE DEF u
  <2>5. u * m \in Int /\ u * n \in Int /\ u * e \in Int
    BY <2>1, <2>3, SMT
  <2> QED BY <2>2, <2>3, <2>4, <2>5
<1> QED BY <1>1, <1>2

LEMMA UnrealisedIsGain ==
    ASSUME NEW a \in Account, NEW s \in Symbols, a.positions[s] # Flat => a.marks[s] # NoMark
    PROVE  Unrealised(a, s) = Gain(a.positions[s], a.marks[s])
BY DEF Unrealised, Gain

\* The average entry price of what an order would add to a position is exact.
Exact(position, side, quantity, price) ==
    position # Flat /\ position.side = side =>
        Average(position, quantity, price) * (position.quantity + quantity)
          = position.entry * position.quantity + price * quantity


----------------------------------------------------------------------------
(* The invariant *)

\* A position is valued: its symbol has been filled, and has a mark.
HeldIsMarked == \A s \in Symbols : account.positions[s] # Flat => account.marks[s] # NoMark

\* PositionsAreNet with what a step needs to keep it.
IInv == TypeOK /\ PositionsAreNet /\ HeldIsMarked


\* What a cycle in flight carries.
LEMMA OrdersTyped ==
    ASSUME TypeOK, NEW c \in Cycles
    PROVE  /\ cycles[c].at \in {"fetching", "deciding"} =>
               /\ cycles[c].symbol \in Symbols
               /\ cycles[c].side \in Sides
               /\ cycles[c].price \in Prices
           /\ cycles[c].at = "fetching" => cycles[c].equity \in Int
           /\ cycles[c].at = "deciding" => cycles[c].size \in Sizes \cup {0}
<1>1. cycles[c] \in {Waiting, Done, Failed} \cup Fetching \cup Deciding \cup Publishing
  BY DEF TypeOK
<1>2. CASE cycles[c] \in {Waiting, Done, Failed}
  BY <1>2 DEF Waiting, Done, Failed
<1>3. CASE cycles[c] \in Fetching
  BY <1>3 DEF Fetching
<1>4. CASE cycles[c] \in Deciding
  BY <1>4 DEF Deciding
<1>5. CASE cycles[c] \in Publishing
  BY <1>5 DEF Publishing
<1> QED BY <1>1, <1>2, <1>3, <1>4, <1>5

LEMMA HigherIsNat == ASSUME NEW a \in Nat, NEW b \in Int PROVE Higher(a, b) \in Nat
BY DEF Higher

LEMMA InitHolds == Init => IInv
<1> SUFFICES ASSUME Init PROVE IInv
  OBVIOUS
<1>1. account \in Account
  BY EquityOfNew DEF Init
<1>2. TypeOK
  <2>1. cycles \in [Cycles -> {Waiting, Done, Failed} \cup Fetching \cup Deciding \cup Publishing]
    BY DEF Init
  <2>2. InitialBalance \in Nat
    OBVIOUS
  <2>3. << >> \in Seq(Cycles)
    BY EmptySeq
  <2> QED BY <1>1, <2>1, <2>2, <2>3 DEF Init, TypeOK
<1>3. PositionsAreNet
  BY DEF Init, NewAccount, PositionsAreNet
<1>4. HeldIsMarked
  BY DEF Init, NewAccount, HeldIsMarked
<1> QED BY <1>2, <1>3, <1>4 DEF IInv

\* A step of a cycle that moves it on and fills no order.
LEMMA NoFillKeeps ==
    ASSUME NEW c \in Cycles,
           NEW next \in {Waiting, Done, Failed} \cup Fetching \cup Deciding \cup Publishing,
           IInv, Goto(c, next),
           UNCHANGED << account, day, cash, net, highest, dayHigh, traded >>,
           peak' \in Nat, records' \in Seq(Cycles), finished' \in Seq(Cycles)
    PROVE  IInv'
<1>1. TypeOK'
  <2>1. cycles' \in [Cycles -> {Waiting, Done, Failed} \cup Fetching \cup Deciding \cup Publishing]
    BY DEF IInv, TypeOK, Goto
  <2> QED BY <2>1 DEF IInv, TypeOK
<1>2. PositionsAreNet' /\ HeldIsMarked'
  BY DEF IInv, PositionsAreNet, HeldIsMarked
<1> QED BY <1>1, <1>2 DEF IInv

LEMMA BeginKeeps == ASSUME NEW c \in Cycles, IInv, Begin(c) PROVE IInv'
<1> DEFINE equity == Equity(account)
<1>1. account \in Account /\ peak \in Nat /\ records \in Seq(Cycles) /\ finished \in Seq(Cycles)
  BY DEF IInv, TypeOK
<1>2. equity \in Int
  BY <1>1, EquityIsInt
<1> HIDE DEF equity
<1>3. PICK s \in Symbols, side \in Sides, price \in Prices :
        Goto(c, [at |-> "fetching", symbol |-> s, side |-> side,
                 price |-> price, equity |-> equity])
  BY DEF Begin, equity
<1>4. [at |-> "fetching", symbol |-> s, side |-> side, price |-> price, equity |-> equity]
        \in Fetching
  BY <1>2 DEF Fetching
<1>5. peak' \in Nat
  BY <1>1, <1>2, HigherIsNat DEF Begin, equity
<1>6. UNCHANGED << account, records, day, history >>
  BY DEF Begin
<1> QED BY <1>1, <1>3, <1>4, <1>5, <1>6, NoFillKeeps DEF history

LEMMA AssessKeeps == ASSUME NEW c \in Cycles, IInv, Assess(c) PROVE IInv'
<1>1. PICK size \in AllowedSizes(cycles[c].equity, cycles[c].price) :
        Goto(c, [at |-> "deciding", symbol |-> cycles[c].symbol, side |-> cycles[c].side,
                 price |-> cycles[c].price, size |-> size])
  BY DEF Assess
<1>2. size \in Sizes \cup {0}
  BY DEF AllowedSizes
<1>3. cycles[c].symbol \in Symbols /\ cycles[c].side \in Sides /\ cycles[c].price \in Prices
  BY OrdersTyped DEF IInv, Assess
<1>4. [at |-> "deciding", symbol |-> cycles[c].symbol, side |-> cycles[c].side,
       price |-> cycles[c].price, size |-> size] \in Deciding
  BY <1>2, <1>3 DEF Deciding
<1>5. UNCHANGED << account, peak, records, day, history >>
  BY DEF Assess
<1>6. peak \in Nat /\ records \in Seq(Cycles) /\ finished \in Seq(Cycles)
  BY DEF IInv, TypeOK
<1> QED BY <1>1, <1>4, <1>5, <1>6, NoFillKeeps DEF history

\* What the store holds, after a cycle is recorded.
LEMMA StoredProperties ==
    ASSUME NEW c \in Cycles, records \in Seq(Cycles)
    PROVE  /\ Stored(c) \in Seq(Cycles)
           /\ Len(records) < StoreCapacity =>
                /\ Len(Stored(c)) = Len(records) + 1
                /\ \A i \in 1 .. Len(records) : Stored(c)[i] = records[i]
                /\ Stored(c)[Len(records) + 1] = c
           /\ ~(Len(records) < StoreCapacity) =>
                /\ Len(Stored(c)) = Len(records)
                /\ \A i \in 1 .. Len(records) - 1 : Stored(c)[i] = records[i + 1]
                /\ Stored(c)[Len(records)] = c
<1>1. CASE Len(records) < StoreCapacity
  <2>1. Stored(c) = Append(records, c)
    BY <1>1 DEF Stored
  <2> QED BY <1>1, <2>1, AppendProperties
<1>2. CASE ~(Len(records) < StoreCapacity)
  <2>1. Stored(c) = Append(Tail(records), c)
    BY <1>2 DEF Stored
  <2>2. Len(records) \in Nat \ {0} /\ records # << >>
    BY <1>2, EmptySeq, LenProperties
  <2>3. /\ Tail(records) \in Seq(Cycles)
        /\ Len(Tail(records)) = Len(records) - 1
        /\ \A i \in 1 .. Len(Tail(records)) : Tail(records)[i] = records[i + 1]
    BY <2>2, HeadTailProperties
  <2>4. /\ Append(Tail(records), c) \in Seq(Cycles)
        /\ Len(Append(Tail(records), c)) = Len(Tail(records)) + 1
        /\ \A i \in 1 .. Len(Tail(records)) : Append(Tail(records), c)[i] = Tail(records)[i]
        /\ Append(Tail(records), c)[Len(Tail(records)) + 1] = c
    BY <2>3, AppendProperties
  <2>5. Len(Tail(records)) + 1 = Len(records)
    BY <2>2, <2>3
  <2>6. \A i \in 1 .. Len(records) - 1 : Stored(c)[i] = records[i + 1]
    BY <2>1, <2>3, <2>4
  <2>7. /\ Stored(c) \in Seq(Cycles)
        /\ Len(Stored(c)) = Len(records)
        /\ Stored(c)[Len(records)] = c
    BY <2>1, <2>4, <2>5
  <2> QED BY <1>2, <2>6, <2>7
<1> QED BY <1>1, <1>2

LEMMA OverKeeps ==
    ASSUME NEW c \in Cycles, IInv,
           Skip(c) \/ Record(c) \/ Fail(c) \/ FailToPublish(c)
    PROVE  IInv'
<1>1. PICK next \in {[at |-> "publishing"], Done, Failed} : Goto(c, next)
  BY DEF Skip, Record, Fail, FailToPublish
<1>2. next \in {Waiting, Done, Failed} \cup Fetching \cup Deciding \cup Publishing
  BY DEF Publishing
<1>3. UNCHANGED << account, peak, day, cash, net, highest, dayHigh, traded >>
  BY DEF Skip, Record, Fail, FailToPublish, history
<1>4. peak \in Nat /\ records \in Seq(Cycles) /\ finished \in Seq(Cycles)
  BY DEF IInv, TypeOK
<1>5. records' \in {records, Stored(c)} /\ finished' \in {finished, Append(finished, c)}
  BY DEF Skip, Record, Fail, FailToPublish, history
<1>6. records' \in Seq(Cycles) /\ finished' \in Seq(Cycles)
  <2>1. Stored(c) \in Seq(Cycles)
    BY <1>4, StoredProperties
  <2>2. Append(finished, c) \in Seq(Cycles)
    BY <1>4, AppendProperties
  <2> QED BY <1>4, <1>5, <2>1, <2>2
<1> QED BY <1>1, <1>2, <1>3, <1>4, <1>6, NoFillKeeps

\* A fill: the position of the order's symbol and its net move together.
LEMMA FillIs ==
    ASSUME NEW c \in Cycles, IInv, Execute(c)
    PROVE  LET s == cycles[c].symbol
               side == cycles[c].side
               price == cycles[c].price
               size == cycles[c].size
           IN  /\ s \in Symbols /\ side \in Sides
               /\ price \in Nat \ {0} /\ size \in Nat \ {0}
               /\ Sign(side) * size \in Int
               /\ account' = Submit(account, s, side, size, price)
               /\ account' \in Account
               /\ account'.marks = [account.marks EXCEPT ![s] = price]
               /\ account'.positions[s] = Netted(account.positions[s], side, size, price)
               /\ \A t \in Symbols \ {s} : account'.positions[t] = account.positions[t]
               /\ net' = [net EXCEPT ![s] = @ + Sign(side) * size]
               /\ net' \in [Symbols -> Int]
               /\ Goto(c, [at |-> "publishing"])
<1> DEFINE s == cycles[c].symbol
           side == cycles[c].side
           price == cycles[c].price
           size == cycles[c].size
<1>1. /\ s \in Symbols
      /\ side \in Sides
      /\ price \in Nat \ {0}
      /\ size \in Nat \ {0}
  <2>1. cycles[c].at = "deciding" /\ size > 0
    BY DEF Execute
  <2>2. s \in Symbols /\ side \in Sides /\ price \in Prices /\ size \in Sizes \cup {0}
    BY <2>1, OrdersTyped DEF IInv
  <2> HIDE DEF s, side, price
  <2>3. size \in Nat \ {0}
    <3>1. size # 0
      BY <2>1
    <3> QED BY <2>2, <3>1
  <2> QED BY <2>2, <2>3
<1>2. /\ account' = Submit(account, s, side, size, price)
      /\ net' = [net EXCEPT ![s] = @ + Sign(side) * size]
      /\ Goto(c, [at |-> "publishing"])
  BY DEF Execute
<1>3. Sign(side) * size \in Int
  BY <1>1 DEF Sides, Sign
<1> HIDE DEF s, side, price, size
<1>4. account \in Account /\ net \in [Symbols -> Int]
  BY DEF IInv, TypeOK
<1>5. /\ account' \in Account
      /\ account'.marks = [account.marks EXCEPT ![s] = price]
      /\ account'.positions[s] = Netted(account.positions[s], side, size, price)
      /\ \A t \in Symbols \ {s} : account'.positions[t] = account.positions[t]
  BY <1>1, <1>2, <1>4, SubmitIsAccount
<1>6. net' \in [Symbols -> Int]
  BY <1>1, <1>2, <1>3, <1>4
<1> QED BY <1>1, <1>2, <1>3, <1>5, <1>6 DEF s, side, price, size

LEMMA ExecuteKeeps == ASSUME NEW c \in Cycles, IInv, Execute(c) PROVE IInv'
<1> DEFINE s == cycles[c].symbol
           side == cycles[c].side
           price == cycles[c].price
           size == cycles[c].size
           order == Sign(side) * size
<1>1. /\ s \in Symbols /\ side \in Sides
      /\ price \in Nat \ {0} /\ size \in Nat \ {0} /\ order \in Int
      /\ account' \in Account
      /\ account'.marks = [account.marks EXCEPT ![s] = price]
      /\ account'.positions[s] = Netted(account.positions[s], side, size, price)
      /\ \A t \in Symbols \ {s} : account'.positions[t] = account.positions[t]
      /\ net' = [net EXCEPT ![s] = @ + order]
      /\ net' \in [Symbols -> Int]
      /\ Goto(c, [at |-> "publishing"])
  BY FillIs
<1>2. TypeOK'
  <2>1. order * price \in Int /\ Commission(size, price) \in Int
    <3>1. Commission(size, price) \in Nat
      BY <1>1, CommissionIsNat
    <3> HIDE DEF order, price, size
    <3> QED BY <1>1, <3>1, SMT
  <2>2. cash' \in Int
    <3>1. cash' = cash - order * price - Commission(size, price) /\ cash \in Int
      BY DEF Execute, IInv, TypeOK
    <3> HIDE DEF order, price, size
    <3> QED BY <2>1, <3>1
  <2>3. Equity(account') \in Int
    BY <1>1, EquityIsInt
  <2>4. highest' \in Nat /\ dayHigh' \in Int
    <3>1. highest' = Higher(highest, Equity(account')) /\ highest \in Nat
          /\ dayHigh' = Higher(dayHigh, Equity(account')) /\ dayHigh \in Int
      BY DEF Execute, IInv, TypeOK
    <3> QED BY <2>3, <3>1 DEF Higher
  <2>5. cycles' \in [Cycles -> {Waiting, Done, Failed} \cup Fetching \cup Deciding \cup Publishing]
    BY <1>1 DEF Goto, Publishing, IInv, TypeOK
  <2>6. traded' \subseteq Cycles /\ UNCHANGED << peak, records, day, finished >>
    BY DEF Execute, IInv, TypeOK
  <2> QED BY <1>1, <2>2, <2>4, <2>5, <2>6 DEF IInv, TypeOK
<1> HIDE DEF s, side, price, size
<1>3. account \in Account /\ net \in [Symbols -> Int] /\ PositionsAreNet /\ HeldIsMarked
  BY DEF IInv, TypeOK
<1>4. \A t \in Symbols : net'[t] = Units(account'.positions[t])
  <2> SUFFICES ASSUME NEW t \in Symbols PROVE net'[t] = Units(account'.positions[t])
    OBVIOUS
  <2>1. net[t] = Units(account.positions[t])
    BY <1>3 DEF PositionsAreNet, Units
  <2>2. CASE t = s
    <3>1. account.positions[s] \in Position \cup {Flat}
      BY <1>1, <1>3, AccountFields
    <3>2. Units(account'.positions[s]) = Units(account.positions[s]) + order
      BY <1>1, <3>1, NettedAddsUnits
    <3> QED BY <1>1, <1>3, <2>1, <2>2, <3>2
  <2>3. CASE t # s
    BY <1>1, <1>3, <2>1, <2>3
  <2> QED BY <2>2, <2>3
<1>5. PositionsAreNet'
  BY <1>4 DEF PositionsAreNet, Units
<1>6. HeldIsMarked'
  <2> SUFFICES ASSUME NEW t \in Symbols, account'.positions[t] # Flat
               PROVE account'.marks[t] # NoMark
    BY DEF HeldIsMarked
  <2>1. account.marks \in [Symbols -> Nat]
    BY <1>3, AccountFields
  <2>2. CASE t = s
    BY <1>1, <2>1, <2>2 DEF NoMark
  <2>3. CASE t # s
    BY <1>1, <1>3, <2>1, <2>3 DEF HeldIsMarked
  <2> QED BY <2>2, <2>3
<1> QED BY <1>2, <1>5, <1>6 DEF IInv

LEMMA NextDayKeeps == ASSUME IInv, NextDay PROVE IInv'
<1>1. Equity(account) \in Int
  BY EquityIsInt DEF IInv, TypeOK
<1>2. TypeOK'
  BY <1>1 DEF NextDay, IInv, TypeOK
<1> QED BY <1>2 DEF NextDay, IInv, PositionsAreNet, HeldIsMarked

LEMMA StepKeeps ==
    ASSUME NEW c \in Cycles, IInv,
           \/ Begin(c) \/ Assess(c) \/ Execute(c) \/ Skip(c) \/ Record(c)
           \/ Fail(c) \/ FailToPublish(c)
    PROVE  IInv'
BY BeginKeeps, AssessKeeps, ExecuteKeeps, OverKeeps

\* A step moves one cycle at most.
LEMMA OnlyMover ==
    ASSUME TypeOK, [Next]_vars, NEW c \in Cycles, cycles'[c] # cycles[c]
    PROVE  \/ Begin(c) \/ Assess(c) \/ Execute(c) \/ Skip(c) \/ Record(c)
           \/ Fail(c) \/ FailToPublish(c)
<1>1. ~NextDay /\ ~UNCHANGED vars
  BY DEF NextDay, vars
<1>2. PICK d \in Cycles :
        \/ Begin(d) \/ Assess(d) \/ Execute(d) \/ Skip(d) \/ Record(d)
        \/ Fail(d) \/ FailToPublish(d)
  BY <1>1 DEF Next
<1>3. \E next : Goto(d, next)
  BY <1>2 DEF Begin, Assess, Execute, Skip, Record, Fail, FailToPublish
<1>4. d = c
  BY <1>3 DEF Goto, TypeOK
<1> QED BY <1>2, <1>4

LEMMA NextKeeps == IInv /\ [Next]_vars => IInv'
<1> SUFFICES ASSUME IInv, [Next]_vars PROVE IInv'
  OBVIOUS
<1>1. CASE UNCHANGED vars
  BY <1>1 DEF vars, history, IInv, TypeOK, PositionsAreNet, HeldIsMarked
<1>2. CASE Next
  BY <1>2, StepKeeps, NextDayKeeps DEF Next
<1> QED BY <1>1, <1>2

\* Types of the account, of the cycles in flight and of the store.
THEOREM DeskTypeCorrect == Spec => []TypeOK
<1>1. IInv => TypeOK
  BY DEF IInv
<1> QED BY <1>1, InitHolds, NextKeeps, PTL DEF Spec

\* However cycles overlap, and through every sequence of adds, partial closes
\* and reversals, the position the broker reports for a symbol is exactly what
\* was bought of it and not sold (PaperBroker._apply_to_position).
THEOREM PositionsCorrect == Spec => []PositionsAreNet
<1>1. IInv => PositionsAreNet
  BY DEF IInv
<1> QED BY <1>1, InitHolds, NextKeeps, PTL DEF Spec

----------------------------------------------------------------------------
(* The books *)

\* No fill that waits to be made needs a rounded average entry price.
AveragesExactly ==
    \A c \in Cycles : cycles[c].at = "deciding" /\ cycles[c].size > 0 =>
        Exact(account.positions[cycles[c].symbol], cycles[c].side, cycles[c].size, cycles[c].price)

\* BooksBalance, with the sum named.
Books == Equity(account) = cash + Worth(net, account.marks)

LEMMA BooksAre == Books <=> BooksBalance
BY DEF Books, BooksBalance, Worth

\* A fill moves the account's equity by what moves the worth of what was bought
\* and not sold, less what was paid for the fill.
LEMMA FillKeepsBalance ==
    ASSUME NEW c \in Cycles, IInv, Books, AveragesExactly, Execute(c)
    PROVE  Books'
<1> DEFINE s == cycles[c].symbol
           side == cycles[c].side
           price == cycles[c].price
           size == cycles[c].size
           order == Sign(side) * size
           fee == Commission(size, price)
           old == account.positions[s]
           new == account'.positions[s]
           mark == account.marks[s]
           realised == Realised(old, side, size, price)
<1>1. /\ s \in Symbols /\ side \in Sides
      /\ price \in Nat \ {0} /\ size \in Nat \ {0} /\ order \in Int
      /\ account' = Submit(account, s, side, size, price)
      /\ account' \in Account
      /\ net' = [net EXCEPT ![s] = @ + order]
      /\ net' \in [Symbols -> Int]
  BY FillIs
<1>2. old # Flat /\ old.side = side =>
        Average(old, size, price) * (old.quantity + size)
          = old.entry * old.quantity + price * size
  BY <1>1 DEF AveragesExactly, Execute, Exact
<1>3. cash' = cash - order * price - fee /\ cash \in Int
  BY DEF Execute, IInv, TypeOK
<1>4. /\ account \in Account /\ net \in [Symbols -> Int]
      /\ old # Flat => mark # NoMark
      /\ net[s] = Units(old)
  BY <1>1 DEF IInv, TypeOK, HeldIsMarked, PositionsAreNet, Units
<1> HIDE DEF s, side, price, size
<1>5. /\ account'.balance = account.balance - fee + realised
      /\ account'.marks = [account.marks EXCEPT ![s] = price]
      /\ new = Netted(old, side, size, price)
      /\ \A t \in Symbols \ {s} : account'.positions[t] = account.positions[t]
  BY <1>1, <1>4, SubmitIsAccount
<1>6. /\ old \in Position \cup {Flat} /\ new \in Position \cup {Flat}
      /\ mark \in Nat /\ account'.marks[s] = price
      /\ account.balance \in Int /\ account'.balance \in Int
      /\ account.marks \in [Symbols -> Nat] /\ account'.marks \in [Symbols -> Nat]
  BY <1>1, <1>4, <1>5, AccountFields
<1>7. realised \in Int /\ fee \in Int
  <2>1. realised \in Int
    BY <1>1, <1>6, RealisedIsInt
  <2>2. fee \in Nat
    BY <1>1, CommissionIsNat
  <2> QED BY <2>1, <2>2
<1>8. Unrealised(account', s) = Gain(new, price) /\ Unrealised(account, s) = Gain(old, mark)
  BY <1>1, <1>4, <1>6, UnrealisedIsGain DEF NoMark
<1>9. Gain(new, price) + realised = Gain(old, price)
  <2>1. Gain(Netted(old, side, size, price), price) + realised
          = Gain(old, price) + Sign(side) * (price - price) * size
    <3>1. old \in Position \cup {Flat} /\ price \in Nat
      BY <1>1, <1>6
    <3> HIDE DEF old
    <3> QED BY <1>1, <1>2, <3>1, NettedKeepsWorth
  <2>2. Sign(side) * (price - price) * size = 0
    <3>1. Sign(side) \in {1, -1} /\ price - price = 0
      BY <1>1 DEF Sides, Sign
    <3> QED BY <1>1, <3>1, SMT
  <2>3. Gain(old, price) \in Int
    BY <1>1, <1>6, GainMoves
  <2> HIDE DEF new, old, realised
  <2> QED BY <1>5, <2>1, <2>2, <2>3
<1>10. Equity(account') = Equity(account) + (account'.balance - account.balance)
                            + (Unrealised(account', s) - Unrealised(account, s))
  <2>1. \A t \in Symbols \ {s} :
            account.positions[t] = account'.positions[t] /\ account.marks[t] = account'.marks[t]
    BY <1>5, <1>6
  <2> QED BY <1>1, <1>4, <2>1, EquityChanges
<1>11. Worth(net', account'.marks)
         = Worth(net, account.marks) + (net'[s] * account'.marks[s] - net[s] * account.marks[s])
  <2>1. \A t \in Symbols \ {s} : net[t] = net'[t] /\ account.marks[t] = account'.marks[t]
    BY <1>1, <1>4, <1>5, <1>6
  <2>2. /\ s \in Symbols /\ net \in [Symbols -> Int] /\ net' \in [Symbols -> Int]
        /\ account.marks \in [Symbols -> Nat] /\ account'.marks \in [Symbols -> Nat]
    BY <1>1, <1>4, <1>6
  <2> HIDE DEF old, new, mark, realised, fee, order
  <2>3. \A k \in [Symbols -> Int], l \in [Symbols -> Nat] :
            (\A t \in Symbols \ {s} : net[t] = k[t] /\ account.marks[t] = l[t]) =>
                Worth(k, l) = Worth(net, account.marks) + (k[s] * l[s] - net[s] * account.marks[s])
    BY <2>2, WorthChanges
  <2> QED BY <2>1, <2>2, <2>3
<1>12. /\ net[s] * mark \in Int /\ net[s] * price \in Int /\ order * price \in Int
       /\ net'[s] * price = net[s] * price + order * price
  <2>1. net'[s] = net[s] + order /\ net[s] \in Int
    BY <1>1, <1>4
  <2> HIDE DEF mark, order
  <2> QED BY <1>1, <1>6, <2>1, SMT
<1>13. Gain(old, price) - Gain(old, mark) = net[s] * price - net[s] * mark
  <2>1. net[s] = Units(old) /\ old \in Position \cup {Flat} /\ mark \in Nat /\ price \in Nat
    BY <1>1, <1>4, <1>6
  <2> HIDE DEF old, mark
  <2> QED BY <2>1, GainMoves
<1>14. /\ Equity(account) \in Int
       /\ Worth(net, account.marks) \in Int
       /\ Gain(old, price) \in Int /\ Gain(old, mark) \in Int /\ Gain(new, price) \in Int
  BY <1>1, <1>4, <1>6, EquityIsInt, WorthIsInt, GainMoves
<1>15. Equity(account') = cash' + Worth(net', account'.marks)
  <2>1. Worth(net', account'.marks) = Worth(net, account.marks) + (net'[s] * price - net[s] * mark)
    BY <1>6, <1>11
  <2>2. Equity(account) = cash + Worth(net, account.marks)
    BY DEF Books
  <2> HIDE DEF old, new, mark, realised, fee, order
  <2> QED BY <1>3, <1>5, <1>6, <1>7, <1>8, <1>9, <1>10, <1>12, <1>13, <1>14, <2>1, <2>2
<1> QED BY <1>15 DEF Books

LEMMA BooksOfNew == Init => Books
<1> SUFFICES ASSUME Init PROVE Books
  OBVIOUS
<1>1. account \in Account /\ Equity(account) = InitialBalance
  BY EquityOfNew DEF Init
<1>2. net = [s \in Symbols |-> 0] /\ cash = InitialBalance
  BY DEF Init
<1>3. Worth([s \in Symbols |-> 0], account.marks) = 0
  BY <1>1, AccountFields, WorthOfNothing
<1> QED BY <1>1, <1>2, <1>3 DEF Books

LEMMA NextKeepsBooks == IInv /\ Books /\ AveragesExactly /\ [Next]_vars => Books'
<1> SUFFICES ASSUME IInv, Books, AveragesExactly, [Next]_vars PROVE Books'
  OBVIOUS
<1>1. CASE UNCHANGED << account, cash, net >>
  BY <1>1 DEF Books
<1>2. CASE \E c \in Cycles : Execute(c)
  BY <1>2, FillKeepsBalance
<1>3. \/ UNCHANGED << account, cash, net >>
      \/ \E c \in Cycles : Execute(c)
  BY DEF Next, vars, history, Begin, Assess, Skip, Record, Fail, FailToPublish, NextDay
<1> QED BY <1>1, <1>2, <1>3

\* The account's equity is the money paid into it, less what was paid for its
\* fills, plus the worth at the marks of what was bought and not sold: netting
\* creates and destroys no money in any history whose averages need no rounding
\* (PaperBroker.submit, PaperBroker.equity).
THEOREM BooksCorrect == Spec /\ []AveragesExactly => []BooksBalance
<1>1. Books => BooksBalance
  BY BooksAre
<1> QED BY <1>1, InitHolds, NextKeeps, BooksOfNew, NextKeepsBooks, PTL DEF Spec

----------------------------------------------------------------------------
(* The drawdown limit *)

\* A breach is below the mark it is measured from.
LEMMA BreachIsBelow ==
    ASSUME NEW high \in Nat, NEW equity \in Int, Breached(high, equity)
    PROVE  equity < high
<1> DEFINE limit == MaxDrawdownPercent * high
<1>1. limit \in Nat
  BY SMT
<1> HIDE DEF limit
<1>2. (high - equity) * 100 > limit
  BY DEF Breached, limit
<1> QED BY <1>1, <1>2

LEMMA BlockHolds == IInv /\ [Next]_vars => (Blocked => Blocked' /\ UNCHANGED account)
<1> SUFFICES ASSUME IInv, [Next]_vars, Blocked PROVE Blocked' /\ UNCHANGED account
  OBVIOUS
<1> DEFINE equity == Equity(account)
<1>1. account \in Account /\ peak \in Nat /\ equity \in Int
  BY EquityIsInt DEF IInv, TypeOK
<1>2. Breached(peak, equity)
  BY DEF Blocked
<1>3. Higher(peak, equity) = peak
  BY <1>1, <1>2, BreachIsBelow DEF Higher
<1>4. \A c \in Cycles : ~Execute(c)
  BY DEF Blocked, Execute
<1>5. UNCHANGED << account, peak >>
  BY <1>3, <1>4 DEF Next, vars, history, Begin, Assess, Skip, Record, Fail, FailToPublish, NextDay
<1>6. ASSUME NEW c \in Cycles
      PROVE  /\ cycles'[c].at = "fetching" => cycles'[c].equity = equity
             /\ cycles'[c].at = "deciding" => cycles'[c].size = 0
  <2>1. CASE cycles'[c] = cycles[c]
    BY <2>1 DEF Blocked
  <2>2. ASSUME cycles'[c] # cycles[c]
        PROVE  \/ Begin(c) \/ Assess(c) \/ Skip(c) \/ Record(c) \/ Fail(c) \/ FailToPublish(c)
    BY <1>4, <2>2, OnlyMover DEF IInv
  <2>3. CASE Begin(c)
    BY <2>3 DEF Begin, Goto, IInv, TypeOK
  <2>4. CASE Assess(c)
    <3>1. cycles[c].equity = equity
      BY <2>4 DEF Assess, Blocked
    <3>2. AllowedSizes(cycles[c].equity, cycles[c].price) = {0}
      BY <1>2, <3>1 DEF AllowedSizes
    <3> QED BY <2>4, <3>2 DEF Assess, Goto, IInv, TypeOK
  <2>5. CASE Skip(c) \/ Record(c) \/ Fail(c) \/ FailToPublish(c)
    BY <2>5 DEF Skip, Record, Fail, FailToPublish, Goto, Done, Failed, IInv, TypeOK
  <2> QED BY <2>1, <2>2, <2>3, <2>4, <2>5
<1> QED BY <1>2, <1>5, <1>6 DEF Blocked

\* Once the veto bites and no cycle was cleared before it did, it never lifts:
\* however many cycles are in flight and however many days go by, this process
\* fills no order again (RiskManagerAgent.assess, _EquityTracker).
THEOREM BlockIsPermanent == Spec => BlockIsFinal
<1> QED BY InitHolds, NextKeeps, BlockHolds, PTL DEF Spec, BlockIsFinal

\* One cycle at a time: what it read still holds when its order is filled.
OneByOne ==
    /\ \A c, d \in Cycles : ~Over(c) /\ ~Over(d) => c = d
    /\ highest = Higher(peak, Equity(account))
    /\ \A c \in Cycles :
        /\ cycles[c].at = "fetching" =>
            cycles[c].equity = Equity(account) /\ Equity(account) <= peak
        /\ cycles[c].at = "deciding" =>
            /\ Equity(account) <= peak
            /\ cycles[c].size # 0 => ~Breached(peak, Equity(account))

LEMMA OneByOneInit == Init => OneByOne
<1> SUFFICES ASSUME Init PROVE OneByOne
  OBVIOUS
<1>1. Equity(account) = InitialBalance
  BY EquityOfNew DEF Init
<1> QED BY <1>1 DEF Init, OneByOne, Over, Waiting, Higher

\* With one place and nobody in two of them, who begins is alone.
LEMMA AloneWhenBegun ==
    ASSUME Parallel = 1, OneByOne, NEW c \in Cycles, Begin(c)
    PROVE  \A d \in Cycles : Over(d)
<1> DEFINE busy == {d \in Cycles : ~Over(d)}
<1>1. IsFiniteSet(busy)
  <2>1. CASE busy = {}
    BY <2>1, FS_EmptySet
  <2>2. ASSUME NEW d \in busy PROVE IsFiniteSet(busy)
    <3>1. busy = {d}
      BY DEF OneByOne
    <3> HIDE DEF busy
    <3> QED BY <3>1, FS_Singleton
  <2> QED BY <2>1, <2>2
<1>2. Cardinality(busy) < 1
  BY DEF Begin
<1> HIDE DEF busy
<1>3. busy = {}
  BY <1>1, <1>2, FS_CardinalityType, FS_EmptySet
<1> QED BY <1>3 DEF busy

LEMMA OneByOneKept ==
    ASSUME Parallel = 1, IInv, OneByOne, [Next]_vars
    PROVE  OneByOne' /\ (account' # account => ~Breached(highest, Equity(account)))
<1> DEFINE equity == Equity(account)
<1>1. /\ account \in Account /\ peak \in Nat /\ equity \in Int
      /\ cycles = [c \in Cycles |-> cycles[c]]
  BY EquityIsInt DEF IInv, TypeOK
<1>2. CASE UNCHANGED vars
  BY <1>2 DEF vars, history, OneByOne, Over
<1>3. CASE NextDay
  BY <1>3 DEF NextDay, OneByOne, Over
<1>4. ASSUME NEW c \in Cycles, Begin(c)
      PROVE  OneByOne' /\ UNCHANGED account
  <2>1. UNCHANGED << account, highest >> /\ peak' = Higher(peak, equity)
    BY <1>4 DEF Begin, history
  <2>2. \A d \in Cycles : Over(d)
    BY <1>4, AloneWhenBegun
  <2>3. \A d \in Cycles \ {c} : cycles'[d] = cycles[d]
    BY <1>1, <1>4 DEF Begin, Goto
  <2>4. cycles'[c].at = "fetching" /\ cycles'[c].equity = equity
    BY <1>1, <1>4 DEF Begin, Goto
  <2>5. equity <= peak' /\ highest' = Higher(peak', equity)
    BY <1>1, <2>1 DEF OneByOne, Higher
  <2> QED BY <2>1, <2>2, <2>3, <2>4, <2>5 DEF OneByOne, Over
<1>5. ASSUME NEW c \in Cycles, Assess(c)
      PROVE  OneByOne' /\ UNCHANGED account
  <2>1. UNCHANGED << account, highest, peak >>
    BY <1>5 DEF Assess, history
  <2>2. \A d \in Cycles \ {c} : cycles'[d] = cycles[d]
    BY <1>1, <1>5 DEF Assess, Goto
  <2>3. cycles[c].equity = equity /\ equity <= peak /\ ~Over(c)
    BY <1>5 DEF Assess, OneByOne, Over
  <2>4. PICK size \in AllowedSizes(equity, cycles[c].price) :
            cycles'[c].at = "deciding" /\ cycles'[c].size = size
    BY <1>1, <1>5, <2>3 DEF Assess, Goto
  <2>5. size # 0 => ~Breached(peak, equity)
    BY DEF AllowedSizes
  <2> QED BY <2>1, <2>2, <2>3, <2>4, <2>5 DEF OneByOne, Over
<1>6. ASSUME NEW c \in Cycles, Execute(c)
      PROVE  OneByOne' /\ ~Breached(highest, equity)
  <2>1. UNCHANGED peak /\ highest' = Higher(highest, Equity(account'))
    BY <1>6 DEF Execute
  <2>2. \A d \in Cycles \ {c} : cycles'[d] = cycles[d]
    BY <1>1, <1>6 DEF Execute, Goto
  <2>3. ~Over(c) /\ equity <= peak /\ ~Breached(peak, equity)
    BY <1>6, OrdersTyped DEF Execute, OneByOne, Over, IInv
  <2>4. highest = peak
    BY <1>1, <2>3 DEF OneByOne, Higher
  <2>5. cycles'[c].at = "publishing"
    BY <1>1, <1>6 DEF Execute, Goto
  <2>6. \A d \in Cycles \ {c} : Over(d)
    BY <2>3 DEF OneByOne
  <2> QED BY <2>1, <2>2, <2>3, <2>4, <2>5, <2>6 DEF OneByOne, Over
<1>7. ASSUME NEW c \in Cycles, Skip(c) \/ Record(c) \/ Fail(c) \/ FailToPublish(c)
      PROVE  OneByOne' /\ UNCHANGED account
  <2>1. UNCHANGED << account, highest, peak >>
    BY <1>7 DEF Skip, Record, Fail, FailToPublish, history
  <2>2. \A d \in Cycles \ {c} : cycles'[d] = cycles[d]
    BY <1>1, <1>7 DEF Skip, Record, Fail, FailToPublish, Goto
  <2>3. cycles'[c].at \in {"publishing", "done", "failed"} /\ ~Over(c)
    BY <1>1, <1>7 DEF Skip, Record, Fail, FailToPublish, Goto, Done, Failed, Over
  <2> QED BY <2>1, <2>2, <2>3 DEF OneByOne, Over
<1> QED BY <1>2, <1>3, <1>4, <1>5, <1>6, <1>7 DEF Next, NextDay, vars

\* Where cycles do not overlap, no order is filled while the account is
\* further below its highest equity than the limit allows.  With two in flight
\* the equity read by one is stale when the other has filled its order.
THEOREM SerialStaysInDrawdown ==
    ASSUME Parallel = 1 PROVE Spec => NoTradeBeyondDrawdown
<1>1. IInv /\ OneByOne /\ [Next]_vars
        => OneByOne' /\ (account' # account => ~Breached(highest, Equity(account)))
  BY OneByOneKept
<1> QED BY <1>1, InitHolds, NextKeeps, OneByOneInit, PTL DEF Spec, NoTradeBeyondDrawdown

----------------------------------------------------------------------------
(* The signal store *)

\* Without a failing bus the store is the end of what finished.
StoreIsTheEnd ==
    LET kept == Len(records)
        ended == Len(finished)
    IN  /\ kept = Lesser(ended, StoreCapacity)
        /\ \A i \in 1 .. kept : records[i] = finished[ended - kept + i]

LEMMA StoreInit == Init => StoreIsTheEnd
BY EmptySeq DEF Init, StoreIsTheEnd, Lesser

LEMMA RecordKeepsStore ==
    ASSUME NEW c \in Cycles, IInv, StoreIsTheEnd, Record(c)
    PROVE  StoreIsTheEnd'
<1> DEFINE kept == Len(records)
           ended == Len(finished)
<1>1. records \in Seq(Cycles) /\ finished \in Seq(Cycles)
  BY DEF IInv, TypeOK
<1>2. kept \in Nat /\ ended \in Nat
  BY <1>1, LenProperties
<1>3. /\ Len(finished') = ended + 1
      /\ \A i \in 1 .. ended : finished'[i] = finished[i]
      /\ finished'[ended + 1] = c
  BY <1>1, AppendProperties DEF Record
<1>4. kept = Lesser(ended, StoreCapacity)
      /\ \A i \in 1 .. kept : records[i] = finished[ended - kept + i]
  BY DEF StoreIsTheEnd
<1>5. CASE kept < StoreCapacity
  <2>1. /\ Len(records') = kept + 1
        /\ \A i \in 1 .. kept : records'[i] = records[i]
        /\ records'[kept + 1] = c
    BY <1>1, <1>5, StoredProperties DEF Record
  <2>2. kept = ended
    BY <1>2, <1>4, <1>5 DEF Lesser
  <2> HIDE DEF kept, ended
  <2>3. \A i \in 1 .. kept + 1 : records'[i] = finished'[i]
    BY <1>2, <1>3, <1>4, <2>1, <2>2
  <2> QED BY <1>2, <1>3, <1>5, <2>1, <2>2, <2>3 DEF StoreIsTheEnd, Lesser
<1>6. CASE ~(kept < StoreCapacity)
  <2>1. /\ Len(records') = kept
        /\ \A i \in 1 .. kept - 1 : records'[i] = records[i + 1]
        /\ records'[kept] = c
    BY <1>1, <1>6, StoredProperties DEF Record
  <2>2. kept = StoreCapacity /\ kept <= ended
    BY <1>2, <1>4, <1>6 DEF Lesser
  <2> HIDE DEF kept, ended
  <2>3. \A i \in 1 .. kept : records'[i] = finished'[ended + 1 - kept + i]
    <3> SUFFICES ASSUME NEW i \in 1 .. kept PROVE records'[i] = finished'[ended + 1 - kept + i]
      OBVIOUS
    <3>1. CASE i = kept
      BY <1>2, <1>3, <2>1, <2>2, <3>1
    <3>2. CASE i < kept
      <4>1. i \in 1 .. kept - 1 /\ i + 1 \in 1 .. kept /\ ended - kept + (i + 1) \in 1 .. ended
        BY <1>2, <2>2, <3>2
      <4>2. records[i + 1] = finished[ended - kept + (i + 1)]
        BY <1>4, <4>1
      <4>3. ended + 1 - kept + i = ended - kept + (i + 1)
        BY <1>2
      <4> QED BY <1>3, <2>1, <4>1, <4>2, <4>3
    <3> QED BY <1>2, <3>1, <3>2
  <2> QED BY <1>2, <1>3, <2>1, <2>2, <2>3 DEF StoreIsTheEnd, Lesser
<1> QED BY <1>5, <1>6

LEMMA NextKeepsStore ==
    ASSUME BusMayFail = FALSE, IInv, StoreIsTheEnd, [Next]_vars
    PROVE  StoreIsTheEnd'
<1>1. CASE UNCHANGED << records, finished >>
  BY <1>1 DEF StoreIsTheEnd
<1>2. CASE \E c \in Cycles : Record(c)
  BY <1>2, RecordKeepsStore
<1>3. \/ UNCHANGED << records, finished >>
      \/ \E c \in Cycles : Record(c)
  BY DEF Next, vars, history, Begin, Assess, Execute, Skip, Fail, FailToPublish, NextDay
<1> QED BY <1>1, <1>2, <1>3

LEMMA EndIsRecorded == IInv /\ StoreIsTheEnd => TradesAreRecorded
<1> SUFFICES ASSUME IInv, StoreIsTheEnd,
                    NEW i \in DOMAIN finished, i > Len(finished) - StoreCapacity
             PROVE  \E k \in DOMAIN records : records[k] = finished[i]
  BY DEF TradesAreRecorded
<1> DEFINE kept == Len(records)
           ended == Len(finished)
           k == i - (ended - kept)
<1>1. records \in Seq(Cycles) /\ finished \in Seq(Cycles)
  BY DEF IInv, TypeOK
<1>2. /\ kept \in Nat /\ DOMAIN records = 1 .. kept
      /\ ended \in Nat /\ i \in 1 .. ended
  BY <1>1, LenProperties
<1>3. kept = Lesser(ended, StoreCapacity) /\ \A j \in 1 .. kept : records[j] = finished[ended - kept + j]
  BY DEF StoreIsTheEnd
<1>4. i > ended - StoreCapacity
  OBVIOUS
<1> HIDE DEF kept, ended
<1>5. k \in 1 .. kept
  BY <1>2, <1>3, <1>4 DEF Lesser
<1>6. ended - kept + k = i
  BY <1>2
<1> HIDE DEF k
<1>7. records[k] = finished[ended - kept + k]
  BY <1>3, <1>5
<1> QED BY <1>2, <1>5, <1>6, <1>7

\* While publishing does not fail, however many cycles overlap and whatever the
\* capacity, every fill among the last cycles that ended is in the store
\* (SignalStore.record_cycle).
THEOREM TradesAreInStore ==
    ASSUME BusMayFail = FALSE PROVE Spec => []TradesAreRecorded
<1>1. IInv /\ StoreIsTheEnd /\ [Next]_vars => StoreIsTheEnd'
  BY NextKeepsStore
<1> QED BY <1>1, InitHolds, NextKeeps, StoreInit, EndIsRecorded, PTL DEF Spec

=============================================================================
