--------------------------- MODULE SignalScanProofs ---------------------------
(***************************************************************************)
(* Proofs about SignalScan, for any symbols, timeframes, chats, cooldowns, *)
(* caps and windows, and for any number of restarts; and about Outcomes.   *)
(***************************************************************************)
EXTENDS SignalScan, FiniteSetTheorems, SequenceTheorems, NaturalsInduction, TLAPS

\* A bounded set of naturals has its maximum.  Of its upper bounds the least
\* one is a member: otherwise the number below would be an upper bound too.
LEMMA MaxOfBounded ==
    ASSUME NEW S \in SUBSET Nat, S # {}, NEW n \in Nat, \A x \in S : x <= n
    PROVE  Max(S) \in S /\ \A x \in S : x <= Max(S)
<1> DEFINE Bounds == {k \in Nat : \A x \in S : x <= k}
<1>1. Bounds # {} /\ Bounds \subseteq Nat
  OBVIOUS
<1>2. PICK k \in Bounds : \A m \in Bounds : << m, k >> \notin OpToRel(<, Nat)
  <2> HIDE DEF Bounds
  <2> QED BY <1>1, NatLessThanWellFounded, WFMin
<1>3. k \in Nat /\ \A x \in S : x <= k
  OBVIOUS
<1>4. k \in S
  <2> SUFFICES ASSUME k \notin S PROVE FALSE
    OBVIOUS
  <2>1. \A x \in S : x < k
    BY <1>3
  <2>2. k # 0
    <3>1. PICK x \in S : TRUE
      OBVIOUS
    <3> QED BY <1>3, <2>1, <3>1
  <2>3. k - 1 \in Bounds
    BY <1>3, <2>1, <2>2
  <2>4. << k - 1, k >> \in OpToRel(<, Nat)
    BY <1>3, <2>2 DEF OpToRel
  <2> QED BY <1>2, <2>3, <2>4
<1> HIDE DEF Bounds
<1>5. \E x \in S : \A y \in S : x >= y
  BY <1>3, <1>4
<1>6. Max(S) \in S /\ \A y \in S : Max(S) >= y
  BY <1>5 DEF Max
<1> QED BY <1>6

\* Division, as far as the closing of bars needs it.
LEMMA DivIsNat ==
    ASSUME NEW a \in Nat, NEW d \in Nat \ {0} PROVE a \div d \in Nat
BY SMT

LEMMA DivStep ==
    ASSUME NEW a \in Nat, NEW d \in Nat \ {0}
    PROVE  (a + 1) \div d = (a \div d) + (IF (a + 1) % d = 0 THEN 1 ELSE 0)
BY SMT

LEMMA DivIsMonotonic ==
    ASSUME NEW a \in Nat, NEW b \in Nat, a <= b, NEW d \in Nat \ {0}
    PROVE  a \div d <= b \div d
BY SMT

LEMMA DivBounds ==
    ASSUME NEW a \in Nat, NEW d \in Nat \ {0}
    PROVE  (a \div d) * d <= a /\ a < (a \div d) * d + d
BY SMT

USE ScanAssumption

----------------------------------------------------------------------------
(* The invariant *)

\* There is an entry for every bar that has closed.
MarketFits == \A s \in Symbols, tf \in Timeframes : Len(market[<< s, tf >>]) = now \div tf

\* A pass carries the time its job was last started, and has something to send.
PassesFit ==
    \A tf \in Timeframes :
        /\ fired[tf] <= now
        /\ passes[tf].at = "scanning" => passes[tf].since = fired[tf]
        /\ passes[tf].at = "sending" => passes[tf].alerts # << >>

\* Rows and alerts are of bars that had closed when their pass began.
RowsFit ==
    /\ IsFiniteSet(signals)
    /\ \A r \in signals \cup announced : r.bar <= r.sentAt /\ r.sentAt <= fired[r.timeframe]

\* A running pass has announced nothing yet for the symbols it has still to do.
TodoIsFresh ==
    \A tf \in Timeframes : passes[tf].at = "scanning" =>
        \A a \in announced : a.timeframe = tf /\ a.sentAt = passes[tf].since
                                => a.symbol \notin passes[tf].todo

Shape == TypeOK /\ MarketFits /\ PassesFit /\ RowsFit /\ TodoIsFresh

----------------------------------------------------------------------------
(* What a pass does to its timeframe *)

\* The fields of a pass, of a signal and of a row.
LEMMA PassFields ==
    ASSUME TypeOK, NEW tf \in Timeframes
    PROVE  /\ passes[tf].at = "scanning" => passes[tf] \in Scanning
           /\ passes[tf].at = "sending" => passes[tf] \in Sending
           /\ passes[tf].at \in {"idle", "scanning", "sending"}
           /\ passes[tf].at = "idle" => passes[tf] = Idle
<1>1. passes[tf] \in {Idle} \cup Scanning \cup Sending
  BY DEF TypeOK
<1>2. CASE passes[tf] = Idle
  BY <1>2 DEF Idle
<1>3. CASE passes[tf] \in Scanning
  BY <1>3 DEF Scanning
<1>4. CASE passes[tf] \in Sending
  BY <1>4 DEF Sending
<1> QED BY <1>1, <1>2, <1>3, <1>4

LEMMA ScanningFields ==
    ASSUME NEW pass \in Scanning
    PROVE  /\ pass.at = "scanning"
           /\ pass.since \in Nat
           /\ pass.todo \subseteq Symbols
           /\ pass.delivered \in Seq(Signal)
           /\ pass.confluences \in Seq(Confluence)
BY DEF Scanning

LEMMA SendingFields ==
    ASSUME NEW pass \in Sending
    PROVE  /\ pass.at = "sending"
           /\ pass.alerts \in Seq(Alert)
           /\ pass.targets \subseteq Chats
BY DEF Sending

LEMMA SignalFields ==
    ASSUME NEW r \in Signal
    PROVE  /\ r.symbol \in Symbols /\ r.timeframe \in Timeframes
           /\ r.bar \in Nat \ {0} /\ r.action \in Actions /\ r.sentAt \in Nat
           /\ r \in Alert
           /\ IsSignal(r)
BY DEF Signal, Alert, IsSignal

LEMMA ConfluenceFields ==
    ASSUME NEW r \in Confluence
    PROVE  /\ r.symbol \in Symbols /\ r.timeframes \subseteq Timeframes
           /\ r.action \in Actions /\ r.trigger \in Nat
           /\ r \in Alert
           /\ ~IsSignal(r)
BY DEF Confluence, Alert, IsSignal

LEMMA AlertIsEither ==
    ASSUME NEW r \in Alert PROVE r \in Signal <=> IsSignal(r)
BY SignalFields, ConfluenceFields DEF Alert

\* A broadcast of nothing, or to nobody, is over.
LEMMA BroadcastIs ==
    ASSUME TypeOK, NEW alerts \in Seq(Alert)
    PROVE  \/ Broadcast(alerts) = Idle
           \/ /\ alerts # << >>
              /\ Broadcast(alerts) = [at |-> "sending", alerts |-> alerts, targets |-> subscribers]
              /\ Broadcast(alerts) \in Sending
<1>1. subscribers \subseteq Chats
  BY DEF TypeOK
<1> QED BY <1>1 DEF Broadcast, Sending

\* What is left of a pass when one of its symbols is done.
Left(pass, s, delivered, confluences) ==
    [at |-> "scanning", since |-> pass.since, todo |-> pass.todo \ {s},
     delivered |-> delivered, confluences |-> confluences]

\* Where a pass is after a symbol: at the next one, at rest, or sending.
GoesOn(tf, s, delivered, confluences) ==
    /\ passes' \in [Timeframes -> {Idle} \cup Scanning \cup Sending]
    /\ \A u \in Timeframes \ {tf} : passes'[u] = passes[u]
    /\ delivered \o confluences \in Seq(Alert)
    /\ \/ passes'[tf] = Left(passes[tf], s, delivered, confluences)
       \/ passes'[tf] = Idle
       \/ /\ delivered \o confluences # << >>
          /\ passes'[tf] = [at |-> "sending", alerts |-> delivered \o confluences,
                            targets |-> subscribers]

LEMMA ProceedIs ==
    ASSUME TypeOK, NEW tf \in Timeframes, NEW s, Scans(tf, s),
           NEW delivered \in Seq(Signal), NEW confluences \in Seq(Confluence),
           Proceed(tf, s, delivered, confluences)
    PROVE  GoesOn(tf, s, delivered, confluences)
<1> DEFINE next == IF passes[tf].todo \ {s} = {} THEN Broadcast(delivered \o confluences)
                   ELSE [passes[tf] EXCEPT !.todo = passes[tf].todo \ {s},
                                           !.delivered = delivered,
                                           !.confluences = confluences]
<1>1. passes[tf] \in Scanning /\ passes \in [Timeframes -> {Idle} \cup Scanning \cup Sending]
  BY PassFields DEF Scans, TypeOK
<1>2. passes' = [passes EXCEPT ![tf] = next]
  BY DEF Proceed
<1>3. delivered \o confluences \in Seq(Alert)
  <2>1. delivered \in Seq(Alert) /\ confluences \in Seq(Alert)
    BY SeqMonotonic DEF Alert
  <2> QED BY <2>1, ConcatProperties
<1>4. CASE passes[tf].todo \ {s} = {}
  <2>1. next = Broadcast(delivered \o confluences)
    BY <1>4
  <2>2. \/ next = Idle
        \/ /\ delivered \o confluences # << >>
           /\ next = [at |-> "sending", alerts |-> delivered \o confluences, targets |-> subscribers]
           /\ next \in Sending
    BY <1>3, <2>1, BroadcastIs
  <2> HIDE DEF next
  <2> QED BY <1>1, <1>2, <1>3, <2>2 DEF GoesOn
<1>5. CASE passes[tf].todo \ {s} # {}
  <2>1. next = Left(passes[tf], s, delivered, confluences)
    BY <1>1, <1>5 DEF Left, Scanning
  <2>2. next \in Scanning
    BY <1>1, <2>1, ScanningFields DEF Left, Scanning
  <2> HIDE DEF next
  <2> QED BY <1>1, <1>2, <1>3, <2>1, <2>2 DEF GoesOn
<1> QED BY <1>4, <1>5

\* What a pass computes is a signal of its pair, of a bar that had closed.
LEMMA ComputedIs ==
    ASSUME Shape, NEW tf \in Timeframes, NEW s, Scans(tf, s), NEW signal \in Computed(tf, s)
    PROVE  /\ s \in Symbols
           /\ signal \in Signal
           /\ signal.symbol = s /\ signal.timeframe = tf
           /\ signal.sentAt = passes[tf].since /\ signal.sentAt = fired[tf]
           /\ signal.bar <= signal.sentAt
           /\ ~FeedMayLag => signal.bar > signal.sentAt - tf
           /\ signal.bar > signal.sentAt - 2 * tf
<1> DEFINE since == passes[tf].since
           newest == since \div tf
<1>1. /\ passes[tf] \in Scanning /\ since \in Nat /\ s \in Symbols
      /\ since = fired[tf] /\ since <= now
      /\ tf \in Nat \ {0} /\ now \in Nat
  BY PassFields, ScanningFields DEF Scans, Shape, PassesFit, TypeOK
<1>2. PICK n \in {m \in NewestBars(tf) : m > 0 /\ market[<< s, tf >>][m] # Quiet} :
        signal = [symbol |-> s, timeframe |-> tf, bar |-> n * tf, action |-> market[<< s, tf >>][n],
                  sentAt |-> since]
  BY DEF Computed
<1>3. n \in {newest, newest - 1} /\ n > 0 /\ (~FeedMayLag => n = newest)
  BY <1>2 DEF NewestBars
<1>4. newest \in Nat /\ newest <= now \div tf /\ now \div tf \in Nat
  BY <1>1, DivIsNat, DivIsMonotonic
<1>5. newest * tf <= since /\ since < newest * tf + tf
  BY <1>1, DivBounds
<1> HIDE DEF newest, since
<1>6. n \in Nat \ {0} /\ n <= now \div tf
  BY <1>3, <1>4
<1>7. market[<< s, tf >>] \in Seq(Actions \cup {Quiet}) /\ Len(market[<< s, tf >>]) = now \div tf
  BY <1>1 DEF Shape, TypeOK, Pairs, MarketFits
<1>8. market[<< s, tf >>][n] \in Actions
  <2>1. market[<< s, tf >>][n] \in Actions \cup {Quiet}
    BY <1>4, <1>6, <1>7, ElementOfSeq
  <2>2. market[<< s, tf >>][n] # Quiet
    BY <1>2
  <2> QED BY <2>1, <2>2
<1>9. /\ n * tf \in Nat \ {0}
      /\ n * tf <= since
      /\ n * tf > since - 2 * tf
      /\ ~FeedMayLag => n * tf > since - tf
  <2>1. CASE n = newest
    <3>1. n * tf > 0
      BY <1>1, <1>6, SMT
    <3>2. n * tf \in Int
      BY <1>1, <1>6, SMT
    <3> QED BY <1>1, <1>5, <2>1, <3>1, <3>2
  <2>2. CASE n = newest - 1
    <3>1. n * tf = newest * tf - tf /\ n * tf > 0 /\ n * tf \in Int /\ newest * tf \in Int
      BY <1>1, <1>4, <1>6, <2>2, SMT
    <3>2. FeedMayLag
      BY <1>3, <1>4, <2>2
    <3> QED BY <1>1, <1>5, <3>1, <3>2
  <2> QED BY <1>3, <2>1, <2>2
<1>10. signal = [symbol |-> s, timeframe |-> tf, bar |-> n * tf, action |-> market[<< s, tf >>][n],
                 sentAt |-> since]
  BY <1>2
<1> HIDE DEF Scans
<1> QED BY <1>1, <1>8, <1>9, <1>10 DEF Signal, since

LEMMA ConfluencesIs ==
    ASSUME NEW rows \in SUBSET Signal, NEW signal \in Signal
    PROVE  Confluences(rows, signal) \in Seq(Confluence)
<1> DEFINE agreeing == {r.timeframe : r \in Agreeing(rows, signal)}
           found == [symbol |-> signal.symbol, action |-> signal.action,
                     timeframes |-> agreeing, trigger |-> signal.sentAt]
<1>1. agreeing \subseteq Timeframes
  BY SignalFields DEF Agreeing
<1>2. found \in Confluence
  BY <1>1, SignalFields DEF Confluence
<1>3. Confluences(rows, signal) \in {<< >>, << found >>}
  BY DEF Confluences
<1>4. << >> \in Seq(Confluence)
  BY EmptySeq
<1>5. << found >> \in Seq(Confluence)
  <2> HIDE DEF found
  <2> QED BY <1>2
<1> QED BY <1>3, <1>4, <1>5
----------------------------------------------------------------------------
(* Every step keeps the shape *)

LEMMA ShapeInit == Init => Shape
<1> SUFFICES ASSUME Init PROVE Shape
  OBVIOUS
<1>1. << >> \in Seq(Actions \cup {Quiet}) /\ << >> \in Seq(Alert) /\ Len(<< >>) = 0
  BY EmptySeq
<1>2. TypeOK
  BY <1>1 DEF Init, TypeOK
<1>3. MarketFits
  <2>1. ASSUME NEW tf \in Timeframes PROVE 0 \div tf = 0
    <3>1. tf \in Nat \ {0}
      OBVIOUS
    <3> QED BY <3>1, SMT
  <2> QED BY <1>1, <2>1 DEF Init, MarketFits, Pairs
<1>4. PassesFit /\ RowsFit /\ TodoIsFresh
  BY FS_EmptySet DEF Init, PassesFit, RowsFit, TodoIsFresh, Idle
<1> QED BY <1>2, <1>3, <1>4 DEF Shape

LEMMA TickShape == ASSUME Shape, Tick PROVE Shape'
<1>1. now \in Nat /\ now' = now + 1 /\ fired \in [Timeframes -> Nat]
  BY DEF Tick, Shape, TypeOK
<1>2. PICK computed \in [Pairs -> Actions \cup {Quiet}] :
        market' = [p \in Pairs |-> IF now' % p[2] = 0 THEN Append(market[p], computed[p])
                                   ELSE market[p]]
  BY DEF Tick
<1>3. ASSUME NEW s \in Symbols, NEW tf \in Timeframes
      PROVE  /\ market'[<< s, tf >>] \in Seq(Actions \cup {Quiet})
             /\ Len(market'[<< s, tf >>]) = now' \div tf
  <2> DEFINE p == << s, tf >>
  <2>1. p \in Pairs /\ p[2] = tf /\ tf \in Nat \ {0}
    BY DEF Pairs
  <2>2. market[p] \in Seq(Actions \cup {Quiet}) /\ Len(market[p]) = now \div tf
    BY <2>1 DEF Shape, TypeOK, MarketFits
  <2>3. now' \div tf = (now \div tf) + (IF now' % tf = 0 THEN 1 ELSE 0)
    BY <1>1, <2>1, DivStep
  <2>4. now \div tf \in Nat
    BY <1>1, <2>1, DivIsNat
  <2>5. computed[p] \in Actions \cup {Quiet}
    BY <2>1
  <2> HIDE DEF p
  <2>6. /\ Append(market[p], computed[p]) \in Seq(Actions \cup {Quiet})
        /\ Len(Append(market[p], computed[p])) = Len(market[p]) + 1
    BY <2>2, <2>5, AppendProperties
  <2>7. market'[p] = IF now' % tf = 0 THEN Append(market[p], computed[p]) ELSE market[p]
    BY <1>2, <2>1
  <2>8. market'[p] \in Seq(Actions \cup {Quiet}) /\ Len(market'[p]) = now' \div tf
    <3>1. CASE now' % tf = 0
      BY <2>2, <2>3, <2>4, <2>6, <2>7, <3>1
    <3>2. CASE now' % tf # 0
      BY <2>2, <2>3, <2>4, <2>7, <3>2
    <3> QED BY <3>1, <3>2
  <2> QED BY <2>8 DEF p
<1>4. TypeOK'
  <2>1. market' \in [Pairs -> Seq(Actions \cup {Quiet})]
    <3>1. ASSUME NEW p \in Pairs PROVE market'[p] \in Seq(Actions \cup {Quiet})
      <4>1. p[1] \in Symbols /\ p[2] \in Timeframes /\ p = << p[1], p[2] >>
        BY DEF Pairs
      <4> QED BY <1>3, <4>1
    <3> QED BY <1>2, <3>1
  <2> QED BY <1>1, <2>1 DEF Tick, Shape, TypeOK
<1>5. MarketFits'
  BY <1>3 DEF MarketFits
<1>6. PassesFit'
  <2> SUFFICES ASSUME NEW tf \in Timeframes
               PROVE  /\ fired'[tf] <= now'
                      /\ passes'[tf].at = "scanning" => passes'[tf].since = fired'[tf]
                      /\ passes'[tf].at = "sending" => passes'[tf].alerts # << >>
    BY DEF PassesFit
  <2>1. UNCHANGED << fired, passes >>
    BY DEF Tick
  <2>2. /\ fired[tf] \in Nat /\ fired[tf] <= now
        /\ passes[tf].at = "scanning" => passes[tf].since = fired[tf]
        /\ passes[tf].at = "sending" => passes[tf].alerts # << >>
    BY <1>1 DEF Shape, PassesFit
  <2> QED BY <1>1, <2>1, <2>2
<1>7. RowsFit' /\ TodoIsFresh'
  BY DEF Tick, Shape, RowsFit, TodoIsFresh
<1> QED BY <1>4, <1>5, <1>6, <1>7 DEF Shape

LEMMA FireShape == ASSUME Shape, NEW tf \in Timeframes, Fire(tf) PROVE Shape'
<1> DEFINE started == [at |-> "scanning", since |-> now, todo |-> Symbols,
                       delivered |-> << >>, confluences |-> << >>]
<1>1. /\ now \in Nat /\ fired \in [Timeframes -> Nat]
      /\ passes \in [Timeframes -> {Idle} \cup Scanning \cup Sending]
      /\ signals \subseteq Signal /\ announced \subseteq Signal
  BY DEF Shape, TypeOK
<1>2. /\ fired' = [fired EXCEPT ![tf] = now]
      /\ passes' = [passes EXCEPT ![tf] = started]
      /\ fired[tf] < now
      /\ UNCHANGED << now, market, signals, subscribers, heard, announced, withheld, restarts >>
  BY DEF Fire
<1>3. started \in Scanning
  <2>1. << >> \in Seq(Signal) /\ << >> \in Seq(Confluence)
    BY EmptySeq
  <2> QED BY <1>1, <2>1 DEF Scanning
<1>4. started.at = "scanning" /\ started.since = now
  OBVIOUS
<1> HIDE DEF started
<1>5. TypeOK'
  BY <1>1, <1>2, <1>3 DEF Shape, TypeOK
<1>6. MarketFits'
  BY <1>2 DEF Shape, MarketFits
<1>7. \A u \in Timeframes : fired'[u] >= fired[u] /\ fired[u] \in Nat /\ fired'[u] \in Nat
  BY <1>1, <1>2
<1>8. PassesFit'
  BY <1>1, <1>2, <1>4 DEF Shape, PassesFit
<1>9. RowsFit'
  <2>1. ASSUME NEW r \in signals \cup announced
        PROVE  r.bar <= r.sentAt /\ r.sentAt <= fired'[r.timeframe]
    <3>1. r \in Signal /\ r.timeframe \in Timeframes /\ r.sentAt \in Nat
      BY <1>1, SignalFields
    <3>2. r.bar <= r.sentAt /\ r.sentAt <= fired[r.timeframe]
      BY DEF Shape, RowsFit
    <3>3. fired'[r.timeframe] >= fired[r.timeframe] /\ fired[r.timeframe] \in Nat
          /\ fired'[r.timeframe] \in Nat
      BY <1>7, <3>1
    <3> QED BY <3>1, <3>2, <3>3
  <2> QED BY <1>2, <2>1 DEF Shape, RowsFit
<1>10. TodoIsFresh'
  <2> SUFFICES ASSUME NEW u \in Timeframes, passes'[u].at = "scanning",
                      NEW a \in announced, a.timeframe = u, a.sentAt = passes'[u].since
               PROVE  a.symbol \notin passes'[u].todo
    BY <1>2 DEF TodoIsFresh
  <2>1. CASE u = tf
    <3>1. a.sentAt = now
      BY <1>1, <1>2, <1>4, <2>1
    <3>2. a.sentAt <= fired[tf]
      BY <2>1 DEF Shape, RowsFit
    <3> QED BY <1>1, <1>2, <3>1, <3>2
  <2>2. CASE u # tf
    BY <1>1, <1>2, <2>2 DEF Shape, TodoIsFresh
  <2> QED BY <2>1, <2>2
<1> QED BY <1>5, <1>6, <1>8, <1>9, <1>10 DEF Shape

\* A symbol is done, and nothing or one signal of its pass is added.
LEMMA ProceedShape ==
    ASSUME Shape, NEW tf \in Timeframes, NEW s, Scans(tf, s),
           NEW delivered \in Seq(Signal), NEW confluences \in Seq(Confluence),
           Proceed(tf, s, delivered, confluences),
           UNCHANGED << now, market, subscribers, fired, heard, restarts >>,
           withheld' \subseteq Signal,
           NEW added, added \subseteq Computed(tf, s), IsFiniteSet(added),
           signals \subseteq signals', signals' \subseteq signals \cup added,
           announced \subseteq announced', announced' \subseteq announced \cup added
    PROVE  Shape'
<1>1. /\ passes' \in [Timeframes -> {Idle} \cup Scanning \cup Sending]
      /\ \A u \in Timeframes \ {tf} : passes'[u] = passes[u]
      /\ delivered \o confluences \in Seq(Alert)
      /\ \/ passes'[tf] = Left(passes[tf], s, delivered, confluences)
         \/ passes'[tf] = Idle
         \/ /\ delivered \o confluences # << >>
            /\ passes'[tf] = [at |-> "sending", alerts |-> delivered \o confluences,
                              targets |-> subscribers]
  <2>1. TypeOK
    BY DEF Shape
  <2>2. GoesOn(tf, s, delivered, confluences)
    BY <2>1, ProceedIs
  <2> QED BY <2>2 DEF GoesOn
<1>2. \A a \in added : /\ a \in Signal
                       /\ a.symbol = s /\ a.timeframe = tf
                       /\ a.sentAt = passes[tf].since /\ a.sentAt = fired[tf]
                       /\ a.bar <= a.sentAt
  BY ComputedIs
<1>3. passes[tf].at = "scanning" /\ fired \in [Timeframes -> Nat]
  BY DEF Scans, Shape, TypeOK
<1>4. TypeOK'
  BY <1>1, <1>2 DEF Shape, TypeOK
<1>5. MarketFits'
  BY DEF Shape, MarketFits
<1>6. PassesFit'
  <2> SUFFICES ASSUME NEW u \in Timeframes
               PROVE  /\ passes'[u].at = "scanning" => passes'[u].since = fired[u]
                      /\ passes'[u].at = "sending" => passes'[u].alerts # << >>
    BY DEF Shape, PassesFit
  <2>1. CASE u = tf
    BY <1>1, <1>3, <2>1 DEF Shape, PassesFit, Left, Idle
  <2>2. CASE u # tf
    BY <1>1, <2>2 DEF Shape, PassesFit
  <2> QED BY <2>1, <2>2
<1>7. RowsFit'
  <2>1. IsFiniteSet(signals')
    <3>1. IsFiniteSet(signals \cup added)
      BY FS_Union DEF Shape, RowsFit
    <3> QED BY <3>1, FS_Subset
  <2>2. ASSUME NEW r \in signals' \cup announced'
        PROVE  r.bar <= r.sentAt /\ r.sentAt <= fired'[r.timeframe]
    <3>1. CASE r \in signals \cup announced
      BY <3>1 DEF Shape, RowsFit
    <3>2. CASE r \in added
      <4>1. r \in Signal /\ r.timeframe = tf /\ r.sentAt = fired[tf] /\ r.bar <= r.sentAt
        BY <1>2, <3>2
      <4>2. r.sentAt \in Nat
        BY <4>1, SignalFields
      <4> QED BY <4>1, <4>2
    <3> QED BY <3>1, <3>2
  <2> QED BY <2>1, <2>2 DEF RowsFit
<1>8. TodoIsFresh'
  <2> SUFFICES ASSUME NEW u \in Timeframes, passes'[u].at = "scanning",
                      NEW a \in announced', a.timeframe = u, a.sentAt = passes'[u].since
               PROVE  a.symbol \notin passes'[u].todo
    BY DEF TodoIsFresh
  <2>1. CASE u = tf
    <3>1. passes'[tf] = Left(passes[tf], s, delivered, confluences)
      BY <1>1, <2>1 DEF Idle
    <3>2. passes'[tf].since = passes[tf].since /\ passes'[tf].todo = passes[tf].todo \ {s}
      BY <3>1 DEF Left
    <3>3. CASE a \in announced
      BY <1>3, <2>1, <3>2, <3>3 DEF Shape, TodoIsFresh
    <3>4. CASE a \in added
      BY <1>2, <2>1, <3>2, <3>4
    <3> QED BY <3>3, <3>4
  <2>2. CASE u # tf
    <3>1. passes'[u] = passes[u] /\ a \in announced
      BY <1>1, <1>2, <2>2
    <3> QED BY <3>1 DEF Shape, TodoIsFresh
  <2> QED BY <2>1, <2>2
<1> QED BY <1>4, <1>5, <1>6, <1>7, <1>8 DEF Shape

\* What a pass has gathered so far.
LEMMA GatheredIs ==
    ASSUME Shape, NEW tf \in Timeframes, NEW s, Scans(tf, s)
    PROVE  /\ passes[tf] \in Scanning /\ passes[tf].at = "scanning"
           /\ passes[tf].delivered \in Seq(Signal)
           /\ passes[tf].confluences \in Seq(Confluence)
           /\ signals \subseteq Signal /\ announced \subseteq Signal /\ withheld \subseteq Signal
BY PassFields, ScanningFields DEF Scans, Shape, TypeOK

LEMMA IgnoreShape == ASSUME Shape, NEW tf \in Timeframes, NEW s, Ignore(tf, s) PROVE Shape'
<1>1. /\ Scans(tf, s)
      /\ Proceed(tf, s, passes[tf].delivered, passes[tf].confluences)
      /\ UNCHANGED << now, market, signals, subscribers, fired, heard, announced, withheld, restarts >>
  BY DEF Ignore
<1>2. /\ passes[tf].delivered \in Seq(Signal) /\ passes[tf].confluences \in Seq(Confluence)
      /\ withheld' \subseteq Signal
  BY <1>1, GatheredIs
<1>3. {} \subseteq Computed(tf, s) /\ IsFiniteSet({})
  BY FS_EmptySet
<1>4. /\ signals \subseteq signals' /\ signals' \subseteq signals \cup {}
      /\ announced \subseteq announced' /\ announced' \subseteq announced \cup {}
  BY <1>1
<1> QED BY <1>1, <1>2, <1>3, <1>4, ProceedShape

LEMMA WithholdShape == ASSUME Shape, NEW tf \in Timeframes, NEW s, Withhold(tf, s) PROVE Shape'
<1>1. /\ Scans(tf, s)
      /\ Proceed(tf, s, passes[tf].delivered, passes[tf].confluences)
      /\ UNCHANGED << now, market, subscribers, fired, heard, announced, restarts >>
  BY DEF Withhold
<1>2. PICK signal \in Computed(tf, s) :
        /\ Recorded(signal)
        /\ withheld' = IF InQuietHour(signal) THEN withheld ELSE withheld \cup {signal}
  BY DEF Withhold
<1>3. /\ passes[tf].delivered \in Seq(Signal) /\ passes[tf].confluences \in Seq(Confluence)
      /\ withheld \subseteq Signal /\ signal \in Signal
  BY <1>1, GatheredIs, ComputedIs
<1>4. withheld' \subseteq Signal
  BY <1>2, <1>3
<1>5. {signal} \subseteq Computed(tf, s) /\ IsFiniteSet({signal})
  <2>1. IsFiniteSet({signal})
    BY FS_Singleton
  <2> QED BY <2>1
<1>6. signals \subseteq signals' /\ signals' \subseteq signals \cup {signal}
  BY <1>2 DEF Recorded
<1>7. announced \subseteq announced' /\ announced' \subseteq announced \cup {signal}
  BY <1>1
<1> QED BY <1>1, <1>3, <1>4, <1>5, <1>6, <1>7, ProceedShape

\* What an announcement adds to the alerts of its pass.
LEMMA AnnounceIs ==
    ASSUME Shape, NEW tf \in Timeframes, NEW s, Announce(tf, s)
    PROVE  /\ Scans(tf, s)
           /\ UNCHANGED << now, market, subscribers, fired, heard, withheld, restarts >>
           /\ \E signal \in Computed(tf, s) :
                /\ signal \in Signal
                /\ ~Known(signal) /\ ~InQuietHour(signal) /\ ~Held(signal)
                /\ Recorded(signal)
                /\ announced' = announced \cup {signal}
                /\ Append(passes[tf].delivered, signal) \in Seq(Signal)
                /\ signals' \subseteq Signal
                /\ Confluences(signals', signal) \in Seq(Confluence)
                /\ passes[tf].confluences \o Confluences(signals', signal) \in Seq(Confluence)
                /\ Proceed(tf, s, Append(passes[tf].delivered, signal),
                           passes[tf].confluences \o Confluences(signals', signal))
<1>1. /\ Scans(tf, s)
      /\ UNCHANGED << now, market, subscribers, fired, heard, withheld, restarts >>
  BY DEF Announce
<1>2. PICK signal \in Computed(tf, s) :
        /\ ~Known(signal) /\ ~InQuietHour(signal) /\ ~Held(signal)
        /\ Recorded(signal)
        /\ announced' = announced \cup {signal}
        /\ Proceed(tf, s, Append(passes[tf].delivered, signal),
                   passes[tf].confluences \o Confluences(signals', signal))
  BY DEF Announce
<1>3. /\ passes[tf].delivered \in Seq(Signal) /\ passes[tf].confluences \in Seq(Confluence)
      /\ signals \subseteq Signal /\ signal \in Signal
  BY <1>1, GatheredIs, ComputedIs
<1>4. Append(passes[tf].delivered, signal) \in Seq(Signal)
  BY <1>3, AppendProperties
<1>5. signals' \subseteq Signal
  BY <1>2, <1>3 DEF Recorded
<1>6. Confluences(signals', signal) \in Seq(Confluence)
  BY <1>3, <1>5, ConfluencesIs
<1>7. passes[tf].confluences \o Confluences(signals', signal) \in Seq(Confluence)
  BY <1>3, <1>6, ConcatProperties
<1> QED BY <1>1, <1>2, <1>3, <1>4, <1>5, <1>6, <1>7

LEMMA AnnounceShape == ASSUME Shape, NEW tf \in Timeframes, NEW s, Announce(tf, s) PROVE Shape'
<1>1. /\ Scans(tf, s)
      /\ UNCHANGED << now, market, subscribers, fired, heard, withheld, restarts >>
  BY AnnounceIs
<1>2. PICK signal \in Computed(tf, s) :
        /\ Recorded(signal)
        /\ announced' = announced \cup {signal}
        /\ Append(passes[tf].delivered, signal) \in Seq(Signal)
        /\ passes[tf].confluences \o Confluences(signals', signal) \in Seq(Confluence)
        /\ Proceed(tf, s, Append(passes[tf].delivered, signal),
                   passes[tf].confluences \o Confluences(signals', signal))
  BY AnnounceIs
<1>3. withheld' \subseteq Signal
  BY <1>1, GatheredIs
<1>4. {signal} \subseteq Computed(tf, s) /\ IsFiniteSet({signal})
  <2>1. IsFiniteSet({signal})
    BY FS_Singleton
  <2> QED BY <2>1
<1>5. /\ signals \subseteq signals' /\ signals' \subseteq signals \cup {signal}
      /\ announced \subseteq announced' /\ announced' \subseteq announced \cup {signal}
  BY <1>2 DEF Recorded
<1> QED BY <1>1, <1>2, <1>3, <1>4, <1>5, ProceedShape

\* What a message that was sent, or failed, leaves of its pass.
Sends(tf, c) ==
    /\ passes[tf] \in Sending /\ passes[tf].at = "sending" /\ c \in passes[tf].targets
    /\ passes[tf].alerts \in Seq(Alert) /\ passes[tf].alerts # << >>
    /\ Head(passes[tf].alerts) = passes[tf].alerts[1]
    /\ Head(passes[tf].alerts) \in Alert
    /\ Tail(passes[tf].alerts) \in Seq(Alert)
    /\ UNCHANGED << now, market, signals, subscribers, fired, announced, withheld, restarts >>
    /\ \/ heard' = heard
       \/ heard' = [heard EXCEPT ![c] = Append(@, Head(passes[tf].alerts))]
    /\ heard' \in [Chats -> Seq(Alert)]
    /\ passes' \in [Timeframes -> {Idle} \cup Scanning \cup Sending]
    /\ \A u \in Timeframes \ {tf} : passes'[u] = passes[u]
    /\ \/ passes'[tf] = [at |-> "sending", alerts |-> passes[tf].alerts,
                         targets |-> passes[tf].targets \ {c}]
       \/ passes'[tf] = Idle
       \/ /\ Tail(passes[tf].alerts) # << >>
          /\ passes'[tf] = [at |-> "sending", alerts |-> Tail(passes[tf].alerts),
                            targets |-> subscribers]

LEMMA SendIs ==
    ASSUME Shape, NEW tf \in Timeframes, NEW c \in Chats, NEW reached, Send(tf, c, reached)
    PROVE  Sends(tf, c)
<1> DEFINE pass == passes[tf]
           left == pass.targets \ {c}
           next == IF left = {} THEN Broadcast(Tail(pass.alerts)) ELSE [pass EXCEPT !.targets = left]
<1>1. pass.at = "sending" /\ c \in pass.targets
  BY DEF Send
<1>2. /\ pass \in Sending /\ pass.alerts \in Seq(Alert) /\ pass.targets \subseteq Chats
      /\ pass.alerts # << >>
  BY <1>1, PassFields, SendingFields DEF Shape, PassesFit
<1>3. /\ Head(pass.alerts) \in Alert /\ Tail(pass.alerts) \in Seq(Alert)
      /\ Head(pass.alerts) = pass.alerts[1]
  BY <1>2, HeadTailProperties
<1>4. UNCHANGED << now, market, signals, subscribers, fired, announced, withheld, restarts >>
  BY DEF Send
<1>5. /\ \/ heard' = heard
         \/ heard' = [heard EXCEPT ![c] = Append(@, Head(pass.alerts))]
      /\ passes' = [passes EXCEPT ![tf] = next]
  BY DEF Send, Remaining
<1>6. /\ heard \in [Chats -> Seq(Alert)]
      /\ passes \in [Timeframes -> {Idle} \cup Scanning \cup Sending]
      /\ TypeOK
  BY DEF Shape, TypeOK
<1>7. Append(heard[c], Head(pass.alerts)) \in Seq(Alert)
  BY <1>3, <1>6, AppendProperties
<1> HIDE DEF pass
<1>8. heard' \in [Chats -> Seq(Alert)]
  BY <1>5, <1>6, <1>7
<1>9. CASE left = {}
  <2>1. next = Broadcast(Tail(pass.alerts))
    BY <1>9
  <2>2. \/ next = Idle
        \/ /\ Tail(pass.alerts) # << >>
           /\ next = [at |-> "sending", alerts |-> Tail(pass.alerts), targets |-> subscribers]
           /\ next \in Sending
    BY <1>3, <1>6, <2>1, BroadcastIs
  <2> HIDE DEF next, left
  <2> QED BY <1>1, <1>2, <1>3, <1>4, <1>5, <1>6, <1>8, <2>2 DEF pass, Sends
<1>10. CASE left # {}
  <2>1. next = [at |-> "sending", alerts |-> pass.alerts, targets |-> left]
    BY <1>2, <1>10 DEF Sending
  <2>2. next \in Sending
    BY <1>2, <2>1 DEF Sending
  <2> HIDE DEF next
  <2> QED BY <1>1, <1>2, <1>3, <1>4, <1>5, <1>6, <1>8, <2>1, <2>2 DEF pass, Sends
<1> QED BY <1>9, <1>10

LEMMA SendShape ==
    ASSUME Shape, NEW tf \in Timeframes, NEW c \in Chats, NEW reached, Send(tf, c, reached)
    PROVE  Shape'
<1>1. /\ passes[tf].alerts # << >>
      /\ UNCHANGED << now, market, signals, subscribers, fired, announced, withheld, restarts >>
      /\ heard' \in [Chats -> Seq(Alert)]
      /\ passes' \in [Timeframes -> {Idle} \cup Scanning \cup Sending]
      /\ \A u \in Timeframes \ {tf} : passes'[u] = passes[u]
      /\ \/ passes'[tf] = [at |-> "sending", alerts |-> passes[tf].alerts,
                           targets |-> passes[tf].targets \ {c}]
         \/ passes'[tf] = Idle
         \/ /\ Tail(passes[tf].alerts) # << >>
            /\ passes'[tf] = [at |-> "sending", alerts |-> Tail(passes[tf].alerts),
                              targets |-> subscribers]
  <2>1. Sends(tf, c)
    BY SendIs
  <2> QED BY <2>1 DEF Sends
<1>2. passes'[tf].at # "scanning" /\ (passes'[tf].at = "sending" => passes'[tf].alerts # << >>)
  BY <1>1 DEF Idle
<1>3. TypeOK'
  BY <1>1 DEF Shape, TypeOK
<1>4. PassesFit' /\ TodoIsFresh'
  BY <1>1, <1>2 DEF Shape, PassesFit, TodoIsFresh
<1>5. MarketFits' /\ RowsFit'
  BY <1>1 DEF Shape, MarketFits, RowsFit
<1> QED BY <1>3, <1>4, <1>5 DEF Shape

LEMMA OtherShape ==
    ASSUME Shape,
           \/ Restart
           \/ \E tf \in Timeframes : Break(tf)
           \/ \E c \in Chats : Subscribe(c) \/ Unsubscribe(c)
           \/ UNCHANGED vars
    PROVE  Shape'
<1>1. /\ UNCHANGED << now, market, signals, fired, heard, announced, withheld >>
      /\ subscribers' \subseteq Chats /\ restarts' \in Nat
      /\ passes' \in [Timeframes -> {Idle} \cup Scanning \cup Sending]
      /\ \A tf \in Timeframes : passes'[tf] = passes[tf] \/ passes'[tf] = Idle
  <2>1. TypeOK
    BY DEF Shape
  <2>2. CASE Restart
    BY <2>1, <2>2 DEF Restart, TypeOK
  <2>3. ASSUME NEW tf \in Timeframes, Break(tf) PROVE <1>1
    BY <2>1, <2>3 DEF Break, TypeOK
  <2>4. ASSUME NEW c \in Chats, Subscribe(c) \/ Unsubscribe(c) PROVE <1>1
    BY <2>1, <2>4 DEF Subscribe, Unsubscribe, TypeOK
  <2>5. CASE UNCHANGED vars
    BY <2>1, <2>5 DEF vars, TypeOK
  <2> QED BY <2>2, <2>3, <2>4, <2>5
<1>2. TypeOK'
  BY <1>1 DEF Shape, TypeOK
<1>3. PassesFit' /\ TodoIsFresh'
  BY <1>1 DEF Shape, PassesFit, TodoIsFresh, Idle
<1>4. MarketFits' /\ RowsFit'
  BY <1>1 DEF Shape, MarketFits, RowsFit
<1> QED BY <1>2, <1>3, <1>4 DEF Shape

\* The steps, one by one.
LEMMA StepIs ==
    ASSUME [Next]_vars
    PROVE  \/ Tick
           \/ \E tf \in Timeframes : Fire(tf)
           \/ \E tf \in Timeframes, s \in Symbols : Ignore(tf, s) \/ Withhold(tf, s) \/ Announce(tf, s)
           \/ \E tf \in Timeframes, c \in Chats, reached \in BOOLEAN : Send(tf, c, reached)
           \/ \/ Restart
              \/ \E tf \in Timeframes : Break(tf)
              \/ \E c \in Chats : Subscribe(c) \/ Unsubscribe(c)
              \/ UNCHANGED vars
BY DEF Next, Work

LEMMA ShapeKept == Shape /\ [Next]_vars => Shape'
BY StepIs, TickShape, FireShape, IgnoreShape, WithholdShape, AnnounceShape, SendShape, OtherShape

\* Types of the database, of the passes and of what the chats hear: among them
\* that a pass only reads bars that exist.
THEOREM ScanTypeCorrect == Spec => []TypeOK
<1>1. Shape => TypeOK
  BY DEF Shape
<1> QED BY <1>1, ShapeInit, ShapeKept, PTL DEF Spec
----------------------------------------------------------------------------
(* The limits on alerts *)

\* What a pass computes for a symbol still to do was not announced before.
LEMMA ComputedIsFresh ==
    ASSUME Shape, NEW tf \in Timeframes, NEW s, Scans(tf, s), NEW signal \in Computed(tf, s)
    PROVE  /\ signal \notin announced
           /\ \A a \in announced : SamePair(a, signal) => a.sentAt < signal.sentAt
<1>1. /\ signal \in Signal
      /\ signal.symbol = s /\ signal.timeframe = tf
      /\ signal.sentAt = passes[tf].since /\ signal.sentAt = fired[tf] /\ fired[tf] \in Nat
  BY ComputedIs DEF Shape, TypeOK
<1>2. passes[tf].at = "scanning" /\ s \in passes[tf].todo
  BY DEF Scans
<1>3. ASSUME NEW a \in announced, SamePair(a, signal)
      PROVE  a.sentAt < signal.sentAt
  <2>1. a.symbol = s /\ a.timeframe = tf /\ a.sentAt \in Nat
    BY <1>1, <1>3, SignalFields DEF SamePair, Shape, TypeOK
  <2>2. a.sentAt <= fired[tf]
    BY <2>1 DEF Shape, RowsFit
  <2>3. a.sentAt # passes[tf].since
    BY <1>2, <2>1 DEF Shape, TodoIsFresh
  <2> QED BY <1>1, <2>1, <2>2, <2>3
<1>4. signal \notin announced
  <2> SUFFICES ASSUME signal \in announced PROVE FALSE
    OBVIOUS
  <2>1. signal.sentAt < signal.sentAt
    BY <1>3 DEF SamePair
  <2> QED BY <1>1, <2>1
<1> QED BY <1>3, <1>4

\* A signal that is not held is a cooldown away from every row of its pair,
\* and the rows of the hour before it leave room for one more.
LEMMA NotHeld ==
    ASSUME Shape, NEW signal \in Signal, ~Held(signal)
    PROVE  LET rows == Of(signal.symbol, signal.timeframe)
               recent == {r \in rows : r.sentAt >= signal.sentAt - Hour}
           IN  /\ \A r \in rows : signal.sentAt - r.bar >= Cooldown[signal.timeframe]
               /\ IsFiniteSet(recent)
               /\ Cardinality(recent) < MaxPerHour
<1> DEFINE tf == signal.timeframe
           at == signal.sentAt
           rows == Of(signal.symbol, tf)
           recent == {r \in rows : r.sentAt >= at - Hour}
           bars == {r.bar : r \in rows}
<1>1. /\ ~(rows # {} /\ at - Max(bars) < Cooldown[tf])
      /\ ~(Cardinality(recent) >= MaxPerHour)
  BY DEF Held, Cooling, Capped
<1>2. /\ signals \subseteq Signal /\ IsFiniteSet(signals) /\ now \in Nat
      /\ fired \in [Timeframes -> Nat]
      /\ tf \in Timeframes /\ at \in Nat /\ Cooldown[tf] \in Nat
  BY SignalFields DEF Shape, TypeOK, RowsFit
<1>3. rows \subseteq signals /\ recent \subseteq signals
  BY DEF Of
<1>4. IsFiniteSet(recent) /\ Cardinality(recent) \in Nat
  <2>1. recent \in SUBSET signals
    BY <1>3
  <2> HIDE DEF recent
  <2>2. IsFiniteSet(recent)
    BY <1>2, <2>1, FS_Subset
  <2> QED BY <2>2, FS_CardinalityType
<1>5. \A r \in rows : r.bar \in Nat /\ r.bar <= now
  <2> SUFFICES ASSUME NEW r \in rows PROVE r.bar \in Nat /\ r.bar <= now
    OBVIOUS
  <2>1. r \in signals /\ r.timeframe \in Timeframes /\ r.bar \in Nat /\ r.sentAt \in Nat
    BY <1>2, <1>3, SignalFields
  <2>2. r.bar <= r.sentAt /\ r.sentAt <= fired[r.timeframe] /\ fired[r.timeframe] <= now
    BY <2>1 DEF Shape, RowsFit, PassesFit
  <2>3. fired[r.timeframe] \in Nat
    BY <1>2, <2>1
  <2> QED BY <1>2, <2>1, <2>2, <2>3
<1>6. ASSUME NEW r \in rows PROVE at - r.bar >= Cooldown[tf]
  <2>1. bars \in SUBSET Nat /\ bars # {} /\ \A b \in bars : b <= now
    BY <1>5
  <2>2. r.bar \in bars /\ r.bar \in Nat /\ rows # {}
    BY <1>5
  <2> HIDE DEF bars, rows
  <2>3. Max(bars) \in bars /\ r.bar <= Max(bars)
    BY <1>2, <2>1, <2>2, MaxOfBounded
  <2>4. Max(bars) \in Nat /\ ~(at - Max(bars) < Cooldown[tf])
    BY <1>1, <2>1, <2>2, <2>3
  <2> QED BY <1>2, <2>2, <2>3, <2>4
<1>7. Cardinality(recent) < MaxPerHour
  <2> HIDE DEF recent
  <2>1. MaxPerHour \in Nat
    OBVIOUS
  <2> QED BY <1>1, <1>4, <2>1
<1> QED BY <1>4, <1>6, <1>7

\* An alert of its pair that is on record is one of the rows.
LEMMA StoredIsOf ==
    ASSUME NEW b, NEW a \in Stored(b)
    PROVE  a \in announced /\ a \in signals /\ a \in Of(b.symbol, b.timeframe)
BY DEF Stored, SamePair, Of

LEMMA WithholdLimits ==
    ASSUME Shape, AlertsAreLimited, NEW tf \in Timeframes, NEW s, Withhold(tf, s)
    PROVE  AlertsAreLimited'
<1>1. Scans(tf, s) /\ announced' = announced
  BY DEF Withhold
<1>2. PICK signal \in Computed(tf, s) : Recorded(signal)
  BY DEF Withhold
<1>3. signal \notin announced
  BY <1>1, ComputedIsFresh
<1>4. announced' \cap signals' = announced \cap signals
  BY <1>1, <1>2, <1>3 DEF Recorded
<1>5. \A b \in announced : Stored(b)' = Stored(b)
  BY <1>4 DEF Stored
<1>6. AlertsAreSpaced'
  BY <1>1, <1>5 DEF AlertsAreLimited, AlertsAreSpaced
<1>7. HourlyCapHolds'
  BY <1>1, <1>5 DEF AlertsAreLimited, HourlyCapHolds
<1> QED BY <1>6, <1>7 DEF AlertsAreLimited

LEMMA AnnounceLimits ==
    ASSUME Shape, AlertsAreLimited, NEW tf \in Timeframes, NEW s, Announce(tf, s)
    PROVE  AlertsAreLimited'
<1>1. PICK signal \in Computed(tf, s) :
        /\ signal \in Signal
        /\ ~Held(signal)
        /\ Recorded(signal)
        /\ announced' = announced \cup {signal}
  BY AnnounceIs
<1>2. Scans(tf, s)
  BY DEF Announce
<1>3. /\ signal.symbol = s /\ signal.timeframe = tf /\ signal.sentAt \in Nat
      /\ signal \notin announced
      /\ \A a \in announced : SamePair(a, signal) => a.sentAt < signal.sentAt
  BY <1>1, <1>2, ComputedIs, ComputedIsFresh, SignalFields
<1>4. announced \subseteq Signal /\ \A a \in announced : a.sentAt \in Nat
  BY SignalFields DEF Shape, TypeOK
<1> DEFINE rows == Of(s, tf)
           recent == {r \in rows : r.sentAt >= signal.sentAt - Hour}
<1>5. /\ \A r \in rows : signal.sentAt - r.bar >= Cooldown[tf]
      /\ IsFiniteSet(recent)
      /\ Cardinality(recent) < MaxPerHour
  BY <1>1, <1>3, NotHeld
<1>6. ASSUME NEW b, NEW a \in Stored(b)' PROVE a \in Stored(b) \/ (a = signal /\ SamePair(signal, b))
  BY <1>1, <1>6 DEF Stored, Recorded
<1>7. AlertsAreSpaced'
  <2> SUFFICES ASSUME NEW b \in announced', NEW a \in Stored(b)', a.sentAt < b.sentAt
               PROVE  b.sentAt - a.bar >= Cooldown[a.timeframe]
    BY DEF AlertsAreSpaced
  <2>1. CASE a \in Stored(b) /\ b \in announced
    BY <2>1 DEF AlertsAreLimited, AlertsAreSpaced
  <2>2. CASE a \in Stored(b) /\ b = signal
    <3>1. a \in rows /\ a.timeframe = tf
      BY <1>3, <2>2, StoredIsOf DEF Stored, SamePair
    <3> QED BY <1>5, <2>2, <3>1
  <2>3. CASE a = signal /\ SamePair(signal, b)
    <3>1. b \in announced => SamePair(b, signal)
      BY <2>3 DEF SamePair
    <3> QED BY <1>1, <1>3, <1>4, <2>3, <3>1
  <2> QED BY <1>1, <1>6, <2>1, <2>2, <2>3
<1>8. HourlyCapHolds'
  <2> SUFFICES ASSUME NEW last \in announced'
               PROVE  Cardinality({last} \cup {a \in Stored(last)' :
                                      a.sentAt \in last.sentAt - Hour .. last.sentAt}) <= MaxPerHour
    BY DEF HourlyCapHolds
  <2> DEFINE before == {a \in Stored(last) : a.sentAt \in last.sentAt - Hour .. last.sentAt}
             after == {a \in Stored(last)' : a.sentAt \in last.sentAt - Hour .. last.sentAt}
  <2>1. CASE last \in announced
    <3>1. last.sentAt \in Nat /\ (SamePair(signal, last) => last.sentAt < signal.sentAt)
      BY <1>3, <1>4, <2>1 DEF SamePair
    <3>2. \A a \in after : a \in before
      <4> SUFFICES ASSUME NEW a \in after, a \notin Stored(last) PROVE FALSE
        OBVIOUS
      <4>1. a = signal /\ SamePair(signal, last)
        BY <1>6
      <4> QED BY <1>3, <3>1, <4>1
    <3>3. \A a \in before : a \in after
      BY <1>1 DEF Stored, Recorded
    <3>4. after = before
      BY <3>2, <3>3
    <3>5. Cardinality({last} \cup before) <= MaxPerHour
      BY <2>1 DEF AlertsAreLimited, HourlyCapHolds
    <3> HIDE DEF before, after
    <3>6. Cardinality({last} \cup after) <= MaxPerHour
      BY <3>4, <3>5
    <3> QED BY <3>6 DEF after
  <2>2. CASE last = signal
    <3>1. {last} \cup after \subseteq recent \cup {signal}
      <4> SUFFICES ASSUME NEW a \in after, a # signal PROVE a \in recent
        BY <2>2
      <4>1. a \in Stored(last)
        BY <1>6
      <4>2. a \in rows /\ a.sentAt \in Nat
        BY <1>3, <1>4, <2>2, <4>1, StoredIsOf
      <4> QED BY <1>3, <2>2, <4>2
    <3> HIDE DEF recent, after
    <3>2. /\ IsFiniteSet(recent \cup {signal})
          /\ Cardinality(recent \cup {signal}) <= Cardinality(recent) + 1
          /\ Cardinality(recent) \in Nat
      <4>1. IsFiniteSet(recent)
        BY <1>5
      <4>2. Cardinality(recent) \in Nat
        BY <4>1, FS_CardinalityType
      <4>3. /\ IsFiniteSet(recent \cup {signal})
            /\ Cardinality(recent \cup {signal})
                 = IF signal \in recent THEN Cardinality(recent) ELSE Cardinality(recent) + 1
        BY <4>1, FS_AddElement
      <4> QED BY <4>2, <4>3
    <3>3. /\ Cardinality({last} \cup after) <= Cardinality(recent \cup {signal})
          /\ Cardinality({last} \cup after) \in Nat
          /\ Cardinality(recent \cup {signal}) \in Nat
      BY <3>1, <3>2, FS_Subset, FS_CardinalityType
    <3>4. MaxPerHour \in Nat
      OBVIOUS
    <3>5. Cardinality({last} \cup after) <= MaxPerHour
      BY <1>5, <3>2, <3>3, <3>4
    <3> QED BY <3>5 DEF after
  <2> QED BY <1>1, <2>1, <2>2
<1> QED BY <1>7, <1>8 DEF AlertsAreLimited

LEMMA LimitsInit == Init => AlertsAreLimited
BY DEF Init, AlertsAreLimited, AlertsAreSpaced, HourlyCapHolds, Stored

LEMMA LimitsKept == Shape /\ AlertsAreLimited /\ [Next]_vars => AlertsAreLimited'
<1> SUFFICES ASSUME Shape, AlertsAreLimited, [Next]_vars PROVE AlertsAreLimited'
  OBVIOUS
<1>1. CASE UNCHANGED << signals, announced >>
  BY <1>1 DEF AlertsAreLimited, AlertsAreSpaced, HourlyCapHolds, Stored
<1>2. \/ UNCHANGED << signals, announced >>
      \/ \E tf \in Timeframes, s \in Symbols : Withhold(tf, s) \/ Announce(tf, s)
  BY StepIs DEF Tick, Fire, Ignore, Send, Restart, Break, Subscribe, Unsubscribe, vars
<1> QED BY <1>1, <1>2, WithholdLimits, AnnounceLimits

\* Whatever the cooldowns, the cap and the timeframes, with late bars, refused
\* writes and restarts: an alert is a cooldown away from every earlier alert of
\* its pair that is on record, and in no hour are there more than the cap
\* (Scanner._suppression_reason).
THEOREM AlertsStayLimited == Spec => []AlertsAreLimited
BY ShapeInit, ShapeKept, LimitsInit, LimitsKept, PTL DEF Spec
----------------------------------------------------------------------------
(* What the chats hear *)

\* AlertsAreOnRecord of one alert, given what was announced and the table.
OnRecord(alert, told, rows) ==
    IF IsSignal(alert) THEN alert \in told /\ alert \in rows
    ELSE /\ Cardinality(alert.timeframes) >= 2
         /\ \A tf \in alert.timeframes :
              \E r \in rows : /\ r.symbol = alert.symbol /\ r.timeframe = tf
                              /\ r.action = alert.action
                              /\ r.bar <= alert.trigger
                              /\ r.bar >= alert.trigger - Max(alert.timeframes) * WindowCandles

\* Nothing in what a chat was told is about the bar of a signal.
Unheard(alert, said) == \A i \in DOMAIN said : IsSignal(said[i]) => ~SameBar(said[i], alert)

\* Alerts of a pass: on record, of its timeframe, no two about the same bar.
SoundQueue(tf, alerts, told, rows) ==
    /\ \A k \in DOMAIN alerts : /\ OnRecord(alerts[k], told, rows)
                                /\ IsSignal(alerts[k]) => alerts[k].timeframe = tf
    /\ \A k, l \in DOMAIN alerts :
        IsSignal(alerts[k]) /\ IsSignal(alerts[l]) /\ SameBar(alerts[k], alerts[l]) => k = l

\* What a scan has gathered is new to every chat; of what a broadcast sends
\* only the first alert is known, and not to those that it has yet to go to.
GatheredSoundly(tf, delivered, confluences, told, rows, said) ==
    /\ SoundQueue(tf, delivered, told, rows)
    /\ \A k \in DOMAIN confluences : OnRecord(confluences[k], told, rows)
    /\ \A c \in Chats : \A k \in DOMAIN delivered : Unheard(delivered[k], said[c])

SentSoundly(tf, alerts, targets, told, rows, said) ==
    /\ SoundQueue(tf, alerts, told, rows)
    /\ \A c \in Chats : \A k \in DOMAIN alerts :
        IsSignal(alerts[k]) /\ (k = 1 => c \in targets) => Unheard(alerts[k], said[c])

PassIsSound(tf, pass, told, rows, said) ==
    /\ pass.at = "scanning" =>
        GatheredSoundly(tf, pass.delivered, pass.confluences, told, rows, said)
    /\ pass.at = "sending" => SentSoundly(tf, pass.alerts, pass.targets, told, rows, said)

HeardInv ==
    /\ announced \subseteq signals
    /\ AnnouncedOnce
    /\ \A c \in Chats : \A i \in DOMAIN heard[c] : OnRecord(heard[c][i], announced, signals)
    /\ \A tf \in Timeframes : PassIsSound(tf, passes[tf], announced, signals, heard)

LEMMA HeardInvIsEnough == HeardInv => HeardIsSound
BY DEF HeardInv, HeardIsSound, AlertsAreOnRecord, OnRecord

LEMMA OnRecordGrows ==
    ASSUME NEW told, NEW rows, NEW moreTold, NEW moreRows,
           told \subseteq moreTold, rows \subseteq moreRows,
           NEW alert, OnRecord(alert, told, rows)
    PROVE  OnRecord(alert, moreTold, moreRows)
BY DEF OnRecord

LEMMA PassGrows ==
    ASSUME NEW told, NEW rows, NEW moreTold, NEW moreRows,
           told \subseteq moreTold, rows \subseteq moreRows,
           NEW tf, NEW pass, NEW said, PassIsSound(tf, pass, told, rows, said)
    PROVE  PassIsSound(tf, pass, moreTold, moreRows, said)
BY OnRecordGrows DEF PassIsSound, GatheredSoundly, SentSoundly, SoundQueue

\* The signals before the confluences: a queue that is new to every chat.
LEMMA QueueIsSound ==
    ASSUME NEW tf, NEW told, NEW rows, NEW said, NEW targets,
           NEW delivered \in Seq(Signal), NEW confluences \in Seq(Confluence),
           GatheredSoundly(tf, delivered, confluences, told, rows, said)
    PROVE  SentSoundly(tf, delivered \o confluences, targets, told, rows, said)
<1> DEFINE alerts == delivered \o confluences
           n == Len(delivered)
<1>1. /\ n \in Nat /\ DOMAIN delivered = 1 .. n
      /\ Len(confluences) \in Nat /\ DOMAIN confluences = 1 .. Len(confluences)
  BY LenProperties
<1>2. /\ alerts \in Seq(Alert)
      /\ DOMAIN alerts = 1 .. n + Len(confluences)
      /\ \A k \in 1 .. n + Len(confluences) :
            alerts[k] = IF k <= n THEN delivered[k] ELSE confluences[k - n]
  <2>1. delivered \in Seq(Alert) /\ confluences \in Seq(Alert)
    BY SeqMonotonic DEF Alert
  <2>2. alerts \in Seq(Alert) /\ Len(alerts) = n + Len(confluences)
    BY <2>1, ConcatProperties
  <2>3. \A k \in 1 .. n + Len(confluences) :
            alerts[k] = IF k <= n THEN delivered[k] ELSE confluences[k - n]
    BY <2>1, ConcatProperties
  <2> HIDE DEF alerts
  <2> QED BY <2>2, <2>3, LenProperties
<1> HIDE DEF alerts, n
<1>3. ASSUME NEW k \in DOMAIN alerts
      PROVE  \/ /\ k \in DOMAIN delivered /\ alerts[k] = delivered[k] /\ IsSignal(alerts[k])
             \/ /\ ~IsSignal(alerts[k])
                /\ \E m \in DOMAIN confluences : alerts[k] = confluences[m]
  <2>1. CASE k <= n
    <3>1. k \in 1 .. n /\ alerts[k] = delivered[k]
      BY <1>1, <1>2, <2>1
    <3>2. delivered[k] \in Signal
      BY <1>1, <3>1, ElementOfSeq DEF n
    <3> QED BY <1>1, <3>1, <3>2, SignalFields
  <2>2. CASE ~(k <= n)
    <3>1. k - n \in 1 .. Len(confluences) /\ alerts[k] = confluences[k - n]
      BY <1>1, <1>2, <2>2
    <3>2. confluences[k - n] \in Confluence
      BY <3>1, ElementOfSeq
    <3> QED BY <1>1, <3>1, <3>2, ConfluenceFields
  <2> QED BY <2>1, <2>2
<1>4. SentSoundly(tf, alerts, targets, told, rows, said)
  BY <1>3 DEF GatheredSoundly, SentSoundly, SoundQueue
<1> QED BY <1>4 DEF alerts

\* The next pass of a timeframe is sound if what it has gathered is.
LEMMA ProceedIsSound ==
    ASSUME TypeOK, NEW tf \in Timeframes, NEW s, Scans(tf, s),
           NEW delivered \in Seq(Signal), NEW confluences \in Seq(Confluence),
           Proceed(tf, s, delivered, confluences),
           announced \subseteq announced', signals \subseteq signals', UNCHANGED heard,
           \A u \in Timeframes : PassIsSound(u, passes[u], announced, signals, heard),
           GatheredSoundly(tf, delivered, confluences, announced', signals', heard)
    PROVE  \A u \in Timeframes : PassIsSound(u, passes'[u], announced', signals', heard')
<1>1. /\ passes' \in [Timeframes -> {Idle} \cup Scanning \cup Sending]
      /\ \A u \in Timeframes \ {tf} : passes'[u] = passes[u]
      /\ delivered \o confluences \in Seq(Alert)
      /\ \/ passes'[tf] = Left(passes[tf], s, delivered, confluences)
         \/ passes'[tf] = Idle
         \/ /\ delivered \o confluences # << >>
            /\ passes'[tf] = [at |-> "sending", alerts |-> delivered \o confluences,
                              targets |-> subscribers]
  <2>1. GoesOn(tf, s, delivered, confluences)
    BY ProceedIs
  <2> QED BY <2>1 DEF GoesOn
<1>2. SentSoundly(tf, delivered \o confluences, subscribers, announced', signals', heard)
  BY QueueIsSound
<1>3. PassIsSound(tf, passes'[tf], announced', signals', heard)
  <2>1. CASE passes'[tf] = Left(passes[tf], s, delivered, confluences)
    BY <2>1, ScanningFields, PassFields DEF PassIsSound, Left, Scans
  <2>2. CASE passes'[tf] = Idle
    BY <2>2 DEF PassIsSound, Idle
  <2>3. CASE passes'[tf] = [at |-> "sending", alerts |-> delivered \o confluences,
                            targets |-> subscribers]
    BY <1>2, <2>3 DEF PassIsSound
  <2> QED BY <1>1, <2>1, <2>2, <2>3
<1>4. ASSUME NEW u \in Timeframes \ {tf}
      PROVE  PassIsSound(u, passes'[u], announced', signals', heard)
  <2>1. PassIsSound(u, passes[u], announced, signals, heard)
    OBVIOUS
  <2>2. PassIsSound(u, passes[u], announced', signals', heard)
    BY <2>1, PassGrows
  <2> QED BY <1>1, <2>2
<1> QED BY <1>3, <1>4

\* HeardInv without its passes, when nothing is said.
LEMMA SilentStep ==
    ASSUME HeardInv, UNCHANGED heard, announced \subseteq announced', signals \subseteq signals',
           announced' \subseteq signals',
           \A u \in Timeframes : PassIsSound(u, passes'[u], announced', signals', heard')
    PROVE  HeardInv'
<1>1. AnnouncedOnce'
  BY DEF HeardInv, AnnouncedOnce
<1>2. \A c \in Chats : \A i \in DOMAIN heard'[c] : OnRecord(heard'[c][i], announced', signals')
  BY OnRecordGrows DEF HeardInv
<1> QED BY <1>1, <1>2 DEF HeardInv

LEMMA IgnoreHeard ==
    ASSUME Shape, HeardInv, NEW tf \in Timeframes, NEW s,
           Ignore(tf, s) \/ Withhold(tf, s)
    PROVE  HeardInv'
<1>1. /\ Scans(tf, s)
      /\ Proceed(tf, s, passes[tf].delivered, passes[tf].confluences)
      /\ UNCHANGED << heard, announced >>
  BY DEF Ignore, Withhold
<1>2. signals \subseteq signals'
  BY DEF Ignore, Withhold, Recorded
<1>3. /\ passes[tf].delivered \in Seq(Signal) /\ passes[tf].confluences \in Seq(Confluence)
      /\ passes[tf].at = "scanning" /\ TypeOK
  BY <1>1, GatheredIs DEF Shape
<1>4. \A u \in Timeframes : PassIsSound(u, passes[u], announced, signals, heard)
  BY DEF HeardInv
<1>5. GatheredSoundly(tf, passes[tf].delivered, passes[tf].confluences, announced', signals', heard)
  <2>1. PassIsSound(tf, passes[tf], announced', signals', heard)
    <3>1. PassIsSound(tf, passes[tf], announced, signals, heard) /\ announced \subseteq announced'
      BY <1>1, <1>4
    <3> QED BY <1>2, <3>1, PassGrows
  <2> QED BY <1>3, <2>1 DEF PassIsSound
<1>6. \A u \in Timeframes : PassIsSound(u, passes'[u], announced', signals', heard')
  <2>1. announced \subseteq announced' /\ UNCHANGED heard
    BY <1>1
  <2> QED BY <1>1, <1>2, <1>3, <1>4, <1>5, <2>1, ProceedIsSound
<1>7. announced' \subseteq signals' /\ announced \subseteq announced'
  BY <1>1, <1>2 DEF HeardInv
<1> QED BY <1>1, <1>2, <1>6, <1>7, SilentStep

\* The row of a signal agrees with itself: its timeframe is the coarsest one.
LEMMA ConfluencesAreOnRecord ==
    ASSUME Shape, FeedMayLag => WindowCandles >= 2,
           NEW tf \in Timeframes, NEW s, Scans(tf, s), NEW signal \in Computed(tf, s),
           NEW rows \in SUBSET Signal, signal \in rows, NEW told,
           NEW k \in DOMAIN Confluences(rows, signal)
    PROVE  OnRecord(Confluences(rows, signal)[k], told, rows)
<1> DEFINE at == signal.sentAt
           agreeing == {r.timeframe : r \in Agreeing(rows, signal)}
           found == [symbol |-> signal.symbol, action |-> signal.action,
                     timeframes |-> agreeing, trigger |-> at]
<1>1. /\ signal \in Signal /\ signal.timeframe = tf
      /\ signal.bar <= at
      /\ ~FeedMayLag => signal.bar > at - tf
      /\ signal.bar > at - 2 * tf
  BY ComputedIs
<1>2. at \in Nat /\ signal.bar \in Nat /\ tf \in Nat /\ WindowCandles \in Nat \ {0}
  BY <1>1, SignalFields
<1>3. at - tf * WindowCandles <= signal.bar
  <2>1. tf * WindowCandles \in Nat
    BY <1>2, SMT
  <2>2. CASE FeedMayLag
    <3>1. 2 * tf <= tf * WindowCandles
      <4>1. WindowCandles >= 2
        BY <2>2
      <4> QED BY <1>2, <4>1, SMT
    <3> HIDE DEF at
    <3> QED BY <1>1, <1>2, <2>1, <3>1
  <2>3. CASE ~FeedMayLag
    <3>1. tf <= tf * WindowCandles
      BY <1>2, SMT
    <3> HIDE DEF at
    <3> QED BY <1>1, <1>2, <2>1, <2>3, <3>1
  <2> QED BY <2>2, <2>3
<1>4. tf * WindowCandles \in Int
  BY <1>2, SMT
<1>5. signal \in Agreeing(rows, signal)
  <2>1. signal.bar \in at - tf * WindowCandles .. at
    <3> HIDE DEF at
    <3> QED BY <1>1, <1>2, <1>3, <1>4
  <2> QED BY <1>1, <1>2, <2>1 DEF Agreeing
<1>6. /\ tf \in agreeing
      /\ \A u \in agreeing : u \in Nat /\ u <= tf
  BY <1>1, <1>5, SignalFields DEF Agreeing
<1>7. Max(agreeing) = tf
  <2>1. agreeing \in SUBSET Nat /\ agreeing # {} /\ \A u \in agreeing : u <= tf
    BY <1>6
  <2>2. \A u \in agreeing : u \in Nat /\ u <= tf
    BY <1>6
  <2>3. tf \in agreeing
    BY <1>6
  <2> HIDE DEF agreeing
  <2>4. Max(agreeing) \in agreeing /\ tf <= Max(agreeing)
    BY <1>2, <2>1, <2>3, MaxOfBounded
  <2>5. Max(agreeing) \in Nat /\ Max(agreeing) <= tf
    BY <2>2, <2>4
  <2> QED BY <1>2, <2>4, <2>5
<1>8. Cardinality(agreeing) >= 2 /\ Confluences(rows, signal)[k] = found
  <2>1. CASE Cardinality(agreeing) < 2
    <3>1. Confluences(rows, signal) = << >>
      BY <2>1 DEF Confluences
    <3> QED BY <3>1
  <2>2. CASE ~(Cardinality(agreeing) < 2)
    <3>1. Confluences(rows, signal) = << found >>
      BY <2>2 DEF Confluences
    <3>2. Cardinality(agreeing) >= 2
      <4>1. IsFiniteSet(agreeing)
        <5>1. agreeing \in SUBSET (0 .. tf)
          BY <1>2, <1>6
        <5>2. IsFiniteSet(0 .. tf)
          BY <1>2, FS_Interval
        <5> HIDE DEF agreeing
        <5> QED BY <5>1, <5>2, FS_Subset
      <4> HIDE DEF agreeing
      <4>2. Cardinality(agreeing) \in Nat
        BY <4>1, FS_CardinalityType
      <4> QED BY <2>2, <4>2
    <3> HIDE DEF found
    <3> QED BY <3>1, <3>2
  <2> QED BY <2>1, <2>2
<1>9. ASSUME NEW u \in agreeing
      PROVE  \E r \in rows : /\ r.symbol = signal.symbol /\ r.timeframe = u
                             /\ r.action = signal.action
                             /\ r.bar <= at
                             /\ r.bar >= at - tf * WindowCandles
  <2>1. PICK r \in Agreeing(rows, signal) : r.timeframe = u
    OBVIOUS
  <2>2. /\ r \in rows /\ r.symbol = signal.symbol /\ r.action = signal.action
        /\ r.bar \in at - tf * WindowCandles .. at
    BY <1>1 DEF Agreeing
  <2>3. r.bar <= at /\ r.bar >= at - tf * WindowCandles
    <3> HIDE DEF at
    <3> QED BY <1>2, <1>4, <2>2
  <2> QED BY <2>1, <2>2, <2>3
<1>10. /\ ~IsSignal(found)
       /\ found.timeframes = agreeing /\ found.symbol = signal.symbol
       /\ found.action = signal.action /\ found.trigger = at
  BY DEF IsSignal
<1> HIDE DEF found, agreeing
<1> QED BY <1>7, <1>8, <1>9, <1>10 DEF OnRecord

LEMMA AnnounceHeard ==
    ASSUME WritesMayFail = FALSE, FeedMayLag => WindowCandles >= 2,
           Shape, HeardInv, NEW tf \in Timeframes, NEW s, Announce(tf, s)
    PROVE  HeardInv'
<1> DEFINE gathered == passes[tf].delivered
           found == passes[tf].confluences
<1>1. Scans(tf, s) /\ UNCHANGED heard
  BY AnnounceIs
<1>2. PICK signal \in Computed(tf, s) :
        /\ signal \in Signal
        /\ ~Known(signal)
        /\ Recorded(signal)
        /\ announced' = announced \cup {signal}
        /\ Append(gathered, signal) \in Seq(Signal)
        /\ signals' \subseteq Signal
        /\ Confluences(signals', signal) \in Seq(Confluence)
        /\ found \o Confluences(signals', signal) \in Seq(Confluence)
        /\ Proceed(tf, s, Append(gathered, signal), found \o Confluences(signals', signal))
  BY AnnounceIs
<1>3. /\ passes[tf].at = "scanning" /\ TypeOK
      /\ gathered \in Seq(Signal) /\ found \in Seq(Confluence)
      /\ heard \in [Chats -> Seq(Alert)]
  BY <1>1, GatheredIs DEF Shape, TypeOK
<1>4. signals' = signals \cup {signal}
  BY <1>2 DEF Recorded
<1>5. /\ announced \subseteq signals
      /\ \A u \in Timeframes : PassIsSound(u, passes[u], announced, signals, heard)
      /\ \A c \in Chats : \A i \in DOMAIN heard[c] : OnRecord(heard[c][i], announced, signals)
  BY DEF HeardInv
<1>6. /\ announced \subseteq announced' /\ signals \subseteq signals' /\ announced' \subseteq signals'
      /\ signal \in announced' /\ signal \in signals'
  BY <1>2, <1>4, <1>5
<1>7. signal.timeframe = tf /\ IsSignal(signal)
  BY <1>1, <1>2, ComputedIs, SignalFields
<1>8. ASSUME NEW a, IsSignal(a), OnRecord(a, announced, signals)
      PROVE  ~SameBar(a, signal) /\ ~SameBar(signal, a)
  <2>1. a \in signals
    BY <1>8 DEF OnRecord
  <2> QED BY <1>2, <2>1 DEF Known, Of, SameBar, SamePair
<1>9. GatheredSoundly(tf, gathered, found, announced', signals', heard)
      /\ GatheredSoundly(tf, gathered, found, announced, signals, heard)
  <2>1. PassIsSound(tf, passes[tf], announced, signals, heard)
    BY <1>5
  <2>2. PassIsSound(tf, passes[tf], announced', signals', heard)
    BY <1>6, <2>1, PassGrows
  <2> QED BY <1>3, <2>1, <2>2 DEF PassIsSound
<1> DEFINE queue == Append(gathered, signal)
           n == Len(gathered)
<1>10. /\ n \in Nat /\ DOMAIN gathered = 1 .. n
       /\ DOMAIN queue = 1 .. n + 1
       /\ \A k \in 1 .. n : queue[k] = gathered[k]
       /\ queue[n + 1] = signal
  <2>1. n \in Nat /\ DOMAIN gathered = 1 .. n
    BY <1>3, LenProperties
  <2>2. /\ Len(queue) = n + 1
        /\ \A k \in 1 .. n : queue[k] = gathered[k]
        /\ queue[n + 1] = signal
    BY <1>2, <1>3, AppendProperties
  <2>3. queue \in Seq(Signal)
    BY <1>2
  <2>4. DOMAIN queue = 1 .. Len(queue)
    <3> HIDE DEF queue
    <3> QED BY <2>3, LenProperties
  <2> QED BY <2>1, <2>2, <2>4
<1>11. \A k \in 1 .. n : IsSignal(gathered[k]) /\ OnRecord(gathered[k], announced, signals)
  <2> SUFFICES ASSUME NEW k \in 1 .. n
               PROVE IsSignal(gathered[k]) /\ OnRecord(gathered[k], announced, signals)
    OBVIOUS
  <2>1. gathered[k] \in Signal
    BY <1>3, ElementOfSeq
  <2>2. OnRecord(gathered[k], announced, signals)
    BY <1>9, <1>10 DEF GatheredSoundly, SoundQueue
  <2> QED BY <2>1, <2>2, SignalFields
<1> HIDE DEF n, queue, gathered
<1>12. SoundQueue(tf, queue, announced', signals')
  <2>1. SoundQueue(tf, gathered, announced', signals')
    BY <1>9 DEF GatheredSoundly
  <2>2. OnRecord(signal, announced', signals')
    BY <1>6, <1>7 DEF OnRecord
  <2>3. ASSUME NEW k \in DOMAIN queue
        PROVE  /\ OnRecord(queue[k], announced', signals')
               /\ IsSignal(queue[k]) => queue[k].timeframe = tf
    <3>1. CASE k \in 1 .. n
      BY <1>10, <2>1, <3>1 DEF SoundQueue
    <3>2. CASE k = n + 1
      BY <1>7, <1>10, <2>2, <3>2
    <3> QED BY <1>10, <3>1, <3>2
  <2>4. ASSUME NEW k \in DOMAIN queue, NEW l \in DOMAIN queue, SameBar(queue[k], queue[l])
        PROVE  k = l
    <3>1. CASE k \in 1 .. n /\ l \in 1 .. n
      <4>1. SameBar(gathered[k], gathered[l]) /\ IsSignal(gathered[k]) /\ IsSignal(gathered[l])
        BY <1>10, <1>11, <2>4, <3>1
      <4> QED BY <1>10, <2>1, <3>1, <4>1 DEF SoundQueue
    <3>2. CASE k \in 1 .. n /\ l = n + 1
      <4>1. ~SameBar(gathered[k], signal)
        BY <1>8, <1>11, <3>2
      <4> QED BY <1>10, <2>4, <3>2, <4>1
    <3>3. CASE k = n + 1 /\ l \in 1 .. n
      <4>1. ~SameBar(signal, gathered[l])
        BY <1>8, <1>11, <3>3
      <4> QED BY <1>10, <2>4, <3>3, <4>1
    <3> QED BY <1>10, <3>1, <3>2, <3>3
  <2> QED BY <2>3, <2>4 DEF SoundQueue
<1>13. \A c \in Chats : \A k \in DOMAIN queue : Unheard(queue[k], heard[c])
  <2> SUFFICES ASSUME NEW c \in Chats, NEW k \in DOMAIN queue PROVE Unheard(queue[k], heard[c])
    OBVIOUS
  <2>1. CASE k \in 1 .. n
    BY <1>9, <1>10, <2>1 DEF GatheredSoundly
  <2>2. CASE k = n + 1
    <3>1. Unheard(signal, heard[c])
      BY <1>5, <1>8 DEF Unheard
    <3> QED BY <1>10, <2>2, <3>1
  <2> QED BY <1>10, <2>1, <2>2
<1> DEFINE more == Confluences(signals', signal)
<1>14. \A k \in DOMAIN (found \o more) : OnRecord((found \o more)[k], announced', signals')
  <2> SUFFICES ASSUME NEW k \in DOMAIN (found \o more)
               PROVE  OnRecord((found \o more)[k], announced', signals')
    OBVIOUS
  <2>1. \A m \in DOMAIN found : OnRecord(found[m], announced', signals')
    BY <1>9 DEF GatheredSoundly
  <2>2. \A m \in DOMAIN more : OnRecord(more[m], announced', signals')
    BY <1>1, <1>2, <1>6, ConfluencesAreOnRecord
  <2>3. found \in Seq(Confluence) /\ more \in Seq(Confluence)
    BY <1>2, <1>3
  <2> HIDE DEF found, more
  <2>4. /\ Len(found) \in Nat /\ DOMAIN found = 1 .. Len(found)
        /\ Len(more) \in Nat /\ DOMAIN more = 1 .. Len(more)
    BY <2>3, LenProperties
  <2>5. /\ DOMAIN (found \o more) = 1 .. Len(found) + Len(more)
        /\ (found \o more)[k] = IF k <= Len(found) THEN found[k] ELSE more[k - Len(found)]
    <3>1. Len(found \o more) = Len(found) + Len(more) /\ found \o more \in Seq(Confluence)
      BY <2>3, ConcatProperties
    <3>2. DOMAIN (found \o more) = 1 .. Len(found \o more)
      BY <3>1, LenProperties
    <3> QED BY <2>3, <3>1, <3>2, ConcatProperties
  <2>6. CASE k <= Len(found)
    BY <2>1, <2>4, <2>5, <2>6
  <2>7. CASE ~(k <= Len(found))
    <3>1. k - Len(found) \in DOMAIN more
      BY <2>4, <2>5, <2>7
    <3> QED BY <2>2, <2>5, <2>7, <3>1
  <2> QED BY <2>6, <2>7
<1>15. GatheredSoundly(tf, queue, found \o more, announced', signals', heard)
  BY <1>12, <1>13, <1>14 DEF GatheredSoundly
<1>16. /\ queue \in Seq(Signal) /\ found \o more \in Seq(Confluence)
       /\ Proceed(tf, s, queue, found \o more)
  BY <1>2 DEF queue
<1> HIDE DEF found, more
<1>17. \A u \in Timeframes : PassIsSound(u, passes'[u], announced', signals', heard')
  BY <1>1, <1>3, <1>5, <1>6, <1>15, <1>16, ProceedIsSound
<1> QED BY <1>1, <1>6, <1>17, SilentStep

\* The message that is sent is new to its chat, and what follows it stays so.
LEMMA SendHeard ==
    ASSUME Shape, HeardInv, NEW tf \in Timeframes, NEW c \in Chats, NEW reached,
           Send(tf, c, reached)
    PROVE  HeardInv'
<1> DEFINE alerts == passes[tf].alerts
           targets == passes[tf].targets
           head == alerts[1]
           rest == Tail(alerts)
           n == Len(heard[c])
<1>1. /\ passes[tf].at = "sending" /\ c \in targets
      /\ alerts \in Seq(Alert) /\ alerts # << >>
      /\ Head(alerts) = head
      /\ UNCHANGED << signals, announced >>
      /\ heard' = heard \/ heard' = [heard EXCEPT ![c] = Append(@, head)]
      /\ heard' \in [Chats -> Seq(Alert)]
      /\ \A u \in Timeframes \ {tf} : passes'[u] = passes[u]
      /\ \/ passes'[tf] = [at |-> "sending", alerts |-> alerts, targets |-> targets \ {c}]
         \/ passes'[tf] = Idle
         \/ /\ rest # << >>
            /\ passes'[tf] = [at |-> "sending", alerts |-> rest, targets |-> subscribers]
  <2>1. Sends(tf, c)
    BY SendIs
  <2> QED BY <2>1 DEF Sends
<1>2. /\ Len(alerts) \in Nat \ {0} /\ DOMAIN alerts = 1 .. Len(alerts)
      /\ DOMAIN rest = 1 .. Len(alerts) - 1
      /\ \A k \in 1 .. Len(alerts) - 1 : rest[k] = alerts[k + 1]
  <2>1. Len(alerts) \in Nat \ {0} /\ DOMAIN alerts = 1 .. Len(alerts)
    BY <1>1, EmptySeq, LenProperties
  <2>2. /\ rest \in Seq(Alert) /\ Len(rest) = Len(alerts) - 1
        /\ \A k \in 1 .. Len(rest) : rest[k] = alerts[k + 1]
    BY <1>1, HeadTailProperties
  <2> QED BY <2>1, <2>2, LenProperties
<1>3. /\ announced \subseteq signals
      /\ AnnouncedOnce
      /\ \A d \in Chats : \A i \in DOMAIN heard[d] : OnRecord(heard[d][i], announced, signals)
      /\ \A u \in Timeframes : PassIsSound(u, passes[u], announced, signals, heard)
      /\ heard \in [Chats -> Seq(Alert)]
  BY DEF HeardInv, Shape, TypeOK
<1>4. SentSoundly(tf, alerts, targets, announced, signals, heard)
  BY <1>1, <1>3 DEF PassIsSound
<1>5. /\ OnRecord(head, announced, signals)
      /\ IsSignal(head) => head.timeframe = tf /\ Unheard(head, heard[c])
  <2>1. 1 \in DOMAIN alerts
    BY <1>2
  <2> HIDE DEF alerts, targets
  <2>2. SoundQueue(tf, alerts, announced, signals)
    BY <1>4 DEF SentSoundly
  <2>3. IsSignal(alerts[1]) => Unheard(alerts[1], heard[c])
    BY <1>1, <1>4, <2>1 DEF SentSoundly
  <2> QED BY <2>1, <2>2, <2>3 DEF SoundQueue
<1>6. n \in Nat /\ DOMAIN heard[c] = 1 .. n
  BY <1>3, LenProperties
<1>7. ASSUME heard' # heard
      PROVE  /\ \A d \in Chats \ {c} : heard'[d] = heard[d]
             /\ DOMAIN heard'[c] = 1 .. n + 1
             /\ \A i \in 1 .. n : heard'[c][i] = heard[c][i]
             /\ heard'[c][n + 1] = head
  <2>1. heard' = [heard EXCEPT ![c] = Append(@, head)]
    BY <1>1, <1>7
  <2>2. heard'[c] = Append(heard[c], head) /\ \A d \in Chats \ {c} : heard'[d] = heard[d]
    BY <1>3, <2>1
  <2>3. head \in Alert /\ heard[c] \in Seq(Alert)
    BY <1>1, <1>2, <1>3, ElementOfSeq
  <2> HIDE DEF head
  <2>4. /\ Append(heard[c], head) \in Seq(Alert)
        /\ Len(Append(heard[c], head)) = n + 1
        /\ \A i \in 1 .. n : Append(heard[c], head)[i] = heard[c][i]
        /\ Append(heard[c], head)[n + 1] = head
    BY <2>3, AppendProperties
  <2>5. DOMAIN Append(heard[c], head) = 1 .. n + 1
    BY <2>4, LenProperties
  <2> QED BY <2>2, <2>4, <2>5
<1> HIDE DEF n, head, alerts, targets, rest
\* A signal that is not about the bar of the message stays unheard.
<1>8. ASSUME NEW a, NEW d \in Chats, Unheard(a, heard[d]),
             d = c /\ IsSignal(head) => ~SameBar(head, a)
      PROVE  Unheard(a, heard'[d])
  <2>1. CASE heard' = heard \/ d # c
    BY <1>7, <1>8, <2>1
  <2>2. CASE heard' # heard /\ d = c
    <3>1. ASSUME NEW i \in 1 .. n + 1, IsSignal(heard'[c][i])
          PROVE  ~SameBar(heard'[c][i], a)
      <4>1. CASE i \in 1 .. n
        BY <1>6, <1>7, <1>8, <2>2, <3>1, <4>1 DEF Unheard
      <4>2. CASE i = n + 1
        BY <1>7, <1>8, <2>2, <3>1, <4>2
      <4> QED BY <1>6, <4>1, <4>2
    <3> QED BY <1>7, <2>2, <3>1 DEF Unheard
  <2> QED BY <2>1, <2>2
<1>9. AnnouncedOnce'
  <2> SUFFICES ASSUME NEW d \in Chats, NEW i \in DOMAIN heard'[d], NEW j \in DOMAIN heard'[d],
                      IsSignal(heard'[d][i]), IsSignal(heard'[d][j]),
                      SameBar(heard'[d][i], heard'[d][j])
               PROVE  i = j
    BY DEF AnnouncedOnce
  <2>1. CASE heard'[d] = heard[d]
    BY <1>3, <2>1 DEF AnnouncedOnce
  <2>2. CASE d = c /\ heard' # heard
    <3>1. CASE i \in 1 .. n /\ j \in 1 .. n
      BY <1>3, <1>6, <1>7, <2>2, <3>1 DEF AnnouncedOnce
    <3>2. CASE i \in 1 .. n /\ j = n + 1
      BY <1>5, <1>6, <1>7, <2>2, <3>2 DEF Unheard
    <3>3. CASE i = n + 1 /\ j \in 1 .. n
      <4>1. SameBar(heard[c][j], head) /\ IsSignal(head) /\ IsSignal(heard[c][j])
        BY <1>7, <2>2, <3>3 DEF SameBar, SamePair
      <4> QED BY <1>5, <1>6, <3>3, <4>1 DEF Unheard
    <3> QED BY <1>6, <1>7, <2>2, <3>1, <3>2, <3>3
  <2> QED BY <1>7, <2>1, <2>2
<1>10. \A d \in Chats : \A i \in DOMAIN heard'[d] : OnRecord(heard'[d][i], announced', signals')
  <2> SUFFICES ASSUME NEW d \in Chats, NEW i \in DOMAIN heard'[d]
               PROVE  OnRecord(heard'[d][i], announced, signals)
    BY <1>1
  <2>1. CASE heard'[d] = heard[d]
    BY <1>3, <2>1
  <2>2. CASE d = c /\ heard' # heard
    <3>1. CASE i \in 1 .. n
      BY <1>3, <1>6, <1>7, <2>2, <3>1
    <3>2. CASE i = n + 1
      BY <1>5, <1>7, <2>2, <3>2
    <3> QED BY <1>6, <1>7, <2>2, <3>1, <3>2
  <2> QED BY <1>7, <2>1, <2>2
\* What comes after the first alert was new to every chat, and still is.
<1>11. ASSUME NEW k \in DOMAIN alerts, k > 1, IsSignal(alerts[k]), NEW d \in Chats
       PROVE  Unheard(alerts[k], heard'[d])
  <2>1. Unheard(alerts[k], heard[d])
    BY <1>2, <1>4, <1>11 DEF SentSoundly
  <2>2. IsSignal(head) => ~SameBar(head, alerts[k])
    BY <1>2, <1>4, <1>11 DEF SentSoundly, SoundQueue, head
  <2> QED BY <1>8, <2>1, <2>2
<1>12. PassIsSound(tf, passes'[tf], announced, signals, heard')
  <2>1. CASE passes'[tf] = [at |-> "sending", alerts |-> alerts, targets |-> targets \ {c}]
    <3>1. SentSoundly(tf, alerts, targets \ {c}, announced, signals, heard')
      <4>1. ASSUME NEW d \in Chats, NEW k \in DOMAIN alerts,
                   IsSignal(alerts[k]), k = 1 => d \in targets \ {c}
            PROVE  Unheard(alerts[k], heard'[d])
        <5>1. CASE k > 1
          BY <1>11, <4>1, <5>1
        <5>2. CASE k = 1
          <6>1. d # c /\ d \in targets
            BY <4>1, <5>2
          <6>2. Unheard(alerts[k], heard[d])
            BY <1>4, <4>1, <6>1 DEF SentSoundly
          <6> QED BY <1>8, <6>1, <6>2
        <5> QED BY <1>2, <5>1, <5>2
      <4> QED BY <1>4, <4>1 DEF SentSoundly
    <3> QED BY <2>1, <3>1 DEF PassIsSound
  <2>2. CASE passes'[tf] = Idle
    BY <2>2 DEF PassIsSound, Idle
  <2>3. CASE passes'[tf] = [at |-> "sending", alerts |-> rest, targets |-> subscribers]
    <3>1. \A k \in DOMAIN rest : k + 1 \in DOMAIN alerts /\ k + 1 > 1 /\ rest[k] = alerts[k + 1]
                                 /\ k \in Nat
      BY <1>2
    <3>2. SoundQueue(tf, rest, announced, signals)
      <4>1. SoundQueue(tf, alerts, announced, signals)
        BY <1>4 DEF SentSoundly
      <4>2. ASSUME NEW k \in DOMAIN rest, NEW l \in DOMAIN rest,
                   IsSignal(rest[k]), IsSignal(rest[l]), SameBar(rest[k], rest[l])
            PROVE  k = l
        <5>1. k + 1 = l + 1
          BY <3>1, <4>1, <4>2 DEF SoundQueue
        <5> QED BY <3>1, <5>1
      <4> QED BY <3>1, <4>1, <4>2 DEF SoundQueue
    <3>3. SentSoundly(tf, rest, subscribers, announced, signals, heard')
      BY <1>11, <3>1, <3>2 DEF SentSoundly
    <3> QED BY <2>3, <3>3 DEF PassIsSound
  <2> QED BY <1>1, <2>1, <2>2, <2>3
\* Signals of other timeframes are about other pairs.
<1>13. ASSUME NEW u \in Timeframes \ {tf}
       PROVE  PassIsSound(u, passes'[u], announced, signals, heard')
  <2>1. PassIsSound(u, passes[u], announced, signals, heard) /\ passes'[u] = passes[u]
    BY <1>1, <1>3
  <2>2. ASSUME NEW a, a.timeframe = u, NEW d \in Chats, Unheard(a, heard[d])
        PROVE  Unheard(a, heard'[d])
    <3>1. IsSignal(head) => ~SameBar(head, a)
      BY <1>5, <2>2 DEF SameBar, SamePair
    <3> QED BY <1>8, <2>2, <3>1
  <2>3. CASE passes[u].at = "scanning"
    <3>1. \A k \in DOMAIN passes[u].delivered : passes[u].delivered[k].timeframe = u
      <4> SUFFICES ASSUME NEW k \in DOMAIN passes[u].delivered
                   PROVE  passes[u].delivered[k].timeframe = u
        OBVIOUS
      <4>1. passes[u].delivered \in Seq(Signal)
        BY <2>3, PassFields, ScanningFields DEF Shape
      <4>2. passes[u].delivered[k] \in Signal
        BY <4>1, LenProperties, ElementOfSeq
      <4> QED BY <2>1, <2>3, <4>2, SignalFields DEF PassIsSound, GatheredSoundly, SoundQueue
    <3> QED BY <2>1, <2>2, <2>3, <3>1 DEF PassIsSound, GatheredSoundly
  <2>4. CASE passes[u].at = "sending"
    BY <2>1, <2>2, <2>4 DEF PassIsSound, SentSoundly, SoundQueue
  <2>5. CASE passes[u].at = "idle"
    BY <2>1, <2>5 DEF PassIsSound
  <2> QED BY <2>3, <2>4, <2>5, PassFields DEF Shape
<1> QED BY <1>1, <1>3, <1>9, <1>10, <1>12, <1>13 DEF HeardInv

LEMMA OtherHeard ==
    ASSUME Shape, HeardInv,
           \/ Tick
           \/ \E tf \in Timeframes : Fire(tf)
           \/ Restart
           \/ \E tf \in Timeframes : Break(tf)
           \/ \E c \in Chats : Subscribe(c) \/ Unsubscribe(c)
           \/ UNCHANGED vars
    PROVE  HeardInv'
<1> DEFINE started == [at |-> "scanning", since |-> now, todo |-> Symbols,
                       delivered |-> << >>, confluences |-> << >>]
<1>1. UNCHANGED << signals, announced, heard >>
  BY DEF Tick, Fire, Restart, Break, Subscribe, Unsubscribe, vars
<1>2. \A u \in Timeframes : passes'[u] \in {passes[u], Idle, started}
  BY DEF Tick, Fire, Restart, Break, Subscribe, Unsubscribe, vars, Shape, TypeOK
<1>3. \A u \in Timeframes :
        /\ PassIsSound(u, Idle, announced, signals, heard)
        /\ PassIsSound(u, started, announced, signals, heard)
  BY DEF PassIsSound, GatheredSoundly, SoundQueue, Idle
<1>4. \A u \in Timeframes : PassIsSound(u, passes'[u], announced, signals, heard)
  <2> HIDE DEF started
  <2> QED BY <1>2, <1>3 DEF HeardInv
<1>5. announced \subseteq signals
  BY DEF HeardInv
<1> QED BY <1>1, <1>4, <1>5, SilentStep

LEMMA HeardInit == Init => HeardInv
BY DEF Init, HeardInv, AnnouncedOnce, PassIsSound, Idle

LEMMA HeardKept ==
    ASSUME WritesMayFail = FALSE, FeedMayLag => WindowCandles >= 2
    PROVE  Shape /\ HeardInv /\ [Next]_vars => HeardInv'
BY StepIs, IgnoreHeard, AnnounceHeard, SendHeard, OtherHeard

\* While the database takes its rows, and the confluence window is two bars
\* where the feed can be one bar late: no chat hears of a bar twice, and what it
\* hears is in the table, through overlapping passes, broadcasts and restarts
\* (Database.has_signal, detect_confluence, Bot.broadcast).
THEOREM HeardStaysSound ==
    ASSUME WritesMayFail = FALSE, FeedMayLag => WindowCandles >= 2
    PROVE  Spec => []HeardIsSound
<1>1. Shape /\ HeardInv /\ [Next]_vars => HeardInv'
  BY HeardKept
<1> QED BY <1>1, ShapeInit, ShapeKept, HeardInit, HeardInvIsEnough, PTL DEF Spec

-----------------------------------------------------------------------------
(* The outcomes, which the same scans settle (Outcomes), of one pair. They *)
(* share no variable with the scans above.                                 *)
CONSTANTS Bars, StopDistance, TargetDistance, MaxBars
VARIABLES closed, computed, rows
Settling == INSTANCE Outcomes WITH bars <- closed, action <- computed, signals <- rows

\* What a row says is told by a bar after its own, on which the signal that was judged had
\* met what is written.
Judged(r, bars_) ==
    /\ r.bar \in 1..Len(bars_)
    /\ r.outcome # Settling!Open => r.closedBy \in Int /\ r.closedBy > r.bar /\
         r.closedBy <= Len(bars_)
    /\ r.outcome = Settling!Win =>
        \E judged \in Settling!Actions :
            LET b == bars_[r.closedBy]
                fresh == [bar |-> r.closedBy, action |-> judged, entry |-> b.close,
                          outcome |-> Settling!Open, closedBy |-> 0]
            IN  Settling!TargetHit(fresh, b) /\ ~Settling!StopHit(fresh, b)
\* A row has the fields of a signal.
IsRow(r) ==
    r = [bar |-> r.bar, action |-> r.action, entry |-> r.entry, outcome |-> r.outcome,
         closedBy |-> r.closedBy]
OutcomesInv ==
    /\ closed \in Seq(Bars) /\ computed \in Settling!Actions \cup {Settling!Quiet}
    /\ \A r \in rows : IsRow(r) /\ Judged(r, closed)

LEMMA CloseKeepsOutcomes == OutcomesInv /\ Settling!Close => OutcomesInv'
<1> SUFFICES ASSUME OutcomesInv, Settling!Close PROVE OutcomesInv'
  OBVIOUS
<1>1. PICK b \in Bars : closed' = Append(closed, b)
  BY DEF Settling!Close
<1>2. /\ closed' \in Seq(Bars) /\ Len(closed') = Len(closed) + 1 /\ Len(closed) \in Nat
      /\ \A i \in 1..Len(closed) : closed'[i] = closed[i]
  BY <1>1 DEF OutcomesInv
<1>3. ASSUME NEW r \in rows PROVE Judged(r, closed')
  <2>1. Judged(r, closed)
    BY DEF OutcomesInv
  <2>2. r.outcome # Settling!Open => r.closedBy \in 1..Len(closed) /\
          closed'[r.closedBy] = closed[r.closedBy]
    BY <1>2, <2>1 DEF Judged
  <2>3. r.outcome = Settling!Win => closed'[r.closedBy] = closed[r.closedBy]
    BY <2>2 DEF Settling!Win, Settling!Open
  <2>4. r.bar \in 1..Len(closed') /\ (r.outcome # Settling!Open =>
          r.closedBy \in Int /\ r.closedBy > r.bar /\ r.closedBy <= Len(closed'))
    BY <1>2, <2>1 DEF Judged
  <2> QED BY <2>1, <2>3, <2>4 DEF Judged
<1>4. rows' = rows /\ computed' \in Settling!Actions \cup {Settling!Quiet}
  BY DEF Settling!Close
<1> QED BY <1>2, <1>3, <1>4 DEF OutcomesInv

\* A scan settles what is open, and what it settles is judged by the newest bar.
LEMMA ScanSettles ==
    ASSUME OutcomesInv, Settling!Scan
    PROVE  /\ OutcomesInv'
           /\ \A r \in rows : r.outcome # Settling!Open => r \in rows'
<1> DEFINE b == closed[Settling!Newest]
           outcome == Settling!Outcome(Settling!Computed, b)
           next(r) == IF r.outcome = Settling!Open /\ r.bar < Settling!Newest
                      THEN Settling!Settled(r, outcome) ELSE r
<1>1. /\ Settling!Newest = Len(closed) /\ Len(closed) \in Nat \ {0}
      /\ computed \in Settling!Actions /\ closed' = closed /\ computed' = computed
  BY DEF Settling!Scan, Settling!Newest, OutcomesInv
<1>2. rows' = {next(r) : r \in rows} \cup
        (IF Settling!Known(Settling!Computed) THEN {} ELSE {Settling!Computed})
  BY DEF Settling!Scan, Settling!Resolved
<1>3. outcome = Settling!Win =>
        Settling!TargetHit(Settling!Computed, b) /\ ~Settling!StopHit(Settling!Computed, b)
  BY DEF Settling!Outcome, Settling!Win, Settling!Loss, Settling!Open
<1>4. Settling!Computed = [bar |-> Len(closed), action |-> computed, entry |-> b.close,
                           outcome |-> Settling!Open, closedBy |-> 0]
  BY <1>1 DEF Settling!Computed
<1> HIDE DEF outcome
<1>5. ASSUME NEW r \in rows PROVE IsRow(next(r)) /\ Judged(next(r), closed)
  <2>1. IsRow(r) /\ Judged(r, closed)
    BY DEF OutcomesInv
  <2>2. CASE r.outcome = Settling!Open /\ r.bar < Settling!Newest
    <3>1. next(r) = [bar |-> r.bar, action |-> r.action, entry |-> r.entry, outcome |-> outcome,
                     closedBy |-> IF outcome = Settling!Open THEN 0 ELSE Len(closed)]
      BY <1>1, <2>1, <2>2 DEF IsRow, Settling!Settled
    <3>2. Judged(next(r), closed)
      BY <1>1, <1>3, <1>4, <2>1, <2>2, <3>1 DEF Judged, Settling!Win, Settling!Open
    <3> QED BY <3>1, <3>2 DEF IsRow
  <2>3. CASE ~(r.outcome = Settling!Open /\ r.bar < Settling!Newest)
    BY <2>1, <2>3
  <2> QED BY <2>2, <2>3
<1>6. IsRow(Settling!Computed) /\ Judged(Settling!Computed, closed)
  BY <1>1, <1>4 DEF IsRow, Judged, Settling!Win, Settling!Open
<1>7. \A r \in rows : r.outcome # Settling!Open => next(r) = r
  OBVIOUS
<1> HIDE DEF next
<1>8. \A r \in rows' : IsRow(r) /\ Judged(r, closed')
  BY <1>1, <1>2, <1>5, <1>6
<1> QED BY <1>1, <1>2, <1>7, <1>8 DEF OutcomesInv

\* A signal is settled by later bars only, as a win only where the signal that was judged met
\* its target and not its stop, and once and for all (_resolve_outcomes,
\* update_signal_outcome).
THEOREM OutcomesAreSettledSoundly == Settling!Spec => Settling!SettledSoundly
<1>1. Settling!Init => OutcomesInv
  BY DEF Settling!Init, OutcomesInv
<1>2. OutcomesInv /\ [Settling!Next]_(Settling!vars) => OutcomesInv'
  BY CloseKeepsOutcomes, ScanSettles DEF Settling!Next, Settling!vars, OutcomesInv, Judged,
       IsRow, Settling!TargetHit, Settling!StopHit
<1>3. OutcomesInv => Settling!OwnBarSettlesNothing /\ Settling!WinsAreCertain
  BY DEF OutcomesInv, Judged, Settling!OwnBarSettlesNothing, Settling!WinsAreCertain,
           Settling!Win, Settling!Open
<1>4. OutcomesInv /\ [Settling!Next]_(Settling!vars) =>
        [\A r \in rows : r.outcome # Settling!Open => r \in rows']_(Settling!vars)
  BY ScanSettles DEF Settling!Next, Settling!Close
<1> QED BY <1>1, <1>2, <1>3, <1>4, PTL DEF Settling!Spec, Settling!SettledSoundly,
      Settling!OutcomesAreFinal
=============================================================================
