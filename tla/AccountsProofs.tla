--------------------------- MODULE AccountsProofs ---------------------------
(***************************************************************************)
(* Proofs about Accounts and the plan rules it applies.                    *)
(*   - With any number of concurrent requests, crashes and failed writes:  *)
(*     its rows and requests are well formed, a paid plan was bought by    *)
(*     the customer who has it, usage stays within the caps, and the       *)
(*     payment ledger never disagrees with Khpay.                          *)
(*   - With one request at a time and no crash: a payment serves once,     *)
(*     the quotas count every analysis that finished, and the component    *)
(*     implements Subscriptions, for any number of customers and payments. *)
(***************************************************************************)
EXTENDS Accounts, FiniteSetTheorems, TLAPS

----------------------------------------------------------------------------
(* The plan rules *)

(***************************************************************************)
(* The remainder by a positive number is a number below it, and never more *)
(* than what is divided.                                                   *)
(***************************************************************************)
LEMMA RemainderBounds ==
    ASSUME NEW a \in Nat, NEW n \in Nat \ {0}
    PROVE  /\ a % n \in Nat
           /\ a % n < n
           /\ a % n <= a
  OBVIOUS

(***************************************************************************)
(* A billing period is at least one tick long.                             *)
(***************************************************************************)
LEMMA PeriodIsPositive == PeriodLength \in Nat \ {0}
  BY CalendarAssumption DEF PeriodLength

(***************************************************************************)
(* _utc_midnight is a moment, and not a later one.                         *)
(***************************************************************************)
LEMMA MidnightIsEarlier ==
    ASSUME NEW moment \in Nat
    PROVE  /\ UtcMidnight(moment) \in Nat
           /\ UtcMidnight(moment) <= moment
  BY RemainderBounds, CalendarAssumption DEF UtcMidnight

(***************************************************************************)
(* _advance_period returns a moment.                                       *)
(***************************************************************************)
LEMMA AdvanceIsMoment ==
    ASSUME NEW start \in Nat, NEW moment \in Nat
    PROVE  AdvancePeriod(start, moment) \in Nat
  <1>1. CASE moment < start
    BY <1>1 DEF AdvancePeriod
  <1>2. CASE ~(moment < start)
    <2>1. moment - start \in Nat
      BY <1>2
    <2>2. (moment - start) % PeriodLength <= moment - start
      BY <2>1, PeriodIsPositive, RemainderBounds
    <2>3. (moment - start) % PeriodLength \in Nat
      BY <2>1, PeriodIsPositive, RemainderBounds
    <2> QED
      BY <1>2, <2>2, <2>3 DEF AdvancePeriod
  <1> QED
    BY <1>1, <1>2

(***************************************************************************)
(* Each stage of plans.enforce returns a row.                              *)
(***************************************************************************)
LEMMA DowngradeIsRow ==
    ASSUME NEW row \in UserRow, NEW moment \in Nat
    PROVE  Downgrade(row, moment) \in UserRow
  <1>1. UtcMidnight(moment) \in Nat
    BY MidnightIsEarlier
  <1>2. FreePlan \in Plans
    BY DEF Plans
  <1> QED
    BY <1>1, <1>2 DEF Downgrade, UserRow

LEMMA RollPeriodIsRow ==
    ASSUME NEW row \in UserRow, NEW moment \in Nat
    PROVE  RollPeriod(row, moment) \in UserRow
  <1>1. AdvancePeriod(row.periodStart, moment) \in Nat
    BY AdvanceIsMoment DEF UserRow
  <1> QED
    BY <1>1 DEF RollPeriod, UserRow

LEMMA RollDayIsRow ==
    ASSUME NEW row \in UserRow, NEW moment \in Nat
    PROVE  RollDay(row, moment) \in UserRow
  <1>1. UtcMidnight(moment) \in Nat
    BY MidnightIsEarlier
  <1> QED
    BY <1>1 DEF RollDay, UserRow

LEMMA EnforceIsRow ==
    ASSUME NEW row \in UserRow, NEW moment \in Nat
    PROVE  Enforce(row, moment) \in UserRow
  BY DowngradeIsRow, RollPeriodIsRow, RollDayIsRow DEF Enforce

(***************************************************************************)
(* plans.enforce keeps a row's plan and term, or makes the row a free one: *)
(* it never grants a plan.                                                 *)
(***************************************************************************)
SamePlan(row, other) == row.plan = other.plan /\ row.expires = other.expires

LEMMA EnforceGrantsNothing ==
    ASSUME NEW row \in UserRow, NEW moment \in Nat
    PROVE  \/ Enforce(row, moment).plan = FreePlan
           \/ SamePlan(Enforce(row, moment), row)
  <1> DEFINE down == Downgrade(row, moment)
             rolled == RollPeriod(down, moment)
  <1>1. down \in UserRow
    BY DowngradeIsRow
  <1>2. rolled \in UserRow
    BY <1>1, RollPeriodIsRow
  <1>3. SamePlan(rolled, down)
    BY <1>1 DEF SamePlan, RollPeriod, UserRow
  <1>4. SamePlan(RollDay(rolled, moment), rolled)
    BY <1>2 DEF SamePlan, RollDay, UserRow
  <1>5. down.plan = FreePlan \/ down = row
    BY DEF Downgrade
  <1> QED
    BY <1>3, <1>4, <1>5 DEF SamePlan, Enforce

(***************************************************************************)
(* plans.enforce leaves a row that is within the caps of its plan within   *)
(* the caps of the plan it ends up with, which may be a smaller one.       *)
(***************************************************************************)
LEMMA ZeroIsWithinCaps ==
    ASSUME NEW plan \in Plans
    PROVE  ~Exceeds(0, DailyLimit[plan]) /\ ~Exceeds(0, MonthlyLimit[plan])
  BY LimitsAssumption DEF Exceeds, Unlimited

LEMMA EnforceKeepsCaps ==
    ASSUME NEW row \in UserRow, NEW moment \in Nat, WithinCaps(row)
    PROVE  WithinCaps(Enforce(row, moment))
  <1> DEFINE down == Downgrade(row, moment)
             rolled == RollPeriod(down, moment)
  <1>1. down \in UserRow /\ rolled \in UserRow
    BY DowngradeIsRow, RollPeriodIsRow
  <1>2. WithinCaps(down)
    <2>1. CASE Expired(row, moment)
      BY <2>1, ZeroIsWithinCaps DEF Downgrade, WithinCaps, Plans
    <2>2. CASE ~Expired(row, moment)
      BY <2>2 DEF Downgrade
    <2> QED
      BY <2>1, <2>2
  <1>3. WithinCaps(rolled)
    <2>1. down.plan \in Plans
      BY <1>1 DEF UserRow
    <2> QED
      BY <1>1, <1>2, <2>1, ZeroIsWithinCaps DEF RollPeriod, WithinCaps, UserRow
  <1>4. WithinCaps(RollDay(rolled, moment))
    <2>1. rolled.plan \in Plans
      BY <1>1 DEF UserRow
    <2> QED
      BY <1>1, <1>3, <2>1, ZeroIsWithinCaps DEF RollDay, WithinCaps, UserRow
  <1> QED
    BY <1>4 DEF Enforce

(***************************************************************************)
(* plans.check returns the enforced row and decides nothing else.          *)
(***************************************************************************)
LEMMA CheckReturnsEnforced ==
    ASSUME NEW row, NEW count, NEW moment
    PROVE  /\ Check(row, count, moment).row = Enforce(row, moment)
           /\ Check(row, count, moment).allowed
                 <=> ~QuotaRefusal(Enforce(row, moment), count)
  BY DEF Check

(***************************************************************************)
(* plans.consume_many returns a row with the plan of the enforced one, and *)
(* one that is within its caps.                                            *)
(***************************************************************************)
THEOREM ConsumeManyIsSafe ==
    ASSUME NEW row \in UserRow, NEW moment \in Nat, NEW count \in Nat
    PROVE  LET spent == ConsumeMany(row, count, moment).row
           IN  /\ spent \in UserRow
               /\ SamePlan(spent, Enforce(row, moment))
               /\ WithinCaps(row) => WithinCaps(spent)
  <1> DEFINE base == Enforce(row, moment)
             spent == ConsumeMany(row, count, moment).row
  <1>1. base \in UserRow
    BY EnforceIsRow
  <1>2. CASE QuotaRefusal(base, count)
    <2>1. spent = base
      BY <1>2 DEF ConsumeMany, Check
    <2> QED
      BY <1>1, <2>1, EnforceKeepsCaps DEF SamePlan
  <1>3. CASE ~QuotaRefusal(base, count)
    <2>1. spent = [base EXCEPT !.used = base.used + count,
                               !.usedToday = base.usedToday + count]
      <3>1. Check(row, count, moment).allowed
        BY <1>3, CheckReturnsEnforced
      <3>2. Check(row, count, moment).row = base
        BY CheckReturnsEnforced
      <3> QED
        BY <3>1, <3>2 DEF ConsumeMany
    <2>2. spent \in UserRow /\ SamePlan(spent, base)
      <3> DEFINE a == base.used + count
                 b == base.usedToday + count
      <3>1. a \in Nat /\ b \in Nat
        BY <1>1 DEF UserRow
      <3>2. spent = [base EXCEPT !.used = a, !.usedToday = b]
        BY <2>1
      <3> HIDE DEF spent, base, a, b
      <3> QED
        BY <1>1, <3>1, <3>2 DEF UserRow, SamePlan
    <2>3. WithinCaps(spent)
      BY <1>1, <1>3, <2>1 DEF WithinCaps, QuotaRefusal, UserRow
    <2> QED
      BY <2>2, <2>3
  <1> QED
    BY <1>2, <1>3

(***************************************************************************)
(* plans.activate returns a row of the plan bought, one period long and    *)
(* with nothing used; so does a registration, of the free plan.            *)
(***************************************************************************)
LEMMA ActivateIsRow ==
    ASSUME NEW plan \in PaidPlans, NEW moment \in Nat
    PROVE  /\ Activate(plan, moment) \in UserRow
           /\ Activate(plan, moment).plan = plan
           /\ Activate(plan, moment).expires - PeriodLength = moment
           /\ WithinCaps(Activate(plan, moment))
  <1>1. UtcMidnight(moment) \in Nat
    BY MidnightIsEarlier
  <1>2. PeriodLength \in Nat
    BY PeriodIsPositive
  <1>3. plan \in Plans
    BY DEF Plans
  <1> QED
    BY <1>1, <1>2, <1>3, ZeroIsWithinCaps DEF Activate, UserRow, WithinCaps

LEMMA NewRowIsRow ==
    ASSUME NEW moment \in Nat
    PROVE  /\ NewRow(moment) \in UserRow
           /\ NewRow(moment).plan = FreePlan
           /\ WithinCaps(NewRow(moment))
  <1>1. FreePlan \in Plans
    BY DEF Plans
  <1> QED
    BY <1>1, ZeroIsWithinCaps DEF NewRow, UserRow, WithinCaps, Never

----------------------------------------------------------------------------
(* Rows, requests and the ledger *)

(***************************************************************************)
(* A request's kind is told by the point it is at.                         *)
(***************************************************************************)
LEMMA RequestKinds ==
    ASSUME TypeOK, NEW t \in Tasks
    PROVE  /\ tasks[t].at \in {"ready", "card"} =>
                /\ tasks[t].user \in Users
                /\ tasks[t].row \in UserRow
           /\ tasks[t].at \in {"checkout", "billed", "confirming"} =>
                /\ tasks[t].user \in Users
                /\ tasks[t].plan \in PaidPlans
           /\ tasks[t].at \in {"billed", "confirming"} => tasks[t].txn \in Txns
  <1>1. tasks[t] \in Request \cup {Idle}
    BY DEF TypeOK
  <1>2. CASE tasks[t] = Idle
    BY <1>2 DEF Idle
  <1>3. CASE tasks[t] \in Ready
    BY <1>3 DEF Ready
  <1>4. CASE tasks[t] \in CardPending
    BY <1>4 DEF CardPending
  <1>5. CASE tasks[t] \in Checkout
    BY <1>5 DEF Checkout
  <1>6. CASE tasks[t] \in Billed
    BY <1>6 DEF Billed
  <1>7. CASE tasks[t] \in Confirming
    BY <1>7 DEF Confirming
  <1> QED
    BY <1>1, <1>2, <1>3, <1>4, <1>5, <1>6, <1>7 DEF Request

(***************************************************************************)
(* Saving a row or a payment keeps both copies of the store well typed.    *)
(***************************************************************************)
LEMMA SaveUserTypes ==
    ASSUME TypeOK, NEW u \in Users, NEW row \in UserRow, SaveUser(u, row)
    PROVE  /\ users' \in [Users -> UserRow]
           /\ usersFile' \in [Users -> UserRow]
           /\ faults' \in Nat
  <1>1. PICK fails \in BOOLEAN :
            /\ users' = [users EXCEPT ![u] = row]
            /\ usersFile' = Written(usersFile, users', fails)
            /\ faults' = faults + Tally(fails)
    BY DEF SaveUser, MayFail
  <1>2. Tally(fails) \in Nat
    BY DEF Tally
  <1> QED
    BY <1>1, <1>2 DEF TypeOK, Written

LEMMA SavePaymentTypes ==
    ASSUME TypeOK, NEW x \in Txns, NEW p \in Payment, SavePayment(x, p)
    PROVE  /\ payments' \in [Txns -> Payment \cup {NoPayment}]
           /\ paymentsFile' \in [Txns -> Payment \cup {NoPayment}]
           /\ faults' \in Nat
  <1>1. PICK fails \in BOOLEAN :
            /\ payments' = [payments EXCEPT ![x] = p]
            /\ paymentsFile' = Written(paymentsFile, payments', fails)
            /\ faults' = faults + Tally(fails)
    BY DEF SavePayment, MayFail
  <1>2. Tally(fails) \in Nat
    BY DEF Tally
  <1> QED
    BY <1>1, <1>2 DEF TypeOK, Written

LEMMA GotoTypes ==
    ASSUME TypeOK, NEW t \in Tasks, NEW r \in Request \cup {Idle}, Goto(t, r)
    PROVE  tasks' \in [Tasks -> Request \cup {Idle}]
  BY DEF TypeOK, Goto

LEMMA FinishTypes ==
    ASSUME TypeOK, NEW t \in Tasks, Finish(t)
    PROVE  tasks' \in [Tasks -> Request \cup {Idle}]
  BY GotoTypes DEF Finish

(***************************************************************************)
(* The requests that handlers leave in flight.                             *)
(***************************************************************************)
LEMMA RequestForms ==
    ASSUME NEW u \in Users
    PROVE  /\ \A row \in UserRow :
                /\ [at |-> "ready", user |-> u, row |-> row] \in Request
                /\ [at |-> "card", user |-> u, row |-> row] \in Request
           /\ \A p \in PaidPlans :
                /\ [at |-> "checkout", user |-> u, plan |-> p] \in Request
                /\ \A x \in Txns :
                    /\ [at |-> "billed", user |-> u, plan |-> p, txn |-> x] \in Request
                    /\ [at |-> "confirming", user |-> u, plan |-> p, txn |-> x] \in Request
  BY DEF Request, Ready, CardPending, Checkout, Billed, Confirming

LEMMA ConfirmIsRequest ==
    ASSUME TypeOK, NEW x \in Txns, payments[x] # NoPayment
    PROVE  Confirm(x) \in Request
  <1>1. payments[x] \in Payment
    BY DEF TypeOK
  <1> QED
    BY <1>1, RequestForms DEF Payment, Confirm

(***************************************************************************)
(* Marking a payment paid keeps its customer and its plan.                 *)
(***************************************************************************)
LEMMA MarkedTypes ==
    ASSUME TypeOK, NEW x \in Txns, payments[x].status = "pending"
    PROVE  Marked(x) \in [Txns -> Payment \cup {NoPayment}]
  BY DEF Marked, TypeOK, Payment, NoPayment

LEMMA MarkPaidTypes ==
    ASSUME TypeOK, NEW x \in Txns, NEW fails \in BOOLEAN, MarkPaid(x, fails)
    PROVE  /\ payments' \in [Txns -> Payment \cup {NoPayment}]
           /\ paymentsFile' \in [Txns -> Payment \cup {NoPayment}]
  BY MarkedTypes DEF MarkPaid, Written, TypeOK

(***************************************************************************)
(* Every step keeps the types, one action at a time.                       *)
(***************************************************************************)
LEMMA TypeStep ==
    ASSUME TypeOK, RequestsMatchKhpay, [Next]_vars
    PROVE  TypeOK'
  <1> USE DEF stores
  <1>1. ASSUME NEW t \in Tasks, NEW u \in Users, Authenticate(t, u)
        PROVE  TypeOK'
    <2>1. [at |-> "ready", user |-> u, row |-> users[u]] \in Request
      BY RequestForms DEF TypeOK
    <2> QED
      BY <1>1, <2>1, GotoTypes DEF Authenticate, TypeOK
  <1>2. ASSUME NEW t \in Tasks, Analyse(t)
        PROVE  TypeOK'
    <2> DEFINE u == tasks[t].user
    <2>1. PICK count \in Batches :
            LET consumption == ConsumeMany(tasks[t].row, count, now)
            IN  /\ SaveUser(u, consumption.row)
                /\ served' = IF consumption.allowed
                             THEN [served EXCEPT ![u] = @ + count]
                             ELSE served
      BY <1>2 DEF Analyse
    <2>2. u \in Users /\ tasks[t].row \in UserRow
      BY <1>2, RequestKinds DEF Analyse
    <2>3. count \in Nat /\ now \in Nat
      BY BoundsAssumption DEF TypeOK
    <2>4. ConsumeMany(tasks[t].row, count, now).row \in UserRow
      BY <2>2, <2>3, ConsumeManyIsSafe
    <2>5. served' \in [Users -> Nat]
      BY <2>1, <2>2, <2>3 DEF TypeOK
    <2> QED
      BY <1>2, <2>1, <2>2, <2>4, <2>5, SaveUserTypes, FinishTypes DEF Analyse, TypeOK
  <1>3. ASSUME NEW t \in Tasks, CheckCard(t)
        PROVE  TypeOK'
    <2> DEFINE u == tasks[t].user
               checked == Check(tasks[t].row, 1, now)
    <2>1. u \in Users /\ checked.row \in UserRow
      BY <1>3, RequestKinds, CheckReturnsEnforced, EnforceIsRow DEF CheckCard, TypeOK
    <2>2. SaveUser(u, checked.row)
      BY <1>3 DEF CheckCard
    <2>3. [at |-> "card", user |-> u, row |-> checked.row] \in Request
      BY <2>1, RequestForms
    <2>4. \/ Goto(t, [at |-> "card", user |-> u, row |-> checked.row])
          \/ Finish(t)
      BY <1>3 DEF CheckCard
    <2>5. tasks' \in [Tasks -> Request \cup {Idle}]
      BY <2>3, <2>4, GotoTypes, FinishTypes
    <2> QED
      BY <1>3, <2>1, <2>2, <2>5, SaveUserTypes DEF CheckCard, TypeOK
  <1>4. ASSUME NEW t \in Tasks, ChargeCard(t)
        PROVE  TypeOK'
    <2> DEFINE u == tasks[t].user
               spent == ConsumeMany(tasks[t].row, 1, now).row
    <2>1. u \in Users /\ spent \in UserRow
      BY <1>4, RequestKinds, ConsumeManyIsSafe DEF ChargeCard, TypeOK
    <2>2. SaveUser(u, spent)
      BY <1>4 DEF ChargeCard
    <2>3. served' \in [Users -> Nat]
      BY <1>4, <2>1 DEF ChargeCard, TypeOK
    <2> QED
      BY <1>4, <2>1, <2>2, <2>3, SaveUserTypes, FinishTypes DEF ChargeCard, TypeOK
  <1>5. ASSUME NEW t \in Tasks, ViewPlan(t)
        PROVE  TypeOK'
    <2> DEFINE enforced == Enforce(tasks[t].row, now)
    <2>1. tasks[t].user \in Users /\ enforced \in UserRow
      BY <1>5, RequestKinds, EnforceIsRow DEF ViewPlan, TypeOK
    <2>2. \/ SaveUser(tasks[t].user, enforced) /\ UNCHANGED << payments, paymentsFile >>
          \/ UNCHANGED stores
      BY <1>5 DEF ViewPlan
    <2>3. CASE SaveUser(tasks[t].user, enforced) /\ UNCHANGED << payments, paymentsFile >>
      BY <1>5, <2>1, <2>3, SaveUserTypes, FinishTypes DEF ViewPlan, TypeOK
    <2>4. CASE UNCHANGED stores
      BY <1>5, <2>4, FinishTypes DEF ViewPlan, TypeOK
    <2> QED
      BY <2>2, <2>3, <2>4
  <1>6. ASSUME NEW t \in Tasks, StartCheckout(t)
        PROVE  TypeOK'
    <2>1. PICK plan \in PaidPlans :
            Goto(t, [at |-> "checkout", user |-> tasks[t].user, plan |-> plan])
      BY <1>6 DEF StartCheckout
    <2>2. [at |-> "checkout", user |-> tasks[t].user, plan |-> plan] \in Request
      BY <1>6, RequestKinds, RequestForms DEF StartCheckout
    <2> QED
      BY <1>6, <2>1, <2>2, GotoTypes DEF StartCheckout, TypeOK
  <1>7. ASSUME NEW t \in Tasks, NEW x \in Txns, IssueBill(t, x)
        PROVE  TypeOK'
    <2> DEFINE u == tasks[t].user
               p == tasks[t].plan
    <2>1. u \in Users /\ p \in PaidPlans
      BY <1>7, RequestKinds DEF IssueBill
    <2>2. [at |-> "billed", user |-> u, plan |-> p, txn |-> x] \in Request
      BY <2>1, RequestForms
    <2>3. tasks' \in [Tasks -> Request \cup {Idle}]
      BY <1>7, <2>2, GotoTypes, FinishTypes DEF IssueBill
    <2>4. khpay' \in [Txns -> Bill \cup {NoBill}]
      BY <1>7, <2>1 DEF IssueBill, TypeOK, Bill
    <2> QED
      BY <1>7, <2>3, <2>4 DEF IssueBill, TypeOK
  <1>8. ASSUME NEW t \in Tasks, RecordPayment(t)
        PROVE  TypeOK'
    <2> DEFINE x == tasks[t].txn
               p == [user |-> tasks[t].user, plan |-> tasks[t].plan, status |-> "pending"]
    <2>1. x \in Txns /\ p \in Payment
      BY <1>8, RequestKinds DEF RecordPayment, Payment
    <2>2. SavePayment(x, p)
      BY <1>8 DEF RecordPayment
    <2>3. khpay[x] \in Bill
      BY <1>8, <2>1 DEF RecordPayment, RequestsMatchKhpay, TypeOK
    <2>4. khpay' \in [Txns -> Bill \cup {NoBill}]
      BY <1>8, <2>1, <2>3 DEF RecordPayment, TypeOK, Bill
    <2> QED
      BY <1>8, <2>1, <2>2, <2>4, SavePaymentTypes, FinishTypes DEF RecordPayment, TypeOK
  <1>9. ASSUME NEW x \in Txns, Pay(x)
        PROVE  TypeOK'
    <2>1. khpay' \in [Txns -> Bill \cup {NoBill}]
      BY <1>9 DEF Pay, TypeOK, Bill, NoBill
    <2> QED
      BY <1>9, <2>1 DEF Pay, TypeOK
  <1>10. ASSUME NEW t \in Tasks, NEW x \in Txns, StartVerify(t, x) \/ StartWebhook(t, x)
         PROVE  TypeOK'
    BY <1>10, ConfirmIsRequest, GotoTypes DEF StartVerify, StartWebhook, TypeOK
  <1>11. ASSUME NEW t \in Tasks,
                FailCard(t) \/ FailCheckout(t) \/ Unconfirmed(t) \/ Answer(t)
         PROVE  TypeOK'
    BY <1>11, FinishTypes DEF FailCard, FailCheckout, Unconfirmed, Answer, TypeOK
  <1>12. ASSUME NEW t \in Tasks, Confirmed(t)
         PROVE  TypeOK'
    <2> DEFINE x == tasks[t].txn
               u == tasks[t].user
               row == Activate(tasks[t].plan, now)
    <2>1. x \in Txns /\ u \in Users /\ row \in UserRow
      BY <1>12, RequestKinds, ActivateIsRow DEF Confirmed, TypeOK
    <2>2. PICK markFails \in BOOLEAN, updateFails \in BOOLEAN :
            /\ MarkPaid(x, markFails)
            /\ users' = [users EXCEPT ![u] = row]
            /\ usersFile' = Written(usersFile, users', updateFails)
            /\ faults' = faults + Tally(markFails) + Tally(updateFails)
      BY <1>12 DEF Confirmed
    <2>3. /\ payments' \in [Txns -> Payment \cup {NoPayment}]
          /\ paymentsFile' \in [Txns -> Payment \cup {NoPayment}]
      BY <2>1, <2>2, MarkPaidTypes
    <2>4. faults' \in Nat
      BY <2>2 DEF Tally, TypeOK
    <2>5. users' \in [Users -> UserRow] /\ usersFile' \in [Users -> UserRow]
      BY <2>1, <2>2 DEF TypeOK, Written
    <2>6. activations' \in [Txns -> SUBSET Nat]
      BY <1>12, <2>1 DEF Confirmed, TypeOK
    <2> QED
      BY <1>12, <2>3, <2>4, <2>5, <2>6, FinishTypes DEF Confirmed, TypeOK
  <1>13. ASSUME NEW t \in Tasks, CrashInActivation(t)
         PROVE  TypeOK'
    <2>1. tasks[t].txn \in Txns
      BY <1>13, RequestKinds DEF CrashInActivation
    <2>2. paymentsFile' \in [Txns -> Payment \cup {NoPayment}]
      BY <1>13, <2>1, MarkedTypes DEF CrashInActivation
    <2> QED
      BY <1>13, <2>2 DEF CrashInActivation, Restart, TypeOK
  <1>14. CASE Crash
    BY <1>14 DEF Crash, Restart, TypeOK
  <1>15. CASE Tick
    BY <1>15 DEF Tick, TypeOK
  <1>16. CASE UNCHANGED vars
    BY <1>16 DEF vars, TypeOK
  <1> QED
    BY <1>1, <1>2, <1>3, <1>4, <1>5, <1>6, <1>7, <1>8, <1>9, <1>10, <1>11, <1>12,
       <1>13, <1>14, <1>15, <1>16 DEF Next, Handle

(***************************************************************************)
(* Khpay forgets nothing: a bill keeps its customer and plan, a settled    *)
(* one stays settled, and the record of activations only grows.            *)
(***************************************************************************)
Lasting ==
    \A x \in Txns :
        /\ activations[x] \subseteq activations'[x]
        /\ khpay[x] # NoBill =>
            /\ khpay'[x] # NoBill
            /\ khpay'[x].user = khpay[x].user
            /\ khpay'[x].plan = khpay[x].plan
            /\ khpay[x].state = "settled" => khpay'[x].state = "settled"

LEMMA KhpayLasts ==
    ASSUME TypeOK, RequestsMatchKhpay, OneCheckoutPerBill, [Next]_vars
    PROVE  Lasting
  <1> USE DEF stores
  <1>1. ASSUME UNCHANGED << khpay, activations >>
        PROVE  Lasting
    BY <1>1 DEF Lasting
  <1>2. ASSUME NEW t \in Tasks, NEW x \in Txns, IssueBill(t, x)
        PROVE  Lasting
    BY <1>2 DEF IssueBill, Lasting, TypeOK
  <1>3. ASSUME NEW t \in Tasks, RecordPayment(t)
        PROVE  Lasting
    <2> DEFINE x == tasks[t].txn
    <2>1. x \in Txns /\ khpay[x] \in Bill /\ khpay[x].state = "open"
      BY <1>3, RequestKinds
      DEF RecordPayment, RequestsMatchKhpay, OneCheckoutPerBill, TypeOK
    <2>2. khpay' = [khpay EXCEPT ![x] = [khpay[x] EXCEPT !.state = "shown"]]
      BY <1>3 DEF RecordPayment
    <2> QED
      BY <1>3, <2>1, <2>2 DEF RecordPayment, Lasting, TypeOK, Bill, NoBill
  <1>4. ASSUME NEW x \in Txns, Pay(x)
        PROVE  Lasting
    <2>1. khpay[x] \in Bill
      BY <1>4 DEF Pay, TypeOK, NoBill
    <2>2. khpay' = [khpay EXCEPT ![x] = [khpay[x] EXCEPT !.state = "settled"]]
      BY <1>4 DEF Pay
    <2> QED
      BY <1>4, <2>1, <2>2 DEF Pay, Lasting, TypeOK, Bill, NoBill
  <1>5. ASSUME NEW t \in Tasks, Confirmed(t)
        PROVE  Lasting
    BY <1>5 DEF Confirmed, Lasting, TypeOK
  <1>6. ASSUME NEW t \in Tasks,
               \/ Analyse(t) \/ CheckCard(t) \/ FailCard(t) \/ ChargeCard(t)
               \/ ViewPlan(t) \/ StartCheckout(t) \/ FailCheckout(t)
               \/ Unconfirmed(t) \/ Answer(t) \/ CrashInActivation(t)
        PROVE  UNCHANGED << khpay, activations >>
    BY <1>6 DEF Analyse, CheckCard, FailCard, ChargeCard, ViewPlan, StartCheckout,
                FailCheckout, Unconfirmed, Answer, CrashInActivation, Restart
  <1>7. ASSUME NEW t \in Tasks, NEW x \in Txns, StartVerify(t, x) \/ StartWebhook(t, x)
        PROVE  UNCHANGED << khpay, activations >>
    BY <1>7 DEF StartVerify, StartWebhook
  <1>8. ASSUME NEW t \in Tasks, NEW u \in Users, Authenticate(t, u)
        PROVE  UNCHANGED << khpay, activations >>
    BY <1>8 DEF Authenticate
  <1>9. ASSUME Crash \/ Tick \/ UNCHANGED vars
        PROVE  UNCHANGED << khpay, activations >>
    BY <1>9 DEF Crash, Restart, Tick, vars
  <1> QED
    BY <1>1, <1>2, <1>3, <1>4, <1>5, <1>6, <1>7, <1>8, <1>9 DEF Next, Handle

(***************************************************************************)
(* What a request does to the others: nothing.                             *)
(***************************************************************************)
LEMMA GotoChangesOne ==
    ASSUME TypeOK, NEW t \in Tasks, NEW r, Goto(t, r)
    PROVE  /\ tasks'[t] = r
           /\ \A s \in Tasks \ {t} : tasks'[s] = tasks[s]
  BY DEF TypeOK, Goto

LEMMA FinishChangesOne ==
    ASSUME TypeOK, NEW t \in Tasks, Finish(t)
    PROVE  /\ tasks'[t] = Idle
           /\ \A s \in Tasks \ {t} : tasks'[s] = tasks[s]
  BY GotoChangesOne DEF Finish

(***************************************************************************)
(* The steps that leave the payment side alone.                            *)
(***************************************************************************)
MeteredStep(t) ==
    \/ Analyse(t) \/ CheckCard(t) \/ FailCard(t) \/ ChargeCard(t) \/ ViewPlan(t)
    \/ StartCheckout(t) \/ FailCheckout(t) \/ Unconfirmed(t) \/ Answer(t)
    \/ \E u \in Users : Authenticate(t, u)

LEMMA MeteredStepFrame ==
    ASSUME TypeOK, NEW t \in Tasks, MeteredStep(t)
    PROVE  /\ UNCHANGED << payments, paymentsFile, khpay, activations >>
           /\ \A s \in Tasks \ {t} : tasks'[s] = tasks[s]
           /\ tasks'[t].at \in {"idle", "ready", "card", "checkout"}
  <1> USE DEF stores, Idle
  <1>1. CASE Analyse(t)
    BY <1>1, FinishChangesOne DEF Analyse
  <1>2. CASE CheckCard(t)
    <2>1. PICK r : Goto(t, r) /\ r.at \in {"idle", "card"}
      BY <1>2 DEF CheckCard, Finish
    <2> QED
      BY <1>2, <2>1, GotoChangesOne DEF CheckCard
  <1>3. CASE FailCard(t)
    BY <1>3, FinishChangesOne DEF FailCard
  <1>4. CASE ChargeCard(t)
    BY <1>4, FinishChangesOne DEF ChargeCard
  <1>5. CASE ViewPlan(t)
    BY <1>5, FinishChangesOne DEF ViewPlan
  <1>6. CASE StartCheckout(t)
    <2>1. PICK r : Goto(t, r) /\ r.at = "checkout"
      BY <1>6 DEF StartCheckout
    <2> QED
      BY <1>6, <2>1, GotoChangesOne DEF StartCheckout
  <1>7. CASE FailCheckout(t) \/ Unconfirmed(t) \/ Answer(t)
    BY <1>7, FinishChangesOne DEF FailCheckout, Unconfirmed, Answer
  <1>8. CASE \E u \in Users : Authenticate(t, u)
    <2>1. PICK r : Goto(t, r) /\ r.at = "ready"
      BY <1>8 DEF Authenticate
    <2> QED
      BY <1>8, <2>1, GotoChangesOne DEF Authenticate
  <1> QED
    BY <1>1, <1>2, <1>3, <1>4, <1>5, <1>6, <1>7, <1>8 DEF MeteredStep

(***************************************************************************)
(* The payment side: ledger, requests that hold a payment id, and Khpay    *)
(* agree after every step.                                                 *)
(***************************************************************************)
PaymentsAgree == LedgerMatchesKhpay /\ RequestsMatchKhpay /\ OneCheckoutPerBill

LedgerSound(ledger, bills) ==
    \A x \in Txns :
        ledger[x] # NoPayment =>
            /\ bills[x] # NoBill
            /\ ledger[x].user = bills[x].user
            /\ ledger[x].plan = bills[x].plan
            /\ ledger[x].status = "paid" => bills[x].state = "settled"

LEMMA LedgerSoundness ==
    /\ LedgerMatchesKhpay
        <=> LedgerSound(payments, khpay) /\ LedgerSound(paymentsFile, khpay)
    /\ LedgerMatchesKhpay'
        <=> LedgerSound(payments', khpay') /\ LedgerSound(paymentsFile', khpay')
  BY DEF LedgerMatchesKhpay, LedgerSound

LEMMA LedgerSoundLasts ==
    ASSUME NEW ledger, LedgerSound(ledger, khpay), Lasting
    PROVE  LedgerSound(ledger, khpay')
  BY DEF LedgerSound, Lasting

LEMMA MarkedIsSound ==
    ASSUME TypeOK, LedgerMatchesKhpay, NEW x \in Txns,
           payments[x].status = "pending", khpay[x].state = "settled"
    PROVE  LedgerSound(Marked(x), khpay)
  <1>1. payments[x] \in Payment
    BY DEF TypeOK, NoPayment
  <1>2. Marked(x)[x] = [payments[x] EXCEPT !.status = "paid"]
    BY DEF Marked, TypeOK
  <1>3. \A y \in Txns \ {x} : Marked(x)[y] = payments[y]
    BY DEF Marked, TypeOK
  <1>4. LedgerSound(payments, khpay) /\ payments[x] # NoPayment
    BY <1>1, LedgerSoundness DEF Payment, NoPayment
  <1> QED
    BY <1>1, <1>2, <1>3, <1>4 DEF LedgerSound, Payment

LEMMA LedgerStep ==
    ASSUME TypeOK, PaymentsAgree, Lasting, [Next]_vars
    PROVE  LedgerMatchesKhpay'
  <1> USE DEF stores
  <1>1. LedgerSound(payments, khpay') /\ LedgerSound(paymentsFile, khpay')
    BY LedgerSoundness, LedgerSoundLasts DEF PaymentsAgree
  <1>2. ASSUME payments' \in {payments, paymentsFile}, UNCHANGED paymentsFile
        PROVE  LedgerMatchesKhpay'
    BY <1>1, <1>2, LedgerSoundness
  <1>3. ASSUME NEW t \in Tasks, RecordPayment(t)
        PROVE  LedgerMatchesKhpay'
    <2> DEFINE x == tasks[t].txn
               p == [user |-> tasks[t].user, plan |-> tasks[t].plan, status |-> "pending"]
    <2>1. x \in Txns /\ tasks[t].at = "billed"
      BY <1>3, RequestKinds DEF RecordPayment
    <2>2. /\ payments' = [payments EXCEPT ![x] = p]
          /\ paymentsFile' \in {paymentsFile, payments'}
      BY <1>3 DEF RecordPayment, SavePayment, Written
    <2>3. khpay[x] # NoBill /\ khpay[x].user = p.user /\ khpay[x].plan = p.plan
      BY <2>1 DEF PaymentsAgree, RequestsMatchKhpay
    <2>4. khpay'[x] # NoBill /\ khpay'[x].user = p.user /\ khpay'[x].plan = p.plan
      BY <2>1, <2>3 DEF Lasting
    <2>5. LedgerSound(payments', khpay')
      BY <1>1, <2>1, <2>2, <2>4 DEF LedgerSound, TypeOK
    <2> QED
      BY <1>1, <2>2, <2>5, LedgerSoundness
  <1>4. ASSUME NEW t \in Tasks, Confirmed(t)
        PROVE  LedgerMatchesKhpay'
    <2> DEFINE x == tasks[t].txn
    <2>1. x \in Txns /\ khpay[x].state = "settled" /\ khpay' = khpay
      BY <1>4, RequestKinds DEF Confirmed
    <2>2. PICK fails \in BOOLEAN : MarkPaid(x, fails)
      BY <1>4 DEF Confirmed
    <2>3. CASE payments[x].status = "pending"
      <3>1. LedgerSound(Marked(x), khpay')
        BY <2>1, <2>3, MarkedIsSound DEF PaymentsAgree
      <3>2. payments' = Marked(x) /\ paymentsFile' \in {paymentsFile, Marked(x)}
        BY <2>2, <2>3 DEF MarkPaid, Written
      <3> QED
        BY <1>1, <3>1, <3>2, LedgerSoundness
    <2>4. CASE payments[x].status # "pending"
      BY <1>2, <2>2, <2>4 DEF MarkPaid
    <2> QED
      BY <2>3, <2>4
  <1>5. ASSUME NEW t \in Tasks, CrashInActivation(t)
        PROVE  LedgerMatchesKhpay'
    <2> DEFINE x == tasks[t].txn
    <2>1. x \in Txns /\ khpay[x].state = "settled" /\ khpay' = khpay
      BY <1>5, RequestKinds DEF CrashInActivation, Restart
    <2>2. /\ payments[x].status = "pending"
          /\ paymentsFile' = Marked(x)
          /\ payments' = Marked(x)
      BY <1>5 DEF CrashInActivation, Restart
    <2> QED
      BY <2>1, <2>2, MarkedIsSound, LedgerSoundness DEF PaymentsAgree
  <1>6. ASSUME NEW t \in Tasks, MeteredStep(t)
        PROVE  LedgerMatchesKhpay'
    BY <1>2, <1>6, MeteredStepFrame
  <1>7. ASSUME NEW t \in Tasks, NEW x \in Txns,
               IssueBill(t, x) \/ StartVerify(t, x) \/ StartWebhook(t, x)
        PROVE  LedgerMatchesKhpay'
    BY <1>2, <1>7 DEF IssueBill, StartVerify, StartWebhook
  <1>8. ASSUME NEW x \in Txns, Pay(x)
        PROVE  LedgerMatchesKhpay'
    BY <1>2, <1>8 DEF Pay
  <1>9. ASSUME Crash \/ Tick \/ UNCHANGED vars
        PROVE  LedgerMatchesKhpay'
    BY <1>2, <1>9 DEF Crash, Restart, Tick, vars
  <1> QED
    BY <1>3, <1>4, <1>5, <1>6, <1>7, <1>8, <1>9 DEF Next, Handle, MeteredStep

LEMMA RequestsStep ==
    ASSUME TypeOK, PaymentsAgree, Lasting, [Next]_vars
    PROVE  RequestsMatchKhpay'
  <1> USE DEF stores
  <1> DEFINE Agrees(request, bills) ==
        request.at \in {"billed", "confirming"} =>
            /\ bills[request.txn] # NoBill
            /\ bills[request.txn].user = request.user
            /\ bills[request.txn].plan = request.plan
  <1>1. \A s \in Tasks : Agrees(tasks[s], khpay')
    <2> TAKE s \in Tasks
    <2>1. Agrees(tasks[s], khpay)
      BY DEF PaymentsAgree, RequestsMatchKhpay
    <2>2. tasks[s].at \in {"billed", "confirming"} => tasks[s].txn \in Txns
      BY RequestKinds
    <2> QED
      BY <2>1, <2>2 DEF Lasting
  <1>2. SUFFICES \A s \in Tasks : Agrees(tasks'[s], khpay')
    BY DEF RequestsMatchKhpay
  <1>3. ASSUME NEW t \in Tasks, Agrees(tasks'[t], khpay'),
               \A s \in Tasks \ {t} : tasks'[s] = tasks[s]
        PROVE  \A s \in Tasks : Agrees(tasks'[s], khpay')
    BY <1>1, <1>3
  <1>4. ASSUME NEW t \in Tasks, MeteredStep(t)
        PROVE  \A s \in Tasks : Agrees(tasks'[s], khpay')
    BY <1>3, <1>4, MeteredStepFrame
  <1>5. ASSUME NEW t \in Tasks, RecordPayment(t) \/ Confirmed(t)
        PROVE  \A s \in Tasks : Agrees(tasks'[s], khpay')
    BY <1>3, <1>5, FinishChangesOne DEF RecordPayment, Confirmed, Idle
  <1>6. ASSUME NEW t \in Tasks, NEW x \in Txns, IssueBill(t, x)
        PROVE  \A s \in Tasks : Agrees(tasks'[s], khpay')
    <2> DEFINE bill == [user |-> tasks[t].user, plan |-> tasks[t].plan, state |-> "open"]
               r == [at |-> "billed", user |-> tasks[t].user,
                     plan |-> tasks[t].plan, txn |-> x]
    <2>1. khpay'[x] = bill
      BY <1>6 DEF IssueBill, TypeOK
    <2>2. Goto(t, r) \/ Finish(t)
      BY <1>6 DEF IssueBill
    <2>3. Agrees(r, khpay') /\ Agrees(Idle, khpay')
      BY <2>1 DEF NoBill, Idle
    <2> QED
      BY <1>3, <2>2, <2>3, GotoChangesOne, FinishChangesOne
  <1>7. ASSUME NEW t \in Tasks, NEW x \in Txns, StartVerify(t, x) \/ StartWebhook(t, x)
        PROVE  \A s \in Tasks : Agrees(tasks'[s], khpay')
    <2>1. Goto(t, Confirm(x)) /\ payments[x] # NoPayment /\ khpay' = khpay
      BY <1>7 DEF StartVerify, StartWebhook
    <2>2. Agrees(Confirm(x), khpay')
      BY <2>1, LedgerSoundness DEF Confirm, LedgerSound, PaymentsAgree
    <2> QED
      BY <1>3, <2>1, <2>2, GotoChangesOne
  <1>8. ASSUME NEW x \in Txns, Pay(x)
        PROVE  \A s \in Tasks : Agrees(tasks'[s], khpay')
    BY <1>1, <1>8 DEF Pay
  <1>9. ASSUME Restart
        PROVE  \A s \in Tasks : Agrees(tasks'[s], khpay')
    BY <1>9 DEF Restart, Idle
  <1>10. ASSUME Tick \/ UNCHANGED vars
         PROVE  \A s \in Tasks : Agrees(tasks'[s], khpay')
    BY <1>1, <1>10 DEF Tick, vars
  <1> QED
    BY <1>4, <1>5, <1>6, <1>7, <1>8, <1>9, <1>10
    DEF Next, Handle, MeteredStep, Crash, CrashInActivation

LEMMA CheckoutStep ==
    ASSUME TypeOK, PaymentsAgree, [Next]_vars
    PROVE  OneCheckoutPerBill'
  <1> USE DEF stores
  <1> DEFINE Billing(s) == tasks[s].at = "billed"
  <1>1. ASSUME \A s \in Tasks : Billing(s)' => tasks'[s] = tasks[s],
               \A s \in Tasks : Billing(s)' => khpay'[tasks[s].txn] = khpay[tasks[s].txn]
        PROVE  OneCheckoutPerBill'
    BY <1>1 DEF PaymentsAgree, OneCheckoutPerBill
  <1>2. ASSUME NEW t \in Tasks, MeteredStep(t)
        PROVE  OneCheckoutPerBill'
    BY <1>1, <1>2, MeteredStepFrame
  <1>3. ASSUME NEW t \in Tasks, RecordPayment(t)
        PROVE  OneCheckoutPerBill'
    <2>1. \A s \in Tasks : Billing(s)' => s # t /\ tasks'[s] = tasks[s]
      BY <1>3, FinishChangesOne DEF RecordPayment, Idle
    <2>2. \A s \in Tasks \ {t} : Billing(s) => tasks[s].txn # tasks[t].txn
      BY <1>3 DEF RecordPayment, PaymentsAgree, OneCheckoutPerBill
    <2>3. \A x \in Txns \ {tasks[t].txn} : khpay'[x] = khpay[x]
      BY <1>3 DEF RecordPayment, TypeOK
    <2>4. \A s \in Tasks : Billing(s) => tasks[s].txn \in Txns
      BY RequestKinds
    <2> QED
      BY <1>1, <2>1, <2>2, <2>3, <2>4
  <1>4. ASSUME NEW t \in Tasks, Confirmed(t)
        PROVE  OneCheckoutPerBill'
    <2>1. khpay' = khpay /\ Finish(t)
      BY <1>4 DEF Confirmed
    <2>2. \A s \in Tasks : Billing(s)' => tasks'[s] = tasks[s]
      BY <2>1, FinishChangesOne DEF Idle
    <2> QED
      BY <1>1, <2>1, <2>2
  <1>5. ASSUME NEW t \in Tasks, NEW x \in Txns, IssueBill(t, x)
        PROVE  OneCheckoutPerBill'
    <2> DEFINE r == [at |-> "billed", user |-> tasks[t].user,
                     plan |-> tasks[t].plan, txn |-> x]
    <2>1. \A s \in Tasks : Billing(s) => tasks[s].txn \in Txns \ {x}
      BY <1>5, RequestKinds DEF IssueBill, PaymentsAgree, RequestsMatchKhpay
    <2>2. khpay'[x].state = "open" /\ \A y \in Txns \ {x} : khpay'[y] = khpay[y]
      BY <1>5 DEF IssueBill, TypeOK
    <2>3. CASE Goto(t, r)
      <3>1. tasks'[t] = r /\ \A s \in Tasks \ {t} : tasks'[s] = tasks[s]
        BY <2>3, GotoChangesOne
      <3>2. \A s \in Tasks \ {t} : Billing(s)' => tasks'[s].txn # x
        BY <2>1, <3>1
      <3>3. \A s \in Tasks \ {t} :
              Billing(s)' => khpay'[tasks'[s].txn].state = "open"
        BY <2>1, <2>2, <3>1 DEF PaymentsAgree, OneCheckoutPerBill
      <3>4. ASSUME NEW s \in Tasks, NEW other \in Tasks \ {s}, Billing(s)', Billing(other)'
            PROVE  tasks'[other].txn # tasks'[s].txn
        <4>1. CASE s = t \/ other = t
          BY <3>1, <3>2, <3>4, <4>1
        <4>2. CASE s # t /\ other # t
          BY <3>1, <3>4, <4>2 DEF PaymentsAgree, OneCheckoutPerBill
        <4> QED
          BY <4>1, <4>2
      <3> QED
        BY <2>2, <3>1, <3>3, <3>4 DEF OneCheckoutPerBill
    <2>4. CASE Finish(t)
      <3>1. \A s \in Tasks : Billing(s)' => tasks'[s] = tasks[s]
        BY <2>4, FinishChangesOne DEF Idle
      <3> QED
        BY <1>1, <2>1, <2>2, <3>1
    <2> QED
      BY <1>5, <2>3, <2>4 DEF IssueBill
  <1>6. ASSUME NEW t \in Tasks, NEW x \in Txns, StartVerify(t, x) \/ StartWebhook(t, x)
        PROVE  OneCheckoutPerBill'
    <2>1. khpay' = khpay /\ Goto(t, Confirm(x))
      BY <1>6 DEF StartVerify, StartWebhook
    <2>2. \A s \in Tasks : Billing(s)' => tasks'[s] = tasks[s]
      BY <2>1, GotoChangesOne DEF Confirm
    <2> QED
      BY <1>1, <2>1, <2>2
  <1>7. ASSUME NEW x \in Txns, Pay(x)
        PROVE  OneCheckoutPerBill'
    <2>1. \A s \in Tasks : Billing(s) => tasks[s].txn \in Txns \ {x}
      BY <1>7, RequestKinds DEF Pay, PaymentsAgree, OneCheckoutPerBill
    <2>2. \A y \in Txns \ {x} : khpay'[y] = khpay[y]
      BY <1>7 DEF Pay, TypeOK
    <2> QED
      BY <1>1, <1>7, <2>1, <2>2 DEF Pay
  <1>8. ASSUME Restart
        PROVE  OneCheckoutPerBill'
    BY <1>8 DEF Restart, Idle, OneCheckoutPerBill
  <1>9. ASSUME Tick \/ UNCHANGED vars
        PROVE  OneCheckoutPerBill'
    BY <1>1, <1>9 DEF Tick, vars
  <1> QED
    BY <1>2, <1>3, <1>4, <1>5, <1>6, <1>7, <1>8, <1>9
    DEF Next, Handle, MeteredStep, Crash, CrashInActivation

(***************************************************************************)
(* A row is sound when its usage is within its caps and its plan, if it is *)
(* a paid one, was bought.  Every copy of every row stays sound.           *)
(***************************************************************************)
Bought(u, row, bills, acts) ==
    \E x \in Txns :
        /\ bills[x].state = "settled"
        /\ bills[x].user = u
        /\ bills[x].plan = row.plan
        /\ row.expires - PeriodLength \in acts[x]

Sound(u, row, bills, acts) ==
    /\ WithinCaps(row)
    /\ row.plan \in PaidPlans => Bought(u, row, bills, acts)

StoreSound(store, bills, acts) ==
    \A u \in Users : Sound(u, store[u], bills, acts)

RequestSound(request, bills, acts) ==
    request.at \in {"ready", "card"} =>
        Sound(request.user, request.row, bills, acts)

RowsAreSound ==
    /\ StoreSound(users, khpay, activations)
    /\ StoreSound(usersFile, khpay, activations)
    /\ \A t \in Tasks : RequestSound(tasks[t], khpay, activations)

LEMMA RowsSoundness ==
    ASSUME RowsAreSound
    PROVE  PaidPlansArePaidFor /\ UsageWithinCaps
  <1>1. ASSUME NEW u \in Users, NEW row \in Copies(u)
        PROVE  Sound(u, row, khpay, activations)
    BY <1>1 DEF Copies, Holding, RowsAreSound, StoreSound, RequestSound
  <1> QED
    BY <1>1 DEF PaidPlansArePaidFor, UsageWithinCaps, PaidFor, Sound, Bought

LEMMA SoundLasts ==
    ASSUME Lasting, NEW u \in Users, NEW row, Sound(u, row, khpay, activations)
    PROVE  Sound(u, row, khpay', activations')
  <1>1. SUFFICES ASSUME row.plan \in PaidPlans
                 PROVE  Bought(u, row, khpay', activations')
    BY DEF Sound
  <1>2. PICK x \in Txns :
            /\ khpay[x].state = "settled"
            /\ khpay[x].user = u
            /\ khpay[x].plan = row.plan
            /\ row.expires - PeriodLength \in activations[x]
    BY <1>1 DEF Sound, Bought
  <1>3. khpay[x] # NoBill
    BY <1>2 DEF NoBill
  <1> QED
    BY <1>2, <1>3 DEF Lasting, Bought

LEMMA RowsLast ==
    ASSUME TypeOK, RowsAreSound, Lasting
    PROVE  /\ StoreSound(users, khpay', activations')
           /\ StoreSound(usersFile, khpay', activations')
           /\ \A t \in Tasks : RequestSound(tasks[t], khpay', activations')
  <1>1. \A t \in Tasks : RequestSound(tasks[t], khpay', activations')
    BY RequestKinds, SoundLasts DEF RowsAreSound, RequestSound
  <1> QED
    BY <1>1, SoundLasts DEF RowsAreSound, StoreSound

(***************************************************************************)
(* The plan rules take a sound row to a sound row.                         *)
(***************************************************************************)
LEMMA SamePlanIsSound ==
    ASSUME NEW u, NEW row, NEW other, NEW bills, NEW acts,
           Sound(u, row, bills, acts), WithinCaps(other),
           other.plan = FreePlan \/ SamePlan(other, row)
    PROVE  Sound(u, other, bills, acts)
  BY FreeIsNotSold DEF Sound, Bought, SamePlan

LEMMA EnforceIsSound ==
    ASSUME NEW u, NEW row \in UserRow, NEW when \in Nat, NEW bills, NEW acts,
           Sound(u, row, bills, acts)
    PROVE  Sound(u, Enforce(row, when), bills, acts)
  BY SamePlanIsSound, EnforceGrantsNothing, EnforceKeepsCaps DEF Sound

LEMMA ConsumeManyIsSound ==
    ASSUME NEW u, NEW row \in UserRow, NEW when \in Nat, NEW count \in Nat,
           NEW bills, NEW acts, Sound(u, row, bills, acts)
    PROVE  Sound(u, ConsumeMany(row, count, when).row, bills, acts)
  <1> DEFINE spent == ConsumeMany(row, count, when).row
  <1>1. SamePlan(spent, Enforce(row, when)) /\ WithinCaps(spent)
    BY ConsumeManyIsSafe DEF Sound
  <1>2. Sound(u, Enforce(row, when), bills, acts)
    BY EnforceIsSound
  <1> QED
    BY <1>1, <1>2, SamePlanIsSound

(***************************************************************************)
(* Saving a sound row keeps both copies of the registry sound.             *)
(***************************************************************************)
LEMMA SaveUserIsSound ==
    ASSUME TypeOK, NEW u \in Users, NEW row, NEW bills, NEW acts,
           SaveUser(u, row), Sound(u, row, bills, acts),
           StoreSound(users, bills, acts), StoreSound(usersFile, bills, acts)
    PROVE  StoreSound(users', bills, acts) /\ StoreSound(usersFile', bills, acts)
  <1>1. /\ users' = [users EXCEPT ![u] = row]
        /\ usersFile' \in {usersFile, users'}
    BY DEF SaveUser, Written
  <1> QED
    BY <1>1 DEF StoreSound, TypeOK

(***************************************************************************)
(* Every step keeps every row sound.  The rows a handler writes back after *)
(* an await are as old as its request, so the invariant speaks of them     *)
(* too: that a captured row is sound is what makes saving it sound.        *)
(***************************************************************************)
LEMMA RowsStep ==
    ASSUME TypeOK, TypeOK', PaymentsAgree, RowsAreSound, Lasting, [Next]_vars
    PROVE  RowsAreSound'
  <1> USE DEF stores
  <1> DEFINE StoresSound == /\ StoreSound(users', khpay', activations')
                            /\ StoreSound(usersFile', khpay', activations')
             Kept(request) == RequestSound(request, khpay', activations')
  <1>1. /\ StoreSound(users, khpay', activations')
        /\ StoreSound(usersFile, khpay', activations')
        /\ \A s \in Tasks : Kept(tasks[s])
    BY RowsLast
  <1>2. SUFFICES StoresSound /\ \A s \in Tasks : Kept(tasks'[s])
    BY DEF RowsAreSound
  <1>3. ASSUME NEW t \in Tasks, NEW r, Goto(t, r), Kept(r)
        PROVE  \A s \in Tasks : Kept(tasks'[s])
    BY <1>1, <1>3, GotoChangesOne
  <1>4. ASSUME NEW t \in Tasks, Finish(t)
        PROVE  \A s \in Tasks : Kept(tasks'[s])
    BY <1>3, <1>4 DEF Finish, Idle, RequestSound
  <1>5. ASSUME NEW t \in Tasks, tasks[t].at \in {"ready", "card"}
        PROVE  /\ tasks[t].user \in Users
               /\ tasks[t].row \in UserRow
               /\ Sound(tasks[t].user, tasks[t].row, khpay', activations')
    BY <1>1, <1>5, RequestKinds DEF RequestSound
  <1>6. ASSUME NEW u \in Users, NEW row, SaveUser(u, row),
               Sound(u, row, khpay', activations')
        PROVE  StoresSound
    BY <1>1, <1>6, SaveUserIsSound
  <1>7. ASSUME UNCHANGED << users, usersFile >>
        PROVE  StoresSound
    BY <1>1, <1>7
  <1>8. now \in Nat
    BY DEF TypeOK
  <1>9. ASSUME NEW t \in Tasks, NEW u \in Users, Authenticate(t, u)
        PROVE  StoresSound /\ \A s \in Tasks : Kept(tasks'[s])
    <2>1. Kept([at |-> "ready", user |-> u, row |-> users[u]])
      BY <1>1 DEF StoreSound, RequestSound
    <2> QED
      BY <1>3, <1>7, <1>9, <2>1 DEF Authenticate
  <1>10. ASSUME NEW t \in Tasks, Analyse(t)
         PROVE  StoresSound /\ \A s \in Tasks : Kept(tasks'[s])
    <2>1. PICK count \in Batches :
            SaveUser(tasks[t].user, ConsumeMany(tasks[t].row, count, now).row)
      BY <1>10 DEF Analyse
    <2>2. count \in Nat
      BY BoundsAssumption
    <2>3. Sound(tasks[t].user, ConsumeMany(tasks[t].row, count, now).row, khpay', activations')
      BY <1>5, <1>8, <1>10, <2>2, ConsumeManyIsSound DEF Analyse
    <2> QED
      BY <1>4, <1>5, <1>6, <1>10, <2>1, <2>3 DEF Analyse
  <1>11. ASSUME NEW t \in Tasks, CheckCard(t)
         PROVE  StoresSound /\ \A s \in Tasks : Kept(tasks'[s])
    <2> DEFINE u == tasks[t].user
               checked == Check(tasks[t].row, 1, now)
    <2>1. u \in Users /\ Sound(u, checked.row, khpay', activations')
      BY <1>5, <1>8, <1>11, EnforceIsSound, CheckReturnsEnforced DEF CheckCard
    <2>2. Kept([at |-> "card", user |-> u, row |-> checked.row])
      BY <2>1 DEF RequestSound
    <2>3. \/ Goto(t, [at |-> "card", user |-> u, row |-> checked.row])
          \/ Finish(t)
      BY <1>11 DEF CheckCard
    <2>4. SaveUser(u, checked.row)
      BY <1>11 DEF CheckCard
    <2> QED
      BY <1>3, <1>4, <1>6, <2>1, <2>2, <2>3, <2>4
  <1>12. ASSUME NEW t \in Tasks, ChargeCard(t)
         PROVE  StoresSound /\ \A s \in Tasks : Kept(tasks'[s])
    <2>1. SaveUser(tasks[t].user, ConsumeMany(tasks[t].row, 1, now).row)
      BY <1>12 DEF ChargeCard
    <2>2. Sound(tasks[t].user, ConsumeMany(tasks[t].row, 1, now).row, khpay', activations')
      BY <1>5, <1>8, <1>12, ConsumeManyIsSound DEF ChargeCard
    <2> QED
      BY <1>4, <1>5, <1>6, <1>12, <2>1, <2>2 DEF ChargeCard
  <1>13. ASSUME NEW t \in Tasks, ViewPlan(t)
         PROVE  StoresSound /\ \A s \in Tasks : Kept(tasks'[s])
    <2>1. Sound(tasks[t].user, Enforce(tasks[t].row, now), khpay', activations')
      BY <1>5, <1>8, <1>13, EnforceIsSound DEF ViewPlan
    <2>2. \/ SaveUser(tasks[t].user, Enforce(tasks[t].row, now))
          \/ UNCHANGED << users, usersFile >>
      BY <1>13 DEF ViewPlan
    <2>3. StoresSound
      BY <1>5, <1>6, <1>7, <1>13, <2>1, <2>2 DEF ViewPlan
    <2> QED
      BY <1>4, <1>13, <2>3 DEF ViewPlan
  <1>14. ASSUME NEW t \in Tasks, StartCheckout(t)
         PROVE  StoresSound /\ \A s \in Tasks : Kept(tasks'[s])
    <2>1. PICK plan \in PaidPlans :
            Goto(t, [at |-> "checkout", user |-> tasks[t].user, plan |-> plan])
      BY <1>14 DEF StartCheckout
    <2>2. Kept([at |-> "checkout", user |-> tasks[t].user, plan |-> plan])
      BY DEF RequestSound
    <2> QED
      BY <1>3, <1>7, <1>14, <2>1, <2>2 DEF StartCheckout
  <1>15. ASSUME NEW t \in Tasks, NEW x \in Txns, IssueBill(t, x)
         PROVE  StoresSound /\ \A s \in Tasks : Kept(tasks'[s])
    <2> DEFINE r == [at |-> "billed", user |-> tasks[t].user,
                     plan |-> tasks[t].plan, txn |-> x]
    <2>1. Kept(r)
      BY DEF RequestSound
    <2>2. Goto(t, r) \/ Finish(t)
      BY <1>15 DEF IssueBill
    <2> QED
      BY <1>3, <1>4, <1>7, <1>15, <2>1, <2>2 DEF IssueBill
  <1>16. ASSUME NEW t \in Tasks, NEW x \in Txns, StartVerify(t, x) \/ StartWebhook(t, x)
         PROVE  StoresSound /\ \A s \in Tasks : Kept(tasks'[s])
    <2>1. Kept(Confirm(x))
      BY DEF RequestSound, Confirm
    <2> QED
      BY <1>3, <1>7, <1>16, <2>1 DEF StartVerify, StartWebhook
  <1>17. ASSUME NEW t \in Tasks, Confirmed(t)
         PROVE  StoresSound /\ \A s \in Tasks : Kept(tasks'[s])
    <2> DEFINE x == tasks[t].txn
               u == tasks[t].user
               row == Activate(tasks[t].plan, now)
    <2>1. /\ u \in Users /\ tasks[t].plan \in PaidPlans /\ x \in Txns
          /\ khpay'[x] = khpay[x] /\ khpay[x].state = "settled"
      BY <1>17, RequestKinds DEF Confirmed
    <2>2. khpay[x].user = u /\ khpay[x].plan = tasks[t].plan
      BY <1>17 DEF Confirmed, PaymentsAgree, RequestsMatchKhpay
    <2>3. now \in activations'[x]
      BY <1>17, <2>1 DEF Confirmed, TypeOK
    <2>4. Bought(u, row, khpay', activations') /\ WithinCaps(row)
      BY <1>8, <2>1, <2>2, <2>3, ActivateIsRow DEF Bought
    <2>5. Sound(u, row, khpay', activations')
      BY <2>4 DEF Sound
    <2>6. users' = [users EXCEPT ![u] = row] /\ usersFile' \in {usersFile, users'}
      BY <1>17 DEF Confirmed, Written
    <2>7. StoresSound
      BY <1>1, <2>1, <2>5, <2>6 DEF StoreSound, TypeOK
    <2> QED
      BY <1>4, <1>17, <2>7 DEF Confirmed
  <1>18. ASSUME NEW t \in Tasks,
                \/ FailCard(t) \/ FailCheckout(t) \/ RecordPayment(t)
                \/ Unconfirmed(t) \/ Answer(t)
         PROVE  StoresSound /\ \A s \in Tasks : Kept(tasks'[s])
    BY <1>4, <1>7, <1>18
    DEF FailCard, FailCheckout, RecordPayment, Unconfirmed, Answer
  <1>19. ASSUME NEW x \in Txns, Pay(x)
         PROVE  StoresSound /\ \A s \in Tasks : Kept(tasks'[s])
    BY <1>1, <1>19 DEF Pay
  <1>20. ASSUME Restart
         PROVE  StoresSound /\ \A s \in Tasks : Kept(tasks'[s])
    BY <1>1, <1>20 DEF Restart, RequestSound, Idle
  <1>21. ASSUME Tick \/ UNCHANGED vars
         PROVE  StoresSound /\ \A s \in Tasks : Kept(tasks'[s])
    BY <1>1, <1>21 DEF Tick, vars
  <1> QED
    BY <1>9, <1>10, <1>11, <1>12, <1>13, <1>14, <1>15, <1>16, <1>17, <1>18, <1>19,
       <1>20, <1>21 DEF Next, Handle, Crash, CrashInActivation

----------------------------------------------------------------------------
(* The invariant, and what follows from it *)

IInv == TypeOK /\ PaymentsAgree /\ RowsAreSound

LEMMA InitTypes ==
    ASSUME Init
    PROVE  TypeOK
  BY NewRowIsRow DEF Init, TypeOK

LEMMA InitAgrees ==
    ASSUME Init
    PROVE  PaymentsAgree /\ RowsAreSound
  <1>1. PaymentsAgree
    BY DEF Init, PaymentsAgree, LedgerMatchesKhpay, RequestsMatchKhpay,
           OneCheckoutPerBill, Idle, NoPayment
  <1>2. ASSUME NEW u \in Users
        PROVE  Sound(u, NewRow(0), khpay, activations)
    BY NewRowIsRow, FreeIsNotSold DEF Sound
  <1>3. RowsAreSound
    BY <1>2 DEF Init, RowsAreSound, StoreSound, RequestSound, Idle
  <1> QED
    BY <1>1, <1>3

(***************************************************************************)
(* The invariant is inductive: it holds of every state of every behaviour. *)
(***************************************************************************)
THEOREM InvariantHolds == Spec => []IInv
  <1>1. Init => IInv
    BY InitTypes, InitAgrees DEF IInv
  <1>2. IInv /\ [Next]_vars => IInv'
    <2> SUFFICES ASSUME IInv, [Next]_vars
                 PROVE  IInv'
      OBVIOUS
    <2>1. TypeOK /\ PaymentsAgree /\ RowsAreSound
      BY DEF IInv
    <2>2. TypeOK'
      BY <2>1, TypeStep DEF PaymentsAgree
    <2>3. Lasting
      BY <2>1, KhpayLasts DEF PaymentsAgree
    <2>4. PaymentsAgree'
      BY <2>1, <2>3, LedgerStep, RequestsStep, CheckoutStep DEF PaymentsAgree
    <2>5. RowsAreSound'
      BY <2>1, <2>2, <2>3, RowsStep
    <2> QED
      BY <2>2, <2>4, <2>5 DEF IInv
  <1> QED
    BY <1>1, <1>2, PTL DEF Spec

(***************************************************************************)
(* Every variable keeps its type.                                          *)
(***************************************************************************)
THEOREM TypeCorrect == Spec => []TypeOK
  <1>1. IInv => TypeOK
    BY DEF IInv
  <1> QED
    BY <1>1, InvariantHolds, PTL

(***************************************************************************)
(* What billing.py holds of a payment is what Khpay holds of it, in memory *)
(* and in the file, whatever confirmations race, fail or are cut short.    *)
(***************************************************************************)
THEOREM LedgerCorrect == Spec => []LedgerMatchesKhpay
  <1>1. IInv => LedgerMatchesKhpay
    BY DEF IInv, PaymentsAgree
  <1> QED
    BY <1>1, InvariantHolds, PTL

(***************************************************************************)
(* No account ever has a paid plan, or a term of it, it did not pay for.   *)
(***************************************************************************)
THEOREM PaidPlansCorrect == Spec => []PaidPlansArePaidFor
  <1>1. IInv => PaidPlansArePaidFor
    BY RowsSoundness DEF IInv
  <1> QED
    BY <1>1, InvariantHolds, PTL

(***************************************************************************)
(* No copy of a row claims more usage than the row's own plan allows.      *)
(***************************************************************************)
THEOREM UsageCorrect == Spec => []UsageWithinCaps
  <1>1. IInv => UsageWithinCaps
    BY RowsSoundness DEF IInv
  <1> QED
    BY <1>1, InvariantHolds, PTL

----------------------------------------------------------------------------
(* One request at a time *)

(***************************************************************************)
(* A fresh window makes room, and so does a downgrade: enforcing a row that *)
(* has room for an analysis leaves room for one.                           *)
(***************************************************************************)
LEMMA EnforceKeepsRoom ==
    ASSUME NEW row \in UserRow, NEW when \in Nat, ~QuotaRefusal(row, 1),
           DailyLimit[FreePlan] # 0, MonthlyLimit[FreePlan] # 0
    PROVE  ~QuotaRefusal(Enforce(row, when), 1)
  <1> DEFINE down == Downgrade(row, when)
             rolled == RollPeriod(down, when)
  <1>1. down \in UserRow /\ rolled \in UserRow
    BY DowngradeIsRow, RollPeriodIsRow
  <1>2. ~QuotaRefusal(down, 1)
    <2>1. CASE Expired(row, when)
      <3>1. down.plan = FreePlan /\ down.used = 0 /\ down.usedToday = 0
        BY <2>1 DEF Downgrade
      <3>2. FreePlan \in Plans
        BY DEF Plans
      <3>3. /\ DailyLimit[FreePlan] \in Nat \cup {Unlimited}
            /\ MonthlyLimit[FreePlan] \in Nat \cup {Unlimited}
        BY <3>2, LimitsAssumption
      <3> QED
        BY <3>1, <3>3 DEF QuotaRefusal, Exceeds, Unlimited
    <2>2. CASE ~Expired(row, when)
      BY <2>2 DEF Downgrade
    <2> QED
      BY <2>1, <2>2
  <1>3. ~QuotaRefusal(rolled, 1)
    <2>1. /\ rolled.plan = down.plan /\ rolled.usedToday = down.usedToday
          /\ rolled.used \in {0, down.used}
      BY <1>1 DEF RollPeriod, UserRow
    <2>2. /\ down.used \in Nat /\ down.plan \in Plans
          /\ MonthlyLimit[down.plan] \in Nat \cup {Unlimited}
      BY <1>1, LimitsAssumption DEF UserRow
    <2> QED
      BY <1>2, <2>1, <2>2 DEF QuotaRefusal, Exceeds, Unlimited
  <1>4. ~QuotaRefusal(RollDay(rolled, when), 1)
    <2> DEFINE last == RollDay(rolled, when)
    <2>1. /\ last.plan = rolled.plan /\ last.used = rolled.used
          /\ last.usedToday \in {0, rolled.usedToday}
      BY <1>1 DEF RollDay, UserRow
    <2>2. /\ rolled.usedToday \in Nat /\ rolled.plan \in Plans
          /\ DailyLimit[rolled.plan] \in Nat \cup {Unlimited}
      BY <1>1, LimitsAssumption DEF UserRow
    <2> HIDE DEF last
    <2>3. ~QuotaRefusal(last, 1)
      BY <1>3, <2>1, <2>2 DEF QuotaRefusal, Exceeds, Unlimited
    <2> QED
      BY <2>3 DEF last
  <1> QED
    BY <1>4 DEF Enforce

(***************************************************************************)
(* plans.enforce ends a plan exactly when its term is over, and resets a   *)
(* counter only when its window is over or the plan ends.                  *)
(***************************************************************************)
LEMMA EnforceEndsTerms ==
    ASSUME NEW row \in UserRow, NEW when \in Nat
    PROVE  /\ Expired(row, when) =>
                Enforce(row, when).plan = FreePlan /\ Enforce(row, when).expires = Never
           /\ ~Expired(row, when) => SamePlan(Enforce(row, when), row)
  <1> DEFINE down == Downgrade(row, when)
             rolled == RollPeriod(down, when)
  <1>1. down \in UserRow /\ rolled \in UserRow
    BY DowngradeIsRow, RollPeriodIsRow
  <1>2. SamePlan(rolled, down)
    BY <1>1 DEF SamePlan, RollPeriod, UserRow
  <1>3. SamePlan(RollDay(rolled, when), rolled)
    BY <1>1 DEF SamePlan, RollDay, UserRow
  <1>4. Expired(row, when) => down.plan = FreePlan /\ down.expires = Never
    BY DEF Downgrade
  <1>5. ~Expired(row, when) => down = row
    BY DEF Downgrade
  <1> QED
    BY <1>2, <1>3, <1>4, <1>5 DEF SamePlan, Enforce

LEMMA AdvanceSkipsPeriods ==
    ASSUME NEW start \in Nat, NEW when \in Nat, AdvancePeriod(start, when) # start
    PROVE  start + PeriodLength <= when
  <1>1. when - start \in Nat /\ when >= start
    BY DEF AdvancePeriod
  <1>2. (when - start) % PeriodLength # when - start
    BY <1>1 DEF AdvancePeriod
  <1>3. PeriodLength \in Nat \ {0}
    BY PeriodIsPositive
  <1>4. ~(when - start < PeriodLength)
    <2> DEFINE gap == when - start
    <2>1. ASSUME NEW n \in Nat \ {0}, NEW a \in Nat, a < n
          PROVE  a % n = a
      BY <2>1
    <2>2. gap \in Nat /\ gap % PeriodLength # gap
      BY <1>1, <1>2
    <2> HIDE DEF gap
    <2>3. ~(gap < PeriodLength)
      BY <1>3, <2>1, <2>2
    <2> QED
      BY <2>3 DEF gap
  <1> QED
    BY <1>1, <1>3, <1>4

LEMMA EnforceResetsInTime ==
    ASSUME NEW row \in UserRow, NEW when \in Nat
    PROVE  /\ Enforce(row, when).usedToday < row.usedToday =>
                Expired(row, when) \/ UtcMidnight(row.dayStart) < UtcMidnight(when)
           /\ Enforce(row, when).used < row.used =>
                Expired(row, when) \/ row.periodStart + PeriodLength <= when
  <1> DEFINE rolled == RollPeriod(row, when)
             last == RollDay(rolled, when)
  <1> SUFFICES ASSUME ~Expired(row, when)
               PROVE  /\ last.usedToday < row.usedToday =>
                            UtcMidnight(row.dayStart) < UtcMidnight(when)
                      /\ last.used < row.used => row.periodStart + PeriodLength <= when
    BY DEF Enforce, Downgrade
  <1>1. rolled \in UserRow
    BY RollPeriodIsRow
  <1>2. /\ rolled.usedToday = row.usedToday /\ rolled.dayStart = row.dayStart
        /\ rolled.used = row.used \/ AdvancePeriod(row.periodStart, when) # row.periodStart
    BY DEF RollPeriod, UserRow
  <1>3. /\ last.used = rolled.used
        /\ \/ last.usedToday = rolled.usedToday
           \/ UtcMidnight(rolled.dayStart) < UtcMidnight(when)
    BY <1>1 DEF RollDay, UserRow
  <1>4. row.periodStart \in Nat /\ row.used \in Nat /\ row.usedToday \in Nat
    BY DEF UserRow
  <1> HIDE DEF rolled, last
  <1> QED
    BY <1>2, <1>3, <1>4, AdvanceSkipsPeriods

LEMMA ConsumeManySpends ==
    ASSUME NEW row \in UserRow, NEW when \in Nat, NEW count \in Nat,
           ~QuotaRefusal(Enforce(row, when), count)
    PROVE  /\ ConsumeMany(row, count, when).allowed
           /\ ConsumeMany(row, count, when).row =
                [Enforce(row, when) EXCEPT !.used = @ + count, !.usedToday = @ + count]
  BY CheckReturnsEnforced DEF ConsumeMany

LEMMA ConsumeManyRefuses ==
    ASSUME NEW row \in UserRow, NEW when \in Nat, NEW count \in Nat,
           QuotaRefusal(Enforce(row, when), count)
    PROVE  /\ ~ConsumeMany(row, count, when).allowed
           /\ ConsumeMany(row, count, when).row = Enforce(row, when)
  BY CheckReturnsEnforced DEF ConsumeMany

LEMMA OneIsSpent ==
    ASSUME NEW row \in UserRow, NEW when \in Nat, ~QuotaRefusal(Enforce(row, when), 1)
    PROVE  ConsumeMany(row, 1, when).row =
             [Enforce(row, when) EXCEPT !.used = @ + 1, !.usedToday = @ + 1]
  <1>1. PICK n \in Nat : n = 1
    OBVIOUS
  <1>2. ~QuotaRefusal(Enforce(row, when), n)
    BY <1>1
  <1>3. ConsumeMany(row, n, when).row =
             [Enforce(row, when) EXCEPT !.used = @ + n, !.usedToday = @ + n]
    BY <1>2, ConsumeManySpends
  <1> QED
    BY <1>1, <1>3

(***************************************************************************)
(* While requests come one at a time, what a request holds of a row is     *)
(* what is stored, and a card is on its way only if it can be charged.     *)
(***************************************************************************)
OneAtATime == \A s, t \in Tasks : s = t

FreePlanServes == DailyLimit[FreePlan] # 0 /\ MonthlyLimit[FreePlan] # 0

CopiesAreCurrent ==
    \A t \in Tasks :
        /\ Holding(t) => tasks[t].row = users[tasks[t].user]
        /\ tasks[t].at = "card" => ~QuotaRefusal(tasks[t].row, 1)

\* A payment is activated when it is marked paid, and never again.
MarkedIsActivated ==
    \A x \in Txns :
        IF payments[x].status = "paid"
        THEN \E tick \in Nat : tick <= now /\ activations[x] = {tick}
        ELSE activations[x] = {}

ConfirmingIsPending ==
    \A t \in Tasks :
        tasks[t].at = "confirming" => payments[tasks[t].txn].status = "pending"

\* The customer of x has the plan of y, for as long as y bought it.
Bears(y, x) ==
    /\ payments[y] # NoPayment
    /\ payments[y].user = payments[x].user
    /\ users[payments[x].user].plan = payments[y].plan
    /\ \E late \in activations[y] :
        /\ users[payments[x].user].expires = late + PeriodLength
        /\ \A early \in activations[x] : early <= late

TermIsOver(x) == \E tick \in activations[x] : tick + PeriodLength <= now

MarkedIsHonoured ==
    \A x \in Txns :
        payments[x].status = "paid" => TermIsOver(x) \/ \E y \in Txns : Bears(y, x)

SerialInv ==
    CopiesAreCurrent /\ MarkedIsActivated /\ ConfirmingIsPending /\ MarkedIsHonoured

(***************************************************************************)
(* What a step can do to accounts and payments: charge an account some     *)
(* analyses on its enforced row, activate a payment, bring a payment from  *)
(* one stage to the next, or wait.                                         *)
(***************************************************************************)
Spends(u, n) ==
    LET base == Enforce(users[u], now)
    IN  /\ \A w \in Users \ {u} : users'[w] = users[w] /\ served'[w] = served[w]
        /\ SamePlan(users'[u], base)
        /\ users'[u].used = base.used + n
        /\ users'[u].usedToday = base.usedToday + n
        /\ served'[u] = served[u] + n
        /\ UNCHANGED << now, payments, khpay, activations >>

Activates(t) ==
    LET x == tasks[t].txn
    IN  /\ x \in Txns /\ tasks[t].user \in Users /\ tasks[t].plan \in PaidPlans
        /\ payments[x] \in Payment /\ payments[x].status = "pending"
        /\ khpay[x].state = "settled"
        /\ payments[x].user = tasks[t].user /\ payments[x].plan = tasks[t].plan
        /\ khpay[x] # NoBill
        /\ khpay[x].user = tasks[t].user /\ khpay[x].plan = tasks[t].plan
        /\ payments' = Marked(x)
        /\ users' = [users EXCEPT ![tasks[t].user] = Activate(tasks[t].plan, now)]
        /\ activations' = [activations EXCEPT ![x] = @ \cup {now}]
        /\ UNCHANGED << now, khpay, served >>

Bills(x) ==
    /\ khpay[x] = NoBill
    /\ \E u \in Users, p \in PaidPlans :
        khpay' = [khpay EXCEPT ![x] = [user |-> u, plan |-> p, state |-> "open"]]
    /\ UNCHANGED << now, users, served, activations, payments >>

Records(x) ==
    /\ khpay[x] \in Bill /\ khpay[x].state = "open"
    /\ khpay' = [khpay EXCEPT ![x].state = "shown"]
    /\ \E p \in Payment : p.status = "pending" /\ payments' = [payments EXCEPT ![x] = p]
    /\ UNCHANGED << now, users, served, activations >>

Settles(x) ==
    /\ khpay[x] \in Bill /\ khpay[x].state = "shown"
    /\ khpay' = [khpay EXCEPT ![x].state = "settled"]
    /\ UNCHANGED << now, users, served, activations, payments >>

Waits ==
    /\ now' \in {now, now + 1}
    /\ UNCHANGED << users, served, activations, payments, khpay >>

Serial == OneAtATime /\ MaxCrashes = 0 /\ TypeOK /\ PaymentsAgree /\ SerialInv

LEMMA SavedRow ==
    ASSUME TypeOK, NEW u \in Users, NEW row, SaveUser(u, row)
    PROVE  users' = [users EXCEPT ![u] = row] /\ users'[u] = row
           /\ \A w \in Users \ {u} : users'[w] = users[w]
  BY DEF SaveUser, TypeOK

LEMMA SpentRow ==
    ASSUME TypeOK, NEW u \in Users, NEW n \in Nat,
           SaveUser(u, [Enforce(users[u], now) EXCEPT !.used = @ + n, !.usedToday = @ + n]),
           served' = [served EXCEPT ![u] = @ + n],
           UNCHANGED << now, payments, khpay, activations >>
    PROVE  Spends(u, n)
  <1> DEFINE base == Enforce(users[u], now)
             row == [base EXCEPT !.used = @ + n, !.usedToday = @ + n]
  <1>1. base \in UserRow
    BY EnforceIsRow DEF TypeOK
  <1>2. users'[u] = row /\ \A w \in Users \ {u} : users'[w] = users[w]
    BY SavedRow
  <1>3. served'[u] = served[u] + n /\ \A w \in Users \ {u} : served'[w] = served[w]
    BY DEF TypeOK
  <1> HIDE DEF base
  <1>4. SamePlan(row, base) /\ row.used = base.used + n /\ row.usedToday = base.usedToday + n
    BY <1>1 DEF SamePlan, UserRow
  <1> HIDE DEF row
  <1> QED
    BY <1>2, <1>3, <1>4 DEF Spends, base

LEMMA EnforcedRow ==
    ASSUME TypeOK, NEW u \in Users, SaveUser(u, Enforce(users[u], now)),
           UNCHANGED << now, payments, khpay, activations, served >>
    PROVE  Spends(u, 0)
  <1> DEFINE base == Enforce(users[u], now)
  <1>1. base \in UserRow
    BY EnforceIsRow DEF TypeOK
  <1>2. users'[u] = base /\ \A w \in Users \ {u} : users'[w] = users[w]
    BY SavedRow
  <1>3. base.used \in Nat /\ base.usedToday \in Nat /\ served[u] \in Nat
    BY <1>1 DEF UserRow, TypeOK
  <1>4. base.used + 0 = base.used /\ base.usedToday + 0 = base.usedToday
        /\ served[u] + 0 = served[u]
    BY <1>3
  <1> HIDE DEF base
  <1> QED
    BY <1>2, <1>4 DEF Spends, SamePlan, base

LEMMA MeteredIsSpending ==
    ASSUME Serial, NEW t \in Tasks, Analyse(t) \/ CheckCard(t) \/ ViewPlan(t)
    PROVE  (\E u \in Users, n \in Nat : Spends(u, n)) \/ Waits
  <1> DEFINE u == tasks[t].user
  <1>1. /\ TypeOK /\ tasks[t].at = "ready" /\ u \in Users
        /\ tasks[t].row = users[u] /\ users[u] \in UserRow /\ now \in Nat
    BY RequestKinds
    DEF Serial, SerialInv, CopiesAreCurrent, Holding, Analyse, CheckCard, ViewPlan, TypeOK
  <1>2. CASE Analyse(t)
    <2>1. PICK count \in Batches :
            /\ SaveUser(u, ConsumeMany(users[u], count, now).row)
            /\ served' = IF ConsumeMany(users[u], count, now).allowed
                         THEN [served EXCEPT ![u] = @ + count]
                         ELSE served
      BY <1>1, <1>2 DEF Analyse
    <2>2. count \in Nat
      BY BoundsAssumption
    <2>3. UNCHANGED << now, payments, khpay, activations >>
      BY <1>2 DEF Analyse
    <2>4. CASE QuotaRefusal(Enforce(users[u], now), count)
      BY <1>1, <2>1, <2>2, <2>3, <2>4, ConsumeManyRefuses, EnforcedRow
    <2>5. CASE ~QuotaRefusal(Enforce(users[u], now), count)
      <3>1. /\ SaveUser(u, [Enforce(users[u], now) EXCEPT !.used = @ + count,
                                                          !.usedToday = @ + count])
            /\ served' = [served EXCEPT ![u] = @ + count]
        BY <1>1, <2>1, <2>2, <2>5, ConsumeManySpends
      <3>2. Spends(u, count)
        BY <1>1, <2>2, <2>3, <3>1, SpentRow
      <3> QED
        BY <1>1, <2>2, <3>2
    <2> QED
      BY <2>4, <2>5
  <1>3. CASE CheckCard(t)
    <2>1. SaveUser(u, Enforce(users[u], now))
      BY <1>1, <1>3, CheckReturnsEnforced DEF CheckCard
    <2>2. UNCHANGED << now, payments, khpay, activations, served >>
      BY <1>3 DEF CheckCard
    <2> QED
      BY <1>1, <2>1, <2>2, EnforcedRow
  <1>4. CASE ViewPlan(t)
    <2>1. UNCHANGED << now, khpay, activations, served >>
      BY <1>4 DEF ViewPlan
    <2>2. CASE UNCHANGED stores
      BY <2>1, <2>2 DEF Waits, stores
    <2>3. CASE SaveUser(u, Enforce(users[u], now)) /\ UNCHANGED << payments, paymentsFile >>
      BY <1>1, <2>1, <2>3, EnforcedRow
    <2> QED
      BY <1>1, <1>4, <2>2, <2>3 DEF ViewPlan
  <1> QED
    BY <1>2, <1>3, <1>4

LEMMA ChargeIsSpending ==
    ASSUME Serial, FreePlanServes, NEW t \in Tasks, ChargeCard(t)
    PROVE  \E u \in Users : Spends(u, 1)
  <1> DEFINE u == tasks[t].user
  <1>1. /\ TypeOK /\ tasks[t].at = "card" /\ u \in Users
        /\ tasks[t].row = users[u] /\ users[u] \in UserRow /\ now \in Nat
        /\ ~QuotaRefusal(users[u], 1)
    BY RequestKinds
    DEF Serial, SerialInv, CopiesAreCurrent, Holding, ChargeCard, TypeOK
  <1>2. ~QuotaRefusal(Enforce(users[u], now), 1)
    BY <1>1, EnforceKeepsRoom DEF FreePlanServes
  <1>3. ConsumeMany(users[u], 1, now).row =
            [Enforce(users[u], now) EXCEPT !.used = @ + 1, !.usedToday = @ + 1]
    BY <1>1, <1>2, OneIsSpent
  <1>4. /\ SaveUser(u, [Enforce(users[u], now) EXCEPT !.used = @ + 1, !.usedToday = @ + 1])
        /\ served' = [served EXCEPT ![u] = @ + 1]
        /\ UNCHANGED << now, payments, khpay, activations >>
    BY <1>1, <1>3 DEF ChargeCard
  <1>5. Spends(u, 1)
    BY <1>1, <1>4, SpentRow
  <1> QED
    BY <1>1, <1>5

LEMMA ConfirmedActivates ==
    ASSUME Serial, NEW t \in Tasks, Confirmed(t)
    PROVE  Activates(t)
  <1> DEFINE x == tasks[t].txn
  <1>1. /\ tasks[t].at = "confirming" /\ TypeOK /\ PaymentsAgree
        /\ khpay[x].state = "settled"
        /\ activations' = [activations EXCEPT ![x] = @ \cup {now}]
        /\ UNCHANGED << now, khpay, served >>
    BY DEF Confirmed, Serial
  <1>2. x \in Txns /\ tasks[t].user \in Users /\ tasks[t].plan \in PaidPlans
    BY <1>1, RequestKinds
  <1>3. payments[x].status = "pending"
    BY <1>1 DEF Serial, SerialInv, ConfirmingIsPending
  <1>4. payments[x] \in Payment /\ payments[x] # NoPayment
    BY <1>1, <1>2, <1>3 DEF TypeOK, NoPayment
  <1>5. /\ payments[x].user = khpay[x].user /\ payments[x].plan = khpay[x].plan
        /\ khpay[x] # NoBill
    BY <1>1, <1>2, <1>4 DEF PaymentsAgree, LedgerMatchesKhpay
  <1>6. khpay[x].user = tasks[t].user /\ khpay[x].plan = tasks[t].plan
    BY <1>1 DEF PaymentsAgree, RequestsMatchKhpay
  <1>7. /\ payments' = Marked(x)
        /\ users' = [users EXCEPT ![tasks[t].user] = Activate(tasks[t].plan, now)]
    BY <1>3 DEF Confirmed, MarkPaid
  <1> QED
    BY <1>1, <1>2, <1>3, <1>4, <1>5, <1>6, <1>7 DEF Activates

LEMMA SerialStepIs ==
    ASSUME Serial, FreePlanServes, [Next]_vars
    PROVE  \/ \E u \in Users, n \in Nat : Spends(u, n)
           \/ \E t \in Tasks : Activates(t)
           \/ \E x \in Txns : Bills(x) \/ Records(x) \/ Settles(x)
           \/ Waits
  <1> USE DEF stores
  <1>1. ASSUME NEW t \in Tasks, Analyse(t) \/ CheckCard(t) \/ ViewPlan(t)
        PROVE  (\E u \in Users, n \in Nat : Spends(u, n)) \/ Waits
    BY <1>1, MeteredIsSpending
  <1>2. ASSUME NEW t \in Tasks, ChargeCard(t)
        PROVE  \E u \in Users, n \in Nat : Spends(u, n)
    BY <1>2, ChargeIsSpending
  <1>3. ASSUME NEW t \in Tasks, Confirmed(t)
        PROVE  Activates(t)
    BY <1>3, ConfirmedActivates
  <1>4. ASSUME NEW t \in Tasks,
               FailCard(t) \/ StartCheckout(t) \/ FailCheckout(t) \/ Unconfirmed(t) \/ Answer(t)
        PROVE  Waits
    BY <1>4 DEF FailCard, StartCheckout, FailCheckout, Unconfirmed, Answer, Waits
  <1>5. ASSUME NEW t \in Tasks, NEW x \in Txns, StartVerify(t, x) \/ StartWebhook(t, x)
        PROVE  Waits
    BY <1>5 DEF StartVerify, StartWebhook, Waits
  <1>6. ASSUME NEW t \in Tasks, NEW u \in Users, Authenticate(t, u)
        PROVE  Waits
    BY <1>6 DEF Authenticate, Waits
  <1>7. ASSUME NEW t \in Tasks, NEW x \in Txns, IssueBill(t, x)
        PROVE  Bills(x)
    <2>1. tasks[t].user \in Users /\ tasks[t].plan \in PaidPlans
      BY <1>7, RequestKinds DEF IssueBill, Serial
    <2> QED
      BY <1>7, <2>1 DEF IssueBill, Bills
  <1>8. ASSUME NEW t \in Tasks, RecordPayment(t)
        PROVE  \E x \in Txns : Records(x)
    <2> DEFINE x == tasks[t].txn
               p == [user |-> tasks[t].user, plan |-> tasks[t].plan, status |-> "pending"]
    <2>1. TypeOK /\ PaymentsAgree /\ tasks[t].at = "billed"
      BY <1>8 DEF Serial, RecordPayment
    <2>2. x \in Txns /\ p \in Payment
      BY <2>1, RequestKinds DEF Payment
    <2>3. khpay[x] \in Bill /\ khpay[x].state = "open"
      BY <2>1, <2>2 DEF PaymentsAgree, RequestsMatchKhpay, OneCheckoutPerBill, TypeOK
    <2>4. payments' = [payments EXCEPT ![x] = p]
      BY <1>8 DEF RecordPayment, SavePayment
    <2>5. p.status = "pending"
      OBVIOUS
    <2>6. /\ khpay' = [khpay EXCEPT ![x].state = "shown"]
          /\ UNCHANGED << now, users, served, activations >>
      BY <1>8 DEF RecordPayment
    <2> HIDE DEF p, x
    <2> QED
      BY <2>2, <2>3, <2>4, <2>5, <2>6 DEF Records
  <1>9. ASSUME NEW x \in Txns, Pay(x)
        PROVE  Settles(x)
    <2>1. khpay[x] \in Bill
      BY <1>9 DEF Pay, Serial, TypeOK, NoBill
    <2> QED
      BY <1>9, <2>1 DEF Pay, Settles
  <1>10. ~Restart
    <2>1. ~(crashes < MaxCrashes)
      BY DEF Serial, TypeOK
    <2> QED
      BY <2>1 DEF Restart
  <1>11. CASE Tick \/ UNCHANGED vars
    BY <1>11 DEF Tick, Waits, vars
  <1> QED
    BY <1>1, <1>2, <1>3, <1>4, <1>5, <1>6, <1>7, <1>8, <1>9, <1>10, <1>11
    DEF Next, Handle, Crash, CrashInActivation

(***************************************************************************)
(* The serial invariant, one part at a time.                               *)
(***************************************************************************)
LEMMA CopiesStep ==
    ASSUME Serial, [Next]_vars
    PROVE  CopiesAreCurrent'
  <1> USE DEF stores
  <1>1. TypeOK /\ CopiesAreCurrent /\ OneAtATime /\ ~Restart
    <2>1. ~(crashes < MaxCrashes)
      BY DEF Serial, TypeOK
    <2> QED
      BY <2>1 DEF Serial, SerialInv, Restart
  <1>2. ASSUME NEW t \in Tasks, tasks'[t].at \notin {"ready", "card"}
        PROVE  CopiesAreCurrent'
    BY <1>1, <1>2 DEF CopiesAreCurrent, OneAtATime, Holding
  <1>3. ASSUME NEW t \in Tasks, Finish(t)
        PROVE  CopiesAreCurrent'
    BY <1>1, <1>2, <1>3, FinishChangesOne DEF Idle
  <1>4. ASSUME NEW t \in Tasks, NEW r, r.at \in {"checkout", "billed", "confirming"}, Goto(t, r)
        PROVE  CopiesAreCurrent'
    BY <1>1, <1>2, <1>4, GotoChangesOne
  <1>5. ASSUME NEW t \in Tasks, NEW u \in Users, Authenticate(t, u)
        PROVE  CopiesAreCurrent'
    <2>1. tasks'[t] = [at |-> "ready", user |-> u, row |-> users[u]] /\ users' = users
      BY <1>1, <1>5, GotoChangesOne DEF Authenticate
    <2> QED
      BY <1>1, <2>1 DEF CopiesAreCurrent, OneAtATime, Holding
  <1>6. ASSUME NEW t \in Tasks, CheckCard(t)
        PROVE  CopiesAreCurrent'
    <2> DEFINE u == tasks[t].user
               checked == Check(tasks[t].row, 1, now)
    <2>1. SaveUser(u, checked.row) /\ u \in Users
      BY <1>1, <1>6, RequestKinds DEF CheckCard
    <2>2. users'[u] = checked.row
      BY <1>1, <2>1, SavedRow
    <2>3. CASE checked.allowed
      <3>1. tasks'[t] = [at |-> "card", user |-> u, row |-> checked.row]
        BY <1>1, <1>6, <2>3, GotoChangesOne DEF CheckCard
      <3>2. ~QuotaRefusal(checked.row, 1)
        BY <2>3, CheckReturnsEnforced
      <3> HIDE DEF checked, u
      <3> QED
        BY <1>1, <2>2, <3>1, <3>2 DEF CopiesAreCurrent, OneAtATime, Holding
    <2>4. CASE ~checked.allowed
      BY <1>3, <1>6, <2>4 DEF CheckCard
    <2> QED
      BY <2>3, <2>4
  <1>7. ASSUME UNCHANGED << tasks, users >>
        PROVE  CopiesAreCurrent'
    BY <1>1, <1>7 DEF CopiesAreCurrent, Holding
  <1>8. ASSUME NEW t \in Tasks,
               \/ Analyse(t) \/ FailCard(t) \/ ChargeCard(t) \/ ViewPlan(t) \/ FailCheckout(t)
               \/ RecordPayment(t) \/ Unconfirmed(t) \/ Confirmed(t) \/ Answer(t)
        PROVE  CopiesAreCurrent'
    BY <1>3, <1>8 DEF Analyse, FailCard, ChargeCard, ViewPlan, FailCheckout, RecordPayment,
                      Unconfirmed, Confirmed, Answer
  <1>9. ASSUME NEW t \in Tasks, StartCheckout(t)
        PROVE  CopiesAreCurrent'
    <2>1. PICK r : Goto(t, r) /\ r.at = "checkout"
      BY <1>9 DEF StartCheckout
    <2> QED
      BY <1>4, <2>1
  <1>10. ASSUME NEW t \in Tasks, NEW x \in Txns, IssueBill(t, x)
         PROVE  CopiesAreCurrent'
    <2>1. Finish(t) \/ \E r : Goto(t, r) /\ r.at = "billed"
      BY <1>10 DEF IssueBill
    <2> QED
      BY <1>3, <1>4, <2>1
  <1>11. ASSUME NEW t \in Tasks, NEW x \in Txns, StartVerify(t, x) \/ StartWebhook(t, x)
         PROVE  CopiesAreCurrent'
    <2>1. Goto(t, Confirm(x)) /\ Confirm(x).at = "confirming"
      BY <1>11 DEF StartVerify, StartWebhook, Confirm
    <2> QED
      BY <1>4, <2>1
  <1>12. ASSUME (\E x \in Txns : Pay(x)) \/ Tick \/ UNCHANGED vars
         PROVE  CopiesAreCurrent'
    BY <1>7, <1>12 DEF Pay, Tick, vars
  <1> QED
    BY <1>1, <1>5, <1>6, <1>8, <1>9, <1>10, <1>11, <1>12
    DEF Next, Handle, Crash, CrashInActivation

LEMMA ConfirmingStep ==
    ASSUME Serial, [Next]_vars
    PROVE  ConfirmingIsPending'
  <1> USE DEF stores
  <1>1. TypeOK /\ ConfirmingIsPending /\ OneAtATime /\ ~Restart
    <2>1. ~(crashes < MaxCrashes)
      BY DEF Serial, TypeOK
    <2> QED
      BY <2>1 DEF Serial, SerialInv, Restart
  <1>2. ASSUME NEW t \in Tasks, tasks'[t].at # "confirming"
        PROVE  ConfirmingIsPending'
    BY <1>1, <1>2 DEF ConfirmingIsPending, OneAtATime
  <1>3. ASSUME NEW t \in Tasks, MeteredStep(t)
        PROVE  ConfirmingIsPending'
    BY <1>1, <1>2, <1>3, MeteredStepFrame
  <1>4. ASSUME NEW t \in Tasks, RecordPayment(t) \/ Confirmed(t)
        PROVE  ConfirmingIsPending'
    BY <1>1, <1>2, <1>4, FinishChangesOne DEF RecordPayment, Confirmed, Idle
  <1>5. ASSUME NEW t \in Tasks, NEW x \in Txns, IssueBill(t, x)
        PROVE  ConfirmingIsPending'
    <2>1. Finish(t) \/ \E r : Goto(t, r) /\ r.at = "billed"
      BY <1>5 DEF IssueBill
    <2> QED
      BY <1>1, <1>2, <2>1, FinishChangesOne, GotoChangesOne DEF Idle
  <1>6. ASSUME NEW t \in Tasks, NEW x \in Txns, StartVerify(t, x) \/ StartWebhook(t, x)
        PROVE  ConfirmingIsPending'
    <2>1. /\ tasks'[t] = Confirm(x) /\ payments' = payments
          /\ payments[x] \in Payment /\ payments[x].status # "paid"
      BY <1>1, <1>6, GotoChangesOne DEF StartVerify, StartWebhook, TypeOK
    <2>2. payments[x].status = "pending"
      BY <2>1 DEF Payment
    <2> QED
      BY <1>1, <2>1, <2>2 DEF ConfirmingIsPending, OneAtATime, Confirm
  <1>7. ASSUME (\E x \in Txns : Pay(x)) \/ Tick \/ UNCHANGED vars
        PROVE  ConfirmingIsPending'
    BY <1>1, <1>7 DEF Pay, Tick, vars, ConfirmingIsPending
  <1> QED
    BY <1>1, <1>3, <1>4, <1>5, <1>6, <1>7
    DEF Next, Handle, MeteredStep, Crash, CrashInActivation

LEMMA LedgerKeeps ==
    ASSUME TypeOK, PaymentsAgree, NEW x \in Txns, Records(x)
    PROVE  /\ payments[x].status # "paid"
           /\ payments'[x] \in Payment /\ payments'[x].status = "pending"
           /\ \A y \in Txns \ {x} : payments'[y] = payments[y]
  <1>1. payments[x].status # "paid"
    <2>1. payments[x].status = "paid" => payments[x] # NoPayment
      BY DEF NoPayment
    <2> QED
      BY <2>1 DEF Records, PaymentsAgree, LedgerMatchesKhpay
  <1> QED
    BY <1>1 DEF Records, TypeOK

LEMMA ActivationIs ==
    ASSUME TypeOK, NEW t \in Tasks, Activates(t)
    PROVE  LET x == tasks[t].txn
               u == tasks[t].user
           IN  /\ payments'[x].status = "paid" /\ payments'[x] # NoPayment
               /\ payments'[x].user = u /\ payments'[x].plan = tasks[t].plan
               /\ \A y \in Txns \ {x} : payments'[y] = payments[y]
               /\ activations'[x] = activations[x] \cup {now}
               /\ \A y \in Txns \ {x} : activations'[y] = activations[y]
               /\ users'[u].plan = tasks[t].plan
               /\ users'[u].expires = now + PeriodLength
               /\ \A w \in Users \ {u} : users'[w] = users[w]
  <1> DEFINE x == tasks[t].txn
             u == tasks[t].user
  <1>1. /\ x \in Txns /\ u \in Users /\ payments[x] \in Payment
        /\ payments' = Marked(x)
        /\ users' = [users EXCEPT ![u] = Activate(tasks[t].plan, now)]
        /\ activations' = [activations EXCEPT ![x] = @ \cup {now}]
    BY DEF Activates
  <1>2. /\ payments'[x] = [payments[x] EXCEPT !.status = "paid"]
        /\ \A y \in Txns \ {x} : payments'[y] = payments[y]
    BY <1>1 DEF Marked, TypeOK
  <1>3. payments'[x].status = "paid" /\ payments'[x].user = payments[x].user
        /\ payments'[x].plan = payments[x].plan
    BY <1>1, <1>2 DEF Payment
  <1>4. payments'[x] # NoPayment
    BY <1>3 DEF NoPayment
  <1>5. /\ users'[u] = Activate(tasks[t].plan, now)
        /\ \A w \in Users \ {u} : users'[w] = users[w]
        /\ activations'[x] = activations[x] \cup {now}
        /\ \A y \in Txns \ {x} : activations'[y] = activations[y]
    BY <1>1 DEF TypeOK
  <1>6. payments[x].user = u /\ payments[x].plan = tasks[t].plan
    BY DEF Activates
  <1> QED
    BY <1>2, <1>3, <1>4, <1>5, <1>6 DEF Activate

LEMMA ActivatedStep ==
    ASSUME Serial, FreePlanServes, [Next]_vars
    PROVE  MarkedIsActivated'
  <1>1. TypeOK /\ PaymentsAgree /\ MarkedIsActivated /\ now \in Nat
    BY DEF Serial, SerialInv, TypeOK
  <1>2. ASSUME NEW x \in Txns, payments'[x].status = payments[x].status,
               activations'[x] = activations[x], now' \in {now, now + 1}
        PROVE  IF payments'[x].status = "paid"
               THEN \E tick \in Nat : tick <= now' /\ activations'[x] = {tick}
               ELSE activations'[x] = {}
    <2>1. CASE payments[x].status = "paid"
      <3>1. PICK tick \in Nat : tick <= now /\ activations[x] = {tick}
        BY <1>1, <2>1 DEF MarkedIsActivated
      <3>2. tick <= now'
        BY <1>1, <1>2, <3>1
      <3> QED
        BY <1>2, <2>1, <3>1, <3>2
    <2>2. CASE payments[x].status # "paid"
      BY <1>1, <1>2, <2>2 DEF MarkedIsActivated
    <2> QED
      BY <2>1, <2>2
  <1>3. CASE (\E u \in Users, n \in Nat : Spends(u, n)) \/ Waits
             \/ \E x \in Txns : Bills(x) \/ Settles(x)
    <2>1. payments' = payments /\ activations' = activations /\ now' \in {now, now + 1}
      BY <1>3 DEF Spends, Waits, Bills, Settles
    <2> QED
      BY <1>2, <2>1 DEF MarkedIsActivated
  <1>4. ASSUME NEW x \in Txns, Records(x)
        PROVE  MarkedIsActivated'
    <2>1. activations' = activations /\ now' = now
      BY <1>4 DEF Records
    <2>2. activations[x] = {} /\ payments'[x].status # "paid"
      BY <1>1, <1>4, LedgerKeeps DEF MarkedIsActivated
    <2>3. \A y \in Txns \ {x} : payments'[y] = payments[y]
      BY <1>1, <1>4, LedgerKeeps
    <2> QED
      BY <1>2, <2>1, <2>2, <2>3 DEF MarkedIsActivated
  <1>5. ASSUME NEW t \in Tasks, Activates(t)
        PROVE  MarkedIsActivated'
    <2> DEFINE x == tasks[t].txn
    <2>1. /\ payments'[x].status = "paid"
          /\ activations'[x] = activations[x] \cup {now}
          /\ \A y \in Txns \ {x} : payments'[y] = payments[y] /\ activations'[y] = activations[y]
      BY <1>1, <1>5, ActivationIs
    <2>2. x \in Txns /\ payments[x].status = "pending" /\ now' = now
      BY <1>5 DEF Activates
    <2>3. activations'[x] = {now} /\ now <= now'
      BY <1>1, <2>1, <2>2 DEF MarkedIsActivated
    <2> QED
      BY <1>1, <1>2, <2>1, <2>2, <2>3 DEF MarkedIsActivated
  <1> QED
    BY <1>3, <1>4, <1>5, SerialStepIs

\* What a charge leaves of a customer's plan, and of what it is owed to.
LEMMA SpendingHonours ==
    ASSUME Serial, NEW u \in Users, NEW n \in Nat, Spends(u, n)
    PROVE  MarkedIsHonoured'
  <1>1. /\ TypeOK /\ MarkedIsActivated /\ MarkedIsHonoured /\ users[u] \in UserRow
        /\ now \in Nat
        /\ UNCHANGED << now, payments, activations >>
    BY DEF Serial, SerialInv, TypeOK, Spends
  <1> SUFFICES ASSUME NEW x \in Txns, payments[x].status = "paid", ~TermIsOver(x)
               PROVE  \E y \in Txns : Bears(y, x)'
    BY <1>1 DEF MarkedIsHonoured, TermIsOver
  <1>2. PICK y \in Txns : Bears(y, x)
    BY <1>1 DEF MarkedIsHonoured
  <1>3. CASE payments[x].user # u
    <2>1. payments[x].user \in Users
      BY <1>1 DEF TypeOK, Payment, NoPayment
    <2>2. users'[payments[x].user] = users[payments[x].user]
      BY <1>3, <2>1 DEF Spends
    <2> QED
      BY <1>1, <1>2, <2>2 DEF Bears
  <1>4. CASE payments[x].user = u
    <2>1. PICK late \in activations[y] :
            /\ users[u].expires = late + PeriodLength
            /\ \A early \in activations[x] : early <= late
      BY <1>2, <1>4 DEF Bears
    <2>2. PICK tick \in Nat : activations[x] = {tick}
      BY <1>1 DEF MarkedIsActivated
    <2>3. late \in Nat /\ PeriodLength \in Nat
      BY <1>1, PeriodIsPositive DEF TypeOK
    <2>4. ~Expired(users[u], now)
      <3>1. ~(tick + PeriodLength <= now)
        BY <2>2 DEF TermIsOver
      <3>2. tick <= late
        BY <2>1, <2>2
      <3> QED
        BY <1>1, <2>1, <2>2, <2>3, <3>1, <3>2 DEF Expired
    <2>5. SamePlan(users'[u], users[u])
      BY <1>1, <2>4, EnforceEndsTerms DEF Spends, SamePlan
    <2> QED
      BY <1>1, <1>2, <1>4, <2>5 DEF Bears, SamePlan
  <1> QED
    BY <1>3, <1>4

LEMMA ActivatingHonours ==
    ASSUME Serial, NEW t \in Tasks, Activates(t)
    PROVE  MarkedIsHonoured'
  <1>0. PICK x \in Txns, u \in Users : x = tasks[t].txn /\ u = tasks[t].user
    BY DEF Activates
  <1>1. /\ TypeOK /\ MarkedIsActivated /\ MarkedIsHonoured /\ now \in Nat
        /\ x \in Txns /\ now' = now /\ payments[x].status = "pending"
        /\ payments[x].user = u
    BY <1>0 DEF Serial, SerialInv, TypeOK, Activates
  <1>2. /\ payments'[x].status = "paid" /\ payments'[x] # NoPayment
        /\ payments'[x].user = u /\ payments'[x].plan = tasks[t].plan
        /\ \A y \in Txns \ {x} : payments'[y] = payments[y]
        /\ activations'[x] = activations[x] \cup {now}
        /\ \A y \in Txns \ {x} : activations'[y] = activations[y]
        /\ users'[u].plan = tasks[t].plan
        /\ users'[u].expires = now + PeriodLength
        /\ \A w \in Users \ {u} : users'[w] = users[w]
    BY <1>0, <1>1, ActivationIs
  <1>3. activations[x] = {}
    BY <1>1 DEF MarkedIsActivated
  <1> SUFFICES ASSUME NEW z \in Txns, payments'[z].status = "paid", ~TermIsOver(z)'
               PROVE  \E y \in Txns : Bears(y, z)'
    BY DEF MarkedIsHonoured
  <1>4. CASE payments'[z].user = u
    <2>1. \A early \in activations'[z] : early <= now
      <3>1. CASE z = x
        BY <1>1, <1>2, <1>3, <3>1
      <3>2. CASE z # x
        BY <1>1, <1>2, <3>2 DEF MarkedIsActivated
      <3> QED
        BY <3>1, <3>2
    <2>2. Bears(x, z)'
      BY <1>2, <1>4, <2>1 DEF Bears
    <2> QED
      BY <1>1, <2>2
  <1>5. CASE payments'[z].user # u
    <2>1. z # x /\ payments'[z] = payments[z] /\ activations'[z] = activations[z]
      BY <1>2, <1>5
    <2>2. ~TermIsOver(z)
      BY <1>1, <2>1 DEF TermIsOver
    <2>3. PICK y \in Txns : Bears(y, z)
      BY <1>1, <2>1, <2>2 DEF MarkedIsHonoured
    <2>4. y # x
      BY <1>1, <1>5, <2>1, <2>3 DEF Bears
    <2>5. payments[z].user \in Users
      BY <1>1, <2>1 DEF TypeOK, Payment, NoPayment
    <2>6. users'[payments[z].user] = users[payments[z].user]
      BY <1>2, <1>5, <2>1, <2>5
    <2> QED
      BY <1>2, <2>1, <2>3, <2>4, <2>6 DEF Bears
  <1> QED
    BY <1>4, <1>5

LEMMA HonouredStep ==
    ASSUME Serial, FreePlanServes, [Next]_vars
    PROVE  MarkedIsHonoured'
  <1>1. TypeOK /\ PaymentsAgree /\ MarkedIsActivated /\ MarkedIsHonoured /\ now \in Nat
        /\ PeriodLength \in Nat
    BY PeriodIsPositive DEF Serial, SerialInv, TypeOK
  <1>2. CASE Waits \/ \E x \in Txns : Bills(x) \/ Settles(x)
    <2>1. UNCHANGED << payments, users, activations >> /\ now' \in {now, now + 1}
      BY <1>2 DEF Waits, Bills, Settles
    <2>2. ASSUME NEW x \in Txns, TermIsOver(x)
          PROVE  TermIsOver(x)'
      <3>1. PICK tick \in activations[x] : tick + PeriodLength <= now
        BY <2>2 DEF TermIsOver
      <3>2. tick \in Nat
        BY <1>1 DEF TypeOK
      <3>3. tick + PeriodLength <= now'
        BY <1>1, <2>1, <3>1, <3>2
      <3> QED
        BY <2>1, <3>3 DEF TermIsOver
    <2>3. \A x, y \in Txns : Bears(y, x) => Bears(y, x)'
      BY <2>1 DEF Bears
    <2> QED
      BY <1>1, <2>1, <2>2, <2>3 DEF MarkedIsHonoured
  <1>3. ASSUME NEW x \in Txns, Records(x)
        PROVE  MarkedIsHonoured'
    <2>1. /\ UNCHANGED << now, users, activations >>
          /\ payments[x].status # "paid" /\ payments'[x].status # "paid"
          /\ \A y \in Txns \ {x} : payments'[y] = payments[y]
      BY <1>1, <1>3, LedgerKeeps DEF Records
    <2>2. activations[x] = {}
      BY <1>1, <2>1 DEF MarkedIsActivated
    <2>3. \A z, y \in Txns : z # x /\ Bears(y, z) => Bears(y, z)'
      BY <2>1, <2>2 DEF Bears
    <2>4. \A z \in Txns : TermIsOver(z) => TermIsOver(z)'
      BY <2>1 DEF TermIsOver
    <2> QED
      BY <1>1, <2>1, <2>3, <2>4 DEF MarkedIsHonoured
  <1> QED
    BY <1>2, <1>3, SpendingHonours, ActivatingHonours, SerialStepIs

LEMMA SerialInit == Init => SerialInv
  <1> SUFFICES ASSUME Init
               PROVE  SerialInv
    OBVIOUS
  <1>1. CopiesAreCurrent /\ ConfirmingIsPending
    BY DEF Init, CopiesAreCurrent, ConfirmingIsPending, Holding, Idle
  <1>2. \A x \in Txns : payments[x].status # "paid" /\ activations[x] = {}
    BY DEF Init, NoPayment
  <1> QED
    BY <1>1, <1>2 DEF SerialInv, MarkedIsActivated, MarkedIsHonoured

LEMMA SerialKept ==
    ASSUME OneAtATime, MaxCrashes = 0, FreePlanServes
    PROVE  IInv /\ SerialInv /\ [Next]_vars => SerialInv'
  <1> SUFFICES ASSUME IInv, SerialInv, [Next]_vars
               PROVE  SerialInv'
    OBVIOUS
  <1>1. Serial
    BY DEF Serial, IInv
  <1> QED
    BY <1>1, CopiesStep, ConfirmingStep, ActivatedStep, HonouredStep DEF SerialInv

LEMMA SerialHolds ==
    ASSUME OneAtATime, MaxCrashes = 0, FreePlanServes
    PROVE  Spec => [](IInv /\ SerialInv)
  <1>1. IInv /\ SerialInv /\ [Next]_vars => SerialInv'
    BY SerialKept
  <1> QED
    BY <1>1, SerialInit, InvariantHolds, PTL DEF Spec

(***************************************************************************)
(* While requests come one at a time and the process lives: a payment that *)
(* was marked activated its plan once, and its customer has that plan, or  *)
(* that of a later payment, until its term is over                         *)
(* (_activate_from_payment, plans.enforce).                                *)
(***************************************************************************)
THEOREM PaymentsServeOnce ==
    ASSUME OneAtATime, MaxCrashes = 0, FreePlanServes
    PROVE  Spec => []EachPaymentServesOnce
  <1>1. TypeOK /\ SerialInv => EachPaymentServesOnce
    <2> SUFFICES ASSUME TypeOK, SerialInv
                 PROVE  EachPaymentServesOnce
      OBVIOUS
    <2>1. ActivatedOnce
      <3> SUFFICES ASSUME NEW x \in Txns
                   PROVE  Cardinality(activations[x]) <= 1
        BY DEF ActivatedOnce
      <3>1. activations[x] = {} \/ \E tick \in Nat : activations[x] = {tick}
        BY DEF SerialInv, MarkedIsActivated
      <3> QED
        <4>1. CASE activations[x] = {}
          BY <4>1, FS_EmptySet
        <4>2. ASSUME NEW tick \in Nat, activations[x] = {tick}
              PROVE  Cardinality(activations[x]) = 1
          BY <4>2, FS_Singleton
        <4> QED
          BY <3>1, <4>1, <4>2
    <2>2. PaymentHonoured
      BY DEF SerialInv, MarkedIsHonoured, PaymentHonoured, Bears, TermIsOver, Supersedes
    <2> QED
      BY <2>1, <2>2 DEF EachPaymentServesOnce
  <1>2. IInv => TypeOK
    BY DEF IInv
  <1> QED
    BY <1>1, <1>2, SerialHolds, PTL

(***************************************************************************)
(* What a step does to the quotas of accounts.                             *)
(***************************************************************************)
LEMMA ChargedStep ==
    ASSUME Serial, FreePlanServes, [Next]_vars, NEW u \in Users, served'[u] > served[u]
    PROVE  LET before == Enforce(users[u], now)
               granted == served'[u] - served[u]
           IN  /\ users'[u].used = before.used + granted
               /\ users'[u].usedToday = before.usedToday + granted
  <1>1. served[u] \in Nat
    BY DEF Serial, TypeOK
  <1>2. served' # served
    BY <1>1
  <1>3. PICK w \in Users, n \in Nat : Spends(w, n)
    BY <1>2, SerialStepIs DEF Activates, Bills, Records, Settles, Waits
  <1>4. w = u
    BY <1>1, <1>3 DEF Spends
  <1>5. served'[u] - served[u] = n
    BY <1>1, <1>3, <1>4 DEF Spends
  <1> QED
    BY <1>3, <1>4, <1>5 DEF Spends

LEMMA ResetStep ==
    ASSUME Serial, FreePlanServes, [Next]_vars, NEW u \in Users
    PROVE  LET old == users[u]
               new == users'[u]
               replaced == Expired(old, now) \/ activations' # activations
           IN  /\ new.usedToday < old.usedToday =>
                      replaced \/ UtcMidnight(old.dayStart) < UtcMidnight(now)
               /\ new.used < old.used =>
                      replaced \/ old.periodStart + PeriodLength <= now
  <1>1. users[u] \in UserRow /\ now \in Nat
    BY DEF Serial, TypeOK
  <1>2. users[u].used \in Nat /\ users[u].usedToday \in Nat
    BY <1>1 DEF UserRow
  <1>3. ASSUME NEW t \in Tasks, Activates(t)
        PROVE  activations' # activations
    <2>1. PICK x \in Txns : x = tasks[t].txn
      BY <1>3 DEF Activates
    <2>2. TypeOK /\ payments[x].status = "pending" /\ activations'[x] = activations[x] \cup {now}
      BY <1>3, <2>1, ActivationIs DEF Activates, Serial
    <2>3. activations[x] = {}
      BY <2>2 DEF Serial, SerialInv, MarkedIsActivated
    <2> QED
      BY <2>2, <2>3
  <1>4. ASSUME NEW w \in Users, NEW n \in Nat, Spends(w, n)
        PROVE  users'[u] = users[u] \/
               \E m \in Nat : /\ users'[u].used = Enforce(users[u], now).used + m
                              /\ users'[u].usedToday = Enforce(users[u], now).usedToday + m
    BY <1>4 DEF Spends
  <1>5. \/ users'[u] = users[u]
        \/ \E m \in Nat : /\ users'[u].used = Enforce(users[u], now).used + m
                          /\ users'[u].usedToday = Enforce(users[u], now).usedToday + m
        \/ activations' # activations
    BY <1>3, <1>4, SerialStepIs DEF Bills, Records, Settles, Waits
  <1>6. ASSUME NEW m \in Nat,
               users'[u].used = Enforce(users[u], now).used + m,
               users'[u].usedToday = Enforce(users[u], now).usedToday + m
        PROVE  /\ users'[u].used < users[u].used =>
                    Enforce(users[u], now).used < users[u].used
               /\ users'[u].usedToday < users[u].usedToday =>
                    Enforce(users[u], now).usedToday < users[u].usedToday
    <2> DEFINE base == Enforce(users[u], now)
    <2>1. base.used \in Nat /\ base.usedToday \in Nat
      BY <1>1, EnforceIsRow DEF UserRow
    <2> HIDE DEF base
    <2>2. /\ users'[u].used < users[u].used => base.used < users[u].used
          /\ users'[u].usedToday < users[u].usedToday => base.usedToday < users[u].usedToday
      <3>1. users'[u].used = base.used + m /\ users'[u].usedToday = base.usedToday + m
        BY <1>6 DEF base
      <3> QED
        BY <1>2, <2>1, <3>1
    <2> QED
      BY <2>2 DEF base
  <1>7. /\ Enforce(users[u], now).usedToday < users[u].usedToday =>
             Expired(users[u], now) \/ UtcMidnight(users[u].dayStart) < UtcMidnight(now)
        /\ Enforce(users[u], now).used < users[u].used =>
             Expired(users[u], now) \/ users[u].periodStart + PeriodLength <= now
    BY <1>1, EnforceResetsInTime
  <1>8. CASE users'[u] = users[u]
    BY <1>2, <1>8
  <1> QED
    BY <1>5, <1>6, <1>7, <1>8

(***************************************************************************)
(* While requests come one at a time and the free plan serves at all: what *)
(* is granted is charged in full, and a counter goes down only when its    *)
(* window or its plan is over (main.zenmux, plans.enforce).                *)
(***************************************************************************)
THEOREM QuotasStayExact ==
    ASSUME OneAtATime, MaxCrashes = 0, FreePlanServes
    PROVE  Spec => QuotasAreExact
  <1>1. IInv /\ SerialInv => Serial
    BY DEF Serial, IInv
  <1>2. Serial /\ [Next]_vars =>
          \A u \in Users :
            served'[u] > served[u] =>
                LET before == Enforce(users[u], now)
                    granted == served'[u] - served[u]
                IN  /\ users'[u].used = before.used + granted
                    /\ users'[u].usedToday = before.usedToday + granted
    BY ChargedStep
  <1>3. Serial /\ [Next]_vars =>
          \A u \in Users :
            LET old == users[u]
                new == users'[u]
                replaced == Expired(old, now) \/ activations' # activations
            IN  /\ new.usedToday < old.usedToday =>
                        replaced \/ UtcMidnight(old.dayStart) < UtcMidnight(now)
                /\ new.used < old.used =>
                        replaced \/ old.periodStart + PeriodLength <= now
    BY ResetStep
  <1> QED
    BY <1>1, <1>2, <1>3, SerialHolds, PTL DEF Spec, QuotasAreExact, ChargedInFull, ResetsAreDue

(***************************************************************************)
(* What a customer sees of each step: the promise of Subscriptions is kept.*)
(***************************************************************************)
LEMMA PromiseInit == Init => Promise!Init
  BY DEF Init, Promise!Init, Promise!Free, Promise!NoPurchase, NewRow, NoBill

Held == [u \in Users |-> [plan |-> users[u].plan, until |-> users[u].expires]]

Purchase(x) ==
    IF khpay[x] = NoBill THEN [stage |-> "none"]
    ELSE [user |-> khpay[x].user, plan |-> khpay[x].plan, stage |-> Stage(x)]
Purchases == [x \in Txns |-> Purchase(x)]

LEMMA PurchaseIs ==
    ASSUME TypeOK, NEW x \in Txns
    PROVE  /\ khpay[x] = NoBill => Purchase(x) = [stage |-> "none"]
           /\ khpay[x] # NoBill =>
                /\ Purchase(x) = [user |-> khpay[x].user, plan |-> khpay[x].plan, stage |-> Stage(x)]
                /\ khpay[x] \in Bill
           /\ Stage(x) = IF khpay[x].state # "settled" THEN "ordered"
                         ELSE IF payments[x].status = "paid" THEN "redeemed" ELSE "settled"
  BY DEF Purchase, Stage, TypeOK

LEMMA SpendingKeepsPromise ==
    ASSUME Serial, NEW u \in Users, NEW n \in Nat, Spends(u, n)
    PROVE  [Promise!Next]_(Promise!vars)
  <1>1. /\ users[u] \in UserRow /\ now \in Nat
        /\ SamePlan(users'[u], Enforce(users[u], now))
        /\ \A w \in Users \ {u} : users'[w] = users[w]
    BY DEF Serial, TypeOK, Spends
  <1>2. Purchases' = Purchases
    BY DEF Spends, Purchases, Purchase, Stage
  <1>5. now' = now
    BY DEF Spends
  <1>3. CASE Expired(users[u], now)
    <2>1. users'[u].plan = FreePlan /\ users'[u].expires = Never
      BY <1>1, <1>3, EnforceEndsTerms DEF SamePlan
    <2>2. Held' = [Held EXCEPT ![u] = [plan |-> FreePlan, until |-> Never]]
      BY <1>1, <2>1 DEF Held
    <2>3. Held[u].plan \in PaidPlans /\ Held[u].until <= now
      BY <1>3 DEF Held, Expired
    <2>4. Promise!Lapse(u)
      BY <1>2, <1>5, <2>2, <2>3 DEF Promise!Lapse, Promise!Free, Held, Purchases, Purchase
    <2> QED
      BY <2>4 DEF Promise!Next
  <1>4. CASE ~Expired(users[u], now)
    <2>1. SamePlan(users'[u], users[u])
      BY <1>1, <1>4, EnforceEndsTerms DEF SamePlan
    <2>2. Held' = Held
      BY <1>1, <2>1 DEF Held, SamePlan
    <2> QED
      BY <1>2, <1>5, <2>2 DEF Promise!vars, Held, Purchases, Purchase
  <1> QED
    BY <1>3, <1>4

LEMMA ActivatingKeepsPromise ==
    ASSUME Serial, NEW t \in Tasks, Activates(t)
    PROVE  [Promise!Next]_(Promise!vars)
  <1>1. PICK x \in Txns, u \in Users, p \in PaidPlans :
            x = tasks[t].txn /\ u = tasks[t].user /\ p = tasks[t].plan
    BY DEF Activates
  <1>2. /\ TypeOK /\ khpay[x].state = "settled" /\ khpay[x] # NoBill
        /\ khpay[x].user = u /\ khpay[x].plan = p
        /\ payments[x].status = "pending"
        /\ UNCHANGED << now, khpay >>
    BY <1>1 DEF Activates, Serial
  <1>3. /\ payments'[x].status = "paid"
        /\ \A y \in Txns \ {x} : payments'[y] = payments[y]
        /\ users'[u].plan = p
        /\ users'[u].expires = now + PeriodLength
        /\ \A w \in Users \ {u} : users'[w] = users[w]
    BY <1>1, <1>2, ActivationIs
  <1>4. Held' = [Held EXCEPT ![u] = [plan |-> p, until |-> now + PeriodLength]]
    BY <1>3 DEF Held
  <1>5. Purchases[x] = [user |-> u, plan |-> p, stage |-> "settled"]
    BY <1>2, PurchaseIs DEF Purchases
  <1>6. Purchase(x)' = [user |-> u, plan |-> p, stage |-> "redeemed"]
    BY <1>2, <1>3 DEF Purchase, Stage
  <1>7. \A y \in Txns \ {x} : Purchase(y)' = Purchase(y)
    BY <1>2, <1>3 DEF Purchase, Stage
  <1>8. Purchases' = [Purchases EXCEPT ![x].stage = "redeemed"]
    <2>1. [Purchases[x] EXCEPT !.stage = "redeemed"] = [user |-> u, plan |-> p, stage |-> "redeemed"]
      BY <1>5
    <2> QED
      BY <1>6, <1>7, <2>1 DEF Purchases
  <1>9. Promise!Redeem(x)
    BY <1>2, <1>4, <1>5, <1>8 DEF Promise!Redeem, Held, Purchases, Purchase
  <1> QED
    BY <1>9 DEF Promise!Next

LEMMA StagesKeepPromise ==
    ASSUME Serial, NEW x \in Txns, Bills(x) \/ Records(x) \/ Settles(x)
    PROVE  [Promise!Next]_(Promise!vars)
  <1>1. TypeOK /\ PaymentsAgree /\ UNCHANGED << now, users >>
    BY DEF Serial, Bills, Records, Settles
  <1>2. Held' = Held
    BY <1>1 DEF Held
  <1>3. payments[x].status = "paid" => khpay[x].state = "settled"
    BY <1>1 DEF PaymentsAgree, LedgerMatchesKhpay, NoPayment
  <1>4. CASE Bills(x)
    <2>1. PICK u \in Users, p \in PaidPlans :
            khpay' = [khpay EXCEPT ![x] = [user |-> u, plan |-> p, state |-> "open"]]
      BY <1>4 DEF Bills
    <2>2. /\ khpay'[x] = [user |-> u, plan |-> p, state |-> "open"]
          /\ \A y \in Txns \ {x} : khpay'[y] = khpay[y]
          /\ khpay[x] = NoBill /\ payments' = payments
      BY <1>1, <1>4, <2>1 DEF Bills, TypeOK
    <2>3. Purchase(x)' = [user |-> u, plan |-> p, stage |-> "ordered"]
      BY <2>2 DEF Purchase, Stage, NoBill
    <2>4. \A y \in Txns \ {x} : Purchase(y)' = Purchase(y)
      BY <2>2 DEF Purchase, Stage
    <2>5. Purchases' = [Purchases EXCEPT ![x] = [user |-> u, plan |-> p, stage |-> "ordered"]]
      BY <2>3, <2>4 DEF Purchases
    <2>6. Purchases[x] = [stage |-> "none"]
      BY <2>2 DEF Purchases, Purchase
    <2>7. Promise!Order(x)
      BY <1>1, <1>2, <2>5, <2>6 DEF Promise!Order, Promise!NoPurchase, Held, Purchases, Purchase
    <2> QED
      BY <2>7 DEF Promise!Next
  <1>5. CASE Settles(x)
    <2>1. /\ khpay[x] \in Bill /\ khpay[x].state = "shown"
          /\ khpay'[x] = [khpay[x] EXCEPT !.state = "settled"]
          /\ \A y \in Txns \ {x} : khpay'[y] = khpay[y]
          /\ payments' = payments
      BY <1>1, <1>5 DEF Settles, TypeOK
    <2>2. khpay[x] # NoBill
      BY <2>1 DEF NoBill
    <2>3. /\ khpay'[x].user = khpay[x].user /\ khpay'[x].plan = khpay[x].plan
          /\ khpay'[x].state = "settled"
      BY <2>1 DEF Bill
    <2>4. khpay'[x] # NoBill
      BY <2>3 DEF NoBill
    <2>5. Purchases[x] = [user |-> khpay[x].user, plan |-> khpay[x].plan, stage |-> "ordered"]
      BY <2>1, <2>2 DEF Purchases, Purchase, Stage
    <2>6. Purchase(x)' = [user |-> khpay[x].user, plan |-> khpay[x].plan, stage |-> "settled"]
      BY <1>3, <2>1, <2>3, <2>4 DEF Purchase, Stage
    <2>7. \A y \in Txns \ {x} : Purchase(y)' = Purchase(y)
      BY <2>1 DEF Purchase, Stage
    <2>8. Purchases' = [Purchases EXCEPT ![x].stage = "settled"]
      <3>1. [Purchases[x] EXCEPT !.stage = "settled"] =
              [user |-> khpay[x].user, plan |-> khpay[x].plan, stage |-> "settled"]
        BY <2>5
      <3> QED
        BY <2>6, <2>7, <3>1 DEF Purchases
    <2>9. Promise!Settle(x)
      BY <1>1, <1>2, <2>5, <2>8 DEF Promise!Settle, Held, Purchases, Purchase
    <2> QED
      BY <2>9 DEF Promise!Next
  <1>6. CASE Records(x)
    <2>1. /\ khpay[x] \in Bill /\ khpay[x].state = "open"
          /\ khpay'[x] = [khpay[x] EXCEPT !.state = "shown"]
          /\ \A y \in Txns \ {x} : khpay'[y] = khpay[y] /\ payments'[y] = payments[y]
      BY <1>1, <1>6, LedgerKeeps DEF Records, TypeOK
    <2>2. /\ khpay'[x].user = khpay[x].user /\ khpay'[x].plan = khpay[x].plan
          /\ khpay'[x].state = "shown"
      BY <2>1 DEF Bill
    <2>3. khpay[x] # NoBill /\ khpay'[x] # NoBill
      BY <2>1, <2>2 DEF NoBill
    <2>4. Purchase(x)' = Purchase(x)
      BY <2>1, <2>2, <2>3 DEF Purchase, Stage
    <2>5. \A y \in Txns \ {x} : Purchase(y)' = Purchase(y)
      BY <2>1 DEF Purchase, Stage
    <2>6. Purchases' = Purchases
      BY <2>4, <2>5 DEF Purchases
    <2> QED
      BY <1>1, <1>2, <2>6 DEF Promise!vars, Held, Purchases, Purchase
  <1> QED
    BY <1>4, <1>5, <1>6

LEMMA WaitingKeepsPromise ==
    ASSUME Serial, Waits
    PROVE  [Promise!Next]_(Promise!vars)
  <1>1. Held' = Held /\ Purchases' = Purchases
    BY DEF Waits, Held, Purchases, Purchase, Stage
  <1>2. CASE now' = now
    BY <1>1, <1>2 DEF Promise!vars, Held, Purchases, Purchase
  <1>3. CASE now' = now + 1
    <2>1. Promise!Tick
      BY <1>1, <1>3 DEF Promise!Tick, Held, Purchases, Purchase
    <2> QED
      BY <2>1 DEF Promise!Next
  <1> QED
    BY <1>2, <1>3 DEF Waits

(***************************************************************************)
(* While requests come one at a time, the gateway keeps the promise of     *)
(* Subscriptions: a settled payment is redeemed once, for one term, and a  *)
(* plan ends only with its term or by another purchase.                    *)
(***************************************************************************)
THEOREM PromiseIsKept ==
    ASSUME OneAtATime, MaxCrashes = 0, FreePlanServes
    PROVE  Spec => PromiseKept
  <1>1. IInv /\ SerialInv => Serial
    BY DEF Serial, IInv
  <1>2. Serial /\ [Next]_vars => [Promise!Next]_(Promise!vars)
    BY SerialStepIs, SpendingKeepsPromise, ActivatingKeepsPromise, StagesKeepPromise,
       WaitingKeepsPromise
  <1> QED
    BY <1>1, <1>2, SerialHolds, PromiseInit, PTL DEF Spec, PromiseKept, Promise!Spec
=============================================================================
