------------------------------ MODULE Accounts ------------------------------
(***************************************************************************)
(* The gateway's accounts and billing (orchestrator/main.py, auth.py,      *)
(* billing.py): metered analyses, analysis cards, checkout and payment     *)
(* confirmation, over a user registry and a payment ledger that each live  *)
(* in memory and in a JSON file of their own.                              *)
(*                                                                         *)
(* One process serves every request on one event loop.  A request gives    *)
(* the loop away only where its handler awaits: after get_current_user,    *)
(* which runs in the thread pool and hands the handler the row it read,    *)
(* and around every call to Khpay or to the card service.  Everything      *)
(* between two awaits is one action here.  Saving a store rewrites its     *)
(* whole file; a failed write is logged and otherwise ignored.             *)
(***************************************************************************)
EXTENDS PlanRules, FiniteSets

CONSTANTS
    Users,          \* registered accounts
    Txns,           \* payment ids Khpay can issue
    Tasks,          \* requests that can be in flight at once
    Batches,        \* how many symbols an analysis request may name
    MaxTime,        \* bound: the last tick
    MaxServed,      \* bound: analyses granted to one account
    MaxFaults,      \* bound: file writes that fail
    MaxCrashes      \* bound: crashes of the process

ASSUME BoundsAssumption ==
    /\ Batches \subseteq Nat \ {0}
    /\ {MaxTime, MaxServed, MaxFaults, MaxCrashes} \subseteq Nat

VARIABLES
    now,            \* the wall clock
    users,          \* UserStore in memory
    usersFile,      \* users.json
    payments,       \* BillingStore in memory
    paymentsFile,   \* payments.json
    khpay,          \* the payment service: what it issued and what was paid
    tasks,          \* requests in flight
    faults,         \* file writes that failed so far
    crashes,        \* crashes so far
    served,         \* history: analyses granted to each account
    activations     \* history: the ticks at which a payment activated a plan

vars == << now, users, usersFile, payments, paymentsFile, khpay, tasks,
           faults, crashes, served, activations >>

stores == << users, usersFile, payments, paymentsFile, faults >>

----------------------------------------------------------------------------
(* Rows, bills and requests in flight *)

NoPayment == [status |-> "none"]
Payment == [user : Users, plan : PaidPlans, status : {"pending", "paid"}]

NoBill == [state |-> "unused"]
Bill == [user : Users, plan : PaidPlans, state : {"open", "shown", "settled"}]

Idle == [at |-> "idle"]

\* get_current_user has answered; the handler's body has not begun.
Ready == [at : {"ready"}, user : Users, row : UserRow]
\* zenmux: the quota is checked and the card service is working.
CardPending == [at : {"card"}, user : Users, row : UserRow]
\* billing_checkout: waiting for Khpay, then holding its payment id.
Checkout == [at : {"checkout"}, user : Users, plan : PaidPlans]
Billed == [at : {"billed"}, user : Users, plan : PaidPlans, txn : Txns]
\* billing_verify or billing_webhook: waiting for check_payment.
Confirming == [at : {"confirming"}, user : Users, plan : PaidPlans, txn : Txns]

Request == Ready \cup CardPending \cup Checkout \cup Billed \cup Confirming

TypeOK ==
    /\ now \in Nat
    /\ users \in [Users -> UserRow]
    /\ usersFile \in [Users -> UserRow]
    /\ payments \in [Txns -> Payment \cup {NoPayment}]
    /\ paymentsFile \in [Txns -> Payment \cup {NoPayment}]
    /\ khpay \in [Txns -> Bill \cup {NoBill}]
    /\ tasks \in [Tasks -> Request \cup {Idle}]
    /\ faults \in Nat
    /\ crashes \in Nat
    /\ served \in [Users -> Nat]
    /\ activations \in [Txns -> SUBSET Nat]

Init ==
    /\ now = 0
    /\ users = [u \in Users |-> NewRow(0)]
    /\ usersFile = users
    /\ payments = [x \in Txns |-> NoPayment]
    /\ paymentsFile = payments
    /\ khpay = [x \in Txns |-> NoBill]
    /\ tasks = [t \in Tasks |-> Idle]
    /\ faults = 0
    /\ crashes = 0
    /\ served = [u \in Users |-> 0]
    /\ activations = [x \in Txns |-> {}]

----------------------------------------------------------------------------
(* Saving a store: memory always changes, the file unless the write fails *)

MayFail == IF faults < MaxFaults THEN BOOLEAN ELSE {FALSE}
Written(file, memory, fails) == IF fails THEN file ELSE memory
Tally(fails) == IF fails THEN 1 ELSE 0

\* UserStore.update
SaveUser(u, row) ==
    \E fails \in MayFail :
        /\ users' = [users EXCEPT ![u] = row]
        /\ usersFile' = Written(usersFile, users', fails)
        /\ faults' = faults + Tally(fails)

\* BillingStore.create
SavePayment(x, payment) ==
    \E fails \in MayFail :
        /\ payments' = [payments EXCEPT ![x] = payment]
        /\ paymentsFile' = Written(paymentsFile, payments', fails)
        /\ faults' = faults + Tally(fails)

Goto(t, request) == tasks' = [tasks EXCEPT ![t] = request]
Finish(t) == Goto(t, Idle)

----------------------------------------------------------------------------
(* Metered endpoints *)

Authenticate(t, u) ==
    /\ tasks[t] = Idle
    /\ Goto(t, [at |-> "ready", user |-> u, row |-> users[u]])
    /\ UNCHANGED << now, stores, khpay, crashes, served, activations >>

\* analysis, analyze_symbol and analyze_batch: billed before the cycle runs.
Analyse(t) ==
    /\ tasks[t].at = "ready"
    /\ \E count \in Batches :
        LET u == tasks[t].user
            consumption == ConsumeMany(tasks[t].row, count, now)
        IN  /\ served[u] + count <= MaxServed
            /\ SaveUser(u, consumption.row)
            /\ served' = IF consumption.allowed
                         THEN [served EXCEPT ![u] = @ + count]
                         ELSE served
    /\ Finish(t)
    /\ UNCHANGED << now, payments, paymentsFile, khpay, crashes, activations >>

\* zenmux up to its await: refused, or waiting for the card.
CheckCard(t) ==
    /\ tasks[t].at = "ready"
    /\ LET u == tasks[t].user
           checked == Check(tasks[t].row, 1, now)
       IN  /\ SaveUser(u, checked.row)
           /\ IF checked.allowed
              THEN Goto(t, [at |-> "card", user |-> u, row |-> checked.row])
              ELSE Finish(t)
    /\ UNCHANGED << now, payments, paymentsFile, khpay, crashes, served, activations >>

\* The card service failed: 502 or 503, and nothing is spent.
FailCard(t) ==
    /\ tasks[t].at = "card"
    /\ Finish(t)
    /\ UNCHANGED << now, stores, khpay, crashes, served, activations >>

\* Mutant: the charge is forgotten.
ChargeCardForgets(t) ==
    /\ tasks[t].at = "card"
    /\ served[tasks[t].user] < MaxServed
    /\ served' = [served EXCEPT ![tasks[t].user] = @ + 1]
    /\ Finish(t)
    /\ UNCHANGED << now, stores, khpay, crashes, activations >>

\* The card arrived.  It is charged to the row captured before the await, and
\* it is returned whether or not that charge was allowed.
ChargeCard(t) ==
    /\ tasks[t].at = "card"
    /\ LET u == tasks[t].user
       IN  /\ served[u] < MaxServed
           /\ SaveUser(u, ConsumeMany(tasks[t].row, 1, now).row)
           /\ served' = [served EXCEPT ![u] = @ + 1]
    /\ Finish(t)
    /\ UNCHANGED << now, payments, paymentsFile, khpay, crashes, activations >>

\* billing_plan: a changed row is saved, and the status of it is returned.
ViewPlan(t) ==
    /\ tasks[t].at = "ready"
    /\ LET enforced == Enforce(tasks[t].row, now)
       IN  IF enforced # tasks[t].row
           THEN /\ SaveUser(tasks[t].user, enforced)
                /\ UNCHANGED << payments, paymentsFile >>
           ELSE UNCHANGED stores
    /\ Finish(t)
    /\ UNCHANGED << now, khpay, crashes, served, activations >>

----------------------------------------------------------------------------
(* Checkout *)

StartCheckout(t) ==
    /\ tasks[t].at = "ready"
    /\ \E plan \in PaidPlans :
        Goto(t, [at |-> "checkout", user |-> tasks[t].user, plan |-> plan])
    /\ UNCHANGED << now, stores, khpay, crashes, served, activations >>

\* Khpay issues a payment and the gateway gets its id, or the reply is lost.
IssueBill(t, x) ==
    /\ tasks[t].at = "checkout"
    /\ khpay[x] = NoBill
    /\ LET u == tasks[t].user
           p == tasks[t].plan
       IN  /\ khpay' = [khpay EXCEPT ![x] = [user |-> u, plan |-> p, state |-> "open"]]
           /\ \/ Goto(t, [at |-> "billed", user |-> u, plan |-> p, txn |-> x])
              \/ Finish(t)
    /\ UNCHANGED << now, stores, crashes, served, activations >>

\* create_payment failed before a payment existed: 502.
FailCheckout(t) ==
    /\ tasks[t].at = "checkout"
    /\ Finish(t)
    /\ UNCHANGED << now, stores, khpay, crashes, served, activations >>

\* The intent is recorded, and the reply shows the customer the QR code.
RecordPayment(t) ==
    /\ tasks[t].at = "billed"
    /\ LET x == tasks[t].txn
       IN  /\ SavePayment(x, [user |-> tasks[t].user, plan |-> tasks[t].plan,
                              status |-> "pending"])
           /\ khpay' = [khpay EXCEPT ![x].state = "shown"]
    /\ Finish(t)
    /\ UNCHANGED << now, users, usersFile, crashes, served, activations >>

\* The customer scans the code and pays.
Pay(x) ==
    /\ khpay[x].state = "shown"
    /\ khpay' = [khpay EXCEPT ![x].state = "settled"]
    /\ UNCHANGED << now, stores, tasks, crashes, served, activations >>

----------------------------------------------------------------------------
(* Confirmation, by the customer's poll and by Khpay's notification *)

Confirm(x) == [at |-> "confirming", user |-> payments[x].user,
               plan |-> payments[x].plan, txn |-> x]

\* billing_verify, for a payment of the caller that is not marked paid.
StartVerify(t, x) ==
    /\ tasks[t].at = "ready"
    /\ payments[x] # NoPayment
    /\ payments[x].user = tasks[t].user
    /\ payments[x].status # "paid"
    /\ Goto(t, Confirm(x))
    /\ UNCHANGED << now, stores, khpay, crashes, served, activations >>

\* billing_webhook, for a payment that is known and not marked paid.
StartWebhook(t, x) ==
    /\ tasks[t] = Idle
    /\ payments[x] # NoPayment
    /\ payments[x].status # "paid"
    /\ Goto(t, Confirm(x))
    /\ UNCHANGED << now, stores, khpay, crashes, served, activations >>

\* check_payment said "not paid" or failed: the handler only answers.
Unconfirmed(t) ==
    /\ tasks[t].at = "confirming"
    /\ Finish(t)
    /\ UNCHANGED << now, stores, khpay, crashes, served, activations >>

Marked(x) == [payments EXCEPT ![x].status = "paid"]

\* Mutant: the new status is saved, and memory keeps the old one.
MarkPaidInFile(x, fails) ==
    /\ ~fails
    /\ paymentsFile' = Marked(x)
    /\ UNCHANGED payments

\* BillingStore.mark: only a pending payment is changed, and saved.
MarkPaid(x, fails) ==
    IF payments[x].status = "pending"
    THEN /\ payments' = Marked(x)
         /\ paymentsFile' = Written(paymentsFile, payments', fails)
    ELSE /\ ~fails
         /\ UNCHANGED << payments, paymentsFile >>

\* Mutant: the payment is confirmed before Khpay says it is paid.
ConfirmedUnpaid(t) ==
    /\ tasks[t].at = "confirming"
    /\ LET x == tasks[t].txn
       IN  /\ MarkPaid(x, FALSE)
           /\ SaveUser(tasks[t].user, Activate(tasks[t].plan, now))
           /\ activations' = [activations EXCEPT ![x] = @ \cup {now}]
    /\ Finish(t)
    /\ UNCHANGED << now, khpay, crashes, served >>

\* Mutant: the payment is marked and the upgrade is left out.
ConfirmedWithoutUpgrade(t) ==
    /\ tasks[t].at = "confirming"
    /\ LET x == tasks[t].txn
       IN  /\ khpay[x].state = "settled"
           /\ MarkPaid(x, FALSE)
    /\ Finish(t)
    /\ UNCHANGED << now, users, usersFile, khpay, faults, crashes, served, activations >>

\* Mutant: a renewal is added to the term that is left.
ConfirmedStacksTerms(t) ==
    /\ tasks[t].at = "confirming"
    /\ LET x == tasks[t].txn
           u == tasks[t].user
           bought == Activate(tasks[t].plan, now)
       IN  /\ khpay[x].state = "settled"
           /\ MarkPaid(x, FALSE)
           /\ SaveUser(u, IF users[u].plan = bought.plan
                          THEN [bought EXCEPT !.expires = users[u].expires + PeriodLength]
                          ELSE bought)
           /\ activations' = [activations EXCEPT ![x] = @ \cup {now}]
    /\ Finish(t)
    /\ UNCHANGED << now, khpay, crashes, served >>

\* _activate_from_payment: mark the payment, then upgrade and save the user.
Confirmed(t) ==
    /\ tasks[t].at = "confirming"
    /\ LET x == tasks[t].txn
           u == tasks[t].user
       IN  /\ khpay[x].state = "settled"
           /\ \E markFails, updateFails \in BOOLEAN :
                /\ MarkPaid(x, markFails)
                /\ users' = [users EXCEPT ![u] = Activate(tasks[t].plan, now)]
                /\ usersFile' = Written(usersFile, users', updateFails)
                /\ faults' = faults + Tally(markFails) + Tally(updateFails)
                /\ faults' <= MaxFaults
           /\ activations' = [activations EXCEPT ![x] = @ \cup {now}]
    /\ Finish(t)
    /\ UNCHANGED << now, khpay, crashes, served >>

\* A request that changes nothing: a read, or one refused before any change.
Answer(t) ==
    /\ tasks[t].at = "ready"
    /\ Finish(t)
    /\ UNCHANGED << now, stores, khpay, crashes, served, activations >>

----------------------------------------------------------------------------
(* Crashes, restarts and time *)

\* What the process holds after a start: the files, and no request.
Restart ==
    /\ crashes < MaxCrashes
    /\ crashes' = crashes + 1
    /\ users' = usersFile
    /\ payments' = paymentsFile'
    /\ tasks' = [t \in Tasks |-> Idle]
    /\ UNCHANGED << now, usersFile, khpay, faults, served, activations >>

Crash ==
    /\ paymentsFile' = paymentsFile
    /\ Restart

\* The process dies between the two saves of _activate_from_payment.
CrashInActivation(t) ==
    /\ tasks[t].at = "confirming"
    /\ LET x == tasks[t].txn
       IN  /\ khpay[x].state = "settled"
           /\ payments[x].status = "pending"
           /\ paymentsFile' = Marked(x)
    /\ Restart

Tick ==
    /\ now < MaxTime
    /\ now' = now + 1
    /\ UNCHANGED << stores, khpay, tasks, crashes, served, activations >>

\* The step a request in flight takes next.
Handle(t) ==
    \/ Analyse(t) \/ CheckCard(t) \/ FailCard(t) \/ ChargeCard(t) \/ ViewPlan(t)
    \/ StartCheckout(t) \/ FailCheckout(t) \/ RecordPayment(t)
    \/ Unconfirmed(t) \/ Confirmed(t) \/ Answer(t)
    \/ \E x \in Txns : IssueBill(t, x) \/ StartVerify(t, x)

Next ==
    \/ \E t \in Tasks :
        \/ Handle(t)
        \/ \E u \in Users : Authenticate(t, u)
        \/ \E x \in Txns : StartWebhook(t, x)
        \/ CrashInActivation(t)
    \/ \E x \in Txns : Pay(x)
    \/ Crash
    \/ Tick

Spec == Init /\ [][Next]_vars

\* A handler runs to its end; a customer whose payment is not marked paid, or
\* Khpay's notification, asks again; and a check that is made again and again
\* is answered truthfully now and then.
Retry(x) == \E t \in Tasks : StartVerify(t, x) \/ StartWebhook(t, x)
Asking(t, x) == tasks[t].at = "confirming" /\ tasks[t].txn = x
Answered(x) == \E t \in Tasks : Asking(t, x) /\ Confirmed(t)
Fairness ==
    /\ \A t \in Tasks : WF_vars(Handle(t))
    /\ \A x \in Txns : SF_vars(Retry(x)) /\ SF_vars(Answered(x))

FairSpec == Spec /\ Fairness

----------------------------------------------------------------------------
(* Properties *)

\* Every copy of an account's row: in memory, in the file, and as captured by
\* a request that has yet to write it back.
Holding(t) == tasks[t].at \in {"ready", "card"}
Copies(u) ==
    {users[u], usersFile[u]}
        \cup {tasks[t].row : t \in {s \in Tasks : Holding(s) /\ tasks[s].user = u}}

\* Some payment of u, settled at Khpay, bought this row's plan, and the row
\* expires exactly one period after an activation of that payment.
PaidFor(u, row) ==
    \E x \in Txns :
        /\ khpay[x].state = "settled"
        /\ khpay[x].user = u
        /\ khpay[x].plan = row.plan
        /\ row.expires - PeriodLength \in activations[x]

\* No interleaving of handlers, lost write or crash gives an account a paid
\* plan, or a term of it, that the customer's own settled payment did not buy
\* (billing_verify, billing_webhook, _activate_from_payment).
PaidPlansArePaidFor ==
    \A u \in Users : \A row \in Copies(u) :
        row.plan \in PaidPlans => PaidFor(u, row)

\* No copy of a row ever claims more usage than its plan allows, across the
\* downgrade of an expired plan to a plan with smaller caps (plans.enforce).
UsageWithinCaps ==
    \A u \in Users : \A row \in Copies(u) : WithinCaps(row)

\* A payment the gateway calls paid is one the customer paid, in memory and in
\* the file, and it is recorded for the account and plan it was issued for.
LedgerMatchesKhpay ==
    \A ledger \in {payments, paymentsFile} : \A x \in Txns :
        ledger[x] # NoPayment =>
            /\ khpay[x] # NoBill
            /\ ledger[x].user = khpay[x].user
            /\ ledger[x].plan = khpay[x].plan
            /\ ledger[x].status = "paid" => khpay[x].state = "settled"

\* A request that holds a payment id holds it for the account and plan Khpay
\* issued it for, so what is confirmed later is what was paid.
RequestsMatchKhpay ==
    \A t \in Tasks :
        tasks[t].at \in {"billed", "confirming"} =>
            LET bill == khpay[tasks[t].txn]
            IN  /\ bill # NoBill
                /\ bill.user = tasks[t].user
                /\ bill.plan = tasks[t].plan

\* A payment id is in the hands of one checkout, until its QR code is shown.
OneCheckoutPerBill ==
    \A t \in Tasks :
        tasks[t].at = "billed" =>
            /\ khpay[tasks[t].txn].state = "open"
            /\ \A s \in Tasks \ {t} :
                tasks[s].at = "billed" => tasks[s].txn # tasks[t].txn

\* Every analysis granted to an account costs it one against both quotas of
\* the row that is stored, whichever feature spends it (main.zenmux).
ChargedInFull ==
    [][\A u \in Users :
        served'[u] > served[u] =>
            LET before == Enforce(users[u], now)
                granted == served'[u] - served[u]
            IN  /\ users'[u].used = before.used + granted
                /\ users'[u].usedToday = before.usedToday + granted]_vars

\* A usage counter of the stored row goes down only when its window is over, its
\* plan has expired, or a payment is activated: never because an older copy of
\* the row is written back (plans.enforce, plans.activate).
ResetsAreDue ==
    [][\A u \in Users :
        LET old == users[u]
            new == users'[u]
            replaced == Expired(old, now) \/ activations' # activations
        IN  /\ new.usedToday < old.usedToday =>
                    replaced \/ UtcMidnight(old.dayStart) < UtcMidnight(now)
            /\ new.used < old.used =>
                    replaced \/ old.periodStart + PeriodLength <= now]_vars

\* Both halves of metering: grants raise the counters, and only windows lower them.
QuotasAreExact == ChargedInFull /\ ResetsAreDue

\* A payment activates a plan for one billing period, once.
ActivatedOnce == \A x \in Txns : Cardinality(activations[x]) <= 1

\* When a payment is marked paid its customer has the plan it bought, or that
\* of a payment activated no earlier, until the billing period is over.
Supersedes(y, x) ==
    /\ payments[y] # NoPayment
    /\ payments[y].user = payments[x].user
    /\ \E late \in activations[y] : \A early \in activations[x] : early <= late
PaymentHonoured ==
    \A x \in Txns :
        payments[x].status = "paid" =>
            \/ \E y \in Txns :
                /\ Supersedes(y, x)
                /\ users[payments[x].user].plan = payments[y].plan
            \/ \E tick \in activations[x] : tick + PeriodLength <= now

\* A payment that was marked serves its customer once, and for its whole term.
EachPaymentServesOnce == PaymentHonoured /\ ActivatedOnce

\* Every settled payment activates its plan in the end, although any single
\* check may fail, as long as someone asks again (billing_verify polled by the
\* checkout page, billing_webhook).
SettledIsServed ==
    \A x \in Txns : khpay[x].state = "settled" ~> activations[x] # {}

\* The gateway as a customer sees it: the ledger and the plans of the registry
\* keep the promise of Subscriptions.
Stage(x) ==
    IF khpay[x].state # "settled" THEN "ordered"
    ELSE IF payments[x].status = "paid" THEN "redeemed" ELSE "settled"
Promise == INSTANCE Subscriptions WITH
    held <- [u \in Users |-> [plan |-> users[u].plan, until |-> users[u].expires]],
    purchases <- [x \in Txns |->
                    IF khpay[x] = NoBill THEN [stage |-> "none"]
                    ELSE [user |-> khpay[x].user, plan |-> khpay[x].plan,
                          stage |-> Stage(x)]],
    Term <- PeriodLength
PromiseKept == Promise!Spec
=============================================================================
