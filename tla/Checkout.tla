------------------------------- MODULE Checkout -------------------------------
(* Buying a plan in the browser: the pricing page, the checkout page that     *)
(* asks for a KHQR payment when it is mounted and then polls for it, and the  *)
(* subscriptions page. The backend activates a plan when somebody asks it to  *)
(* verify the payment, or when the payment service reports it.                *)
EXTENDS Integers, Sequences

CONSTANTS
    POLL_ATTEMPTS,   \* 30 in the code
    MaxPayments,     \* bound on the payments that are created
    MaxMoves         \* bound on what the user and the network do

VARIABLES
    page,       \* the route that is shown
    user,       \* useAuth: "loading", "out", the plan it was loaded with, or "untold"
                \* of a sign-in, which the cookie alone knows
    plan,       \* the plan the backend has for the account
    payments,   \* the payments created, in order: its plan, settled and activated
    view,       \* CheckoutPage's state
    info,       \* the plan the pricing or the subscriptions page has fetched
    polls,      \* per payment: the attempts left, and whether one is asking
    clicks,     \* per payment: verifications asked for by the button
    toasts,     \* per payment: announcements of success
    moves

vars == <<page, user, plan, payments, view, info, polls, clicks, toasts, moves>>
money == <<plan, payments>>
asks == <<polls, clicks, toasts>>

PLANS == {"free", "starter", "pro", "ultra"}
Paid == PLANS \ {"free"}
Pages == {"pricing", "checkout", "subscriptions", "login", "elsewhere"}
Ids == 1..MaxPayments
SignedIn == user \in PLANS

NoView == [at |-> "unmounted", id |-> 0, checking |-> FALSE, paid |-> FALSE]
\* The request for a payment is sent once the user is known.
FreshView(u) == [NoView EXCEPT !.at = IF u \in PLANS THEN "creating" ELSE "no user"]
\* A page that shows the plan fetches it on its mount; pricing only for a user.
NoInfo == [at |-> "none", plan |-> "none"]
FreshInfo(p, u) ==
    IF p = "subscriptions" \/ (p = "pricing" /\ u \in PLANS)
    THEN [NoInfo EXCEPT !.at = "loading"] ELSE NoInfo

NoPoll == [left |-> 0, at |-> "none"]
Init ==
    /\ page \in Pages \ {"login"} /\ user = "loading" /\ plan = "free"
    /\ payments = <<>> /\ polls = [i \in Ids |-> NoPoll]
    /\ view = IF page = "checkout" THEN FreshView("loading") ELSE NoView
    /\ info = FreshInfo(page, "loading")
    /\ clicks = [i \in Ids |-> 0] /\ toasts = [i \in Ids |-> 0] /\ moves = 0

Move == moves < MaxMoves /\ moves' = moves + 1
Show(p) ==
    /\ page' = p /\ view' = (IF p = "checkout" THEN FreshView(user) ELSE NoView)
    /\ info' = FreshInfo(p, user)

-----------------------------------------------------------------------------
\* Loads, links and the session.

\* /me answers. The effects of the mounted page depend on the user, and run again.
AuthAnswers ==
    /\ user = "loading" /\ \E u \in {plan, "out"} :
        /\ user' = u
        /\ view' = IF page = "checkout" THEN FreshView(u) ELSE view
        /\ info' = IF page = "pricing" THEN FreshInfo(page, u) ELSE info
    /\ UNCHANGED <<page, money, asks, moves>>
\* Checkout without a user: on to the sign-in page, from which the middleware leads
\* those who have a cookie to the dashboard.
Redirect ==
    /\ page = "checkout" /\ user \in {"out", "untold"}
    /\ Show(IF user = "out" THEN "login" ELSE "elsewhere")
    /\ UNCHANGED <<user, money, asks, moves>>
\* The form goes to the dashboard within the tab, and AuthProvider is not told.
SignIn ==
    /\ page = "login" /\ Move /\ user' = "untold" /\ Show("elsewhere")
    /\ UNCHANGED <<money, asks>>
\* Google comes back to the checkout with a load of the tab.
GoogleSignIn ==
    /\ page = "login" /\ Move /\ user' = "loading" /\ page' = "checkout"
    /\ view' = FreshView("loading") /\ info' = NoInfo
    /\ polls' = [i \in Ids |-> NoPoll] /\ clicks' = [i \in Ids |-> 0]
    /\ UNCHANGED <<money, toasts>>
\* A load of the tab ends every loop that runs in it.
Reload ==
    /\ Move /\ page # "login" /\ user' = "loading" /\ UNCHANGED <<page, money, toasts>>
    /\ view' = (IF page = "checkout" THEN FreshView("loading") ELSE NoView)
    /\ info' = FreshInfo(page, "loading")
    /\ polls' = [i \in Ids |-> NoPoll] /\ clicks' = [i \in Ids |-> 0]
\* Cancel is disabled once the payment is confirmed; the links around it are not.
Leave(p) ==
    /\ Move /\ page \notin {p, "login"} /\ p # "login" /\ Show(p)
    /\ UNCHANGED <<user, money, asks>>

-----------------------------------------------------------------------------
\* What the pages show of the plan.

\* currentPlan: what was fetched, or the free plan for anybody who is signed in.
Shown == IF info.at = "ready" THEN info.plan ELSE IF SignedIn THEN "free" ELSE "none"
PlanAnswers ==
    /\ info.at = "loading" /\ info' = [at |-> "ready", plan |-> plan]
    /\ UNCHANGED <<page, user, money, view, asks, moves>>
PlanFails ==
    /\ info.at = "loading" /\ Move /\ info' = [NoInfo EXCEPT !.at = "failed"]
    /\ UNCHANGED <<page, user, money, view, asks>>
\* The card of the plan that is shown as the current one has no link.
ChoosePlan(p) ==
    /\ page = "pricing" /\ p \in Paid /\ (Shown # p \/ p = "pro") /\ Leave("checkout")

-----------------------------------------------------------------------------
\* The checkout page.

\* The three paid plans do not differ here: two of them stand for all.
Put(i, v) == /\ payments' = Append(payments, v) /\ i = Len(payments')
Created ==
    /\ page = "checkout" /\ view.at = "creating" /\ Len(payments) < MaxPayments
    /\ \E p \in {"pro", "ultra"}, i \in Ids :
        /\ Put(i, [plan |-> p, settled |-> FALSE, active |-> FALSE])
        /\ view' = [view EXCEPT !.at = "shown", !.id = i]
        /\ polls' = [polls EXCEPT ![i] = [left |-> POLL_ATTEMPTS, at |-> "sleeping"]]
    /\ UNCHANGED <<page, user, plan, info, clicks, toasts, moves>>
CreateFails ==
    /\ page = "checkout" /\ view.at = "creating" /\ Move
    /\ view' = [view EXCEPT !.at = "failed"]
    /\ UNCHANGED <<page, user, money, info, asks>>
\* The customer pays in the banking app, whatever the browser does by now.
Settle(i) ==
    /\ i \in 1..Len(payments) /\ ~payments[i].settled
    /\ payments' = [payments EXCEPT ![i].settled = TRUE]
    /\ UNCHANGED <<page, user, plan, view, info, asks, moves>>

Settled(i) == \E k \in DOMAIN payments : k = i /\ payments[k].settled

\* verify's first line and its finally: only the mounted page's state is there to change.
Asking(i, b) == view' = IF view.id = i THEN [view EXCEPT !.checking = b] ELSE view
\* Mutant: the loop waits while its page is not mounted.
PollWakesOnPage(i) ==
    /\ polls[i].at = "sleeping" /\ view.id = i
    /\ polls' = [polls EXCEPT ![i].at = "asking"] /\ Asking(i, TRUE)
    /\ UNCHANGED <<page, user, money, info, clicks, toasts, moves>>
\* The loop goes on after the page is left.
PollWakes(i) ==
    /\ polls[i].at = "sleeping" /\ polls' = [polls EXCEPT ![i].at = "asking"] /\ Asking(i, TRUE)
    /\ UNCHANGED <<page, user, money, info, clicks, toasts, moves>>
Check(i) ==
    /\ view.id = i /\ i # 0 /\ ~view.checking /\ ~view.paid /\ Move
    /\ clicks' = [clicks EXCEPT ![i] = @ + 1] /\ Asking(i, TRUE)
    /\ UNCHANGED <<page, user, money, info, polls, toasts>>

\* billing_verify: a payment that settled is activated by the first who asks.
Activate(i) ==
    IF payments[i].active THEN UNCHANGED money
    ELSE plan' = payments[i].plan /\ payments' = [payments EXCEPT ![i].active = TRUE]
\* billing_webhook: the payment service may report by itself.
Webhook(i) ==
    /\ Settled(i) /\ ~payments[i].active /\ Activate(i)
    /\ UNCHANGED <<page, user, view, info, asks, moves>>
\* Mutant: any answer is taken for a payment.
FoundAnyway(i) ==
    /\ UNCHANGED money /\ toasts' = [toasts EXCEPT ![i] = @ + 1]
    /\ view' = IF view.id = i THEN [view EXCEPT !.paid = TRUE, !.checking = FALSE] ELSE view
Found(i) ==
    /\ payments[i].settled /\ Activate(i) /\ toasts' = [toasts EXCEPT ![i] = @ + 1]
    /\ view' = IF view.id = i THEN [view EXCEPT !.paid = TRUE, !.checking = FALSE] ELSE view
\* Not paid yet, refused, unreachable, or an answer lost after the plan was activated.
NotFound(i) ==
    /\ \/ ~payments[i].settled /\ UNCHANGED <<money, moves>>
       \/ payments[i].settled /\ Move /\ (UNCHANGED money \/ Activate(i))
    /\ UNCHANGED toasts /\ Asking(i, FALSE)
\* Mutant: one attempt too many.
SpentLate(i) ==
    polls' = [polls EXCEPT ![i] = [left |-> @.left - 1,
                                   at |-> IF @.left = 0 THEN "over" ELSE "sleeping"]]
Spent(i) ==
    polls' = [polls EXCEPT ![i] = [left |-> @.left - 1,
                                   at |-> IF @.left = 1 THEN "over" ELSE "sleeping"]]
PollAnswers(i) ==
    /\ polls[i].at = "asking"
    /\ \/ Found(i) /\ polls' = [polls EXCEPT ![i].at = "over"] /\ UNCHANGED moves
       \/ NotFound(i) /\ Spent(i)
    /\ UNCHANGED <<page, user, info, clicks>>
CheckAnswers(i) ==
    /\ clicks[i] > 0 /\ clicks' = [clicks EXCEPT ![i] = @ - 1]
    /\ \/ Found(i) /\ UNCHANGED moves
       \/ NotFound(i)
    /\ UNCHANGED <<page, user, info, polls>>

Next ==
    \/ AuthAnswers \/ Redirect \/ SignIn \/ GoogleSignIn \/ Reload \/ PlanAnswers \/ PlanFails
    \/ \E p \in Pages : Leave(p)
    \/ \E p \in PLANS : ChoosePlan(p)
    \/ Created \/ CreateFails
    \/ \E i \in Ids : Settle(i) \/ Webhook(i) \/ PollWakes(i) \/ Check(i)
    \/ \E i \in Ids : PollAnswers(i) \/ CheckAnswers(i)
Fairness ==
    /\ WF_vars(AuthAnswers) /\ WF_vars(Redirect) /\ WF_vars(PlanAnswers)
    /\ \A i \in Ids : WF_vars(PollWakes(i)) /\ WF_vars(PollAnswers(i)) /\ WF_vars(CheckAnswers(i))
Spec == Init /\ [][Next]_vars /\ Fairness

-----------------------------------------------------------------------------
TypeOK ==
    /\ page \in Pages /\ user \in PLANS \cup {"loading", "out", "untold"} /\ plan \in PLANS
    /\ Len(payments) <= MaxPayments /\ view.id \in 0..Len(payments)
    /\ \A i \in Ids : polls[i].left \in 0..POLL_ATTEMPTS

\* "Payment confirmed - plan active" is shown, and announced, only for a payment
\* that was settled and that has activated its plan, whichever loop or button
\* found out and whatever page its answer reached.
PaidMeansActive ==
    /\ view.paid => payments[view.id].active
    /\ \A i \in 1..Len(payments) :
         (toasts[i] > 0 => payments[i].active) /\ (payments[i].active => payments[i].settled)

Active(i) == \E k \in DOMAIN payments : k = i /\ payments[k].active
\* A payment that settles while its poll has more attempts to make than answers
\* can still be lost is activated, unless a load of the tab ends the poll.
CaughtWhilePolling ==
    \A i \in Ids :
        Settled(i) /\ polls[i].at = "sleeping" /\ polls[i].left > MaxMoves - moves
        ~> Active(i) \/ polls[i].at = "none"

\* The button comes back: it does not stay disabled by a check that is over.
ButtonComesBack == view.checking ~> ~view.checking

\* Not kept by the code, see the README.
\* The button is disabled while any verification of its payment is under way.
OneCheckAtATime == [][\A i \in Ids : Check(i) => clicks[i] = 0 /\ polls[i].at # "asking"]_vars

\* Not kept by the code, see the README.
\* "The plan activates automatically once the payment is confirmed": only while
\* the page polls, unless the payment service reports it.
ActivatesAutomatically ==
    \A i \in Ids : Settled(i) ~> Active(i)

\* Not kept by the code, see the README.
\* Success is announced once.
AnnouncedOnce == \A i \in Ids : toasts[i] <= 1

\* Not kept by the code, see the README.
\* The plan that is called current is the account's.
ShownPlanIsReal == page = "pricing" /\ SignedIn => Shown = plan

\* Not kept by the code, see the README.
\* A payment is polled for by the page that shows it, and by no other.
PollsAreShown == \A i \in Ids : polls[i].at \in {"sleeping", "asking"} => view.id = i
=============================================================================
