--------------------------- MODULE Subscriptions ---------------------------
(***************************************************************************)
(* What billing promises a customer, with no request, store or file in     *)
(* sight: a settled payment is redeemed once, for one term of its plan,    *)
(* and a plan ends only when its term is over or another purchase replaces *)
(* it.                                                                     *)
(***************************************************************************)
EXTENDS Integers

CONSTANTS
    Users, Txns, PaidPlans,
    FreePlan,
    Never,          \* the end of a plan that does not expire
    Term            \* how long a payment buys

VARIABLES
    now,
    held,           \* the plan each account has, and until when
    purchases       \* each payment, and how far it has come

vars == << now, held, purchases >>

NoPurchase == [stage |-> "none"]

Free == [plan |-> FreePlan, until |-> Never]

Init ==
    /\ now = 0
    /\ held = [u \in Users |-> Free]
    /\ purchases = [x \in Txns |-> NoPurchase]

Order(x) ==
    /\ purchases[x] = NoPurchase
    /\ \E u \in Users, p \in PaidPlans :
        purchases' = [purchases EXCEPT ![x] = [user |-> u, plan |-> p, stage |-> "ordered"]]
    /\ UNCHANGED << now, held >>

Settle(x) ==
    /\ purchases[x].stage = "ordered"
    /\ purchases' = [purchases EXCEPT ![x].stage = "settled"]
    /\ UNCHANGED << now, held >>

Redeem(x) ==
    /\ purchases[x].stage = "settled"
    /\ held' = [held EXCEPT ![purchases[x].user] =
                    [plan |-> purchases[x].plan, until |-> now + Term]]
    /\ purchases' = [purchases EXCEPT ![x].stage = "redeemed"]
    /\ UNCHANGED now

Lapse(u) ==
    /\ held[u].plan \in PaidPlans
    /\ held[u].until <= now
    /\ held' = [held EXCEPT ![u] = Free]
    /\ UNCHANGED << now, purchases >>

Tick ==
    /\ now' = now + 1
    /\ UNCHANGED << held, purchases >>

Next ==
    \/ \E x \in Txns : Order(x) \/ Settle(x) \/ Redeem(x)
    \/ \E u \in Users : Lapse(u)
    \/ Tick

Spec == Init /\ [][Next]_vars
=============================================================================
