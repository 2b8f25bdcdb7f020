----------------------------- MODULE PlanRules -----------------------------
(***************************************************************************)
(* The plan arithmetic of orchestrator/plans.py: quota windows, expiry and *)
(* activation, as operators on one row of the user registry.               *)
(*                                                                         *)
(* Time is counted in ticks.  A UTC day is DayLength ticks and a billing   *)
(* period is PeriodDays days, so a period need not start at a midnight.    *)
(* The fields of a row that no plan rule reads (name, e-mail, password     *)
(* hash, provider) are left out.                                           *)
(***************************************************************************)
EXTENDS Integers

CONSTANTS
    PaidPlans,      \* PAID_PLANS: the plans a user can buy
    DailyLimit,     \* plan_daily_limit, a function of the plan
    MonthlyLimit,   \* plan_limit, a function of the plan
    DayLength,      \* ticks in a UTC day
    PeriodDays      \* plan_billing_period_days

FreePlan == "free"
Plans == PaidPlans \cup {FreePlan}

Unlimited == -1     \* the limit that switches a cap off
Never == -1         \* plan_expires_at of a row that does not expire (None)

PeriodLength == PeriodDays * DayLength

ASSUME FreeIsNotSold == FreePlan \notin PaidPlans
ASSUME LimitsAssumption ==
    /\ DailyLimit \in [Plans -> Nat \cup {Unlimited}]
    /\ MonthlyLimit \in [Plans -> Nat \cup {Unlimited}]
ASSUME CalendarAssumption ==
    /\ DayLength \in Nat \ {0}
    /\ PeriodDays \in Nat \ {0}

UserRow ==
    [ plan        : Plans,
      expires     : Nat \cup {Never},   \* plan_expires_at
      used        : Nat,                \* analysis_used
      periodStart : Nat,                \* analysis_period_start
      usedToday   : Nat,                \* analysis_used_today
      dayStart    : Nat ]               \* analysis_day_start

----------------------------------------------------------------------------
\* Mutant: the midnight before the last one.
UtcMidnightYesterday(moment) == moment - (moment % DayLength) - DayLength

UtcMidnight(moment) == moment - (moment % DayLength)

\* Mutant: a day is counted as a period.
AdvancePeriodDaily(start, now) ==
    IF now < start THEN start ELSE now - ((now - start) % DayLength)

\* Whole periods are added to start until now falls inside the period; a
\* start that lies in the future is kept.
AdvancePeriod(start, now) ==
    IF now < start THEN start ELSE now - ((now - start) % PeriodLength)

Expired(row, now) ==
    /\ row.plan \in PaidPlans
    /\ row.expires # Never
    /\ row.expires <= now

\* Mutant: the counters survive the downgrade.
DowngradeKeepsUsage(row, now) ==
    IF Expired(row, now)
    THEN [row EXCEPT !.plan = FreePlan, !.expires = Never]
    ELSE row

Downgrade(row, now) ==
    IF Expired(row, now)
    THEN [ plan        |-> FreePlan,
           expires     |-> Never,
           used        |-> 0,
           periodStart |-> now,
           usedToday   |-> 0,
           dayStart    |-> UtcMidnight(now) ]
    ELSE row

RollPeriod(row, now) ==
    LET start == AdvancePeriod(row.periodStart, now)
    IN  IF start # row.periodStart
        THEN [row EXCEPT !.periodStart = start, !.used = 0]
        ELSE row

RollDay(row, now) ==
    IF UtcMidnight(row.dayStart) < UtcMidnight(now)
    THEN [row EXCEPT !.dayStart = UtcMidnight(now), !.usedToday = 0]
    ELSE row

Enforce(row, now) == RollDay(RollPeriod(Downgrade(row, now), now), now)

----------------------------------------------------------------------------
Exceeds(total, limit) == limit # Unlimited /\ total > limit

QuotaRefusal(row, count) ==
    \/ Exceeds(row.usedToday + count, DailyLimit[row.plan])
    \/ Exceeds(row.used + count, MonthlyLimit[row.plan])

\* check: the enforced row, and whether count analyses would be allowed.
Check(row, count, now) ==
    LET enforced == Enforce(row, now)
    IN  [row |-> enforced, allowed |-> ~QuotaRefusal(enforced, count)]

\* consume and consume_many: as check, and an allowed count is spent.
ConsumeMany(row, count, now) ==
    LET checked == Check(row, count, now)
    IN  IF checked.allowed
        THEN [row |-> [checked.row EXCEPT !.used = @ + count,
                                          !.usedToday = @ + count],
              allowed |-> TRUE]
        ELSE checked

\* A row as registration creates it (the defaults of the User dataclass).
NewRow(now) ==
    [ plan        |-> FreePlan,
      expires     |-> Never,
      used        |-> 0,
      periodStart |-> now,
      usedToday   |-> 0,
      dayStart    |-> now ]

\* Mutant: the term is one day too many.
ActivateOneDayLong(plan, now) ==
    [ NewRow(now) EXCEPT !.plan = plan, !.expires = now + PeriodLength + DayLength ]

Activate(plan, now) ==
    [ plan        |-> plan,
      expires     |-> now + PeriodLength,
      used        |-> 0,
      periodStart |-> now,
      usedToday   |-> 0,
      dayStart    |-> UtcMidnight(now) ]

\* Neither counter of a row is beyond the cap of the row's plan.
WithinCaps(row) ==
    /\ ~Exceeds(row.usedToday, DailyLimit[row.plan])
    /\ ~Exceeds(row.used, MonthlyLimit[row.plan])
=============================================================================
