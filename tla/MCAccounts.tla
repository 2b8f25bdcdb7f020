----------------------------- MODULE MCAccounts -----------------------------
(* Values of the constants of Accounts for TLC. *)
EXTENDS Accounts, TLC

CONSTANTS pro, starter

MCDailyLimit == (FreePlan :> 1) @@ [p \in PaidPlans |-> 2]
MCMonthlyLimit == (FreePlan :> 2) @@ [p \in PaidPlans |-> 3]

Symmetric == Permutations(Tasks) \cup Permutations(Txns)
=============================================================================
