------------------------- MODULE MCBudgetController -------------------------
(* Requests, prices and ceilings for checking BudgetController with TLC. *)
EXTENDS BudgetController, TLC

CONSTANTS r1, r2, t1, d1, d2, m1

TwoReservations == {r1, r2}
TwoDays == {d1, d2}
OneDay == {d1}
OneTask == {t1}
TwoProviders == {"deepseek", "local-ai"}
CloudProviders == {"deepseek"}

SameTask == [r \in Reservations |-> t1]
SameMonth == [d \in Days |-> m1]
AllCloud == [r \in Reservations |-> "deepseek"]
CloudAndLocal == [r \in Reservations |-> IF r = r1 THEN "deepseek" ELSE "local-ai"]
OneAutomatic == {r1}

UsageOf(tokens, cost, retries, wall) ==
    [d \in Dims |-> CASE d = "tokens" -> tokens [] d = "cost" -> cost [] d = "calls" -> 1
                      [] d = "retries" -> retries [] d = "wall" -> wall]
\* r2 is a retry; a local call reserves wall-time and costs nothing.
Estimates ==
    [r \in Reservations |->
        IF Provider[r] \in Cloud THEN UsageOf(1, 1, IF r = r1 THEN 0 ELSE 1, 0)
        ELSE UsageOf(1, 0, 1, 1)]

\* A day has room for one worst case, the month and the task for two.
TightDay ==
    [k \in Kinds |-> [d \in Dims |-> IF k = "cloudDay" THEN 1 ELSE 2]]
\* Two calls fit a task, but not two worst cases.
Tight == [k \in Kinds |-> [d \in Dims |-> IF d \in {"calls", "retries"} THEN 2 ELSE 1]]
=============================================================================
