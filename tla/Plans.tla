-------------------------------- MODULE Plans --------------------------------
(***************************************************************************)
(* The plan catalogue (admin/plans.ts) and the billing rules without I/O    *)
(* (billing.rules.ts), shared by billing, by the usage meter and by the     *)
(* back office.  A plan is known by its code; "none" is null.               *)
(***************************************************************************)
EXTENDS Integers

PlanCodes == {"free", "starter", "growth", "pro"}
PlanOrNone == PlanCodes \cup {"none"}

Price == [free |-> 0, starter |-> 79, growth |-> 199, pro |-> 449]
Quota == [free |-> 500, starter |-> 1500, growth |-> 5000, pro |-> 15000]

\* An unknown code is the free plan.
PlanOf(code) == IF code \in PlanCodes THEN code ELSE "free"
PaidPlans == {c \in PlanCodes : Price[c] > 0}

Volumes == {"none", "lt20", "20_50", "50_100", "100_300", "gt300"}
RecommendedPlan(volume) ==
  CASE volume = "20_50" -> "starter"
    [] volume = "50_100" -> "growth"
    [] volume \in {"100_300", "gt300"} -> "pro"
    [] OTHER -> "free"

\* The plan the shop is on: its paid plan while it runs, otherwise free.
CurrentPlan(plan, churned) == IF plan # "none" /\ ~churned THEN PlanOf(plan) ELSE "free"
=============================================================================
