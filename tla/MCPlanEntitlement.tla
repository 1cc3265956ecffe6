-------------------------- MODULE MCPlanEntitlement --------------------------
(* Model-checking instances of PlanEntitlement: a ladder of three plans. *)
EXTENDS PlanEntitlement, TLC

CONSTANTS free, pro, team, seats

ThreePlans == <<free, pro, team>>
\* A higher plan may come with fewer credits.
MonthlyCredits == (free :> 1) @@ (pro :> 3) @@ (team :> 2)
Seats == (free :> [k \in Keys |-> 0]) @@ (pro :> [k \in Keys |-> 1])
           @@ (team :> [k \in Keys |-> Unlimited])

===============================================================================
