----------------------- MODULE SubscriptionLifecycle ------------------------
(***************************************************************************)
(* What a subscription promises whoever looks at it: it is created once,   *)
(* changes plan and is scheduled to end for as long as it lives, and once  *)
(* it is canceled nothing about it changes any more.                       *)
(***************************************************************************)
EXTENDS Naturals

CONSTANTS
  Plans,  \* the plans a subscription may be on
  None    \* a subscription that does not exist

VARIABLE row  \* the subscription, or None

Statuses == {"trialing", "active", "past_due", "canceled"}

\* A subscription: from and to are the bounds of its current period.
Rows == [status : Statuses, plan : Plans, atPeriodEnd : BOOLEAN, from : Nat, to : Nat]

Alive == row # None /\ row.status # "canceled"

Init == row = None

Create ==
  /\ row = None
  /\ row' \in Rows
  /\ row'.status \in {"trialing", "active"}
  /\ ~row'.atPeriodEnd

ChangePlan == Alive /\ \E p \in Plans : row' = [row EXCEPT !.plan = p]

Schedule == Alive /\ row' = [row EXCEPT !.atPeriodEnd = TRUE]

\* The period of a canceled subscription ends when it was canceled.
Cancel ==
  /\ Alive
  /\ row' \in Rows
  /\ row' = [row EXCEPT !.status = "canceled", !.atPeriodEnd = FALSE, !.to = row'.to]

Next == Create \/ ChangePlan \/ Schedule \/ Cancel

Spec == Init /\ [][Next]_row
=============================================================================
