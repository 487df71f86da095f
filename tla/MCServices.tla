----------------------------- MODULE MCServices ------------------------------
(* An instance of Services: two requests over as many connections or fewer, *)
(* two tenants and the webhooks' one, and users of which one has an         *)
(* inactive membership.                                                     *)
EXTENDS Services

CONSTANTS r1, r2, cycle, renewal, c1, c2, t1, t2, hook, u1, u2

MCRequests == {r1, r2}
MCTasks == MCRequests \cup {cycle, renewal}
MCTenants == {t1, t2, hook}
MCUsers == {u1, u2}
OneConn == {c1}
TwoConns == {c1, c2}
MCMemberships ==
  {[user |-> u1, tenant |-> t1, active |-> TRUE],
   [user |-> u2, tenant |-> t1, active |-> FALSE],
   [user |-> u2, tenant |-> t2, active |-> TRUE]}
=============================================================================
