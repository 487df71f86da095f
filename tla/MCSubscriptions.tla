-------------------------- MODULE MCSubscriptions ---------------------------
(* An instance of Subscriptions: two clients, two commands that create the *)
(* same subscription under keys of their own, one that changes its plan    *)
(* (applyUpgrade and applyDowngrade do the same) and the two that cancel   *)
(* it.  The clients are interchangeable.                                   *)
EXTENDS Subscriptions, TLC

CONSTANTS c1, c2, k1, k2, basic, pro, s1, s2

MCClients == {c1, c2}
Symmetry == Permutations(MCClients)
MCKeys == {k1, k2}
MCPlans == {basic, pro}

Cmd(kind, key, plan, trial, at) ==
  [kind |-> kind, key |-> key, plan |-> plan, trial |-> trial, from |-> 1, at |-> at]

\* One downgrade falls outside the shorter of the two periods.
MCCommands ==
  {Cmd("create", k1, basic, FALSE, 2),
   Cmd("create", k2, pro, TRUE, 3),
   Cmd("downgrade", k1, basic, FALSE, 3),
   Cmd("downgrade", k1, basic, FALSE, 2),
   Cmd("cancel_now", k1, basic, FALSE, 2),
   Cmd("cancel_at_period_end", k1, basic, FALSE, 1)}
=============================================================================
