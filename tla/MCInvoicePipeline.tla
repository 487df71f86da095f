------------------------ MODULE MCInvoicePipeline ---------------------------
(* Instances of InvoicePipeline: two workers, and two jobs of one cycle of  *)
(* which clients enqueue one or both, or jobs of two cycles.                *)
EXTENDS InvoicePipeline

CONSTANTS w1, w2, o1, j1, j2, c1, c2, t1, t2, t3, t4, t5, t6

MCWorkers == {w1, w2}
OneOperator == {o1}
NoOperators == {}
TwoJobs == {j1, j2}
OneJob == {j1}
MCCycles == {c1, c2}
MCTokens == {t1, t2, t3, t4, t5, t6}
SameCycle == [j \in TwoJobs |-> c1]
OwnCycle == [j \in TwoJobs |-> IF j = j1 THEN c1 ELSE c2]
SingleCycle == [j \in OneJob |-> c1]
=============================================================================
