CONSTANTS
  w1 = w1
  w2 = w2
  o1 = o1
  j1 = j1
  j2 = j2
  c1 = c1
  c2 = c2
  t1 = t1
  t2 = t2
  t3 = t3
  t4 = t4
  t5 = t5
  t6 = t6
  None = None
  Workers <- MCWorkers
  Jobs <- TwoJobs
  Cycles <- MCCycles
  Tokens <- MCTokens
  CycleOf <- SameCycle
  Enqueued <- TwoJobs
  Operators <- NoOperators
  MaxAttempts = 3
  FaultKinds = {}
  MaxFaults = 0
SPECIFICATION Spec
CHECK_DEADLOCK FALSE
PROPERTY InvoiceStable
