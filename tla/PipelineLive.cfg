CONSTANTS
  w1 = w1
  w2 = w2
  o1 = o1
  j1 = j1
  j2 = j2
  c1 = c1
  c2 = c2
  t1 = t1
  t2 = t2
  t3 = t3
  t4 = t4
  t5 = t5
  t6 = t6
  None = None
  Workers <- MCWorkers
  Jobs <- TwoJobs
  Cycles <- MCCycles
  Tokens <- MCTokens
  CycleOf <- OwnCycle
  Enqueued <- TwoJobs
  Operators <- NoOperators
  MaxAttempts = 2
  FaultKinds = {"claim", "begin", "execute", "complete", "fail", "mark", "renew", "crash", "stall", "ambiguous"}
  MaxFaults = 1
SPECIFICATION MonitoredFairSpec
CHECK_DEADLOCK FALSE
INVARIANT OneExecutorPerJob
INVARIANT MonitorTruthful
PROPERTY Fencing
PROPERTY EventuallyTerminal
