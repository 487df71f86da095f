CONSTANTS
  c1 = c1
  c2 = c2
  k1 = k1
  k2 = k2
  s1 = s1
  s2 = s2
  basic = basic
  pro = pro
  None = None
  Clients <- MCClients
  Keys <- MCKeys
  Plans <- MCPlans
  Commands <- MCCommands
  Drivers = {"memory", "postgres"}
  FaultKinds = {"read", "save", "publish", "audit", "complete", "crash"}
  Stamps = {s1}
  MaxFaults = 1
SPECIFICATION Spec
INVARIANT TypeOK
INVARIANT AnsweredInFull
INVARIANT EventsTellOfSaves
INVARIANT OneCreation
PROPERTY OnlyStaleSavesDeviate
SYMMETRY Symmetry
