CONSTANTS
  c1 = c1
  c2 = c2
  k1 = k1
  k2 = k2
  s1 = s1
  s2 = s2
  basic = basic
  pro = pro
  None = None
  Clients <- MCClients
  Keys <- MCKeys
  Plans <- MCPlans
  Commands <- MCCommands
  Drivers = {"postgres"}
  FaultKinds = {}
  Stamps = {s1}
  MaxFaults = 0
SPECIFICATION Spec
PROPERTY CanceledIsFinal
