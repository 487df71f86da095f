CONSTANTS
  a = a
  b = b
  x = x
  k1 = k1
  h1 = h1
  h2 = h2
  None = None
  Callers <- MCCallers
  Keys <- MCKeys
  Hashes <- MCHashes
  KeyOf <- MCKeyOf
  HashOf <- MCHashOf
  Stores = {"memory", "postgres", "sync"}
  FaultKinds = {"execute", "begin", "complete", "fail", "crash"}
  MaxFaults <- ThreeFaults
SPECIFICATION Spec
INVARIANT TypeOK
INVARIANT SingleExecutor
INVARIANT EffectsBounded
PROPERTY EffectsFinal
PROPERTY KeepsPromise
