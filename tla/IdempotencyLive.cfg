CONSTANTS
  a = a
  b = b
  x = x
  k1 = k1
  h1 = h1
  h2 = h2
  None = None
  Callers <- MCCallers
  Keys <- MCKeys
  Hashes <- MCHashes
  KeyOf <- MCKeyOf
  HashOf <- MCHashOf
  Stores = {"memory", "postgres", "fallback"}
  FaultKinds = {"execute", "begin", "complete", "fail", "crash", "ambiguous"}
  MaxFaults <- TwoFaults
SPECIFICATION FairSpec
INVARIANT ReplyMatches
PROPERTY ProcessingEnds
PROPERTY RetriesAnswered
