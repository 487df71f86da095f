CONSTANTS
  d1 = d1
  d2 = d2
  d3 = d3
  paid = paid
  other = other
  None = None
  Deliverers <- MCDeliverers
  Events <- MCEvents
  Supported <- MCSupported
  EventOf <- MCEventOf
  Drivers = {"memory", "postgres"}
  FaultKinds = {"signature", "begin", "publish", "complete", "fail", "audit", "crash"}
  MaxFaults = 2
SPECIFICATION FairSpec
INVARIANT TypeOK
INVARIANT AckedIsPublished
INVARIANT ProcessedOnce
INVARIANT PublishedBounded
PROPERTY EventuallyAcked
