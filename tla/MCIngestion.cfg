SPECIFICATION FairSpec
CONSTANTS
  d1 = d1
  d2 = d2
  d3 = d3
  d4 = d4
  d5 = d5
  c1 = c1
  c2 = c2
  k1 = k1
  k2 = k2
  Commit = {c1, c2}
  Key = {k1, k2}
  Delivery <- Deliveries
  CommitOf <- CommitOfDelivery
  KindOf <- KindOfDelivery
  KeyOf <- KeyPerCommit
  MaxAttempts <- Attempts
  Faults <- AllFaults
INVARIANTS QueuedOnce RunIsQueued DuplicateIsKnown
PROPERTIES EveryCommitQueued ServesRequests
CHECK_DEADLOCK FALSE
