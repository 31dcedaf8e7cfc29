SPECIFICATION Spec
CONSTANTS
  Lane = {l1}
  FirstLane = l1
  Scanner = {s1}
  Drainer = {d1}
  Admin = {}
  Usages = 2
  PostRetries = 2
  PersistRetries = 2
  MaxReviews = 3
  Faults <- SequentialFaults
INVARIANTS OneReview RecordTruthful
CHECK_DEADLOCK FALSE
