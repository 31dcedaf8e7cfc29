SPECIFICATION Spec
CONSTANTS
  Lane = {l1, l2}
  FirstLane = l1
  Scanner = {s1}
  Drainer = {d1}
  Admin = {a1}
  Usages = 0
  PostRetries = 1
  PersistRetries = 1
  MaxReviews = 2
  Faults <- DurableFaults
INVARIANTS UnpostedIsRecoverable
CHECK_DEADLOCK FALSE
