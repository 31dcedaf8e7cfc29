SPECIFICATION FairSpec
CONSTANTS
  Lane = {l1, l2}
  FirstLane = l1
  Scanner = {s1, s2}
  Drainer = {d1}
  Admin = {}
  Usages = 0
  PostRetries = 1
  PersistRetries = 0
  MaxReviews = 2
  Faults <- LiveFaults
INVARIANTS PostedIsReal FallbackKept OneScannerPosts
PROPERTY ReviewDelivered
CHECK_DEADLOCK FALSE
