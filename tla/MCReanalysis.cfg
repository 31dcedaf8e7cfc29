SPECIFICATION FairSpec
CONSTANTS
  f1 = f1
  f2 = f2
  Run = {1, 2}
  Scanner = {s1, s2}
  Finding = {f1, f2}
  FindingsOf <- Reports
  Copies <- Twice
  InDiff = {f1}
  SpotOf <- Spots
  Limit = 1
  Cap = 2
  FaultsOf <- Troubles
INVARIANTS CommentedOnce RowsTruthful 
PROPERTY FlagSettles
CHECK_DEADLOCK FALSE
