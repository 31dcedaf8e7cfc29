SPECIFICATION Spec
CONSTANTS
  eval1 = eval1
  eval2 = eval2
  sql = sql
  File = {1, 2, 3}
  Category = {"A03", "A04", "leak"}
  Title = {eval1, eval2, sql}
  Family = {"eval", "sql"}
  MaxFindings = 2
  Path = {1, 2, 3, 4, 5}
  NameRead <- Names
  Inputs <- Cases
  RawCategory = {"A03", "resource", "odd"}
  KeywordCategory <- Keywords
  FallbackCategory = "A04"
  Answers <- SomeAnswers
  MaxCalls = 2
INVARIANTS TypeOK SeverityPreserved OneEntryPerKey SevereFirst
  ParseAgrees CommentAccepted ChangedLineCommented EveryFindingReported
PROPERTY EscalationOnlyRaises
CHECK_DEADLOCK FALSE
