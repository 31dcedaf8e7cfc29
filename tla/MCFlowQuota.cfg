SPECIFICATION Spec
CONSTANTS
    Lane = {l1}
    FirstLane = l1
    Chunk = {a1}
    Batch = {b1}
    FetchRetries = 3
    AstRetries = 1
    LlmRetries = 3
    LlmFailures = 3
    Faults <- QuotaFault
CHECK_DEADLOCK FALSE
INVARIANT NeverLeftRunning
