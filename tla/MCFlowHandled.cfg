SPECIFICATION Spec
CONSTANTS
    Lane = {l1, l2}
    FirstLane = l1
    Chunk = {a1}
    Batch = {b1, b2}
    FetchRetries = 2
    AstRetries = 1
    LlmRetries = 2
    LlmFailures = 2
    Faults <- HandledFaults
CHECK_DEADLOCK FALSE
INVARIANT NeverLeftRunning
INVARIANT DegradationReported
PROPERTY TerminalIsFinal
