SPECIFICATION FairSpec
CONSTANTS
    Lane = {l1, l2}
    FirstLane = l1
    Chunk = {a1}
    Batch = {b1}
    FetchRetries = 1
    AstRetries = 1
    LlmRetries = 1
    LlmFailures = 1
    Faults <- AllFaults
CHECK_DEADLOCK FALSE
PROPERTY WorkEnds
