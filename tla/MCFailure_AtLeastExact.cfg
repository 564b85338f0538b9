CONSTANTS
    TotalNodes <- MCTotalNodes
    NumFailures <- MCNumFailures
    FailureProbs <- MCFailureProbs
    Mant = 6
    MaxCalls = 2

SPECIFICATION Spec
INVARIANT CumulativeAtLeastExact





\* A caller stops after MaxCalls calls.
CHECK_DEADLOCK FALSE
