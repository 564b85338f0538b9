CONSTANTS
    TotalNodes <- MCTotalNodes
    NumFailures <- MCNumFailures
    FailureProbs <- MCFailureProbs
    Mant = 6
    MaxCalls = 2

SPECIFICATION Spec

INVARIANT TypeOK
INVARIANT ZeroFailuresCertain
INVARIANT CumulativeMonotone

\* A caller stops after MaxCalls calls.
CHECK_DEADLOCK FALSE
