CONSTANTS
    ServiceRate = 10
    QueueSizes <- MCQueueSizes
    DefaultMaxQueueSize = 10
    LoadPercentages <- MCLoadPercentages

SPECIFICATION Spec

INVARIANT TypeOK
INVARIANT ThroughputContinuous
INVARIANT QueueLengthMonotone
INVARIANT LatencyRisesWhileBufferHoldsL

\* __main__ ends after the comparison plot.
CHECK_DEADLOCK FALSE
