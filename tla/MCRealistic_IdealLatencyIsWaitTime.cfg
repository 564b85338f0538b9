CONSTANTS
    ServiceRate = 10
    QueueSizes <- MCQueueSizes
    DefaultMaxQueueSize = 10
    LoadPercentages <- MCLoadPercentages

SPECIFICATION Spec

INVARIANT IdealLatencyIsWaitTime


\* __main__ ends after the comparison plot.
CHECK_DEADLOCK FALSE
