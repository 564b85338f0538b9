CONSTANTS
    None = None
    Unbounded = Unbounded
    ServiceRate = 10
    MaxQueueSize = 3
    ServiceRates <- MCServiceRates
    QueueSizes <- MCQueueSizes
    LoadPercentages <- MCLoadPercentages

SPECIFICATION Spec

INVARIANT TypeOK
INVARIANT PlottedValuesFinite
INVARIANT ScaleInvariance

\* __main__ ends after the third figure.
CHECK_DEADLOCK FALSE
