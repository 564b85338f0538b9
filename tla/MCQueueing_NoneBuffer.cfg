CONSTANTS
    None = None
    Unbounded = Unbounded
    ServiceRates <- MCServiceRates
    QueueSizes <- MCDefaultQueueSizes
    LoadPercentages <- MCLoadPercentages
    Scenarios <- MCScenarios

SPECIFICATION Spec

INVARIANT NoException

CHECK_DEADLOCK FALSE
