CONSTANTS
    None = None
    Unbounded = Unbounded
    ServiceRates <- MCServiceRates
    QueueSizes <- MCQueueSizes
    LoadPercentages <- MCLoadPercentages
    Scenarios <- MCScenarios

SPECIFICATION Spec

INVARIANT DropAtSaturation

CHECK_DEADLOCK FALSE
