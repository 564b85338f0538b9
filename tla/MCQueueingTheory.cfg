CONSTANTS
    None = None
    Unbounded = Unbounded
    ServiceRates <- MCServiceRates
    QueueSizes <- MCQueueSizes
    LoadPercentages <- MCLoadPercentages
    Scenarios <- MCScenarios

SPECIFICATION Spec

INVARIANT NoException
INVARIANT FlowConservation
INVARIANT DropIsBlockingProbability
INVARIANT LittlesLaw

\* __main__ ends after the last scenario.
CHECK_DEADLOCK FALSE
