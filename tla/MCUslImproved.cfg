CONSTANTS
    CoordinationOverheads <- MCCoordinationOverheads
    ConsensusCosts <- MCConsensusCosts
    Scenarios <- MCScenarios
    PracticalScenarios <- MCPracticalScenarios
    Algorithms <- MCAlgorithms
    MaxCurves = 2
    ClusterSizes <- MCClusterSizes
    ConsensusSizes <- MCConsensusSizes
    Mant = 8

SPECIFICATION Spec

INVARIANT OverheadOrdering

\* __main__ returns after the third figure.
CHECK_DEADLOCK FALSE
