CONSTANTS
    Sigmas <- MCWideSigmas
    Kappas <- MCKappas
    MaxScenarios = 2
    Ns <- MCNs
    MaxPlotN = 32
    Mant = 8
    Contentions <- MCContentions
    Coherencies <- MCCoherencies
    TLScenarios <- MCTLScenarios

SPECIFICATION Spec
INVARIANT OptimumNeverNaN


\* The scenario loop ends after the last scenario.
CHECK_DEADLOCK FALSE
