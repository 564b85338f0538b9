CONSTANTS
    Sigmas <- MCSigmas
    Kappas <- MCKappas
    MaxScenarios = 2
    Ns <- MCNs
    MaxPlotN = 32
    Mant = 8
    Contentions <- MCContentions
    Coherencies <- MCCoherencies
    TLScenarios <- MCTLScenarios

SPECIFICATION Spec
INVARIANT MarkerIsPeak


\* The scenario loop ends after the last scenario.
CHECK_DEADLOCK FALSE
