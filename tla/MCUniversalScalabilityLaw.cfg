CONSTANTS
    Sigmas <- MCSigmas
    Kappas <- MCKappas
    MaxScenarios = 2
    Ns <- MCNs
    MaxPlotN = 32
    Mant = 8
    Contentions <- MCContentions
    Coherencies <- MCCoherencies
    TLScenarios <- MCTLScenarios

SPECIFICATION Spec

INVARIANT TypeOK
INVARIANT SpeedupAtMostLinear
INVARIANT RetrogradeIsFinal
INVARIANT LatencyNeverImproves

\* __main__ returns after the second figure.
CHECK_DEADLOCK FALSE
