--------------------- MODULE MCUniversalScalabilityLaw ----------------------
(* The penalties of plot_usl_curves' panels: sigma in {0, 0.05, 0.1, 0.2,  *)
(* 0.3}, kappa in {0, 0.005, 0.01, 0.05}; curves sampled at whole node      *)
(* counts 1..32 (the code samples 100 points of [1, 32]).                   *)
EXTENDS UniversalScalabilityLaw

MCSigmas == {Zero, R(1, 20), R(1, 10), R(1, 5), R(3, 10)}

MCKappas == {Zero, R(1, 200), R(1, 100), R(1, 20)}

MCNs == [k \in 1..32 |-> k]

Pair(s, k) == [sigma |-> s, kappa |-> k]

\* plot_usl_curves' sigmas and kappas (panels 1-3), and the scenarios of
\* plot_throughput_latency_usl.
MCContentions == <<Zero, R(1, 10), R(1, 5), R(3, 10)>>

MCCoherencies == <<Zero, R(1, 100), R(1, 50), R(1, 20)>>

MCTLScenarios == <<Pair(Zero, Zero), Pair(R(1, 20), R(1, 200)),
                   Pair(R(1, 10), R(1, 100)), Pair(R(3, 10), R(1, 20))>>

\* A contention penalty above 1, as a caller may pass.
MCWideSigmas == MCSigmas \cup {R(6, 5)}

=============================================================================
