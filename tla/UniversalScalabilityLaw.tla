----------------------- MODULE UniversalScalabilityLaw -----------------------
(***************************************************************************)
(* src/main/python/universal_scalability_law.py.                           *)
(*                                                                         *)
(* calculate_usl and find_optimal_concurrency are operators over exact     *)
(* rationals, np.sqrt rounded to a Mant-bit significand (NaN below zero).  *)
(* The state machine is __main__: plot_usl_curves' four panels, then     *)
(* plot_throughput_latency_usl.  Panels 1-3 loop over the code's fixed     *)
(* lists (contention, coherency, efficiency); panel 4 ("Real-world         *)
(* Scenarios") samples each (sigma, kappa) curve over the node counts Ns,  *)
(* computes N_opt and, when N_opt <= 32, marks (N_opt, speedup(N_opt)) as  *)
(* the curve's optimum.  Panel 4's list is data: any list of MaxScenarios  *)
(* entries drawn from Sigmas \X Kappas.  The last figure plots throughput *)
(* and latency for the scenarios TLScenarios.  pc is the loop running, i   *)
(* the fixed list's index.                                                 *)
(***************************************************************************)
EXTENDS Integers, Sequences, Rat

CONSTANTS
    Sigmas,      \* contention penalties a scenario may have (rationals)
    Kappas,      \* coherency penalties a scenario may have (rationals)
    MaxScenarios,\* bound on the length of the scenario list
    Ns,          \* the node counts the curves are sampled at, ascending
    MaxPlotN,    \* the x-axis limit a marker must not exceed (32)
    Contentions, \* sigmas of panels 1 and 3 (kappa = 0)
    Coherencies, \* kappas of panel 2 (sigma = 0.1)
    TLScenarios, \* the [sigma, kappa] scenarios of plot_throughput_latency_usl
    Mant         \* significand bits of np.sqrt's result

ASSUME /\ Ns \in Seq(Nat \ {0})
       /\ \A x \in Sigmas \cup Kappas : LeR(Zero, x)

\* A slip in the coherency term's sign: - kappa * N * (N - 1).
CalculateUslSignSlip(N, sigma, kappa) ==
    LET den == Minus(Plus(One, Times(sigma, Minus(N, One))), Times(kappa, Times(N, Minus(N, One))))
    IN  IF den = Zero THEN Inf ELSE Over(N, den)

\* N / (1 + sigma * (N - 1) + kappa * N * (N - 1)); N is a numpy float, so a
\* zero denominator gives inf rather than ZeroDivisionError.
CalculateUsl(N, sigma, kappa) ==
    LET den == Plus(Plus(One, Times(sigma, Minus(N, One))), Times(kappa, Times(N, Minus(N, One))))
    IN  IF den = Zero THEN Inf ELSE Over(N, den)

\* inf if sigma = kappa = 0, 1/sqrt(sigma) if only kappa = 0, else
\* sqrt((1 - sigma) / (2 * kappa)).
FindOptimalConcurrency(sigma, kappa) ==
    IF kappa = Zero
    THEN IF sigma = Zero THEN Inf ELSE Over(One, FloatSqrt(sigma, Mant))
    ELSE FloatSqrt(Over(Minus(One, sigma), Times(I(2), kappa)), Mant)

\* base_throughput of plot_throughput_latency_usl (requests/s on 1 processor)
BaseThroughput == 1000

\* The speedup curve [calculate_usl(n, sigma, kappa) for n in N].
Speedup(sigma, kappa) == [k \in DOMAIN Ns |-> CalculateUsl(I(Ns[k]), sigma, kappa)]

\* The fixed panels of plot_usl_curves and the curve each draws for entry k.
FixedPanels == {"contention", "coherency", "efficiency"}
FixedList(p) == IF p = "coherency" THEN Coherencies ELSE Contentions
FixedCurve(p, k) ==
    CASE p = "contention" -> [sigma |-> Contentions[k], kappa |-> Zero,
                              speedup |-> Speedup(Contentions[k], Zero)]
      [] p = "coherency"  -> [sigma |-> R(1, 10), kappa |-> Coherencies[k],
                              speedup |-> Speedup(R(1, 10), Coherencies[k])]
      [] p = "efficiency" -> [sigma |-> Contentions[k], kappa |-> Zero,
                              speedup |-> [n \in DOMAIN Ns |->
                                  Over(Speedup(Contentions[k], Zero)[n], I(Ns[n]))]]
NextPanel == [contention |-> "coherency", coherency |-> "efficiency", efficiency |-> "scenarios"]

\* ThroughputLatency with the latency taken as 1 / throughput.
ThroughputLatencyNoN(sigma, kappa) ==
    LET throughput == [k \in DOMAIN Ns |-> Times(Speedup(sigma, kappa)[k], I(BaseThroughput))]
    IN  [sigma |-> sigma, kappa |-> kappa, throughput |-> throughput,
         latency |-> [k \in DOMAIN Ns |-> Over(One, throughput[k])]]

\* Lines 133-137: throughput = speedup * base_throughput, and latency =
\* N[i] / throughput[i], "the inverse of throughput per processor".
ThroughputLatency(sigma, kappa) ==
    LET throughput == [k \in DOMAIN Ns |-> Times(Speedup(sigma, kappa)[k], I(BaseThroughput))]
    IN  [sigma |-> sigma, kappa |-> kappa, throughput |-> throughput,
         latency |-> [k \in DOMAIN Ns |-> Over(I(Ns[k]), throughput[k])]]

VARIABLES pc, i, panels, curves, markers, tl

vars == <<pc, i, panels, curves, markers, tl>>

Init ==
    /\ pc = "contention" /\ i = 1
    /\ panels = [p \in FixedPanels |-> <<>>]
    /\ curves = <<>>
    /\ markers = <<>>
    /\ tl = <<>>

\* Panels 1-3 (lines 44-78): one iteration over sigmas or kappas.
PlotFixed(p) ==
    /\ pc = p /\ p \in FixedPanels /\ i <= Len(FixedList(p))
    /\ panels' = [panels EXCEPT ![p] = Append(@, FixedCurve(p, i))]
    /\ i' = i + 1
    /\ UNCHANGED <<pc, curves, markers, tl>>

\* The list is exhausted; the panel is finished and the next one starts.
FixedDone(p) ==
    /\ pc = p /\ p \in FixedPanels /\ i > Len(FixedList(p))
    /\ pc' = NextPanel[p] /\ i' = 1
    /\ UNCHANGED <<panels, curves, markers, tl>>

\* One iteration of the fourth panel's scenario loop: the sampled curve,
\* N_opt, and the marker drawn when `N_opt <= 32` (a NaN N_opt compares
\* false: no marker).
PlotScenario(sigma, kappa) ==
    /\ pc = "scenarios" /\ Len(curves) < MaxScenarios
    /\ LET n_opt == FindOptimalConcurrency(sigma, kappa)
       IN  /\ curves' = Append(curves, [sigma |-> sigma, kappa |-> kappa,
                                        speedup |-> Speedup(sigma, kappa)])
           /\ markers' = IF LeR(n_opt, I(MaxPlotN))
                         THEN Append(markers, [scenario |-> Len(curves) + 1, n |-> n_opt,
                                               speedup |-> CalculateUsl(n_opt, sigma, kappa)])
                         ELSE markers
    /\ UNCHANGED <<pc, i, panels, tl>>

\* The figure is shown; __main__ calls plot_throughput_latency_usl.
ScenariosDone ==
    /\ pc = "scenarios" /\ Len(curves) = MaxScenarios
    /\ pc' = "throughput" /\ i' = 1
    /\ UNCHANGED <<panels, curves, markers, tl>>

\* One iteration of plot_throughput_latency_usl's loop.
PlotThroughputLatency ==
    /\ pc = "throughput" /\ i <= Len(TLScenarios)
    /\ tl' = Append(tl, ThroughputLatency(TLScenarios[i].sigma, TLScenarios[i].kappa))
    /\ i' = i + 1
    /\ UNCHANGED <<pc, panels, curves, markers>>

ThroughputDone ==
    /\ pc = "throughput" /\ i > Len(TLScenarios)
    /\ pc' = "done"
    /\ UNCHANGED <<i, panels, curves, markers, tl>>

Next ==
    \/ \E p \in FixedPanels : PlotFixed(p) \/ FixedDone(p)
    \/ \E sigma \in Sigmas, kappa \in Kappas : PlotScenario(sigma, kappa)
    \/ ScenariosDone \/ PlotThroughputLatency \/ ThroughputDone

Spec == Init /\ [][Next]_vars

-----------------------------------------------------------------------------
(* Properties *)

\* The curves drawn as speedups (panels 1, 2 and 4).
SpeedupCurves == {panels["contention"][c] : c \in DOMAIN panels["contention"]}
                 \cup {panels["coherency"][c] : c \in DOMAIN panels["coherency"]}
                 \cup {curves[c] : c \in DOMAIN curves}

TypeOK ==
    /\ pc \in FixedPanels \cup {"scenarios", "throughput", "done"}
    /\ i \in 1..(Len(Contentions) + Len(Coherencies) + Len(TLScenarios) + 1)
    /\ Len(curves) <= MaxScenarios /\ Len(tl) <= Len(TLScenarios)
    /\ \A k \in DOMAIN markers : markers[k].scenario \in 1..Len(curves)
    /\ \A c \in SpeedupCurves : \A k \in DOMAIN Ns : GtR(c.speedup[k], Zero)

\* No plotted point beats linear scaling: speedup(N) <= N for N >= 1 and
\* non-negative penalties (panels 1, 2 and 4 draw N itself as the "Linear"
\* bound), and panel 3's efficiency speedup/N never exceeds 1.
SpeedupAtMostLinear ==
    /\ \A c \in SpeedupCurves : \A k \in DOMAIN Ns : LeR(c.speedup[k], I(Ns[k]))
    /\ \A c \in DOMAIN panels["efficiency"] : \A k \in DOMAIN Ns :
           LeR(panels["efficiency"][c].speedup[k], One)

\* Once a sampled curve turns down it never turns up again: the USL curve
\* has a single peak, and past it (the retrograde region) more nodes only
\* lose throughput.
RetrogradeIsFinal ==
    \A c \in SpeedupCurves : \A k \in 2..(Len(Ns) - 1) :
        LtR(c.speedup[k], c.speedup[k - 1]) => LeR(c.speedup[k + 1], c.speedup[k])

\* plot_throughput_latency_usl's latency, N / throughput, never falls as
\* processors are added, for any scenario: USL adds coordination cost per
\* request, so even where throughput still grows a request is never served
\* faster (the Ideal scenario's latency is flat).
LatencyNeverImproves ==
    \A c \in DOMAIN tl : \A k \in 2..Len(Ns) :
        LeRWide(tl[c].latency[k - 1], tl[c].latency[k])

\* Spec section 8 and the function's docstring: N_opt is where speedup
\* peaks, so no sampled point of the same curve lies above the marker.
MarkerIsPeak ==
    \A m \in DOMAIN markers : \A k \in DOMAIN Ns :
        LeR(curves[markers[m].scenario].speedup[k], markers[m].speedup)

\* Spec section 4.4: when sigma > 1 there is no finite optimum and the
\* operation says so with a distinct result instead of a NaN node count.
OptimumNeverNaN ==
    \A c \in DOMAIN curves : ~IsNaN(FindOptimalConcurrency(curves[c].sigma, curves[c].kappa))

=============================================================================
