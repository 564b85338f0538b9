---------------------------- MODULE UslImproved ----------------------------
(***************************************************************************)
(* src/main/python/universal_scalability_law_improved.py.                  *)
(*                                                                         *)
(* __main__ draws three figures, one after the other.  Each panel is a     *)
(* loop that plots one curve per (sigma, kappa) entry of its list:         *)
(*   plot_distributed_system_performance  panels 1-3 over fixed lists      *)
(*     (coordination overheads, consensus costs, efficiency), panel 4 over *)
(*     the scenarios, with a marker at N_opt when 1 <= N_opt <= 32;        *)
(*   plot_practical_performance_metrics   throughput and response time;    *)
(*   plot_consensus_algorithm_comparison  decision rate and latency, with  *)
(*     a marker when 3 <= N_opt <= 21.                                      *)
(* The lists of panel 1-3 are the code's; the scenario lists of the other  *)
(* three loops are data, any list of up to MaxCurves entries drawn from    *)
(* the code's entries.  pc is the loop running, i the fixed list's index.  *)
(* Points are taken from constant tables, evaluated once.                  *)
(***************************************************************************)
EXTENDS Integers, Sequences, Rat

CONSTANTS
    CoordinationOverheads, \* coordination_overheads (sigma of panels 1 and 3)
    ConsensusCosts,        \* consensus_costs (kappa of panel 2, sigma = 0.1)
    Scenarios,             \* the (sigma, kappa) entries of panel 4
    PracticalScenarios,    \* the entries of plot_practical_performance_metrics
    Algorithms,            \* the entries of plot_consensus_algorithm_comparison
    MaxCurves,             \* bound on the length of a data-driven list
    ClusterSizes,          \* sampled node counts of linspace(1, 32), ascending
    ConsensusSizes,        \* sampled node counts of linspace(3, 21), ascending
    Mant                   \* significand bits of np.sqrt's result

ASSUME /\ ClusterSizes \in Seq(Nat \ {0}) /\ ConsensusSizes \in Seq(Nat \ {0})
       /\ MaxCurves \in Nat \ {0}

\* A slip in the coherency term's sign: - kappa * N * (N - 1).
CalculateUslSignSlip(N, sigma, kappa) ==
    LET den == Minus(Plus(One, Times(sigma, Minus(N, One))), Times(kappa, Times(N, Minus(N, One))))
    IN  IF den = Zero THEN Inf ELSE Over(N, den)

\* N / (1 + sigma * (N - 1) + kappa * N * (N - 1)), N a numpy float.
CalculateUsl(N, sigma, kappa) ==
    LET den == Plus(Plus(One, Times(sigma, Minus(N, One))), Times(kappa, Times(N, Minus(N, One))))
    IN  IF den = Zero THEN Inf ELSE Over(N, den)

\* inf if sigma = kappa = 0, 1/sqrt(sigma) if only kappa = 0, else
\* sqrt((1 - sigma) / (2 * kappa)).
FindOptimalClusterSize(sigma, kappa) ==
    IF kappa = Zero
    THEN IF sigma = Zero THEN Inf ELSE Over(One, FloatSqrt(sigma, Mant))
    ELSE FloatSqrt(Over(Minus(One, sigma), Times(I(2), kappa)), Mant)

\* base_throughput, base_response_time, base_consensus_rate
BaseThroughput == 1000
BaseResponseTime == 10
BaseConsensusRate == 500

Pair(s, k) == [sigma |-> s, kappa |-> k]

CoordinationPairs == {Pair(CoordinationOverheads[k], Zero) : k \in DOMAIN CoordinationOverheads}
CostPairs == {Pair(R(1, 10), ConsensusCosts[k]) : k \in DOMAIN ConsensusCosts}

\* [calculate_usl(n, sigma, kappa) for n in sizes]
Gain(sizes, s) == [k \in DOMAIN sizes |-> CalculateUsl(I(sizes[k]), s.sigma, s.kappa)]

\* Panel 3: calculate_usl(n, overhead, 0) / n.
Efficiency(s) == [k \in DOMAIN ClusterSizes |-> Over(Gain(ClusterSizes, s)[k], I(ClusterSizes[k]))]

\* Lines 149-150: multiplier * base_throughput and base_response_time / multiplier.
Throughput(s) == [k \in DOMAIN ClusterSizes |-> Times(Gain(ClusterSizes, s)[k], I(BaseThroughput))]
ResponseTime(s) == [k \in DOMAIN ClusterSizes |-> Over(I(BaseResponseTime), Gain(ClusterSizes, s)[k])]

\* Lines 201 and 204: multiplier * base_consensus_rate, and 1000 / rate.
ConsensusRate(s) == [k \in DOMAIN ConsensusSizes |-> Times(Gain(ConsensusSizes, s)[k], I(BaseConsensusRate))]
ConsensusLatency(s) == [k \in DOMAIN ConsensusSizes |-> Over(I(1000), ConsensusRate(s)[k])]

\* The curve a loop draws for entry s, as a record of its series.
Curve(s, y, z) == [sigma |-> s.sigma, kappa |-> s.kappa, y |-> y, z |-> z]

GainTable == [s \in CoordinationPairs \cup CostPairs \cup Scenarios |-> Curve(s, Gain(ClusterSizes, s), <<>>)]
EfficiencyTable == [s \in CoordinationPairs |-> Curve(s, Efficiency(s), <<>>)]
PracticalTable == [s \in PracticalScenarios |-> Curve(s, Throughput(s), ResponseTime(s))]
AlgorithmTable == [s \in Algorithms |-> Curve(s, ConsensusRate(s), ConsensusLatency(s))]
OptTable == [s \in Scenarios \cup Algorithms |-> FindOptimalClusterSize(s.sigma, s.kappa)]
\* calculate_usl(N_opt, sigma, kappa), wanted only where N_opt is finite.
OptGainTable == [s \in Scenarios \cup Algorithms |->
                    IF IsFinite(OptTable[s]) THEN CalculateUsl(OptTable[s], s.sigma, s.kappa) ELSE Inf]

\* The panels in the order __main__ draws them.
Panels == <<"coordination", "consensus_cost", "efficiency", "scenarios", "practical", "algorithms">>
PanelSet == {Panels[k] : k \in DOMAIN Panels}
Successor(p) == IF p = Panels[Len(Panels)] THEN "done"
                ELSE Panels[(CHOOSE k \in 1..(Len(Panels) - 1) : Panels[k] = p) + 1]

\* The curve panel p draws for its k-th fixed entry.
FixedCurve(p, k) ==
    CASE p = "coordination"   -> GainTable[Pair(CoordinationOverheads[k], Zero)]
      [] p = "consensus_cost" -> GainTable[Pair(R(1, 10), ConsensusCosts[k])]
      [] p = "efficiency"     -> EfficiencyTable[Pair(CoordinationOverheads[k], Zero)]

FixedLength(p) == IF p = "consensus_cost" THEN Len(ConsensusCosts) ELSE Len(CoordinationOverheads)

VARIABLES pc, i, plots, markers

vars == <<pc, i, plots, markers>>

Init ==
    /\ pc = Panels[1] /\ i = 1
    /\ plots = [p \in PanelSet |-> <<>>]
    /\ markers = [p \in {"scenarios", "algorithms"} |-> <<>>]

Draw(p, c) == plots' = [plots EXCEPT ![p] = Append(@, c)]

\* Panels 1-3: one iteration over the fixed list.
PlotFixed(p) ==
    /\ pc = p /\ p \in {"coordination", "consensus_cost", "efficiency"}
    /\ i <= FixedLength(p)
    /\ Draw(p, FixedCurve(p, i))
    /\ i' = i + 1
    /\ UNCHANGED <<pc, markers>>

\* The fixed list is exhausted; the next panel's loop starts.
FixedDone(p) ==
    /\ pc = p /\ p \in {"coordination", "consensus_cost", "efficiency"}
    /\ i > FixedLength(p)
    /\ pc' = Successor(p) /\ i' = 1
    /\ UNCHANGED <<plots, markers>>

\* Marker at (N_opt, value) when lo <= N_opt <= hi; NaN compares false.
Mark(p, s, lo, hi, scale) ==
    LET n == OptTable[s] IN
    markers' = IF LeR(I(lo), n) /\ LeR(n, I(hi))
               THEN [markers EXCEPT ![p] = Append(@, [n |-> n, y |-> Times(OptGainTable[s], I(scale))])]
               ELSE markers

\* Panel 4, lines 97-111.
PlotScenario(s) ==
    /\ pc = "scenarios" /\ Len(plots["scenarios"]) < MaxCurves
    /\ Draw("scenarios", GainTable[s])
    /\ Mark("scenarios", s, 1, 32, 1)
    /\ UNCHANGED <<pc, i>>

\* Lines 144-156.
PlotPractical(s) ==
    /\ pc = "practical" /\ Len(plots["practical"]) < MaxCurves
    /\ Draw("practical", PracticalTable[s])
    /\ UNCHANGED <<pc, i, markers>>

\* Lines 198-216.
PlotAlgorithm(s) ==
    /\ pc = "algorithms" /\ Len(plots["algorithms"]) < MaxCurves
    /\ Draw("algorithms", AlgorithmTable[s])
    /\ Mark("algorithms", s, 3, 21, BaseConsensusRate)
    /\ UNCHANGED <<pc, i>>

\* A data-driven list ends (after any number of entries up to MaxCurves).
ListDone(p) ==
    /\ pc = p /\ p \in {"scenarios", "practical", "algorithms"}
    /\ pc' = Successor(p)
    /\ UNCHANGED <<i, plots, markers>>

Next ==
    \/ \E p \in PanelSet : PlotFixed(p) \/ FixedDone(p) \/ ListDone(p)
    \/ \E s \in Scenarios : PlotScenario(s)
    \/ \E s \in PracticalScenarios : PlotPractical(s)
    \/ \E s \in Algorithms : PlotAlgorithm(s)

Spec == Init /\ [][Next]_vars

-----------------------------------------------------------------------------
(* Properties *)

\* Within every panel of every figure, a curve with no more coordination
\* overhead and no more consensus cost than another is never drawn below it
\* (throughput, rate, efficiency) nor above it (response time, latency), at
\* any sampled cluster size: the legends order the systems from best to
\* worst, and calculate_usl must respect that order whatever list a loop is
\* given.
OverheadOrdering ==
    \A p \in PanelSet : \A a, b \in DOMAIN plots[p] :
        LET A == plots[p][a]  B == plots[p][b]
        IN  LeR(A.sigma, B.sigma) /\ LeR(A.kappa, B.kappa) =>
              /\ \A k \in DOMAIN A.y : LeRWide(B.y[k], A.y[k])
              /\ \A k \in DOMAIN A.z : LeRWide(A.z[k], B.z[k])

=============================================================================
