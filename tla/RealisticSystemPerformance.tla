---------------------- MODULE RealisticSystemPerformance ----------------------
(***************************************************************************)
(* src/main/python/realistic_system_performance.py.                        *)
(*                                                                         *)
(* calculate_realistic_metrics is the degradation model, an operator over  *)
(* exact rationals.  The state machine is the module's __main__: the load  *)
(* sweep of plot_realistic_performance (one metrics record per load), then *)
(* the sweep of plot_system_comparison, which builds an "ideal" series     *)
(* inline and a "realistic" one from calculate_realistic_metrics.  The     *)
(* ideal series is compared with the M/M/1 engine of queuing_theory.py,    *)
(* instantiated here, that it claims to reproduce.                         *)
(***************************************************************************)
EXTENDS Integers, Sequences, Rat

CONSTANTS
    ServiceRate,         \* service_rate of both plots (100 in the code)
    QueueSizes,          \* max_queue_size values plot_realistic_performance gets
    DefaultMaxQueueSize, \* calculate_realistic_metrics' default (1000)
    LoadPercentages      \* the sampled load levels, ascending

ASSUME /\ ServiceRate \in Nat \ {0}
       /\ QueueSizes \subseteq Nat \ {0} /\ DefaultMaxQueueSize \in Nat \ {0}
       /\ LoadPercentages \in Seq(Nat \ {0})

\* queuing_theory.calculate_system_metrics, for the comparison's ideal case.
QT == INSTANCE QueueingEngine WITH None <- "None", Unbounded <- "Unbounded"

\* Faulty variants of the definitions below.
DegradationFactorNoShift(utilization) == Plus(One, Times(utilization, utilization))

DegradationFactorSignSlip(utilization) ==
    Minus(One, Times(Minus(utilization, One), Minus(utilization, One)))

ClampQueueLengthNone(queue_length, max_queue_size) == queue_length

\* 1 + (utilization - 1) ** 2, the quadratic penalty past saturation.
DegradationFactor(utilization) ==
    Plus(One, Times(Minus(utilization, One), Minus(utilization, One)))

\* 'queue_length': min(queue_length, max_queue_size)
ClampQueueLength(queue_length, max_queue_size) == MinR(queue_length, I(max_queue_size))

CalculateRealisticMetrics(arrival_rate, service_rate, max_queue_size) ==
  LET utilization == Over(arrival_rate, service_rate)
      eff         == Over(service_rate, DegradationFactor(utilization))
      stable      == LtR(utilization, One)
      queue_length ==
          IF stable THEN Over(Times(utilization, utilization), Minus(One, utilization))
          ELSE I(max_queue_size)
      throughput == IF stable THEN arrival_rate ELSE MinR(arrival_rate, eff)
      latency ==
          IF stable THEN (IF GtR(arrival_rate, Zero) THEN Over(queue_length, arrival_rate) ELSE Zero)
          ELSE (IF GtR(eff, Zero) THEN Over(queue_length, eff) ELSE Inf)
  IN  [throughput   |-> throughput,
       latency      |-> latency,
       queue_length |-> ClampQueueLength(queue_length, max_queue_size),
       drop_rate    |-> IF stable THEN Zero ELSE Minus(arrival_rate, throughput),
       utilization  |-> MinR(Times(utilization, I(100)), I(100))]

\* arrival_rate = (load / 100) * service_rate
ArrivalRate(load) == Times(R(load, 100), I(ServiceRate))

\* latencies = [min(m['latency'] * 1000, 10000) for m in metrics]: ms, capped at 10 s.
PlottedLatency(m) == MinR(Times(m.latency, I(1000)), I(10000))

VARIABLES max_queue_size, pc, i, realistic, latencies, ideal, real

vars == <<max_queue_size, pc, i, realistic, latencies, ideal, real>>

Init ==
    /\ max_queue_size \in QueueSizes
    /\ pc = "realistic"
    /\ i = 1
    /\ realistic = <<>> /\ latencies = <<>> /\ ideal = <<>> /\ real = <<>>

\* One iteration of plot_realistic_performance's metrics loop.
RealisticPoint ==
    /\ pc = "realistic"
    /\ i <= Len(LoadPercentages)
    /\ realistic' = Append(realistic,
           [load |-> LoadPercentages[i],
            metrics |-> CalculateRealisticMetrics(ArrivalRate(LoadPercentages[i]),
                                                  I(ServiceRate), max_queue_size)])
    /\ i' = i + 1
    /\ UNCHANGED <<max_queue_size, pc, latencies, ideal, real>>

\* The loop is over: the plotted series are extracted (the latency one in
\* ms and capped), the four panels drawn, and __main__ goes on to
\* plot_system_comparison.
RealisticDone ==
    /\ pc = "realistic"
    /\ i > Len(LoadPercentages)
    /\ latencies' = [k \in DOMAIN realistic |-> PlottedLatency(realistic[k].metrics)]
    /\ pc' = "comparison"
    /\ i' = 1
    /\ UNCHANGED <<max_queue_size, realistic, ideal, real>>

\* One iteration of plot_system_comparison's loop: the inline ideal case
\* (throughput and latency in ms) and the realistic one with the default
\* buffer, its latency converted to ms.
ComparisonPoint ==
    /\ pc = "comparison"
    /\ i <= Len(LoadPercentages)
    /\ LET load        == LoadPercentages[i]
           arrival     == ArrivalRate(load)
           utilization == Over(arrival, I(ServiceRate))
           metrics     == CalculateRealisticMetrics(arrival, I(ServiceRate), DefaultMaxQueueSize)
       IN  /\ ideal' = Append(ideal,
                  IF LtR(utilization, One)
                  THEN [load |-> load, throughput |-> arrival,
                        latency |-> Times(Over(utilization, Minus(One, utilization)), I(1000))]
                  ELSE [load |-> load, throughput |-> I(ServiceRate), latency |-> Inf])
           /\ real' = Append(real, [load |-> load, throughput |-> metrics.throughput,
                                    latency |-> Times(metrics.latency, I(1000))])
    /\ i' = i + 1
    /\ UNCHANGED <<max_queue_size, pc, realistic, latencies>>

\* The loop is over and both comparison panels are drawn; __main__ returns.
ComparisonDone ==
    /\ pc = "comparison"
    /\ i > Len(LoadPercentages)
    /\ pc' = "done"
    /\ UNCHANGED <<max_queue_size, i, realistic, latencies, ideal, real>>

Next == RealisticPoint \/ RealisticDone \/ ComparisonPoint \/ ComparisonDone

Spec == Init /\ [][Next]_vars

-----------------------------------------------------------------------------
(* Properties *)

AbsR(x) == IF LtR(x, Zero) THEN Neg(x) ELSE x

TypeOK ==
    /\ pc \in {"realistic", "comparison", "done"}
    /\ i \in 1..(Len(LoadPercentages) + 1)
    /\ Len(ideal) = Len(real)
    /\ \A k \in DOMAIN realistic :
        LET m == realistic[k].metrics
        IN  /\ LeR(Zero, m.queue_length) /\ LeR(m.queue_length, I(max_queue_size))
            /\ LeR(Zero, m.drop_rate) /\ LeR(m.utilization, I(100))

\* Spec section 8: throughput is continuous in the load, across the
\* saturation point included -- between two sampled loads it moves by no
\* more than the arrival rate does.
ThroughputContinuous ==
    \A k \in 2..Len(realistic) :
        LeR(AbsR(Minus(realistic[k].metrics.throughput, realistic[k - 1].metrics.throughput)),
            AbsR(Minus(ArrivalRate(realistic[k].load), ArrivalRate(realistic[k - 1].load))))

\* The reported queue length never shrinks as the load grows: the stable
\* zone's rho^2/(1 - rho) is capped at the buffer, which the degradation
\* zone reports as full.
QueueLengthMonotone ==
    \A k \in 2..Len(realistic) :
        LeR(realistic[k - 1].metrics.queue_length, realistic[k].metrics.queue_length)

\* The plotted latency (line 55) never falls as the load grows, provided the
\* buffer holds the M/M/1 population L = rho/(1 - rho) of every stable load:
\* the stable zone's latency is the queue rho^2/(1 - rho) over lambda
\* (line 20), the degradation zone's the full buffer over the degraded rate
\* (line 29), and the two formulas only meet upwards when the buffer is at
\* least L at the last stable sample.  A smaller buffer makes the curve
\* drop at saturation.
LatencyRisesWhileBufferHoldsL ==
    \A k \in 2..Len(latencies) :
        LET rho == R(realistic[k - 1].load, 100)
        IN  (LtR(rho, One) => LeR(Over(rho, Minus(One, rho)), I(max_queue_size)))
              => LeRWide(latencies[k - 1], latencies[k])

\* plot_system_comparison's "Ideal" latency curve is the M/M/1 time in
\* system of queuing_theory.calculate_system_metrics, in milliseconds.
IdealLatencyIsWaitTime ==
    \A k \in DOMAIN ideal :
        LET q == QT!CalculateSystemMetrics(ArrivalRate(ideal[k].load), I(ServiceRate), "None")
        IN  ideal[k].latency = Times(q.avg_wait_time, I(1000))

=============================================================================
