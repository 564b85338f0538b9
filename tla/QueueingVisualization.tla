------------------------ MODULE QueueingVisualization ------------------------
(***************************************************************************)
(* src/main/python/queuing_theory_visualization.py.                        *)
(*                                                                         *)
(* The three sweeps of the script's __main__, in order, each calling the   *)
(* M/M/1 engine of queuing_theory.py (instantiated as QT) once per load:   *)
(*   plot_system_metrics      one series, capped for display;              *)
(*   plot_utilization_impact  one series per service rate;                 *)
(*   plot_queue_size_impact   one series per buffer, float('inf') last.    *)
(* pc is the sweep running, j the outer loop's index (rate or size), i the *)
(* load index.  Drawing is left out: a series is what would be plotted.   *)
(***************************************************************************)
EXTENDS Integers, Sequences, Rat

CONSTANTS
    None, Unbounded,  \* max_queue_size None and float('inf') (model values)
    ServiceRate,      \* service_rate of plot_system_metrics and plot_queue_size_impact
    MaxQueueSize,     \* max_queue_size of the first two sweeps (1000 in the code)
    ServiceRates,     \* service_rates of plot_utilization_impact, ascending
    QueueSizes,       \* queue_sizes of plot_queue_size_impact
    LoadPercentages   \* the sampled load levels, ascending

ASSUME /\ ServiceRate \in Nat \ {0} /\ MaxQueueSize \in Nat \ {0}
       /\ ServiceRates \in Seq(Nat \ {0}) /\ LoadPercentages \in Seq(Nat \ {0})
       /\ \A k \in DOMAIN QueueSizes : QueueSizes[k] \in (Nat \ {0}) \cup {Unbounded}

QT == INSTANCE QueueingEngine

\* Faulty variants of the definitions below.
CapLatencyNone(w) == Times(w, I(1000))

ArrivalRateDefault(load, rate) == Times(R(load, 100), I(ServiceRate))

\* min(metrics['avg_wait_time'] * 1000, 1000): ms, capped for display.
CapLatency(w) == MinR(Times(w, I(1000)), I(1000))

\* arrival_rate = (load / 100) * service_rate
ArrivalRate(load, rate) == Times(R(load, 100), I(rate))

\* One iteration of plot_system_metrics' loop.
SystemMetricsPoint(load, k) ==
    LET m == QT!CalculateSystemMetrics(ArrivalRate(load, ServiceRate), I(ServiceRate), k)
    IN  [throughput |-> m.effective_throughput, latency |-> CapLatency(m.avg_wait_time),
         queue_length |-> MinR(m.avg_queue_length, I(k)),
         utilization |-> m.utilization, drop_rate |-> m.dropped_rate]

\* One iteration of plot_utilization_impact's inner loop.
UtilizationPoint(load, rate) ==
    LET m == QT!CalculateSystemMetrics(ArrivalRate(load, rate), I(rate), MaxQueueSize)
    IN  [throughput |-> m.effective_throughput, latency |-> CapLatency(m.avg_wait_time)]

\* One iteration of plot_queue_size_impact's inner loop.
QueueSizePoint(load, size) ==
    LET m == QT!CalculateSystemMetrics(ArrivalRate(load, ServiceRate), I(ServiceRate), size)
    IN  [drop_rate |-> m.dropped_rate, throughput |-> m.effective_throughput]

\* Each sweep's points by load level; constant-level, so evaluated once.
Loads == {LoadPercentages[k] : k \in DOMAIN LoadPercentages}

MetricsTable == [l \in Loads |-> SystemMetricsPoint(l, MaxQueueSize)]

RateTable == [r \in DOMAIN ServiceRates |-> [l \in Loads |-> UtilizationPoint(l, ServiceRates[r])]]

SizeTable == [s \in DOMAIN QueueSizes |-> [l \in Loads |-> QueueSizePoint(l, QueueSizes[s])]]

VARIABLES pc, j, i, metrics_series, rate_series, size_series

vars == <<pc, j, i, metrics_series, rate_series, size_series>>

Init ==
    /\ pc = "metrics" /\ j = 1 /\ i = 1
    /\ metrics_series = <<>>
    /\ rate_series = [r \in DOMAIN ServiceRates |-> <<>>]
    /\ size_series = [s \in DOMAIN QueueSizes |-> <<>>]

MetricsStep ==
    /\ pc = "metrics" /\ i <= Len(LoadPercentages)
    /\ metrics_series' = Append(metrics_series, MetricsTable[LoadPercentages[i]])
    /\ i' = i + 1
    /\ UNCHANGED <<pc, j, rate_series, size_series>>

\* The figure is shown; __main__ calls plot_utilization_impact.
MetricsDone ==
    /\ pc = "metrics" /\ i > Len(LoadPercentages)
    /\ pc' = "utilization" /\ j' = 1 /\ i' = 1
    /\ UNCHANGED <<metrics_series, rate_series, size_series>>

RateStep ==
    /\ pc = "utilization" /\ j <= Len(ServiceRates) /\ i <= Len(LoadPercentages)
    /\ rate_series' = [rate_series EXCEPT ![j] =
                           Append(@, RateTable[j][LoadPercentages[i]])]
    /\ i' = i + 1
    /\ UNCHANGED <<pc, j, metrics_series, size_series>>

\* The outer loop moves to the next service rate; the load loop restarts.
NextRate ==
    /\ pc = "utilization" /\ j <= Len(ServiceRates) /\ i > Len(LoadPercentages)
    /\ j' = j + 1 /\ i' = 1
    /\ UNCHANGED <<pc, metrics_series, rate_series, size_series>>

RatesDone ==
    /\ pc = "utilization" /\ j > Len(ServiceRates)
    /\ pc' = "queue_size" /\ j' = 1 /\ i' = 1
    /\ UNCHANGED <<metrics_series, rate_series, size_series>>

SizeStep ==
    /\ pc = "queue_size" /\ j <= Len(QueueSizes) /\ i <= Len(LoadPercentages)
    /\ size_series' = [size_series EXCEPT ![j] =
                           Append(@, SizeTable[j][LoadPercentages[i]])]
    /\ i' = i + 1
    /\ UNCHANGED <<pc, j, metrics_series, rate_series>>

NextSize ==
    /\ pc = "queue_size" /\ j <= Len(QueueSizes) /\ i > Len(LoadPercentages)
    /\ j' = j + 1 /\ i' = 1
    /\ UNCHANGED <<pc, metrics_series, rate_series, size_series>>

SizesDone ==
    /\ pc = "queue_size" /\ j > Len(QueueSizes)
    /\ pc' = "done"
    /\ UNCHANGED <<j, i, metrics_series, rate_series, size_series>>

Next == \/ MetricsStep \/ MetricsDone
        \/ RateStep \/ NextRate \/ RatesDone
        \/ SizeStep \/ NextSize \/ SizesDone

Spec == Init /\ [][Next]_vars


-----------------------------------------------------------------------------
(* Properties *)

Series == {metrics_series} \cup {rate_series[r] : r \in DOMAIN rate_series}
                           \cup {size_series[s] : s \in DOMAIN size_series}

TypeOK ==
    /\ pc \in {"metrics", "utilization", "queue_size", "done"}
    /\ i \in 1..(Len(LoadPercentages) + 1)
    /\ j \in 1..(Len(ServiceRates) + Len(QueueSizes) + 1)
    /\ \A s \in Series : Len(s) <= Len(LoadPercentages)
    /\ \A k \in DOMAIN metrics_series :
        /\ LeR(Zero, metrics_series[k].queue_length)
        /\ LeR(metrics_series[k].queue_length, I(MaxQueueSize))
        /\ LeR(metrics_series[k].latency, I(1000))

\* Spec section 6: the visualisation clamps the engine's infinite sentinels
\* (avg_wait_time of an overloaded system, and avg_queue_length of one
\* without a buffer) to a finite display ceiling; no plotted value is inf or
\* NaN, in any of the three sweeps.
PlottedValuesFinite ==
    \A s \in Series : \A k \in DOMAIN s : \A f \in DOMAIN s[k] : IsFinite(s[k][f])

\* plot_utilization_impact draws one throughput curve per service rate over
\* the same load percentages; each curve is the others scaled by the rate
\* (throughput / rate depends on the load only), and a faster server is
\* never plotted with a longer latency at the same load.
ScaleInvariance ==
    \A a, b \in DOMAIN rate_series : \A k \in DOMAIN rate_series[a] \cap DOMAIN rate_series[b] :
        /\ Over(rate_series[a][k].throughput, I(ServiceRates[a]))
             = Over(rate_series[b][k].throughput, I(ServiceRates[b]))
        /\ ServiceRates[a] <= ServiceRates[b] =>
             LeR(rate_series[b][k].latency, rate_series[a][k].latency)

=============================================================================
