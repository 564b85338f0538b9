-------------------------- MODULE MCQueueingTheory --------------------------
(* The demonstration and scenarios of queuing_theory.py's __main__, scaled  *)
(* down: the same load list, service rates 10 and 100 instead of 100, and  *)
(* buffers of 1 and 2 (and float('inf')) instead of 1000.                  *)
EXTENDS QueueingTheory

MCServiceRates == {10, 100}

MCQueueSizes == {1, 2, Unbounded}

\* demonstrate_system_performance called with the max_queue_size=None that
\* analyze_specific_load and calculate_system_metrics take as their default.
MCDefaultQueueSizes == {None}

MCLoadPercentages == <<10, 30, 50, 70, 80, 90, 95, 99, 100, 110, 120, 150>>

\* Scenario 1 (90% of capacity) and scenario 2 (110%), buffer scaled to 2.
MCScenarios == <<[arrival |-> 90, service |-> 100, size |-> 2],
                 [arrival |-> 110, service |-> 100, size |-> 2]>>

=============================================================================
