----------------------- MODULE MCQueueingVisualization -----------------------
(* The script's defaults scaled down: service rate 10 (100), rates 5, 10,   *)
(* 20 (50, 100, 200), buffers 1, 2, 3 and float('inf') (100, 500, 1000 and  *)
(* inf), and the first two sweeps' max_queue_size 3 (1000), small enough    *)
(* that the queue cap of plot_system_metrics bites near saturation.        *)
(* The loads keep the boundary points of the code's 10%..150% sweep.        *)
EXTENDS QueueingVisualization

MCServiceRates == <<5, 10, 20>>

MCQueueSizes == <<1, 2, 3, Unbounded>>

MCLoadPercentages == <<10, 30, 50, 60, 70, 80, 90, 95, 99, 100, 110, 120, 140, 150>>

=============================================================================
