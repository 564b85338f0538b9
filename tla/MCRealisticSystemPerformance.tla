------------------- MODULE MCRealisticSystemPerformance --------------------
(* Service rate 10 and buffers of 1 to 10 stand for 100 and 1000; buffer   *)
(* 100 holds the M/M/1 population of every stable load, as the code's 1000  *)
(* does, and its degraded latency reaches the 10 s cap.  The loads sample   *)
(* the code's 10%..200% range densely around saturation, where the two     *)
(* formulas of the model meet.                                              *)
EXTENDS RealisticSystemPerformance

MCQueueSizes == {1, 2, 5, 10, 100}

MCLoadPercentages == <<10, 50, 80, 90, 95, 99, 100, 101, 105, 110, 120, 150, 200>>

=============================================================================
