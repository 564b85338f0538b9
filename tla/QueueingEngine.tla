--------------------------- MODULE QueueingEngine ---------------------------
(***************************************************************************)
(* calculate_system_metrics of src/main/python/queuing_theory.py, the      *)
(* M/M/1 engine that queuing_theory's __main__, realistic_system_          *)
(* performance's comparison and queuing_theory_visualization all call: an  *)
(* operator over exact rationals, with no state of its own.               *)
(*                                                                         *)
(* max_queue_size is an integer, None (no buffer, falsy) or Unbounded      *)
(* (float('inf'), as plot_queue_size_impact passes): the code tells these *)
(* apart with `if max_queue_size:` and pow(utilization, max_queue_size).   *)
(***************************************************************************)
EXTENDS Integers, Rat

CONSTANTS
    None,            \* max_queue_size=None (model value)
    Unbounded        \* max_queue_size=float('inf') (model value)

Sizes == Nat \cup {None, Unbounded}

Exceptions == {"ZeroDivisionError", "TypeError"}

Raise(e) == [status |-> e]

\* `if max_queue_size:` -- None and 0 are falsy, float('inf') is truthy.
Truthy(size) == size # None /\ size # 0

\* The value max_queue_size stands for where the code uses it as a number.
SizeValue(size) == IF size = Unbounded THEN Inf ELSE I(size)

\* pow(utilization, size + extra); pow(u, inf) = 0.0 for |u| < 1.
PowSize(u, size, extra) ==
    IF size = Unbounded THEN Zero ELSE PowR(u, size + extra)

(***************************************************************************)
(* Faulty variants of the engine's steps below, each a plausible slip in  *)
(* the code it stands for; a property of the MC runs must reject each.    *)
(***************************************************************************)
IsOverloadedStrict(utilization) == GtR(utilization, One)

OverloadedMetricsUncapped(utilization, arrival_rate, service_rate, max_queue_size) ==
    [utilization |-> Times(utilization, I(100)),
     avg_queue_length |-> IF Truthy(max_queue_size) THEN SizeValue(max_queue_size) ELSE Inf,
     avg_wait_time |-> Inf, effective_throughput |-> arrival_rate,
     dropped_rate |-> Minus(arrival_rate, service_rate), status |-> "OVERLOADED"]

DropProbOffByOne(utilization, max_queue_size) ==
    Over(Times(Minus(One, utilization), PowSize(utilization, max_queue_size, 0)),
         Minus(One, PowSize(utilization, max_queue_size, 0)))

AvgSystemLengthAsQueue(utilization) ==
    Over(Times(utilization, utilization), Minus(One, utilization))

(***************************************************************************)
(* calculate_system_metrics(arrival_rate, service_rate, max_queue_size).   *)
(* Divisions are guarded in the order the code performs them; a zero      *)
(* divisor is Python's ZeroDivisionError.                                  *)
(***************************************************************************)

\* `if utilization >= 1:` -- the overload test.
IsOverloaded(utilization) == GeR(utilization, One)

\* The dictionary returned for an overloaded system.
OverloadedMetrics(utilization, arrival_rate, service_rate, max_queue_size) ==
    [utilization |-> Times(utilization, I(100)),
     avg_queue_length |-> IF Truthy(max_queue_size) THEN SizeValue(max_queue_size) ELSE Inf,
     avg_wait_time |-> Inf, effective_throughput |-> service_rate,
     dropped_rate |-> Minus(arrival_rate, service_rate), status |-> "OVERLOADED"]

\* L = rho / (1 - rho), the mean number in the system.
AvgSystemLength(utilization) == Over(utilization, Minus(One, utilization))

\* The M/M/1/K full-buffer probability (1 - rho) rho^K / (1 - rho^(K+1)).
DropProb(utilization, max_queue_size) ==
    Over(Times(Minus(One, utilization), PowSize(utilization, max_queue_size, 0)),
         Minus(One, PowSize(utilization, max_queue_size, 1)))

CalculateSystemMetrics(arrival_rate, service_rate, max_queue_size) ==
  IF service_rate = Zero THEN Raise("ZeroDivisionError") ELSE
  LET utilization      == Over(arrival_rate, service_rate)
      avg_queue_length == Over(Times(utilization, utilization), Minus(One, utilization))
      bounded          == Truthy(max_queue_size)
      drop_prob        == DropProb(utilization, max_queue_size)
  IN  IF IsOverloaded(utilization)
      THEN OverloadedMetrics(utilization, arrival_rate, service_rate, max_queue_size)
      ELSE IF arrival_rate = Zero THEN Raise("ZeroDivisionError")
      ELSE IF bounded /\ PowSize(utilization, max_queue_size, 1) = One
           THEN Raise("ZeroDivisionError")
      ELSE [utilization |-> Times(utilization, I(100)),
            avg_queue_length |-> avg_queue_length,
            avg_wait_time |-> Over(AvgSystemLength(utilization), arrival_rate),
            effective_throughput |->
                IF bounded THEN Times(arrival_rate, Minus(One, drop_prob)) ELSE arrival_rate,
            dropped_rate |-> IF bounded THEN Times(arrival_rate, drop_prob) ELSE Zero,
            status |-> "STABLE"]

=============================================================================
