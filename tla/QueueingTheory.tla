--------------------------- MODULE QueueingTheory ---------------------------
(***************************************************************************)
(* src/main/python/queuing_theory.py.                                      *)
(*                                                                         *)
(* calculate_system_metrics is the M/M/1 engine of QueueingEngine.         *)
(* The state machine is the module's __main__: the load sweep of          *)
(* demonstrate_system_performance, one row per load percentage, then      *)
(* the analyze_specific_load scenarios.  An exception raised by the engine *)
(* or by the row formatting ends the program, as it does in Python.        *)
(***************************************************************************)
EXTENDS Integers, Sequences, Rat, QueueingEngine

CONSTANTS
    ServiceRates,    \* service_rate values the demonstration is called with
    QueueSizes,      \* max_queue_size values the demonstration is called with
    LoadPercentages, \* the load_percentages list, ascending
    Scenarios        \* analyze_specific_load calls: [arrival, service, size]

ASSUME /\ ServiceRates \subseteq Nat \ {0}
       /\ QueueSizes \subseteq Sizes
       /\ LoadPercentages \in Seq(Nat \ {0})
       /\ \A k \in DOMAIN Scenarios : Scenarios[k].size \in Sizes

(***************************************************************************)
(* The program's state: the demonstration's parameters, the loop index,    *)
(* the rows computed so far and the scenario results; pc is the phase of  *)
(* __main__, or the name of the exception that ended it.                   *)
(***************************************************************************)
VARIABLES service_rate, max_queue_size, pc, i, rows, analysed

vars == <<service_rate, max_queue_size, pc, i, rows, analysed>>

Init ==
    /\ service_rate \in ServiceRates
    /\ max_queue_size \in QueueSizes
    /\ pc = "demo"
    /\ i = 1
    /\ rows = <<>>
    /\ analysed = <<>>

\* One iteration of demonstrate_system_performance's loop: the engine call,
\* then the latency and queue-length formatting.  With max_queue_size=None an
\* overloaded row has queue_len = None, and f"{None:.1f}" raises TypeError.
DemoRow ==
    /\ pc = "demo"
    /\ i <= Len(LoadPercentages)
    /\ LET load    == LoadPercentages[i]
           arrival == Times(R(load, 100), I(service_rate))
           metrics == CalculateSystemMetrics(arrival, I(service_rate), max_queue_size)
       IN  /\ rows' = Append(rows, [load |-> load, arrival_rate |-> arrival,
                                    service_rate |-> I(service_rate),
                                    max_queue_size |-> max_queue_size,
                                    metrics |-> metrics])
           /\ pc' = CASE metrics.status \in Exceptions -> metrics.status
                      [] metrics.avg_queue_length = Inf /\ max_queue_size = None -> "TypeError"
                      [] OTHER -> "demo"
           /\ i' = i + 1
    /\ UNCHANGED <<service_rate, max_queue_size, analysed>>

\* The load loop has run out: __main__ moves on to the scenarios.
DemoEnd ==
    /\ pc = "demo"
    /\ i > Len(LoadPercentages)
    /\ pc' = "scenarios"
    /\ i' = 1
    /\ UNCHANGED <<service_rate, max_queue_size, rows, analysed>>

\* analyze_specific_load(arrival_rate, service_rate, max_queue_size): the
\* engine call; its printing formats every field with :.2f, which accepts inf.
AnalyzeSpecificLoad ==
    /\ pc = "scenarios"
    /\ i <= Len(Scenarios)
    /\ LET s       == Scenarios[i]
           metrics == CalculateSystemMetrics(I(s.arrival), I(s.service), s.size)
       IN  /\ analysed' = Append(analysed, [arrival_rate |-> I(s.arrival),
                                            service_rate |-> I(s.service),
                                            max_queue_size |-> s.size,
                                            metrics |-> metrics])
           /\ pc' = IF metrics.status \in Exceptions THEN metrics.status ELSE "scenarios"
           /\ i' = i + 1
    /\ UNCHANGED <<service_rate, max_queue_size, rows>>

ScenariosEnd ==
    /\ pc = "scenarios"
    /\ i > Len(Scenarios)
    /\ pc' = "done"
    /\ UNCHANGED <<service_rate, max_queue_size, i, rows, analysed>>

Next == DemoRow \/ DemoEnd \/ AnalyzeSpecificLoad \/ ScenariosEnd

Spec == Init /\ [][Next]_vars

-----------------------------------------------------------------------------
(* Properties.  Calls is every engine call the program has made so far.   *)

Calls == {rows[k] : k \in DOMAIN rows} \cup {analysed[k] : k \in DOMAIN analysed}

Succeeded(c) == c.metrics.status \in {"STABLE", "OVERLOADED"}

Finite(c) == c.max_queue_size \in Nat \ {0}

\* No call the program makes with a positive arrival and service rate raises,
\* in the engine or in the row formatting (spec section 7: a query is never
\* fatal to the host).  The hazard is the rho = 1 boundary of line 19, the
\* last point before 1 - utilization is a zero divisor, and the formatting of
\* an overloaded row in demonstrate_system_performance.
NoException == pc \notin Exceptions

\* Every call conserves requests: effective_throughput + dropped_rate equals
\* arrival_rate, in the overloaded branch and in both stable sub-branches.
FlowConservation ==
    \A c \in Calls : Succeeded(c) =>
        Plus(c.metrics.effective_throughput, c.metrics.dropped_rate) = c.arrival_rate

\* Reference definition of M/M/1/K blocking: the birth-death stationary
\* distribution puts mass proportional to u^n on n = 0..K customers.
RECURSIVE GeomSum(_, _)
GeomSum(u, k) == IF k < 0 THEN Zero ELSE Plus(PowR(u, k), GeomSum(u, k - 1))

BlockingProbability(u, k) == Over(PowR(u, k), GeomSum(u, k))

\* In a stable call, the dropped rate is arrival_rate times the probability
\* that a finite buffer of max_queue_size is full (the closed form on line 39
\* against the stationary distribution), and zero without a finite buffer.
DropIsBlockingProbability ==
    \A c \in Calls : c.metrics.status = "STABLE" =>
        c.metrics.dropped_rate =
            IF Finite(c)
            THEN Times(c.arrival_rate,
                       BlockingProbability(Over(c.arrival_rate, c.service_rate),
                                           c.max_queue_size))
            ELSE Zero

\* Little's Law in a stable call: avg_wait_time * arrival_rate is the mean
\* number in the system, the waiting avg_queue_length plus the utilization
\* of the server.
LittlesLaw ==
    \A c \in Calls : c.metrics.status = "STABLE" =>
        Times(c.metrics.avg_wait_time, c.arrival_rate)
            = Plus(c.metrics.avg_queue_length, Over(c.arrival_rate, c.service_rate))

\* Spec section 8: at rho = 1 exactly with a finite buffer K the drop
\* probability is 1/(K+1), so dropped_rate is arrival_rate/(K+1).
DropAtSaturation ==
    \A c \in Calls : (Succeeded(c) /\ Finite(c) /\ c.arrival_rate = c.service_rate) =>
        c.metrics.dropped_rate = Over(c.arrival_rate, I(c.max_queue_size + 1))

=============================================================================
