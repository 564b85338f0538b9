# TLA+ models of the capacity-planning engine

The repository has six Python scripts (`src/src/main/python/`, 927 lines).
Together they hold four closed-form models used to reason about distributed
systems:

| File | Engine | Callers in the file |
|---|---|---|
| `failure_probability.py` | `calculate_node_failures`: binomial P(exactly k) and P(k or more) failures | `__main__` reads n, k, p from stdin |
| `queuing_theory.py` | `calculate_system_metrics`: M/M/1, with an optional finite buffer | `demonstrate_system_performance` (a load sweep that prints rows), `analyze_specific_load`, `__main__` |
| `realistic_system_performance.py` | `calculate_realistic_metrics`: M/M/1 below saturation, a quadratic degradation penalty above it | `plot_realistic_performance` and `plot_system_comparison` sweeps, `__main__` |
| `universal_scalability_law.py` | `calculate_usl`, `find_optimal_concurrency` | `plot_usl_curves`, whose fourth panel marks each scenario's optimum; `plot_throughput_latency_usl` |
| `universal_scalability_law_improved.py` | the same two functions, renamed | three plotting functions, with range checks on N_opt |
| `queuing_theory_visualization.py` | none; it imports `calculate_system_metrics` | three sweeps, one of which passes `float('inf')` as a buffer |

How the parts interact:
- The engines are pure functions.
- The other functions are sequential loops that call the engines and format or plot the results.
- Nothing runs concurrently and nothing is persisted.

So what is hard to get right is:
- numerical boundaries: ρ = 1, zero denominators, cancellation in `1 - cdf`, NaN from `np.sqrt`, `inf` buffers;
- the agreement between a closed form and what it claims to compute;
- callers that hand an engine result to code that cannot take it, such as `None` formatted with `:.1f`.

The hazards list in `PROJECT.json` records each of these at its source line.

## Numbers

`Rat.tla` holds the arithmetic that all the models share:
- **Exact rationals.** Every number is a record `[num, den]` in lowest terms.
- **Specials.** `float('inf')` is `1/0` and NaN is `0/0`. Every comparison with NaN is false, as in Python, and inf sorts above every finite number.
- **Rounding.** Where rounding decides a property, `FloatRound(x, Mant)` rounds to a `Mant`-bit significand with ties to even, as IEEE-754 rounds a result; `FloatSqrt` rounds `np.sqrt` the same way.

The failure model rounds scipy's pmf and cdf. The USL model rounds `np.sqrt`. The queueing models are exact, because their properties are equalities of closed forms whose float error is not the question.

Python semantics that the models keep:
- a division by zero raises `ZeroDivisionError`, except where the operand is a numpy float, which gives inf;
- `if max_queue_size:` is false for `None` and `0`;
- `pow(u, inf)` is 0 for u < 1;
- `f"{None:.1f}"` raises `TypeError`.

## Modules

Each state-machine module has a paired `MC*` module; `Rat` and `QueueingEngine` are used by the others.

- **`QueueingEngine`** holds `calculate_system_metrics` (lines 4–53) as a module without variables, so that every caller can `INSTANCE` it.
  - `CalculateSystemMetrics` follows the function branch for branch. Its helpers are `IsOverloaded`, `OverloadedMetrics`, `AvgSystemLength` and `DropProb`.
- **`QueueingTheory`** models the rest of `queuing_theory.py`.
  - The state machine is `__main__`:
    - `DemoRow` is one iteration of the demonstration loop, including the formatting at lines 74–79 that can raise;
    - `DemoEnd` ends that loop;
    - `AnalyzeSpecificLoad` is one scenario;
    - `ScenariosEnd` ends the scenarios.
  - `pc` is the phase of `__main__`, or the name of the exception that ended it.
- **`FailureProbability`** models `calculate_node_failures`.
  - scipy's `binom.pmf` and `binom.cdf` are the correctly rounded exact binomial values. Out of domain they are NaN, as in scipy.
  - The state is the sequence of calls made so far, at most `MaxCalls`, so that a property can compare two calls.
- **`UniversalScalabilityLaw`** models `calculate_usl`, `find_optimal_concurrency`, and the whole of `__main__`: every loop of `plot_usl_curves` and of `plot_throughput_latency_usl`.
  - `pc` names the loop running and `i` is its index.
  - `PlotFixed(p)` draws one curve of panel 1 (σ list, κ = 0), panel 2 (κ list, σ = 0.1) or panel 3 (efficiency, speedup/N). `FixedDone(p)` moves on to the next panel.
  - `PlotScenario` samples a curve, computes N_opt and adds a marker when `N_opt <= 32`. Scenarios are drawn from `Sigmas × Kappas`, not only the four in the code.
  - `PlotThroughputLatency` computes throughput = speedup × 1000 and latency = N/throughput for each scenario of the second figure (lines 131–143).
- **`RealisticSystemPerformance`** models `calculate_realistic_metrics` and the two sweeps of `__main__`.
  - `RealisticPoint` is one iteration of `plot_realistic_performance`'s metrics loop. `RealisticDone` extracts the plotted latency series (line 55: seconds to ms, capped at 10 s) into `latencies`, and stands for drawing the four panels.
  - `ComparisonPoint` is one iteration of `plot_system_comparison`'s loop. `ComparisonDone` stands for drawing its two panels.
  - It instantiates `QueueingEngine` as `QT`, to compare the comparison plot's inline "ideal" M/M/1 latency with the engine's `avg_wait_time`.

- **`QueueingVisualization`** models `queuing_theory_visualization.py`.
  - Its state machine runs the three sweeps of `__main__` in order: `pc` is the sweep, `j` the outer loop's index (service rate or buffer), and `i` the load index.
  - `MetricsStep`, `RateStep` and `SizeStep` are one iteration of an inner loop, each calling the engine through `QT`. The display caps of lines 29–30 are included.
  - `NextRate` and `NextSize` restart the load loop for the next curve.
  - `MetricsDone`, `RatesDone` and `SizesDone` stand for drawing a figure and returning to `__main__`.
  - Both of the first two sweeps use `max_queue_size=1000`, the default of `plot_utilization_impact`. `plot_queue_size_impact` includes `float('inf')`.
- **`UslImproved`** models `universal_scalability_law_improved.py`.
  - It has its own `CalculateUsl` and `FindOptimalClusterSize`, since the file repeats the two functions.
  - Its state machine has all six curve loops of its three figures, in `__main__`'s order:
    - coordination overhead, consensus cost and efficiency, over the code's fixed lists (`PlotFixed`, `FixedDone`);
    - the scenarios panel with its `1 <= N_opt <= 32` marker (`PlotScenario`, `Mark`);
    - throughput and response time (`PlotPractical`);
    - consensus rate and latency with the `3 <= N_opt <= 21` marker (`PlotAlgorithm`).
  - The last three loops take any list of up to `MaxCurves` of the code's entries, in any order (`ListDone` ends a list).
- **Constant tables.** `QueueingVisualization` and `UslImproved` compute each curve's points as constant-level tables (`MetricsTable`, `GainTable`, ...). TLC evaluates these once, and the actions only index them.
  - `Rat`'s `LeRWide` compares the large fractions of the scaled throughput series without a 32-bit overflow.

## Runs

| Run | Checks | Result |
|---|---|---|
| `queueing` | no call raises; effective + dropped = arrival; stable drops equal the M/M/1/K blocking probability from the reference stationary distribution (`BlockingProbability`); Little's law | pass |
| `queueing_drop_at_saturation` | at ρ = 1 with buffer K, drop rate = λ/(K+1) (spec §8) | violated: the code reports 0 |
| `queueing_none_buffer` | `demonstrate_system_performance(max_queue_size=None)` does not raise | violated: `TypeError` at line 79 |
| `failure` | zero failures gives probability exactly 1; P(k or more) never grows with k, over any two calls, under rounding | pass |
| `failure_at_least_exact` | P(k or more) ≥ P(exactly k) (spec §8) | violated: `1 - cdf` cancels to 0 |
| `usl` | speedup > 0; speedup ≤ N and efficiency ≤ 1; a sampled curve that turns down never turns up; latency never falls as nodes are added | pass |
| `usl_marker_is_peak` | the marked optimum is the highest point of its curve | violated: the 2κ factor, and 1/√σ for κ = 0 |
| `usl_optimum_never_nan` | N_opt is never NaN (spec §4.4 asks for a distinct result) | violated for σ > 1 |
| `realistic` | throughput is continuous across saturation (spec §8); queue length never shrinks with load; the plotted latency never falls with load while the buffer holds the M/M/1 population ρ/(1−ρ) of every stable load | pass |
| `visualization` | every plotted value of the three sweeps is finite, latency ≤ 1000 ms and the queue within the buffer; the per-rate curves are rescalings of one another, and a faster server is never drawn slower | pass |
| `usl_improved` | in every panel, a curve with no more overhead is never drawn worse than one with more, including response time and latency | pass |
| `realistic_ideal_latency` | the comparison's ideal latency equals the engine's W in ms | violated: it plots L, not W |

Every property of a passing run has a mutant in `PROJECT.json`. A mutant is a plausible slip in the mapped code that TLC catches:
- `>` for `>=` at the overload guard;
- the overloaded branch not capped at μ;
- K for K+1 in the drop formula;
- the queue formula where the system length belongs;
- `1 - cdf(k)`, or the pmf where the cdf belongs;
- a missing `int()`;
- a sign slip in the USL denominator;
- latency computed as 1/throughput instead of N/throughput;
- the degradation factor unshifted;
- the degradation factor's sign slipped, 1 − (ρ−1)²;
- the final clamp dropped;
- the latency cap dropped;
- the arrival rate taken from the default service rate.

Two disagreements met while modelling are recorded here but not run, to keep one run per question:
- `queuing_theory.py:30` ignores a finite buffer below saturation. With ρ = 0.99 and K = 2 the reported queue length is 98.01. `queuing_theory_visualization.py:30` clamps it for display, and the `visualization` run's `TypeOK` checks that clamp.
- The degradation model's latency is not monotone in load. It falls from 9.9 s at 99% to 1 s at 100% (μ = 10, K = 10), because two unrelated formulas meet at ρ = 1.

## Bounds and why they suffice

- **Queueing.** The scenarios are `__main__`'s two calls, (90, 100) and (110, 100), with the buffer scaled to 2. Service rates are 10 and 100. Buffers are 1, 2 and unbounded (`float('inf')`, as `plot_queue_size_impact` passes). The loads are the demo's twelve loads, including 99, 100 and 110, so the stable, saturated and overloaded branches are all reached.
- **Failure.** Clusters have 0–5 nodes and num_failures is 0–5, so k > n is reached too. p is in {0, ¼, ½, ¾, 1}, which covers the degenerate probabilities. Every pair of calls is compared. A 6-bit significand makes the cancellation of `1 - cdf` occur at n = 4, as it does in doubles at n ≈ 100.
- **USL.** σ is in {0, .05, .1, .2, .3} and κ is in {0, .005, .01, .05}, the code's values. Curves are sampled at N = 1..32. Two scenarios are drawn per behaviour, in every order. Panels 1–3 use the code's lists, and the throughput/latency figure uses its four scenarios.
- **Realistic.** μ = 10 with buffers 1–10 stands in for 100 and 1000. Buffer 100 holds the M/M/1 population of every stable load, as the code's 1000 does at μ = 100, and its degraded latency reaches the 10 s cap. The smaller buffers show the latency drop at saturation that the property's premise excludes (9.9 s at 99% to 1 s at 100% with buffer 10). The loads are dense around 100%, where the two formulas meet.
- **Visualisation.** Service rate 10 with rates 5, 10 and 20 stand for 100 with 50, 100 and 200. Buffers 1, 2, 3 and inf stand for 100, 500, 1000 and inf; with K = 3 the display clamp bites from 80% load. The 14 loads run from 10% to 150% and include 99, 100 and 110.
- **USL improved.** The penalties are the code's entries. Lists of up to two entries give every ordered pair, so `OverheadOrdering` compares every two entries of a panel. Clusters are sampled at 1–6, 8, 10, 12, 16, 24 and 32, and consensus groups at the odd counts 3–21.
- **Loads.** The code samples 100 non-integer loads with `np.linspace`. The models sample integer percentages at the same boundaries.

## Fairness and liveness

No module states fairness or liveness. Every script is a straight run of `for` loops over fixed, finite lists, so "`__main__` eventually finishes" holds by the shape of the code and a model of it, and checking it would say nothing about the code. Earlier versions checked that termination, and that each visualisation sweep refined an abstract one-point-per-load sweep, under weak fairness. Both held by construction of the model, and their mutants (a loop exit one step late, a load index not restarted) have no Python counterpart, so they were removed. For `RealisticSystemPerformance`, TLC's evaluation of `ENABLED` on the rational arithmetic also does not finish. The cfgs turn deadlock checking off because `__main__` really does stop.

## Not modelled

- **Plotting.** Figure layout, labels and `plt.show` have no observable state.
- **Printing.** It appears only where it can raise (line 79).
- **Type invariants of loop bookkeeping.** `QueueingTheory` and `UslImproved` have no type invariant: theirs only restated the model's own `pc`/`i` bookkeeping and a marker-to-curve index the code does not have. Their runs check the properties above, which involve every call and every drawn curve.
- **Zero rates and unchecked input.** No caller passes a zero rate, and `failure_probability.py` never validates its input. `InvalidQueryRejected` states the spec's contract but is not run.
