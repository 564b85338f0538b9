------------------------- MODULE FailureProbability -------------------------
(***************************************************************************)
(* src/main/python/failure_probability.py.                                 *)
(*                                                                         *)
(* calculate_node_failures(total_nodes, num_failures, failure_prob) is     *)
(* called by __main__ with whatever the user types, and by any other       *)
(* caller of the library; the state is the sequence of calls made so far   *)
(* (at most MaxCalls), so that properties can relate two calls.            *)
(*                                                                         *)
(* Arithmetic is binary floating point with a Mant-bit significand:        *)
(* binom.pmf and binom.cdf return the correctly rounded value of the exact *)
(* binomial pmf and cdf, and 1 - cdf and 1 / cumulative_prob are rounded  *)
(* results.  scipy's out-of-domain conventions are kept: pmf is 0 outside  *)
(* 0..n, cdf is 0 below 0 and 1 from n on, and both are NaN for n < 0 or   *)
(* p outside [0, 1].                                                       *)
(***************************************************************************)
EXTENDS Integers, Sequences, Rat

LOCAL INSTANCE Combinatorics

CONSTANTS
    TotalNodes,    \* total_nodes values a caller passes
    NumFailures,   \* num_failures values a caller passes
    FailureProbs,  \* failure_prob values a caller passes (rationals)
    Mant,          \* significand bits of the float model
    MaxCalls       \* bound on the number of calls in a behaviour

ASSUME /\ TotalNodes \subseteq Int /\ NumFailures \subseteq Int
       /\ Mant \in Nat \ {0} /\ MaxCalls \in Nat \ {0}

InDomain(n, p) == n >= 0 /\ LeR(Zero, p) /\ LeR(p, One)

\* The exact binomial probability of k successes in n trials.
ExactPmf(k, n, p) ==
    IF k < 0 \/ k > n THEN Zero
    ELSE Times(I(choose(n, k)), Times(PowR(p, k), PowR(Minus(One, p), n - k)))

RECURSIVE ExactCdf(_, _, _)
ExactCdf(k, n, p) ==
    IF k < 0 THEN Zero
    ELSE IF k >= n THEN One
    ELSE Plus(ExactPmf(k, n, p), ExactCdf(k - 1, n, p))

\* scipy.stats.binom.pmf(k, n, p) and binom.cdf(k, n, p) as float results.
BinomPmf(k, n, p) == IF InDomain(n, p) THEN FloatRound(ExactPmf(k, n, p), Mant) ELSE NaN

BinomCdf(k, n, p) == IF InDomain(n, p) THEN FloatRound(ExactCdf(k, n, p), Mant) ELSE NaN

\* A slip in line 17: the pmf where the cdf belongs.
CumulativeProbFromPmf(num_failures, total_nodes, failure_prob) ==
    FloatRound(Minus(One, BinomPmf(num_failures - 1, total_nodes, failure_prob)), Mant)

\* A slip in line 17: the tail from num_failures + 1 instead of num_failures.
CumulativeProbOffByOne(num_failures, total_nodes, failure_prob) ==
    FloatRound(Minus(One, BinomCdf(num_failures, total_nodes, failure_prob)), Mant)

\* cumulative_prob = 1 - binom.cdf(num_failures - 1, total_nodes, failure_prob)
CumulativeProb(num_failures, total_nodes, failure_prob) ==
    LET cdf == BinomCdf(num_failures - 1, total_nodes, failure_prob)
    IN  IF IsNaN(cdf) THEN NaN ELSE FloatRound(Minus(One, cdf), Mant)

\* A slip in line 20: 1/cumulative_prob without the int().
OneInXUntruncated(cumulative_prob) ==
    IF GtR(cumulative_prob, Zero) THEN FloatRound(Over(One, cumulative_prob), Mant) ELSE Inf

\* one_in_x = int(1/cumulative_prob) if cumulative_prob > 0 else float('inf')
OneInX(cumulative_prob) ==
    IF GtR(cumulative_prob, Zero)
    THEN I(FloorR(FloatRound(Over(One, cumulative_prob), Mant)))
    ELSE Inf

CalculateNodeFailures(total_nodes, num_failures, failure_prob) ==
    LET exact_prob      == BinomPmf(num_failures, total_nodes, failure_prob)
        cumulative_prob == CumulativeProb(num_failures, total_nodes, failure_prob)
    IN  [total_nodes |-> total_nodes, num_failures |-> num_failures,
         failure_prob |-> failure_prob, exact_prob |-> exact_prob,
         cumulative_prob |-> cumulative_prob, one_in_x |-> OneInX(cumulative_prob)]

VARIABLE calls

Init == calls = <<>>

\* One call of calculate_node_failures; its printing formats every value,
\* inf and nan included, without raising.
Call(n, k, p) ==
    /\ Len(calls) < MaxCalls
    /\ calls' = Append(calls, CalculateNodeFailures(n, k, p))

Next == \E n \in TotalNodes, k \in NumFailures, p \in FailureProbs : Call(n, k, p)

Spec == Init /\ [][Next]_calls

-----------------------------------------------------------------------------
(* Properties *)

Results == {calls[j] : j \in DOMAIN calls}

Probability(x) == IsNaN(x) \/ (LeR(Zero, x) /\ LeR(x, One))

TypeOK ==
    /\ Len(calls) <= MaxCalls
    /\ \A c \in Results :
        /\ c.total_nodes \in TotalNodes /\ c.num_failures \in NumFailures
        /\ c.failure_prob \in FailureProbs
        /\ Probability(c.exact_prob) /\ Probability(c.cumulative_prob)
        /\ c.one_in_x = Inf \/ (c.one_in_x.den = 1 /\ c.one_in_x.num >= 1)

\* Spec section 8: with zero failures asked for, cumulative_prob is exactly
\* 1 -- the code relies on binom.cdf(-1, ...) being 0 rather than special-
\* casing num_failures = 0.
ZeroFailuresCertain ==
    \A c \in Results : (c.num_failures = 0 /\ InDomain(c.total_nodes, c.failure_prob))
                          => c.cumulative_prob = One

\* Spec section 8: for the same cluster, asking for more failures never
\* makes "num_failures or more" more likely -- over any two calls, whatever
\* the float rounding of the cdf does.
CumulativeMonotone ==
    \A c1, c2 \in Results :
        (/\ c1.total_nodes = c2.total_nodes /\ c1.failure_prob = c2.failure_prob
         /\ c1.num_failures <= c2.num_failures
         /\ InDomain(c1.total_nodes, c1.failure_prob))
        => GeR(c1.cumulative_prob, c2.cumulative_prob)

\* Spec section 8: the probability of num_failures or more is at least the
\* probability of exactly num_failures.
CumulativeAtLeastExact ==
    \A c \in Results : InDomain(c.total_nodes, c.failure_prob)
                          => GeR(c.cumulative_prob, c.exact_prob)

\* Spec section 4.1: a query with num_failures outside [0, total_nodes],
\* total_nodes < 0 or failure_prob outside [0, 1] fails with
\* InvalidParameter; calculate_node_failures validates nothing and reports
\* whatever scipy returns (0, 1 or NaN probabilities).
InvalidQueryRejected ==
    \A c \in Results : c.num_failures \in 0..c.total_nodes /\ InDomain(c.total_nodes, c.failure_prob)

=============================================================================
