----------------------- MODULE MCFailureProbability ------------------------
(* Clusters of up to 5 nodes; failure probabilities that are exact binary  *)
(* fractions, so the query itself carries no rounding; a 6-bit significand *)
(* so that the rounding of binom.cdf near 1 happens at these sizes as it   *)
(* does with 53 bits for clusters of a few hundred nodes.                  *)
EXTENDS FailureProbability

MCTotalNodes == 0..5

MCNumFailures == 0..5

MCFailureProbs == {R(j, 4) : j \in 0..4}

\* Out-of-domain queries as a user can type them at the prompts.
MCBadNumFailures == -1..6

MCBadFailureProbs == {R(-1, 4), R(1, 4), R(5, 4)}

=============================================================================
