---------------------------- MODULE MCUslImproved ----------------------------
(* The lists of universal_scalability_law_improved.py.  The code samples   *)
(* 100 points of [1, 32] and of [3, 21]; here whole node counts, denser    *)
(* where the curves peak (2-16), and the odd replica counts of [3, 21].    *)
EXTENDS UslImproved

MCCoordinationOverheads == <<Zero, R(1, 10), R(1, 5), R(3, 10)>>

MCConsensusCosts == <<Zero, R(1, 100), R(1, 50), R(1, 20)>>

MCScenarios == {Pair(Zero, Zero), Pair(R(1, 20), R(1, 200)), Pair(R(3, 10), R(1, 200)),
                Pair(R(1, 20), R(1, 20)), Pair(R(3, 10), R(1, 20))}

MCPracticalScenarios == {Pair(Zero, Zero), Pair(R(1, 20), R(1, 200)),
                         Pair(R(1, 10), R(1, 100)), Pair(R(3, 10), R(1, 20))}

MCAlgorithms == {Pair(R(1, 20), R(1, 1000)), Pair(R(1, 10), R(1, 200)), Pair(R(1, 5), R(1, 50)),
                 Pair(R(2, 5), R(2, 25)), Pair(R(3, 5), R(3, 20))}

MCClusterSizes == <<1, 2, 3, 4, 5, 6, 8, 10, 12, 16, 24, 32>>

MCConsensusSizes == [k \in 1..10 |-> 2 * k + 1]

=============================================================================
