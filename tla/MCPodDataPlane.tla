--------------------------- MODULE MCPodDataPlane ---------------------------
(* A small instance of PodDataPlane: two requests, a Pod that is replaced    *)
(* once and containers that restart once.                                    *)
EXTENDS PodDataPlane, TLC

CONSTANTS r1, r2

TwoRequests == {r1, r2}
RequestSymmetry == Permutations(TwoRequests)
=============================================================================
