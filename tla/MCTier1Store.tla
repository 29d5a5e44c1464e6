---------------------------- MODULE MCTier1Store ----------------------------
(* Two paths, two values, two callbacks and a window of two events.        *)
EXTENDS Tier1Store, TLC

CONSTANTS p1, p2, v1, v2, f1, f2

MCPaths == {p1, p2}
MCValues == {v1, v2}
MCSubscribers == {f1, f2}

Interchangeable ==
    Permutations(MCPaths) \cup Permutations(MCValues) \cup Permutations(MCSubscribers)
=============================================================================
