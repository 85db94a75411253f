------------------------------- MODULE MCLRUCache -------------------------------
(* LRUCache on small instances, for TLC.                                    *)
EXTENDS LRUCache, TLC

CONSTANTS p1, p2, k1, k2, k3, v1, v2

TwoThreads == {p1, p2}
ThreeKeys  == {k1, k2, k3}
TwoValues  == {v1, v2}
OneValue   == {v1}

\* Each set has 0, which no valid configuration gives.
SmallCapacity == {0, 2}
TwoCapacities == {0, 1, 2}

\* Threads, keys and values are only compared for equality.
Symmetry == Permutations(Threads) \union Permutations(Keys) \union Permutations(Values)
=================================================================================
