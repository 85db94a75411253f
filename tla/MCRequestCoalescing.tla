-------------------------- MODULE MCRequestCoalescing --------------------------
(* RequestCoalescing on small instances, for TLC.                           *)
EXTENDS RequestCoalescing, TLC

CONSTANTS t1, t2, t3, k1, k2, k3, r1, r2, r3, r4, r5

TwoThreads == {t1, t2}
TwoKeys    == {k1, k2}
ThreeKeys == {k1, k2, k3}
ThreeThreads == {t1, t2, t3}
TwoRequests == {r1, r2}
ThreeRequests == {r1, r2, r3}
FourRequests == {r1, r2, r3, r4}
FiveRequests == {r1, r2, r3, r4, r5}
NoRequests == {}

\* Threads, streams and keys are only compared for equality.
Symmetry == Permutations(Threads) \union Permutations(Keys)
            \union Permutations(Requests)
==============================================================================
