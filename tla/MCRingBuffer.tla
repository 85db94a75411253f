------------------------------ MODULE MCRingBuffer ------------------------------
(* RingBuffer on a small instance, for TLC.                                 *)
EXTENDS RingBuffer, TLC

CONSTANTS r1, r2, x, y

TwoReaders == {r1, r2}

TwoSizes == {1, 2}
TwoBytes == {x, y}

Symmetry == Permutations(Readers) \union Permutations(Bytes)
=================================================================================
