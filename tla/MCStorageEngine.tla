--------------------------- MODULE MCStorageEngine ---------------------------
(* Small instances of StorageEngine for TLC.                               *)
EXTENDS StorageEngine, TLC

CONSTANTS r1, r2, b1, k1, k2, d1, d2

\* Two contents of one and of two bytes.
MCSize == [d \in Data |-> IF d = d1 THEN 1 ELSE 2]

\* Keys are interchangeable: no code path compares two keys but for equality.
MCSymmetry == Permutations(Keys)
=============================================================================
