\* Two request tasks beside update_stats, one key.
CONSTANTS
    r1 = r1  r2 = r2  b1 = b1  k1 = k1  k2 = k2  d1 = d1  d2 = d2
    Reqs = {r1, r2}
    Buckets = {b1}
    Keys = {k1}
    Data = {d1}
    Nil = Nil
    Size <- MCSize
    MaxStorage = 2
    MaxOps = 3
    MaxTime = 1
SYMMETRY MCSymmetry
SPECIFICATION Spec
INVARIANTS NoDanglingBlobRef
