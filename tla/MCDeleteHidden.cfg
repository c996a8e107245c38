\* One request task: a put, a later delete marker, a head.
CONSTANTS
    r1 = r1  r2 = r2  b1 = b1  k1 = k1  k2 = k2  d1 = d1  d2 = d2
    Reqs = {r1}
    Buckets = {b1}
    Keys = {k1, k2}
    Data = {d1, d2}
    Nil = Nil
    Size <- MCSize
    MaxStorage = 6
    MaxOps = 3
    MaxTime = 1
SYMMETRY MCSymmetry
SPECIFICATION Spec
INVARIANT DeletedKeyHidden
