\* A maintenance pass or a handler cleanup acting on an earlier connection removes the one add_connection just made.
CONSTANTS
    p1 = p1
    c1 = c1
    Peers = {p1}
    Callers = {c1}
    Nil = Nil
    MaxGen = 2
SPECIFICATION Spec
INVARIANT ConnectionKeptWhileWanted
