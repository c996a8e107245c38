\* A health pass opens the gate from the count it takes before evicting stale nodes; the handler then writes.
CONSTANTS
    n1 = n1
    r1 = r1
    r2 = r2
    Me = n1
    Peers = {}
    Nil = Nil
    MaxTerm = 2
    Reqs = {r1}
    MaxChan = 1
    RF = 1
SPECIFICATION Spec
INVARIANT GateHeldDuringWrite
