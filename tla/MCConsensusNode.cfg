\* One node with replication_factor 1: its own heartbeats keep the gate open.
CONSTANTS
    n1 = n1
    r1 = r1
    r2 = r2
    Me = n1
    Peers = {}
    Nil = Nil
    MaxTerm = 2
    RF = 1
    Reqs = {r1}
    MaxChan = 2
SPECIFICATION Spec
PROPERTY GateEventuallyOpens
