\* One node, one peer; any message with terms 0 and 1 may arrive.
CONSTANTS
    n1 = n1  n2 = n2
    Me = n1
    Peers = {n2}
    Nil = Nil
    MaxTerm = 2
SPECIFICATION RaftSpec
PROPERTY ExpiredTimerRearmed
