SPECIFICATION Spec
CONSTANTS
    Starters = {p1, p2}
    Legacy = {l1}
    Other = other
    Nets = {n1, n2}
    Stale = stale
    NoFile = nofile
    MaxRounds = 2
SYMMETRY Symmetry
CHECK_DEADLOCK FALSE
INVARIANTS
    OneDaemon
    EndpointKept
